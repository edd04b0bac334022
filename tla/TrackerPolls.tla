---------------------------- MODULE TrackerPolls ----------------------------
(***************************************************************************)
(* fetchCandidateIssues of the GitHub and the Linear adapter: the list of   *)
(* active issues, their sub-issues through the shared cache, and sub-issues *)
(* the list does not have (tracker/github.ts, tracker/linear.ts,            *)
(* tracker/sub-issue-cache.ts, daemon/server.ts). Two polls may overlap, as *)
(* two ticks may; people close and reopen issues meanwhile.                 *)
(*                                                                         *)
(* A request is answered at one moment and its answer used at a later one.  *)
(* Pages of one answer, the fields of an issue and the waits between the    *)
(* retries of a request are left out: a request answers or fails.           *)
(***************************************************************************)
EXTENDS Naturals, FiniteSets

CONSTANTS
    TrackedIssues,
    LabelledIssues,    \* the issues the label filter of the list lets through
    Kids,        \* Kids[i]: the sub-issues of i
    Polls,       \* polls that may be under way at once
    Kinds,       \* of "github" and "linear", the trackers to look at
    NoTag,       \* no ETag yet
    NoKids,      \* no cache entry
    Nobody,      \* no issue
    MaxEdits     \* bound: times people close or reopen an issue

ASSUME TrackerAssumption ==
    /\ LabelledIssues \subseteq TrackedIssues
    /\ Kids \in [TrackedIssues -> SUBSET TrackedIssues]
    /\ Nobody \notin TrackedIssues
    /\ \A found \in SUBSET TrackedIssues : found # NoKids
    /\ NoTag \notin [LabelledIssues -> Nat]

VARIABLES
    kind,       \* the configured tracker
    open,       \* the issues that are open at the tracker
    issueEdits,      \* edits[i]: how often i changed there, what an ETag tells apart
    subCache,   \* SubIssueCache: of a parent, the children last seen open, or NoKids
    lastETag,   \* GitHub's last list, by its edits
    cachedIssues,  \* what a 304 is answered with
    poll,       \* the polls under way
    webhooks,   \* Linear: changes whose webhook is still to come
    overtaken,  \* history: entries stored although a webhook came during their request
    tagServed   \* history: cachedIssues is the list lastETag was stored for

cacheVars == << subCache, overtaken >>
githubVars == << lastETag, cachedIssues, tagServed >>
worldVars == << kind, open, issueEdits >>
pvars == << worldVars, cacheVars, githubVars, poll, webhooks >>

(* left and found are the listed and the discovered issues to be enriched,  *)
(* request the one whose sub-issues are asked for and saw the answer; out   *)
(* is what the poll will return. stayed and seen are history: the labelled  *)
(* issues that were open throughout the poll, those open at any time, and   *)
(* whether a 304 found the list of the poll that had stored the ETag.       *)
NoPoll == [pc |-> "idle", tag |-> NoTag, left |-> {}, found |-> {}, request |-> Nobody, saw |-> {},
           overtook |-> FALSE, out |-> {}, stayed |-> {}, seen |-> {}, served |-> TRUE]

TrackerInit ==
    /\ kind \in Kinds
    /\ open \in SUBSET TrackedIssues
    /\ issueEdits = [i \in TrackedIssues |-> 0]
    /\ subCache = [i \in TrackedIssues |-> NoKids]
    /\ lastETag = NoTag
    /\ cachedIssues = {}
    /\ poll = [q \in Polls |-> NoPoll]
    /\ webhooks = {}
    /\ overtaken = {}
    /\ tagServed = TRUE

CurrentTag == [i \in LabelledIssues |-> issueEdits[i]]
PollIdle(q) == poll[q].pc \in {"idle", "returned", "failed"}

-----------------------------------------------------------------------------
(* The list *)

Started(q) == [NoPoll EXCEPT !.pc = "enriching", !.tag = CurrentTag,
                             !.left = open \cap LabelledIssues, !.stayed = open \cap LabelledIssues, !.seen = open]

(* 304 returns what the last poll that finished has cached; otherwise the   *)
(* ETag is stored at once, before the sub-issues are asked for.             *)
fetchCandidateIssues(q) ==
    /\ PollIdle(q)
    /\ IF kind = "github" /\ lastETag = CurrentTag
       THEN /\ poll' = [poll EXCEPT ![q] = [Started(q) EXCEPT !.pc = "returned", !.left = {},
                                                                  !.out = cachedIssues, !.served = tagServed]]
            /\ UNCHANGED << lastETag, tagServed >>
       ELSE /\ poll' = [poll EXCEPT ![q] = Started(q)]
            /\ lastETag' = IF kind = "github" THEN CurrentTag ELSE lastETag
            /\ tagServed' = (tagServed /\ kind # "github")
    /\ UNCHANGED << worldVars, cacheVars, cachedIssues, webhooks >>

-----------------------------------------------------------------------------
(* Sub-issues *)

(* What is known of the sub-issues of i: discovered are those the list does *)
(* not have, Linear's apart that are done.                                 *)
Discovered(q, i) ==
    IF i \notin poll[q].left THEN {}
    ELSE Kids[i] \ {j \in TrackedIssues : j \in poll[q].left \/ \E o \in poll[q].out : o.id = j}

Enriched(q, i, known) ==
    [poll[q] EXCEPT !.left = @ \ {i}, !.found = (@ \ {i}) \cup (IF known THEN Discovered(q, i) ELSE {}),
                    !.out = @ \cup {[id |-> i, blocked |-> known /\ Kids[i] # {}]},
                    !.request = Nobody, !.saw = {}]

(* The issues to enrich next. GitHub: the list first, then what it led to;   *)
(* Linear looks at the sub-issues it did not list right after their parent. *)
ToEnrich(q) ==
    IF kind = "linear" THEN IF poll[q].found = {} THEN poll[q].left ELSE {}
    ELSE IF poll[q].left # {} THEN poll[q].left ELSE poll[q].found

(* The cache has them, or GitHub's rate limit is nearly used up and the     *)
(* issue goes without its sub-issues.                                      *)
EnrichAtOnce(q, i) ==
    /\ poll[q].pc = "enriching" /\ poll[q].request = Nobody /\ i \in ToEnrich(q)
    /\ \/ subCache[i] # NoKids /\ poll' = [poll EXCEPT ![q] = Enriched(q, i, TRUE)]
       \/ subCache[i] = NoKids /\ kind = "github" /\ poll' = [poll EXCEPT ![q] = Enriched(q, i, FALSE)]
    /\ UNCHANGED << worldVars, cacheVars, githubVars, webhooks >>

(* They are asked for. Linear asks for a discovered issue itself instead.    *)
AskSubIssues(q, i) ==
    /\ poll[q].pc = "enriching" /\ poll[q].request = Nobody /\ i \in ToEnrich(q)
    /\ subCache[i] = NoKids
    /\ poll' = [poll EXCEPT ![q].request = i, ![q].saw = Kids[i] \cap open, ![q].overtook = FALSE]
    /\ UNCHANGED << worldVars, cacheVars, githubVars, webhooks >>

StoreSubIssues(q) ==
    LET i == poll[q].request
    IN  /\ i # Nobody
        /\ subCache' = [subCache EXCEPT ![i] = poll[q].saw]
        /\ overtaken' = IF poll[q].overtook THEN overtaken \cup {i} ELSE overtaken \ {i}
        /\ poll' = [poll EXCEPT ![q] = Enriched(q, i, TRUE)]
        /\ UNCHANGED << worldVars, githubVars, webhooks >>

(* Linear: a discovered issue that is done, or cannot be read, is skipped;   *)
(* the others are offered without looking at their own sub-issues.          *)
LinearDiscovers(q, i) ==
    /\ kind = "linear"
    /\ poll[q].pc = "enriching" /\ poll[q].request = Nobody /\ i \in poll[q].found
    /\ \/ /\ i \in open
          /\ poll' = [poll EXCEPT ![q].found = @ \ {i}, ![q].out = @ \cup {[id |-> i, blocked |-> FALSE]}]
       \/ poll' = [poll EXCEPT ![q].found = @ \ {i}]
    /\ UNCHANGED << worldVars, cacheVars, githubVars, webhooks >>

(* An exception of a request ends the poll; only the ETag remembers it.     *)
PollFails(q) ==
    /\ poll[q].pc = "enriching"
    /\ poll' = [poll EXCEPT ![q] = [NoPoll EXCEPT !.pc = "failed"]]
    /\ UNCHANGED << worldVars, cacheVars, githubVars, webhooks >>

PollReturns(q) ==
    /\ poll[q].pc = "enriching" /\ poll[q].left \cup poll[q].found = {}
    /\ poll' = [poll EXCEPT ![q].pc = "returned"]
    /\ cachedIssues' = IF kind = "github" THEN poll[q].out ELSE cachedIssues
    /\ tagServed' = (kind # "github" \/ lastETag = poll[q].tag)
    /\ UNCHANGED << worldVars, cacheVars, lastETag, webhooks >>

-----------------------------------------------------------------------------
(* The world, and Linear's webhooks *)

(* A person closes or reopens an issue; Linear tells so later.              *)
EditIssue(i) ==
    /\ issueEdits[i] < MaxEdits
    /\ issueEdits' = [issueEdits EXCEPT ![i] = @ + 1]
    /\ open' = IF i \in open THEN open \ {i} ELSE open \cup {i}
    /\ webhooks' = IF kind = "linear" THEN webhooks \cup {i} ELSE webhooks
    /\ poll' = [q \in Polls |-> IF PollIdle(q) THEN poll[q]
                                ELSE [poll[q] EXCEPT !.stayed = @ \ {i}, !.seen = @ \cup {i}]]
    /\ UNCHANGED << kind, cacheVars, githubVars >>

(* Fault: only the entry of the issue itself is dropped.                    *)
WebhookDropsOwn(i) ==
    /\ i \in webhooks
    /\ webhooks' = webhooks \ {i}
    /\ subCache' = [subCache EXCEPT ![i] = NoKids]
    /\ poll' = [q \in Polls |-> IF poll[q].request # Nobody /\ i \in Kids[poll[q].request]
                                THEN [poll[q] EXCEPT !.overtook = TRUE] ELSE poll[q]]
    /\ overtaken' = overtaken \ {i}
    /\ UNCHANGED << worldVars, githubVars >>

(* The entries that list the changed issue are dropped; a request that is   *)
(* under way knows nothing of it.                                          *)
handleLinearWebhook(i) ==
    LET parents == {p \in TrackedIssues : i \in Kids[p]}
    IN  /\ i \in webhooks
        /\ webhooks' = webhooks \ {i}
        /\ subCache' = [p \in TrackedIssues |-> IF p \in parents THEN NoKids ELSE subCache[p]]
        /\ overtaken' = overtaken \ parents
        /\ poll' = [q \in Polls |-> IF poll[q].request \in parents
                                    THEN [poll[q] EXCEPT !.overtook = TRUE] ELSE poll[q]]
        /\ UNCHANGED << worldVars, githubVars >>

(* The entry's time to live is over.                                       *)
SubCacheExpires(i) ==
    /\ subCache[i] # NoKids
    /\ subCache' = [subCache EXCEPT ![i] = NoKids]
    /\ overtaken' = overtaken \ {i}
    /\ UNCHANGED << worldVars, githubVars, poll, webhooks >>

TrackerNext ==
    \/ \E q \in Polls : \/ fetchCandidateIssues(q) \/ StoreSubIssues(q) \/ PollFails(q) \/ PollReturns(q)
                        \/ \E i \in TrackedIssues : EnrichAtOnce(q, i) \/ AskSubIssues(q, i) \/ LinearDiscovers(q, i)
    \/ \E i \in TrackedIssues : EditIssue(i) \/ handleLinearWebhook(i) \/ SubCacheExpires(i)

TrackerSpec == TrackerInit /\ [][TrackerNext]_pvars

-----------------------------------------------------------------------------

Offered(q) == {o.id : o \in poll[q].out}

(* A poll that returns offers every labelled issue that was open all the    *)
(* time, although polls overlap and share their caches, unless GitHub said  *)
(* 304 to an ETag whose poll has failed or is still under way.             *)
AnswersAreComplete ==
    \A q \in Polls : poll[q].pc = "returned" /\ poll[q].served => poll[q].stayed \subseteq Offered(q)

(* "Skip children in terminal states": with Linear, whatever a poll offers  *)
(* was open at some moment of that poll.                                   *)
DoneIssuesAreNotOffered ==
    kind = "linear" => \A q \in Polls : poll[q].pc = "returned" => Offered(q) \subseteq poll[q].seen

(* With Linear a cached sub-issue state is wrong only as long as a webhook  *)
(* is on its way, or when the webhook came while the entry was asked for.   *)
WebhooksKeepCacheTrue ==
    kind = "linear" =>
        \A p \in TrackedIssues :
            subCache[p] # NoKids /\ subCache[p] # Kids[p] \cap open =>
                p \in overtaken \/ Kids[p] \cap webhooks # {}

(* What a poll returns, and the cache it leaves, are true.                   *)
TrackerPollsAreTrue == AnswersAreComplete /\ DoneIssuesAreNotOffered /\ WebhooksKeepCacheTrue
=============================================================================
