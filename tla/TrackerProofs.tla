---------------------------- MODULE TrackerProofs ---------------------------
(***************************************************************************)
(* The safety of what the orchestrator hears from its trackers and writes   *)
(* to them, for any constants: polls of the three adapters and the graphs   *)
(* they make, triage, reactive issues, schedules, commands in comments,     *)
(* decomposition into sub-issues and their rollup, the texts of pull        *)
(* requests and the records of their reviews. Each part has its inductive   *)
(* invariant, one step per action, and its theorem; the parts share no      *)
(* variables.                                                               *)
(***************************************************************************)
EXTENDS NotionPolls, IssueIntake, ReactiveIssues, Schedules, ChatOps, ParentRollup, PRDescriptions,
        Decomposition, ReviewRecords, FiniteSetTheorems, SequenceTheorems, NaturalsInduction,
        WellFoundedInduction, TLAPS

-----------------------------------------------------------------------------
(* Polls of GitHub and Linear: what stayed open since a poll began never    *)
(* leaves its sight, a list is cached under a tag of the past and is whole  *)
(* while the tag is current, and a sub-issue state that is wrong has a      *)
(* webhook to put it right.                                                 *)

Offers == [id : TrackedIssues, blocked : BOOLEAN]
Tags == [LabelledIssues -> Nat]

(* The values of a poll.                                                    *)
PollStates ==
    [pc : {"idle", "enriching", "returned", "failed"}, tag : Tags \cup {NoTag}, left : SUBSET TrackedIssues,
     found : SUBSET TrackedIssues, request : TrackedIssues \cup {Nobody}, saw : SUBSET TrackedIssues,
     overtook : BOOLEAN, out : SUBSET Offers, stayed : SUBSET TrackedIssues, seen : SUBSET TrackedIssues,
     served : BOOLEAN]

(* The issues that a list of offers names.                                  *)
Ids(out) == {o.id : o \in out}

(* A tag the candidates once had, or have: no issue was edited less often   *)
(* than it says.                                                            *)
Past(tag) == tag \in Tags /\ \A i \in LabelledIssues : tag[i] <= issueEdits[i]

TrackerTypeOK ==
    /\ open \in SUBSET TrackedIssues
    /\ issueEdits \in [TrackedIssues -> Nat]
    /\ subCache \in [TrackedIssues -> (SUBSET TrackedIssues) \cup {NoKids}]
    /\ poll \in [Polls -> PollStates]
    /\ tagServed \in BOOLEAN

(* What is true of a poll p.                                                *)

(* What stayed open and labelled since the poll of p began is still to be   *)
(* enriched or among the answers; while the tag is current, that is         *)
(* everything open and labelled.                                            *)
StaysInSight(p) ==
    /\ p.pc = "enriching" =>
          /\ p.stayed \subseteq p.left \cup Ids(p.out)
          /\ Past(p.tag)
          /\ p.tag = CurrentTag => open \cap LabelledIssues \subseteq p.stayed
    /\ p.pc = "returned" /\ p.served => p.stayed \subseteq Ids(p.out)

(* Linear: what a poll may still return it saw open, and nothing that is    *)
(* open now has escaped it.                                                 *)
SeenOpen(p) ==
    kind = "linear" =>
        /\ p.pc = "enriching" => open \cup p.left \subseteq p.seen
        /\ p.pc \in {"enriching", "returned"} => Ids(p.out) \subseteq p.seen

(* A poll that waits for the sub-issues of one issue is at that issue, and  *)
(* whatever differs from what it saw has a webhook on its way or one that   *)
(* overtook it.                                                             *)
AsksForOne(p) ==
    p.request # Nobody =>
        /\ p.pc = "enriching"
        /\ p.request \in p.left \cup p.found
        /\ kind = "linear" => p.request \in p.left
        /\ kind = "linear" /\ p.saw # Kids[p.request] \cap open =>
              p.overtook \/ Kids[p.request] \cap webhooks # {}
PollOK(p) == StaysInSight(p) /\ SeenOpen(p) /\ AsksForOne(p)

(* While the cached tag is the current one the cached list names every open *)
(* labelled issue.                                                          *)
CachedListIsTrue ==
    /\ lastETag = NoTag \/ Past(lastETag)
    /\ kind = "github" /\ tagServed /\ lastETag = CurrentTag => open \cap LabelledIssues \subseteq Ids(cachedIssues)
    /\ cachedIssues \in SUBSET Offers

(* The inductive invariant of the polls of GitHub and Linear.               *)
TrackerInv ==
    /\ TrackerTypeOK
    /\ \A q \in Polls : PollOK(poll[q])
    /\ CachedListIsTrue
    /\ WebhooksKeepCacheTrue

LEMMA TrackerInvInit == TrackerInit => TrackerInv
<1> SUFFICES ASSUME TrackerInit PROVE TrackerInv
  OBVIOUS
<1> USE DEF TrackerInit
<1>1. NoPoll \in PollStates
  BY DEF NoPoll, PollStates
<1>2. TrackerTypeOK
  BY <1>1 DEF TrackerTypeOK
<1>3. PollOK(NoPoll)
  BY DEF PollOK, StaysInSight, SeenOpen, AsksForOne, NoPoll
<1>4. CurrentTag \in Tags
  BY TrackerAssumption DEF CurrentTag, Tags
<1>5. CachedListIsTrue
  BY <1>4, TrackerAssumption DEF CachedListIsTrue, Tags
<1>6. WebhooksKeepCacheTrue
  BY DEF WebhooksKeepCacheTrue
<1> QED
  BY <1>2, <1>3, <1>5, <1>6 DEF TrackerInv

(* The current tag is one the candidates have had.                          *)
LEMMA CurrentTagIsPast == ASSUME TrackerTypeOK PROVE Past(CurrentTag) /\ CurrentTag # NoTag
<1>1. CurrentTag \in Tags
  BY TrackerAssumption DEF CurrentTag, Tags, TrackerTypeOK
<1>2. \A i \in LabelledIssues : CurrentTag[i] = issueEdits[i] /\ issueEdits[i] \in Nat
  BY TrackerAssumption DEF CurrentTag, TrackerTypeOK
<1> QED
  BY <1>1, <1>2, TrackerAssumption DEF Past, Tags

(* One poll moves, and the tracker does not.                                *)
LEMMA OnePollMoves ==
    ASSUME TrackerInv, NEW q \in Polls, NEW p \in PollStates, poll' = [poll EXCEPT ![q] = p],
           UNCHANGED << worldVars, webhooks >>, PollOK(p)
    PROVE  /\ poll' \in [Polls -> PollStates]
           /\ \A r \in Polls : PollOK(poll[r])'
<1>1. poll' \in [Polls -> PollStates] /\ \A r \in Polls : poll'[r] = IF r = q THEN p ELSE poll[r]
  BY DEF TrackerInv, TrackerTypeOK
<1>2. \A r \in Polls : PollOK(poll'[r])
  BY <1>1 DEF TrackerInv
<1>3. kind' = kind /\ open' = open /\ issueEdits' = issueEdits /\ webhooks' = webhooks
  BY DEF worldVars
<1>4. \A r \in Polls : PollOK(poll[r])'
  BY <1>2, <1>3 DEF PollOK, StaysInSight, SeenOpen, AsksForOne, Past, CurrentTag
<1> QED
  BY <1>1, <1>4

LEMMA WorldKeepsCachedList ==
    ASSUME CachedListIsTrue, UNCHANGED << worldVars, githubVars >>
    PROVE  CachedListIsTrue'
  BY DEF CachedListIsTrue, worldVars, githubVars, Past, CurrentTag

LEMMA WorldKeepsWebhooksTrue ==
    ASSUME WebhooksKeepCacheTrue, UNCHANGED << worldVars, cacheVars, webhooks >>
    PROVE  WebhooksKeepCacheTrue'
  BY DEF WebhooksKeepCacheTrue, worldVars, cacheVars

(* A poll that has just fetched its candidates is right about them.         *)
LEMMA StartedIsFine ==
    ASSUME TrackerInv, NEW q \in Polls
    PROVE  Started(q) \in PollStates /\ PollOK(Started(q)) /\ Started(q).stayed = open \cap LabelledIssues
<1> DEFINE p == Started(q)
<1>1. CurrentTag \in Tags /\ Past(CurrentTag) /\ open \in SUBSET TrackedIssues
  BY CurrentTagIsPast DEF TrackerInv, TrackerTypeOK, Past
<1>2. NoPoll \in PollStates /\ NoPoll.request = Nobody /\ NoPoll.out = {}
  BY DEF NoPoll, PollStates
<1>3. p = [NoPoll EXCEPT !.pc = "enriching", !.tag = CurrentTag,
                         !.left = open \cap LabelledIssues, !.stayed = open \cap LabelledIssues, !.seen = open]
  BY DEF Started
<1> HIDE DEF p
<1>4. /\ p \in PollStates /\ p.pc = "enriching" /\ p.tag = CurrentTag /\ p.left = open \cap LabelledIssues
      /\ p.stayed = open \cap LabelledIssues /\ p.seen = open /\ p.request = Nobody /\ p.out = {}
  BY <1>1, <1>2, <1>3 DEF PollStates
<1>5. Past(p.tag) /\ Ids(p.out) = {}
  BY <1>1, <1>4 DEF Ids
<1>6. PollOK(p)
  BY <1>4, <1>5 DEF PollOK, StaysInSight, SeenOpen, AsksForOne
<1> QED
  BY <1>4, <1>6 DEF p

LEMMA FetchKeeps == ASSUME TrackerInv, NEW q \in Polls, fetchCandidateIssues(q) PROVE TrackerInv'
<1>0. UNCHANGED << worldVars, cacheVars, cachedIssues, webhooks >>
  BY DEF fetchCandidateIssues
<1>00. Started(q) \in PollStates /\ PollOK(Started(q)) /\ Started(q).stayed = open \cap LabelledIssues
  BY StartedIsFine
<1>1. CASE kind = "github" /\ lastETag = CurrentTag
  <2> DEFINE p == [Started(q) EXCEPT !.pc = "returned", !.left = {}, !.out = cachedIssues, !.served = tagServed]
  <2>1. poll' = [poll EXCEPT ![q] = p] /\ UNCHANGED << lastETag, tagServed >>
    BY <1>1 DEF fetchCandidateIssues
  <2>2. p \in PollStates
    BY <1>00 DEF PollStates, TrackerInv, TrackerTypeOK, CachedListIsTrue
  <2>3. p.pc = "returned" /\ p.stayed = open \cap LabelledIssues /\ p.out = cachedIssues /\ p.served = tagServed
        /\ p.request = Nobody
    BY <1>00 DEF PollStates, Started, NoPoll
  <2>4. PollOK(p)
    <3>1. p.served => p.stayed \subseteq Ids(p.out)
      BY <2>3, <1>1 DEF TrackerInv, CachedListIsTrue
    <3> HIDE DEF p
    <3> QED
      BY <3>1, <2>3, <1>1 DEF PollOK, StaysInSight, SeenOpen, AsksForOne
  <2> HIDE DEF p
  <2>5. poll' \in [Polls -> PollStates] /\ \A r \in Polls : PollOK(poll[r])'
    BY <1>0, <2>1, <2>2, <2>4, OnePollMoves
  <2>6. CachedListIsTrue' /\ WebhooksKeepCacheTrue'
    BY <1>0, <2>1, WorldKeepsCachedList, WorldKeepsWebhooksTrue DEF TrackerInv, githubVars
  <2>7. TrackerTypeOK'
    BY <1>0, <2>1, <2>5 DEF TrackerInv, TrackerTypeOK, worldVars, cacheVars
  <2> QED
    BY <2>5, <2>6, <2>7 DEF TrackerInv
<1>2. CASE ~(kind = "github" /\ lastETag = CurrentTag)
  <2>1. /\ poll' = [poll EXCEPT ![q] = Started(q)]
        /\ lastETag' = IF kind = "github" THEN CurrentTag ELSE lastETag
        /\ tagServed' = (tagServed /\ kind # "github")
    BY <1>2 DEF fetchCandidateIssues
  <2>5. poll' \in [Polls -> PollStates] /\ \A r \in Polls : PollOK(poll[r])'
    BY <1>0, <1>00, <2>1, OnePollMoves
  <2>6. CachedListIsTrue'
    <3>1. kind' = kind /\ open' = open /\ issueEdits' = issueEdits /\ cachedIssues' = cachedIssues
      BY <1>0 DEF worldVars
    <3>2. lastETag' = NoTag \/ Past(lastETag')
      BY <2>1, CurrentTagIsPast DEF TrackerInv, CachedListIsTrue
    <3>3. (lastETag = NoTag \/ Past(lastETag))'
      BY <3>1, <3>2 DEF Past
    <3>4. kind' = "github" => ~tagServed'
      BY <2>1, <3>1
    <3> QED
      BY <3>1, <3>3, <3>4 DEF TrackerInv, CachedListIsTrue
  <2>7. TrackerTypeOK'
    <3>1. tagServed' \in BOOLEAN
      BY <2>1 
    <3> QED
      BY <1>0, <3>1, <2>5 DEF TrackerInv, TrackerTypeOK, worldVars, cacheVars
  <2>8. WebhooksKeepCacheTrue'
    BY <1>0, WorldKeepsWebhooksTrue DEF TrackerInv
  <2> QED
    BY <2>5, <2>6, <2>7, <2>8 DEF TrackerInv
<1> QED
  BY <1>1, <1>2

(* A poll moves and leaves the tracker and the caches alone.                *)
LEMMA OnlyPollMoves ==
    ASSUME TrackerInv, NEW q \in Polls, NEW p \in PollStates, poll' = [poll EXCEPT ![q] = p],
           UNCHANGED << worldVars, cacheVars, githubVars, webhooks >>, PollOK(p)
    PROVE  TrackerInv'
<1>1. poll' \in [Polls -> PollStates] /\ \A r \in Polls : PollOK(poll[r])'
  BY OnePollMoves
<1>2. CachedListIsTrue' /\ WebhooksKeepCacheTrue'
  BY WorldKeepsCachedList, WorldKeepsWebhooksTrue DEF TrackerInv
<1>3. TrackerTypeOK'
  BY <1>1 DEF TrackerInv, TrackerTypeOK, worldVars, cacheVars, githubVars
<1> QED
  BY <1>1, <1>2, <1>3 DEF TrackerInv

(* A poll that has enriched one more candidate is still right.              *)
LEMMA EnrichedIsFine ==
    ASSUME TrackerInv, NEW q \in Polls, poll[q].pc = "enriching", NEW i \in TrackedIssues,
           i \in poll[q].left \cup poll[q].found, kind = "linear" => i \in poll[q].left, NEW isKnown \in BOOLEAN
    PROVE  Enriched(q, i, isKnown) \in PollStates /\ PollOK(Enriched(q, i, isKnown))
<1> DEFINE p == poll[q]
           e == Enriched(q, i, isKnown)
           offer == [id |-> i, blocked |-> isKnown /\ Kids[i] # {}]
           add == IF isKnown THEN Discovered(q, i) ELSE {}
<1>1. p \in PollStates /\ PollOK(p)
  BY DEF TrackerInv, TrackerTypeOK
<1>2. offer \in Offers /\ offer.id = i
  <2>1. (isKnown /\ Kids[i] # {}) \in BOOLEAN
    OBVIOUS
  <2> QED
    BY <2>1 DEF Offers
<1>3. add \in SUBSET TrackedIssues
  BY TrackerAssumption DEF Discovered
<1>4. e = [p EXCEPT !.left = @ \ {i}, !.found = (@ \ {i}) \cup add, !.out = @ \cup {offer}, !.request = Nobody, !.saw = {}]
  BY DEF Enriched
<1> HIDE DEF e, offer, add, p
<1>5. e \in PollStates
  BY <1>1, <1>2, <1>3, <1>4 DEF PollStates
<1>6. /\ e.pc = "enriching" /\ e.left = p.left \ {i} /\ e.out = p.out \cup {offer} /\ e.request = Nobody
      /\ e.tag = p.tag /\ e.stayed = p.stayed /\ e.seen = p.seen
  BY <1>1, <1>4 DEF PollStates, p
<1>7. Ids(e.out) = Ids(p.out) \cup {i}
  BY <1>2, <1>6 DEF Ids
<1>8. StaysInSight(e)
  BY <1>1, <1>6, <1>7 DEF PollOK, StaysInSight, p
<1>9. SeenOpen(e)
  BY <1>1, <1>6, <1>7 DEF PollOK, SeenOpen, p
<1>10. AsksForOne(e)
  BY <1>6 DEF AsksForOne
<1> QED
  BY <1>5, <1>8, <1>9, <1>10 DEF PollOK, e

LEMMA ToEnrichIsKnown ==
    ASSUME NEW q \in Polls, NEW i \in ToEnrich(q)
    PROVE  i \in poll[q].left \cup poll[q].found /\ (kind = "linear" => i \in poll[q].left)
  BY DEF ToEnrich

LEMMA EnrichKeeps ==
    ASSUME TrackerInv, NEW q \in Polls, NEW i \in TrackedIssues, EnrichAtOnce(q, i)
    PROVE  TrackerInv'
<1>1. PICK isKnown \in BOOLEAN : poll' = [poll EXCEPT ![q] = Enriched(q, i, isKnown)]
  BY DEF EnrichAtOnce
<1>2. poll[q].pc = "enriching" /\ i \in ToEnrich(q) /\ UNCHANGED << worldVars, cacheVars, githubVars, webhooks >>
  BY DEF EnrichAtOnce
<1>3. Enriched(q, i, isKnown) \in PollStates /\ PollOK(Enriched(q, i, isKnown))
  BY <1>2, ToEnrichIsKnown, EnrichedIsFine
<1> QED
  BY <1>1, <1>2, <1>3, OnlyPollMoves

LEMMA AskKeeps ==
    ASSUME TrackerInv, NEW q \in Polls, NEW i \in TrackedIssues, AskSubIssues(q, i)
    PROVE  TrackerInv'
<1> DEFINE p == [poll[q] EXCEPT !.request = i, !.saw = Kids[i] \cap open, !.overtook = FALSE]
<1>1. poll[q] \in PollStates /\ PollOK(poll[q]) /\ poll[q].pc = "enriching"
  BY DEF TrackerInv, TrackerTypeOK, AskSubIssues
<1>2. poll' = [poll EXCEPT ![q] = p] /\ UNCHANGED << worldVars, cacheVars, githubVars, webhooks >>
  BY <1>1 DEF AskSubIssues, TrackerInv, TrackerTypeOK
<1>3. p \in PollStates
  BY <1>1 DEF PollStates, TrackerInv, TrackerTypeOK
<1>4. /\ p.pc = "enriching" /\ p.left = poll[q].left /\ p.out = poll[q].out /\ p.request = i /\ p.found = poll[q].found
      /\ p.tag = poll[q].tag /\ p.stayed = poll[q].stayed /\ p.seen = poll[q].seen /\ p.saw = Kids[i] \cap open
  BY <1>1 DEF PollStates
<1>5. i \in poll[q].left \cup poll[q].found /\ (kind = "linear" => i \in poll[q].left)
  BY ToEnrichIsKnown DEF AskSubIssues
<1> HIDE DEF p
<1>6. PollOK(p)
  BY <1>1, <1>4, <1>5 DEF PollOK, StaysInSight, SeenOpen, AsksForOne
<1> QED
  BY <1>2, <1>3, <1>6, OnlyPollMoves

LEMMA DiscoverKeeps ==
    ASSUME TrackerInv, NEW q \in Polls, NEW i \in TrackedIssues, LinearDiscovers(q, i)
    PROVE  TrackerInv'
<1>0. /\ poll[q] \in PollStates /\ PollOK(poll[q]) /\ poll[q].pc = "enriching" /\ poll[q].request = Nobody
      /\ UNCHANGED << worldVars, cacheVars, githubVars, webhooks >> /\ kind = "linear"
  BY DEF TrackerInv, TrackerTypeOK, LinearDiscovers
<1>1. PICK more \in SUBSET {[id |-> i, blocked |-> FALSE]} :
         /\ poll' = [poll EXCEPT ![q] = [poll[q] EXCEPT !.found = @ \ {i}, !.out = @ \cup more]]
         /\ more # {} => i \in open
  <2>1. CASE i \in open /\ poll' = [poll EXCEPT ![q].found = @ \ {i}, ![q].out = @ \cup {[id |-> i, blocked |-> FALSE]}]
    BY <2>1, <1>0 DEF TrackerInv, TrackerTypeOK
  <2>2. CASE poll' = [poll EXCEPT ![q].found = @ \ {i}]
    <3>1. poll[q].out \cup {} = poll[q].out
      OBVIOUS
    <3>2. [poll[q] EXCEPT !.found = @ \ {i}, !.out = @ \cup {}] = [poll[q] EXCEPT !.found = @ \ {i}]
      BY <1>0, <3>1 DEF PollStates
    <3>3. poll' = [poll EXCEPT ![q] = [poll[q] EXCEPT !.found = @ \ {i}, !.out = @ \cup {}]]
      BY <2>2, <3>2 DEF TrackerInv, TrackerTypeOK
    <3> QED
      BY <3>3
  <2> QED
    BY <2>1, <2>2 DEF LinearDiscovers
<1> DEFINE p == [poll[q] EXCEPT !.found = @ \ {i}, !.out = @ \cup more]
<1>2. more \in SUBSET Offers /\ Ids(more) \subseteq {i}
  <2>1. more = {} \/ more = {[id |-> i, blocked |-> FALSE]}
    OBVIOUS
  <2>2. CASE more = {}
    BY <2>2 DEF Ids
  <2>3. CASE more = {[id |-> i, blocked |-> FALSE]}
    BY <2>3 DEF Ids, Offers
  <2> QED
    BY <2>1, <2>2, <2>3
<1>3. p \in PollStates
  BY <1>0, <1>2 DEF PollStates
<1>4. /\ p.pc = "enriching" /\ p.left = poll[q].left /\ p.out = poll[q].out \cup more /\ p.request = Nobody
      /\ p.tag = poll[q].tag /\ p.stayed = poll[q].stayed /\ p.seen = poll[q].seen
  BY <1>0 DEF PollStates
<1>5. Ids(p.out) = Ids(poll[q].out) \cup Ids(more) /\ Ids(more) \subseteq open
  BY <1>1, <1>2, <1>4 DEF Ids
<1> HIDE DEF p
<1>6. PollOK(p)
  BY <1>0, <1>4, <1>5 DEF PollOK, StaysInSight, SeenOpen, AsksForOne
<1>7. poll' = [poll EXCEPT ![q] = p]
  BY <1>1 DEF p
<1> QED
  BY <1>0, <1>3, <1>6, <1>7, OnlyPollMoves

LEMMA FailKeeps == ASSUME TrackerInv, NEW q \in Polls, PollFails(q) PROVE TrackerInv'
<1> DEFINE p == [NoPoll EXCEPT !.pc = "failed"]
<1>1. poll' = [poll EXCEPT ![q] = p] /\ UNCHANGED << worldVars, cacheVars, githubVars, webhooks >>
  BY DEF PollFails
<1>2. p \in PollStates /\ p.pc = "failed" /\ p.request = Nobody
  BY DEF NoPoll, PollStates
<1> HIDE DEF p
<1>3. PollOK(p)
  BY <1>2 DEF PollOK, StaysInSight, SeenOpen, AsksForOne
<1> QED
  BY <1>1, <1>2, <1>3, OnlyPollMoves

LEMMA ReturnsKeeps == ASSUME TrackerInv, NEW q \in Polls, PollReturns(q) PROVE TrackerInv'
<1> DEFINE p == [poll[q] EXCEPT !.pc = "returned"]
<1>0. /\ poll[q] \in PollStates /\ PollOK(poll[q]) /\ poll[q].pc = "enriching" /\ poll[q].left \cup poll[q].found = {}
      /\ UNCHANGED << worldVars, cacheVars, lastETag, webhooks >>
      /\ cachedIssues' = (IF kind = "github" THEN poll[q].out ELSE cachedIssues)
      /\ tagServed' = (kind # "github" \/ lastETag = poll[q].tag)
  BY DEF TrackerInv, TrackerTypeOK, PollReturns
<1>1. poll' = [poll EXCEPT ![q] = p]
  BY <1>0 DEF PollReturns, TrackerInv, TrackerTypeOK
<1>2. p \in PollStates /\ p.pc = "returned" /\ p.request = poll[q].request /\ p.out = poll[q].out
      /\ p.stayed = poll[q].stayed /\ p.seen = poll[q].seen
  BY <1>0 DEF PollStates
<1>3. poll[q].request = Nobody /\ poll[q].stayed \subseteq Ids(poll[q].out)
  BY <1>0 DEF PollOK, AsksForOne, StaysInSight
<1> HIDE DEF p
<1>4. PollOK(p)
  BY <1>0, <1>2, <1>3 DEF PollOK, StaysInSight, SeenOpen, AsksForOne
<1>5. poll' \in [Polls -> PollStates] /\ \A r \in Polls : PollOK(poll[r])'
  BY <1>0, <1>1, <1>2, <1>4, OnePollMoves
<1>6. tagServed' \in BOOLEAN
  BY <1>0
<1>7. TrackerTypeOK'
  BY <1>0, <1>5, <1>6 DEF TrackerInv, TrackerTypeOK, worldVars, cacheVars
<1>8. CachedListIsTrue'
  <2>1. kind' = kind /\ open' = open /\ issueEdits' = issueEdits /\ lastETag' = lastETag
    BY <1>0 DEF worldVars
  <2>2. cachedIssues' \in SUBSET Offers
    BY <1>0 DEF TrackerInv, CachedListIsTrue, PollStates
  <2>3. ASSUME kind = "github", tagServed', lastETag = CurrentTag
        PROVE  open \cap LabelledIssues \subseteq Ids(cachedIssues')
    <3>1. poll[q].tag = CurrentTag
      BY <1>0, <2>3
    <3>2. open \cap LabelledIssues \subseteq poll[q].stayed
      BY <1>0, <3>1 DEF PollOK, StaysInSight
    <3> QED
      BY <3>2, <1>0, <1>3, <2>3
  <2> QED
    BY <2>1, <2>2, <2>3 DEF TrackerInv, CachedListIsTrue, Past, CurrentTag, Ids
<1>9. WebhooksKeepCacheTrue'
  BY <1>0, WorldKeepsWebhooksTrue DEF TrackerInv
<1> QED
  BY <1>5, <1>7, <1>8, <1>9 DEF TrackerInv

LEMMA StoreKeeps == ASSUME TrackerInv, NEW q \in Polls, StoreSubIssues(q) PROVE TrackerInv'
<1> DEFINE i == poll[q].request
<1>0. /\ poll[q] \in PollStates /\ PollOK(poll[q]) /\ i # Nobody /\ i \in TrackedIssues
      /\ poll' = [poll EXCEPT ![q] = Enriched(q, i, TRUE)]
      /\ subCache' = [subCache EXCEPT ![i] = poll[q].saw]
      /\ overtaken' = (IF poll[q].overtook THEN overtaken \cup {i} ELSE overtaken \ {i})
      /\ UNCHANGED << worldVars, githubVars, webhooks >>
  BY DEF TrackerInv, TrackerTypeOK, StoreSubIssues, PollStates
<1>1. /\ poll[q].pc = "enriching" /\ i \in poll[q].left \cup poll[q].found /\ (kind = "linear" => i \in poll[q].left)
      /\ kind = "linear" /\ poll[q].saw # Kids[i] \cap open => poll[q].overtook \/ Kids[i] \cap webhooks # {}
  BY <1>0 DEF PollOK, AsksForOne
<1> HIDE DEF i
<1>2. Enriched(q, i, TRUE) \in PollStates /\ PollOK(Enriched(q, i, TRUE))
  BY <1>0, <1>1, EnrichedIsFine
<1>3. poll' \in [Polls -> PollStates] /\ \A r \in Polls : PollOK(poll[r])'
  BY <1>0, <1>2, OnePollMoves
<1>4. subCache' \in [TrackedIssues -> (SUBSET TrackedIssues) \cup {NoKids}]
  BY <1>0 DEF TrackerInv, TrackerTypeOK, PollStates
<1>5. TrackerTypeOK'
  BY <1>0, <1>3, <1>4 DEF TrackerInv, TrackerTypeOK, worldVars, githubVars
<1>6. CachedListIsTrue'
  BY <1>0, WorldKeepsCachedList DEF TrackerInv
<1>7. WebhooksKeepCacheTrue'
  <2>1. ASSUME kind = "linear", NEW p \in TrackedIssues, subCache'[p] # NoKids, subCache'[p] # Kids[p] \cap open
        PROVE  p \in overtaken' \/ Kids[p] \cap webhooks # {}
    <3>1. CASE p = i
      BY <3>1, <2>1, <1>0, <1>1 DEF TrackerInv, TrackerTypeOK
    <3>2. CASE p # i
      <4>1. subCache'[p] = subCache[p]
        BY <3>2, <1>0 DEF TrackerInv, TrackerTypeOK
      <4>2. p \in overtaken => p \in overtaken'
        BY <3>2, <1>0
      <4> QED
        BY <4>1, <4>2, <2>1 DEF TrackerInv, WebhooksKeepCacheTrue
    <3> QED
      BY <3>1, <3>2
  <2> QED
    BY <2>1, <1>0 DEF WebhooksKeepCacheTrue, worldVars
<1> QED
  BY <1>3, <1>5, <1>6, <1>7 DEF TrackerInv

LEMMA EditKeeps == ASSUME TrackerInv, NEW i \in TrackedIssues, EditIssue(i) PROVE TrackerInv'
<1>0. /\ issueEdits' = [issueEdits EXCEPT ![i] = @ + 1]
      /\ open' = (IF i \in open THEN open \ {i} ELSE open \cup {i})
      /\ webhooks' = (IF kind = "linear" THEN webhooks \cup {i} ELSE webhooks)
      /\ kind' = kind /\ subCache' = subCache /\ overtaken' = overtaken /\ lastETag' = lastETag
      /\ cachedIssues' = cachedIssues /\ tagServed' = tagServed
  BY DEF EditIssue, cacheVars, githubVars
<1>1. /\ issueEdits' \in [TrackedIssues -> Nat] /\ issueEdits'[i] = issueEdits[i] + 1
      /\ \A j \in TrackedIssues \ {i} : issueEdits'[j] = issueEdits[j]
  BY <1>0 DEF TrackerInv, TrackerTypeOK
<1>2. ASSUME NEW tag, Past(tag)
      PROVE  /\ Past(tag)'
             /\ tag = CurrentTag' => tag = CurrentTag /\ i \notin LabelledIssues
  <2>1. Past(tag)'
    BY <1>1, <1>2, TrackerAssumption DEF Past, Tags, TrackerInv, TrackerTypeOK
  <2>2. i \in LabelledIssues => tag # CurrentTag'
    BY <1>1, <1>2, TrackerAssumption DEF Past, Tags, TrackerInv, TrackerTypeOK, CurrentTag
  <2>3. i \notin LabelledIssues => CurrentTag' = CurrentTag
    BY <1>1, TrackerAssumption DEF CurrentTag
  <2> QED
    BY <2>1, <2>2, <2>3
<1>3. ASSUME NEW q \in Polls
      PROVE  poll'[q] \in PollStates /\ PollOK(poll[q])'
  <2> DEFINE p == poll[q]
  <2>1. p \in PollStates /\ PollOK(p)
    BY DEF TrackerInv, TrackerTypeOK
  <2>0. PICK e : e = poll'[q]
    OBVIOUS
  <2>2. e = IF PollIdle(q) THEN p ELSE [p EXCEPT !.stayed = @ \ {i}, !.seen = @ \cup {i}]
    BY <2>0 DEF EditIssue
  <2>21. PollOK(e)' => PollOK(poll[q])'
    BY <2>0
  <2>3. CASE PollIdle(q)
    <3>1. e = p /\ p.pc # "enriching"
      BY <2>2, <2>3 DEF PollIdle
    <3>11. p.pc = poll[q].pc /\ (p.pc = "returned" /\ p.served => p.stayed \subseteq Ids(p.out))
           /\ (kind = "linear" /\ p.pc = "returned" => Ids(p.out) \subseteq p.seen) /\ p.request = Nobody
      BY <3>1, <2>1 DEF PollOK, StaysInSight, SeenOpen, AsksForOne
    <3> HIDE DEF p
    <3>2. PollOK(e)'
      BY <3>1, <3>11, <1>0 DEF PollOK, StaysInSight, SeenOpen, AsksForOne
    <3> QED
      BY <3>1, <3>2, <2>0, <2>1, <2>21
  <2>4. CASE ~PollIdle(q)
    <3>1. /\ e \in PollStates /\ p.pc = "enriching" /\ e.pc = "enriching"
          /\ e.tag = p.tag /\ e.left = p.left /\ e.found = p.found /\ e.request = p.request /\ e.saw = p.saw
          /\ e.overtook = p.overtook /\ e.out = p.out /\ e.served = p.served
          /\ e.stayed = p.stayed \ {i} /\ e.seen = p.seen \cup {i}
      <4>1. e = [p EXCEPT !.stayed = @ \ {i}, !.seen = @ \cup {i}]
        BY <2>2, <2>4
      <4>2. p.pc = "enriching"
        BY <2>1, <2>4 DEF PollStates, PollIdle
      <4> HIDE DEF p
      <4> QED
        BY <4>1, <4>2, <2>1 DEF PollStates
    <3> HIDE DEF p
    <3>2. StaysInSight(e)'
      <4>1. Past(e.tag)' /\ (e.tag = CurrentTag' => open' \cap LabelledIssues \subseteq e.stayed)
        BY <3>1, <2>1, <1>0, <1>2 DEF PollOK, StaysInSight
      <4> QED
        BY <4>1, <3>1, <2>1 DEF PollOK, StaysInSight, Ids
    <3>3. SeenOpen(e)'
      BY <3>1, <2>1, <1>0 DEF PollOK, SeenOpen, Ids
    <3>4. AsksForOne(e)'
      <4>1. ASSUME kind = "linear", p.request # Nobody, p.saw # Kids[p.request] \cap open'
            PROVE  p.overtook \/ Kids[p.request] \cap webhooks' # {}
        <5>1. CASE i \in Kids[p.request]
          BY <5>1, <4>1, <1>0
        <5>2. CASE i \notin Kids[p.request]
          <6>1. Kids[p.request] \cap open' = Kids[p.request] \cap open
            BY <5>2, <1>0
          <6>2. p.overtook \/ Kids[p.request] \cap webhooks # {}
            BY <6>1, <4>1, <2>1 DEF PollOK, AsksForOne
          <6> QED
            BY <6>2, <1>0
        <5> QED
          BY <5>1, <5>2
      <4> QED
        BY <4>1, <3>1, <2>1, <1>0 DEF PollOK, AsksForOne
    <3> QED
      BY <2>0, <3>1, <3>2, <3>3, <3>4, <2>21 DEF PollOK
  <2> QED
    BY <2>3, <2>4
<1>4. TrackerTypeOK'
  <2>1. poll' \in [Polls -> PollStates]
    BY <1>3 DEF EditIssue
  <2> QED
    BY <2>1, <1>0, <1>1 DEF TrackerInv, TrackerTypeOK
<1>5. CachedListIsTrue'
  <2>1. (lastETag = NoTag \/ Past(lastETag))'
    BY <1>0, <1>2 DEF TrackerInv, CachedListIsTrue, Past
  <2>2. ASSUME kind = "github", tagServed, lastETag = CurrentTag'
        PROVE  open' \cap LabelledIssues \subseteq Ids(cachedIssues)
    <3>1. CurrentTag' # NoTag
      BY <1>1, TrackerAssumption DEF CurrentTag
    <3>2. lastETag = CurrentTag /\ i \notin LabelledIssues
      BY <2>2, <3>1, <1>2 DEF TrackerInv, CachedListIsTrue
    <3> QED
      BY <3>2, <2>2, <1>0 DEF TrackerInv, CachedListIsTrue
  <2> QED
    BY <2>1, <2>2, <1>0 DEF TrackerInv, CachedListIsTrue, Ids
<1>6. WebhooksKeepCacheTrue'
  <2>1. ASSUME kind = "linear", NEW p \in TrackedIssues, subCache[p] # NoKids, subCache[p] # Kids[p] \cap open'
        PROVE  p \in overtaken \/ Kids[p] \cap webhooks' # {}
    <3>1. CASE i \in Kids[p]
      BY <3>1, <2>1, <1>0
    <3>2. CASE i \notin Kids[p]
      <4>1. Kids[p] \cap open' = Kids[p] \cap open
        BY <3>2, <1>0
      <4>2. p \in overtaken \/ Kids[p] \cap webhooks # {}
        BY <4>1, <2>1 DEF TrackerInv, WebhooksKeepCacheTrue
      <4> QED
        BY <4>2, <1>0
    <3> QED
      BY <3>1, <3>2
  <2> QED
    BY <2>1, <1>0 DEF WebhooksKeepCacheTrue
<1> QED
  BY <1>3, <1>4, <1>5, <1>6 DEF TrackerInv

LEMMA WebhookKeeps == ASSUME TrackerInv, NEW i \in TrackedIssues, handleLinearWebhook(i) PROVE TrackerInv'
<1> DEFINE parents == {p \in TrackedIssues : i \in Kids[p]}
<1>0. /\ webhooks' = webhooks \ {i} /\ overtaken' = overtaken \ parents
      /\ subCache' = [p \in TrackedIssues |-> IF p \in parents THEN NoKids ELSE subCache[p]]
      /\ poll' = [q \in Polls |-> IF poll[q].request \in parents THEN [poll[q] EXCEPT !.overtook = TRUE] ELSE poll[q]]
      /\ UNCHANGED << worldVars, githubVars >>
  BY DEF handleLinearWebhook
<1>01. kind' = kind /\ open' = open /\ issueEdits' = issueEdits
  BY <1>0 DEF worldVars
<1>1. ASSUME NEW q \in Polls
      PROVE  poll'[q] \in PollStates /\ PollOK(poll[q])'
  <2> DEFINE p == poll[q]
  <2>0. PICK e : e = poll'[q]
    OBVIOUS
  <2>01. PollOK(e)' => PollOK(poll[q])'
    BY <2>0
  <2>1. p \in PollStates /\ PollOK(p)
    BY DEF TrackerInv, TrackerTypeOK
  <2>2. /\ e \in PollStates /\ e.pc = p.pc
        /\ e.tag = p.tag /\ e.left = p.left /\ e.found = p.found /\ e.request = p.request /\ e.saw = p.saw
        /\ e.out = p.out /\ e.served = p.served /\ e.stayed = p.stayed /\ e.seen = p.seen
        /\ IF p.request \in parents THEN e.overtook ELSE e = p
    BY <2>0, <2>1, <1>0 DEF PollStates
  <2> HIDE DEF p
  <2>3. StaysInSight(e)' /\ SeenOpen(e)'
    BY <2>1, <2>2, <1>01 DEF PollOK, StaysInSight, SeenOpen, Past, CurrentTag, Ids
  <2>4. AsksForOne(e)'
    <3>1. ASSUME kind = "linear", p.request # Nobody, p.saw # Kids[p.request] \cap open
          PROVE  e.overtook \/ Kids[p.request] \cap webhooks' # {}
      <4>1. p.request \in TrackedIssues
        BY <2>1, <3>1 DEF PollStates
      <4>2. CASE i \in Kids[p.request]
        BY <4>1, <4>2, <2>2
      <4>3. CASE i \notin Kids[p.request]
        <5>1. e = p
          BY <4>3, <2>2
        <5>2. p.overtook \/ Kids[p.request] \cap webhooks # {}
          BY <3>1, <2>1 DEF PollOK, AsksForOne
        <5> QED
          BY <4>3, <5>1, <5>2, <1>0
      <4> QED
        BY <4>2, <4>3
    <3> QED
      BY <3>1, <2>1, <2>2, <1>01 DEF PollOK, AsksForOne
  <2> QED
    BY <2>0, <2>2, <2>3, <2>4, <2>01 DEF PollOK
<1>2. TrackerTypeOK'
  <2>1. poll' \in [Polls -> PollStates]
    BY <1>0, <1>1
  <2> QED
    BY <2>1, <1>0, <1>01 DEF TrackerInv, TrackerTypeOK, githubVars
<1>3. CachedListIsTrue'
  BY <1>0, WorldKeepsCachedList DEF TrackerInv
<1>4. WebhooksKeepCacheTrue'
  <2>1. ASSUME kind = "linear", NEW p \in TrackedIssues, subCache'[p] # NoKids, subCache'[p] # Kids[p] \cap open
        PROVE  p \in overtaken' \/ Kids[p] \cap webhooks' # {}
    <3>1. i \notin Kids[p] /\ subCache'[p] = subCache[p]
      BY <2>1, <1>0
    <3>2. p \in overtaken \/ Kids[p] \cap webhooks # {}
      BY <3>1, <2>1 DEF TrackerInv, WebhooksKeepCacheTrue
    <3> QED
      BY <3>1, <3>2, <1>0
  <2> QED
    BY <2>1, <1>01 DEF WebhooksKeepCacheTrue
<1> QED
  BY <1>1, <1>2, <1>3, <1>4 DEF TrackerInv

LEMMA ExpiryKeeps == ASSUME TrackerInv, NEW i \in TrackedIssues, SubCacheExpires(i) PROVE TrackerInv'
<1>0. /\ subCache' = [subCache EXCEPT ![i] = NoKids] /\ overtaken' = overtaken \ {i}
      /\ UNCHANGED << worldVars, githubVars, poll, webhooks >>
  BY DEF SubCacheExpires
<1>01. kind' = kind /\ open' = open /\ issueEdits' = issueEdits
  BY <1>0 DEF worldVars
<1>1. \A q \in Polls : PollOK(poll[q])'
  BY <1>0, <1>01 DEF TrackerInv, PollOK, StaysInSight, SeenOpen, AsksForOne, Past, CurrentTag
<1>2. TrackerTypeOK'
  BY <1>0, <1>01 DEF TrackerInv, TrackerTypeOK, githubVars
<1>3. CachedListIsTrue'
  BY <1>0, WorldKeepsCachedList DEF TrackerInv
<1>4. WebhooksKeepCacheTrue'
  BY <1>0, <1>01 DEF TrackerInv, TrackerTypeOK, WebhooksKeepCacheTrue
<1> QED
  BY <1>1, <1>2, <1>3, <1>4 DEF TrackerInv

(* Every step of the world, of a poll and of a webhook keeps the invariant. *)
LEMMA TrackerInvNext == ASSUME TrackerInv, [TrackerNext]_pvars PROVE TrackerInv'
<1>1. CASE TrackerNext
  BY <1>1, FetchKeeps, StoreKeeps, FailKeeps, ReturnsKeeps, EnrichKeeps, AskKeeps, DiscoverKeeps, EditKeeps, WebhookKeeps,
     ExpiryKeeps DEF TrackerNext
<1>2. CASE UNCHANGED pvars
  <2>1. UNCHANGED << worldVars, cacheVars, githubVars, poll, webhooks >>
    BY <1>2 DEF pvars
  <2>2. kind' = kind /\ open' = open /\ issueEdits' = issueEdits /\ tagServed' = tagServed /\ subCache' = subCache
    BY <2>1 DEF worldVars, githubVars, cacheVars
  <2>3. \A q \in Polls : PollOK(poll[q])'
    BY <2>1, <2>2 DEF TrackerInv, PollOK, StaysInSight, SeenOpen, AsksForOne, Past, CurrentTag
  <2>4. TrackerTypeOK'
    BY <2>1, <2>2 DEF TrackerInv, TrackerTypeOK
  <2> QED
    BY <2>1, <2>3, <2>4, WorldKeepsCachedList, WorldKeepsWebhooksTrue DEF TrackerInv
<1> QED
  BY <1>1, <1>2

LEMMA TrackerInvIsTrue == ASSUME TrackerInv PROVE TrackerPollsAreTrue
<1>1. \A q \in Polls : Offered(q) = Ids(poll[q].out)
  BY DEF Offered, Ids
<1>2. AnswersAreComplete /\ DoneIssuesAreNotOffered
  BY <1>1 DEF TrackerInv, PollOK, StaysInSight, SeenOpen, AnswersAreComplete, DoneIssuesAreNotOffered
<1> QED
  BY <1>2 DEF TrackerInv, TrackerPollsAreTrue

(* For any issues, labels, sub-issues and number of polls at once: a poll   *)
(* of github.ts or linear.ts returns every issue that stayed open and       *)
(* labelled meanwhile, Linear offers none that was closed before the poll   *)
(* began, and its sub-issue cache is wrong only while a webhook is on its   *)
(* way or when one overtook the answer.                                     *)
THEOREM TrackerPollsStayTrue == TrackerSpec => []TrackerPollsAreTrue
  BY TrackerInvInit, TrackerInvNext, TrackerInvIsTrue, PTL DEF TrackerSpec

-----------------------------------------------------------------------------
(* Polls of Notion: an edit is offered, answered, newer than the last poll  *)
(* or known to have slipped; whoever is throttled waits for the oldest      *)
(* request of the window, alone.                                            *)

NotionTypeOK ==
    /\ clock \in Nat \ {0}
    /\ active \in SUBSET Pages
    /\ editedAt \in [Pages -> Nat]
    /\ lastPollTime \in Nat
    /\ requestTimestamps \in Seq(Nat)
    /\ caller \in [Callers -> {"idle", "throttled", "sent", "answered"}]
    /\ wakeAt \in [Callers -> Nat]
    /\ offered \in [Pages -> Nat]
    /\ slipped \in SUBSET Pages
    /\ crowded \in BOOLEAN

(* No clock is ahead of the clock, and an answer that is being read has     *)
(* every page that was edited since the last poll, except those that        *)
(* slipped through between two polls.                                       *)
PollsFollowEdits ==
    /\ lastPollTime <= clock
    /\ \A p \in Pages : editedAt[p] <= clock
    /\ caller[Poll] = "answered" =>
          \A p \in active : EditedSince(p) => p \in answeredPages \/ p \in slipped
    /\ caller[Poll] # "answered" => answeredPages = {}
    /\ EditsAreOffered

(* Whoever is throttled waits until the oldest request is out of the window. *)
Waits(c) == requestTimestamps # << >> /\ requestTimestamps[1] + Window <= wakeAt[c]

(* The requests of one window are within the limit, and only one caller     *)
(* waits, for the oldest of them to leave the window.                       *)
WindowIsKept ==
    crowded \/ /\ Len(requestTimestamps) <= MaxPerWindow
               /\ \A c \in Callers : caller[c] = "throttled" => Waits(c)
               /\ \A c, d \in Callers : caller[c] = "throttled" /\ caller[d] = "throttled" => c = d

(* The inductive invariant of Notion.                                       *)
NotionInv == NotionTypeOK /\ PollsFollowEdits /\ WindowIsKept

(* Dropping the requests that left the window keeps a list of times, and    *)
(* drops the first if it left.                                              *)
LEMMA RecentIsASuffix ==
    ASSUME NEW times \in Seq(Nat), clock \in Nat
    PROVE  /\ Recent(times) \in Seq(Nat)
           /\ Len(Recent(times)) <= Len(times)
           /\ times # << >> /\ clock - times[1] >= Window => Len(Recent(times)) < Len(times)
<1> DEFINE old == {i \in DOMAIN times : clock - times[i] >= Window}
           n == Cardinality(old)
<1>1. DOMAIN times = 1..Len(times) /\ Len(times) \in Nat
  OBVIOUS
<1>2. IsFiniteSet(1..Len(times)) /\ Cardinality(1..Len(times)) = Len(times)
  <2>1. /\ IsFiniteSet(1..Len(times))
        /\ Cardinality(1..Len(times)) = IF 1 > Len(times) THEN 0 ELSE Len(times) - 1 + 1
    BY <1>1, FS_Interval
  <2> QED
    BY <1>1, <2>1
<1>3. old \subseteq 1..Len(times)
  BY <1>1
<1>4. IsFiniteSet(old) /\ n \in Nat /\ n <= Len(times)
  BY <1>2, <1>3, FS_Subset, FS_CardinalityType
<1>5. times # << >> /\ clock - times[1] >= Window => n # 0
  <2>1. times # << >> => 1 \in DOMAIN times
    BY <1>1
  <2> QED
    BY <2>1, <1>4, FS_EmptySet
<1> HIDE DEF n
<1>6. Recent(times) = SubSeq(times, n + 1, Len(times))
  BY DEF Recent, n
<1>7. SubSeq(times, n + 1, Len(times)) \in Seq(Nat) /\ Len(SubSeq(times, n + 1, Len(times))) = Len(times) - n
  <2>1. /\ n + 1 \in 1..(Len(times) + 1) /\ n + 1 \in Int /\ Len(times) \in Int
        /\ \A i \in (n + 1)..Len(times) : i \in 1..Len(times)
    BY <1>1, <1>4
  <2>2. \A i \in (n + 1)..Len(times) : times[i] \in Nat
    BY <2>1
  <2>3. Len(SubSeq(times, n + 1, Len(times))) = IF n + 1 <= Len(times) THEN Len(times) - (n + 1) + 1 ELSE 0
    BY <1>1, <1>4
  <2>4. SubSeq(times, n + 1, Len(times)) \in Seq(Nat)
    BY <1>1, <1>4, <2>2
  <2>5. CASE n + 1 <= Len(times)
    <3>1. Len(times) - (n + 1) + 1 = Len(times) - n
      BY <1>1, <1>4
    <3> QED
      BY <2>3, <2>4, <2>5, <3>1
  <2>6. CASE ~(n + 1 <= Len(times))
    <3>1. n \in Nat /\ Len(times) \in Nat /\ n <= Len(times)
      BY <1>1, <1>4
    <3>2. n = Len(times)
      BY <3>1, <2>6
    <3>3. Len(times) - n = 0
      BY <3>1, <3>2
    <3> QED
      BY <2>3, <2>4, <2>6, <3>3
  <2> QED
    BY <2>5, <2>6
<1>8. n # 0 => Len(times) - n < Len(times)
  BY <1>1, <1>4
<1>9. Len(times) - n <= Len(times)
  BY <1>1, <1>4
<1> QED
  BY <1>5, <1>6, <1>7, <1>8, <1>9

(* A window that is full has a first request.                               *)
LEMMA FirstOfRecent ==
    ASSUME NEW times \in Seq(Nat), clock \in Nat, Len(Recent(times)) >= MaxPerWindow
    PROVE  Recent(times) # << >> /\ Recent(times)[1] \in Nat
<1>1. Recent(times) \in Seq(Nat)
  BY RecentIsASuffix
<1> HIDE DEF Recent
<1> QED
  BY <1>1, NotionAssumption

LEMMA NotionInvInit == NotionInit => NotionInv
<1> SUFFICES ASSUME NotionInit PROVE NotionInv
  OBVIOUS
<1> USE DEF NotionInit
<1>1. NotionTypeOK
  <2>1. requestTimestamps \in Seq(Nat)
    OBVIOUS
  <2>2. crowded \in BOOLEAN
    OBVIOUS
  <2>3. /\ clock \in Nat \ {0} /\ lastPollTime \in Nat /\ active \in SUBSET Pages /\ slipped \in SUBSET Pages
        /\ editedAt \in [Pages -> Nat] /\ wakeAt \in [Callers -> Nat] /\ offered \in [Pages -> Nat]
    OBVIOUS
  <2>4. caller \in [Callers -> {"idle", "throttled", "sent", "answered"}]
    OBVIOUS
  <2> QED
    BY <2>1, <2>2, <2>3, <2>4 DEF NotionTypeOK
<1>2. \A c \in Callers : caller[c] = "idle"
  OBVIOUS
<1>3. PollsFollowEdits
  BY <1>2, NotionAssumption DEF PollsFollowEdits, EditsAreOffered, EditedSince
<1>4. WindowIsKept
  BY <1>2, NotionAssumption DEF WindowIsKept
<1> QED
  BY <1>1, <1>3, <1>4 DEF NotionInv

(* A request of the adapter is counted in the window, or waits.             *)
LEMMA RequestKeeps == ASSUME NotionInv, NEW c \in Callers, notionFetch(c) PROVE NotionInv'
<1> DEFINE recent == Recent(requestTimestamps)
<1> HIDE DEF recent
<1>0. /\ UNCHANGED << clock, active, editedAt, lastPollTime, answeredPages, offered, slipped >>
      /\ crowded' = (crowded \/ \E d \in Callers \ {c} : caller[d] = "throttled")
      /\ requestTimestamps \in Seq(Nat) /\ clock \in Nat
      /\ NotionTypeOK
  BY DEF notionFetch, NotionInv, NotionTypeOK
<1>1. /\ recent \in Seq(Nat) /\ Len(recent) <= Len(requestTimestamps)
      /\ requestTimestamps # << >> /\ clock - requestTimestamps[1] >= Window => Len(recent) < Len(requestTimestamps)
      /\ Len(recent) >= MaxPerWindow => recent # << >> /\ recent[1] \in Nat
  BY <1>0, RecentIsASuffix, FirstOfRecent DEF recent
<1>2. \/ /\ caller[c] = "idle" /\ Len(recent) >= MaxPerWindow
         /\ requestTimestamps' = recent
         /\ caller' = [caller EXCEPT ![c] = "throttled"]
         /\ wakeAt' = [wakeAt EXCEPT ![c] = recent[1] + Window]
      \/ /\ caller[c] = "idle" /\ Len(recent) < MaxPerWindow
         /\ requestTimestamps' = Append(recent, clock)
         /\ caller' = [caller EXCEPT ![c] = "sent"]
         /\ UNCHANGED wakeAt
      \/ /\ caller[c] = "throttled" /\ clock >= wakeAt[c]
         /\ requestTimestamps' = Append(recent, clock)
         /\ caller' = [caller EXCEPT ![c] = "sent"]
         /\ wakeAt' = [wakeAt EXCEPT ![c] = 0]
  <2>1. CASE Wake(c)
    BY <2>1 DEF Wake, recent
  <2>2. CASE throttle(c) /\ Len(recent) >= MaxPerWindow
    BY <2>2 DEF throttle, recent
  <2>3. CASE throttle(c) /\ ~(Len(recent) >= MaxPerWindow)
    <3>1. Len(recent) \in Nat
      BY <1>1
    <3> QED
      BY <2>3, <3>1, NotionAssumption DEF throttle, recent
  <2> QED
    BY <2>1, <2>2, <2>3 DEF notionFetch
<1>3. NotionTypeOK'
  <2>1. requestTimestamps' \in Seq(Nat) /\ wakeAt' \in [Callers -> Nat]
    <3>1. recent # << >> /\ recent[1] \in Nat => recent[1] + Window \in Nat
      BY NotionAssumption
    <3>2. wakeAt \in [Callers -> Nat]
      BY <1>0 DEF NotionTypeOK
    <3>3. Append(recent, clock) \in Seq(Nat)
      BY <1>0, <1>1
    <3>4. requestTimestamps' \in Seq(Nat)
      BY <1>1, <1>2, <3>3
    <3>5. wakeAt' \in [Callers -> Nat]
      BY <1>1, <1>2, <3>1, <3>2
    <3> QED
      BY <3>4, <3>5
  <2>2. caller' \in [Callers -> {"idle", "throttled", "sent", "answered"}]
    BY <1>0, <1>2 DEF NotionTypeOK
  <2>3. crowded' \in BOOLEAN
    BY <1>0
  <2> QED
    BY <1>0, <2>1, <2>2, <2>3 DEF NotionTypeOK
<1>4. PollsFollowEdits'
  <2>1. caller'[Poll] = "answered" <=> caller[Poll] = "answered"
    BY <1>0, <1>2, NotionAssumption DEF NotionTypeOK
  <2> QED
    BY <1>0, <2>1 DEF NotionInv, PollsFollowEdits, EditsAreOffered, EditedSince
<1>5. WindowIsKept'
  <2> SUFFICES ASSUME ~crowded' PROVE WindowIsKept!2'
    BY DEF WindowIsKept
  <2>1. ~crowded /\ \A d \in Callers \ {c} : caller[d] # "throttled" /\ caller'[d] # "throttled"
    BY <1>0, <1>2 DEF NotionTypeOK
  <2>2. Len(requestTimestamps) <= MaxPerWindow /\ (caller[c] = "throttled" => Waits(c))
    BY <2>1 DEF NotionInv, WindowIsKept
  <2>3. CASE caller'[c] = "throttled"
    <3>1. /\ requestTimestamps' = recent /\ wakeAt'[c] = recent[1] + Window
          /\ Len(recent) >= MaxPerWindow
      BY <1>0, <1>2, <2>3 DEF NotionTypeOK
    <3>2. Waits(c)'
      BY <3>1, <1>1, NotionAssumption DEF Waits
    <3>3. Len(requestTimestamps') <= MaxPerWindow
      BY <3>1, <1>0, <1>1, <2>2, NotionAssumption
    <3> QED
      BY <3>2, <3>3, <2>1
  <2>4. CASE caller'[c] # "throttled"
    <3>1. requestTimestamps' = Append(recent, clock) /\ Len(requestTimestamps') = Len(recent) + 1
      BY <1>0, <1>1, <1>2, <2>4 DEF NotionTypeOK
    <3>2. Len(recent) < MaxPerWindow
      <4>1. CASE caller[c] = "idle"
        BY <4>1, <1>0, <1>2, <2>4 DEF NotionTypeOK
      <4>2. CASE caller[c] # "idle"
        <5>1. caller[c] = "throttled" /\ clock >= wakeAt[c] /\ Waits(c)
          BY <4>2, <1>2, <2>2
        <5>2. requestTimestamps[1] \in Nat /\ wakeAt[c] \in Nat
          BY <5>1, <1>0 DEF Waits, NotionTypeOK
        <5>3. Len(recent) < Len(requestTimestamps)
          BY <5>1, <5>2, <1>0, <1>1, NotionAssumption DEF Waits
        <5> QED
          BY <5>3, <2>2, <1>0, <1>1, NotionAssumption
      <4> QED
        BY <4>1, <4>2
    <3>3. Len(requestTimestamps') <= MaxPerWindow
      BY <3>1, <3>2, <1>1, NotionAssumption
    <3> QED
      BY <3>3, <2>1, <2>4
  <2> QED
    BY <2>3, <2>4
<1> QED
  BY <1>3, <1>4, <1>5 DEF NotionInv

(* What leaves the throttle alone keeps the window.                         *)
LEMMA WindowStaysKept ==
    ASSUME NotionInv, UNCHANGED << requestTimestamps, wakeAt, crowded >>,
           \A c \in Callers : caller'[c] = "throttled" => caller[c] = "throttled"
    PROVE  WindowIsKept'
  BY DEF NotionInv, WindowIsKept, Waits

LEMMA EndKeeps == ASSUME NotionInv, NEW c \in Callers, RequestEnds(c) PROVE NotionInv'
<1>0. /\ caller[c] = "sent" /\ caller' = [caller EXCEPT ![c] = "idle"] /\ NotionTypeOK
      /\ UNCHANGED << clock, active, editedAt, lastPollTime, requestTimestamps, wakeAt, answeredPages, offered, slipped, crowded >>
  BY DEF RequestEnds, NotionInv
<1>1. NotionTypeOK'
  BY <1>0 DEF NotionTypeOK
<1>2. \A d \in Callers : caller'[d] = caller[d] \/ caller'[d] = "idle"
  BY <1>0 DEF NotionTypeOK
<1>3. PollsFollowEdits'
  <2>1. caller'[Poll] = "answered" <=> caller[Poll] = "answered"
    BY <1>0, NotionAssumption DEF NotionTypeOK
  <2> QED
    BY <1>0, <2>1 DEF NotionInv, PollsFollowEdits, EditsAreOffered, EditedSince
<1>4. WindowIsKept'
  BY <1>0, <1>2, WindowStaysKept
<1> QED
  BY <1>1, <1>3, <1>4 DEF NotionInv

LEMMA QueryKeeps == ASSUME NotionInv, queryDatabase PROVE NotionInv'
<1>0. /\ caller' = [caller EXCEPT ![Poll] = "answered"] /\ NotionTypeOK
      /\ answeredPages' = {p \in active : EditedSince(p)}
      /\ UNCHANGED << clock, active, editedAt, lastPollTime, requestTimestamps, wakeAt, offered, slipped, crowded >>
      /\ caller[Poll] = "sent"
  BY DEF queryDatabase, NotionInv
<1>1. NotionTypeOK'
  BY <1>0 DEF NotionTypeOK
<1>2. \A d \in Callers : caller'[d] = caller[d] \/ caller'[d] = "answered"
  BY <1>0 DEF NotionTypeOK
<1>3. PollsFollowEdits'
  <2>1. EditsAreOffered'
    <3>1. ASSUME NEW p \in active
          PROVE  offered[p] = editedAt[p] \/ EditedSince(p) \/ p \in slipped
      <4>1. answeredPages = {}
        BY <1>0 DEF NotionInv, PollsFollowEdits
      <4> QED
        BY <4>1 DEF NotionInv, PollsFollowEdits, EditsAreOffered
    <3> QED
      BY <3>1, <1>0 DEF EditsAreOffered, EditedSince
  <2> QED
    <3>1. \A p \in active : EditedSince(p) => p \in answeredPages'
      BY <1>0
    <3>2. caller'[Poll] = "answered"
      BY <1>0, NotionAssumption DEF NotionTypeOK
    <3> QED
      BY <1>0, <2>1, <3>1, <3>2 DEF NotionInv, PollsFollowEdits, EditedSince
<1>4. WindowIsKept'
  BY <1>0, <1>2, WindowStaysKept
<1> QED
  BY <1>1, <1>3, <1>4 DEF NotionInv

LEMMA CandidatesKeep == ASSUME NotionInv, fetchNotionCandidates PROVE NotionInv'
<1>0. /\ caller[Poll] = "answered" /\ caller' = [caller EXCEPT ![Poll] = "idle"] /\ NotionTypeOK
      /\ lastPollTime' = clock /\ answeredPages' = {}
      /\ offered' = [p \in Pages |-> IF p \in answeredPages /\ p \notin slipped THEN editedAt[p] ELSE offered[p]]
      /\ UNCHANGED << clock, active, editedAt, requestTimestamps, wakeAt, slipped, crowded >>
  BY DEF fetchNotionCandidates, NotionInv
<1>1. NotionTypeOK'
  BY <1>0 DEF NotionTypeOK
<1>2. \A d \in Callers : caller'[d] = caller[d] \/ caller'[d] = "idle"
  BY <1>0 DEF NotionTypeOK
<1>3. ASSUME NEW p \in active
      PROVE  offered'[p] = editedAt[p] \/ p \in slipped
  <2>1. p \in Pages
    BY <1>0 DEF NotionTypeOK
  <2>2. offered[p] = editedAt[p] \/ p \in answeredPages \/ p \in slipped
    BY <1>0 DEF NotionInv, PollsFollowEdits, EditsAreOffered
  <2> QED
    BY <1>0, <2>1, <2>2
<1>4. EditsAreOffered'
  BY <1>0, <1>3 DEF EditsAreOffered
<1>5. caller'[Poll] # "answered"
  BY <1>0, NotionAssumption DEF NotionTypeOK
<1>6. PollsFollowEdits'
  BY <1>0, <1>1, <1>4, <1>5 DEF NotionInv, PollsFollowEdits, NotionTypeOK
<1>7. WindowIsKept'
  BY <1>0, <1>2, WindowStaysKept
<1> QED
  BY <1>1, <1>6, <1>7 DEF NotionInv

LEMMA PageEditKeeps == ASSUME NotionInv, NEW p \in Pages, EditPage(p) PROVE NotionInv'
<1>0. /\ editedAt' = [editedAt EXCEPT ![p] = clock] /\ NotionTypeOK
      /\ active' \in {active \cup {p}, active \ {p}}
      /\ slipped' = (IF caller[Poll] = "answered" \/ lastPollTime = clock THEN slipped \cup {p} ELSE slipped \ {p})
      /\ UNCHANGED << clock, lastPollTime, requestTimestamps, caller, wakeAt, answeredPages, offered, crowded >>
  BY DEF EditPage, NotionInv
<1>1. NotionTypeOK'
  BY <1>0 DEF NotionTypeOK
<1>2. editedAt'[p] = clock /\ \A q \in Pages \ {p} : editedAt'[q] = editedAt[q]
  BY <1>0 DEF NotionTypeOK
<1>3. p \in slipped' \/ EditedSince(p)'
  <2>1. lastPollTime # clock => lastPollTime < clock
    BY <1>0 DEF NotionInv, NotionTypeOK, PollsFollowEdits
  <2> QED
    BY <2>1, <1>0, <1>2 DEF EditedSince
<1>4. \A q \in active' : q # p => q \in active /\ q \in Pages /\ (q \in slipped' <=> q \in slipped)
                               /\ (EditedSince(q)' <=> EditedSince(q))
  BY <1>0, <1>2 DEF NotionTypeOK, EditedSince
<1>5. EditsAreOffered'
  <2>1. \A q \in active' : q # p =>
           offered'[q] = editedAt'[q] \/ q \in answeredPages' \/ EditedSince(q)' \/ q \in slipped'
    BY <1>0, <1>2, <1>4 DEF NotionInv, PollsFollowEdits, EditsAreOffered
  <2> QED
    BY <2>1, <1>3 DEF EditsAreOffered
<1>6. PollsFollowEdits'
  <2>1. \A q \in Pages : editedAt'[q] <= clock
    BY <1>0, <1>2 DEF NotionInv, PollsFollowEdits, NotionTypeOK
  <2>2. caller[Poll] = "answered" => p \in slipped'
    BY <1>0
  <2>3. caller[Poll] = "answered" => \A q \in active' : EditedSince(q)' => q \in answeredPages \/ q \in slipped'
    BY <1>4, <2>2 DEF NotionInv, PollsFollowEdits
  <2> QED
    BY <1>0, <1>5, <2>1, <2>3 DEF NotionInv, PollsFollowEdits
<1>7. WindowIsKept'
  BY <1>0, WindowStaysKept
<1> QED
  BY <1>1, <1>6, <1>7 DEF NotionInv

LEMMA ClockKeeps == ASSUME NotionInv, ClockTicks PROVE NotionInv'
<1>0. /\ clock' = clock + 1 /\ NotionTypeOK
      /\ UNCHANGED << active, editedAt, lastPollTime, requestTimestamps, caller, wakeAt, answeredPages, offered, slipped, crowded >>
  BY DEF ClockTicks, NotionInv
<1>1. NotionTypeOK'
  BY <1>0 DEF NotionTypeOK
<1>2. lastPollTime' <= clock' /\ \A p \in Pages : editedAt'[p] <= clock'
  BY <1>0 DEF NotionInv, PollsFollowEdits, NotionTypeOK
<1>3. PollsFollowEdits'
  BY <1>0, <1>2 DEF NotionInv, PollsFollowEdits, EditsAreOffered, EditedSince
<1>4. WindowIsKept'
  BY <1>0, WindowStaysKept
<1> QED
  BY <1>1, <1>3, <1>4 DEF NotionInv

(* Every step of a caller, of the poll, of a page and of the clock keeps    *)
(* the invariant.                                                           *)
LEMMA NotionInvNext == ASSUME NotionInv, [NotionNext]_nvars PROVE NotionInv'
<1>1. CASE NotionNext
  BY <1>1, RequestKeeps, EndKeeps, QueryKeeps, CandidatesKeep, PageEditKeeps, ClockKeeps DEF NotionNext
<1>2. CASE UNCHANGED nvars
  <2>1. UNCHANGED << clock, active, editedAt, lastPollTime, requestTimestamps, caller, wakeAt, answeredPages, offered,
                     slipped, crowded >>
    BY <1>2 DEF nvars
  <2>2. NotionTypeOK'
    BY <2>1 DEF NotionInv, NotionTypeOK
  <2>3. PollsFollowEdits'
    BY <2>1 DEF NotionInv, PollsFollowEdits, EditsAreOffered, EditedSince
  <2>4. WindowIsKept'
    BY <2>1, WindowStaysKept
  <2> QED
    BY <2>2, <2>3, <2>4 DEF NotionInv
<1> QED
  BY <1>1, <1>2

(* The invariant implies both promises about Notion.                        *)
LEMMA NotionInvIsTrue == ASSUME NotionInv PROVE NotionPollsAreTrue
<1>1. EditsAreOffered
  BY DEF NotionInv, PollsFollowEdits
<1>2. ThrottleHolds
  <2>1. requestTimestamps \in Seq(Nat) /\ clock \in Nat
    BY DEF NotionInv, NotionTypeOK
  <2>2. /\ Recent(requestTimestamps) \in Seq(Nat)
        /\ Len(Recent(requestTimestamps)) <= Len(requestTimestamps)
    BY <2>1, RecentIsASuffix
  <2>3. crowded \/ Len(requestTimestamps) <= MaxPerWindow
    BY DEF NotionInv, WindowIsKept
  <2>4. CASE crowded
    BY <2>4 DEF ThrottleHolds
  <2>5. CASE Len(requestTimestamps) <= MaxPerWindow
    <3> DEFINE n == Len(Recent(requestTimestamps))
    <3>1. n \in Nat /\ n <= Len(requestTimestamps) /\ Len(requestTimestamps) \in Nat
      BY <2>1, <2>2
    <3> HIDE DEF n
    <3>2. n <= MaxPerWindow
      BY <3>1, <2>5, NotionAssumption
    <3> QED
      BY <3>2 DEF ThrottleHolds, n
  <2> QED
    BY <2>3, <2>4, <2>5
<1> QED
  BY <1>1, <1>2 DEF NotionPollsAreTrue

(* For any pages, callers and throttle: notion.ts loses no edit of an       *)
(* active page - it was offered, is in the answer being read, or the next   *)
(* query will find it - but those behind the back of a query, and it keeps  *)
(* MAX_REQUESTS_PER_SECOND until a second caller calls while one waits.     *)
THEOREM NotionPollsStayTrue == NotionSpec => []NotionPollsAreTrue
  BY NotionInvInit, NotionInvNext, NotionInvIsTrue, PTL DEF NotionSpec

(* Both: what a poll of any of the three adapters returns was true          *)
(* meanwhile.                                                               *)
THEOREM PollsStayTrue == TrackerSpec /\ NotionSpec => []PollsAreTrue
  BY TrackerPollsStayTrue, NotionPollsStayTrue, PTL DEF PollsAreTrue

-----------------------------------------------------------------------------
(* Intake: an issue dispatched once is in one place; a new project of such an *)
(* issue whose creation did not break off is at its last steps or done; and *)
(* an issue past triage crosses whoever runs under its title.               *)

IntakeTypes ==
    /\ dispatches \in [IntakeIssues -> Nat]
    /\ handling \in [Dispatchers -> IntakeIssues \cup {NoIssue}]
    /\ step \in [Dispatchers -> {"no", "create", "scaffold", "close", "triaged"}]
    /\ \A d \in Dispatchers : step[d] # "no" => handling[d] \in IntakeIssues
    /\ \A d \in Dispatchers : step[d] = "no" => handling[d] = NoIssue
    /\ working \subseteq IntakeIssues
    /\ fetched \subseteq IntakeIssues

(* An issue dispatched once is with one dispatcher or with an agent.        *)
DispatchedOnceIsInOnePlace ==
    \A i \in IntakeIssues :
       /\ dispatches[i] = 0 => i \notin working \cup repos /\ \A d \in Dispatchers : handling[d] # i
       /\ dispatches[i] = 1 =>
             /\ \A d, e \in Dispatchers : handling[d] = i /\ handling[e] = i => d = e
             /\ i \in working => \A d \in Dispatchers : handling[d] # i

(* A repository whose creation did not break off is at its last steps, or   *)
(* done.                                                                    *)
ProjectsAreBeingCreated ==
    \A i \in repos \ brokenOff :
       i \in IntakeIssues /\ dispatches[i] <= 1 =>
          /\ i \notin working
          /\ \A d \in Dispatchers : handling[d] = i => step[d] \in {"scaffold", "close"}

(* Past triage, an issue crosses whoever runs under its title.              *)
TriagedTitlesDiffer ==
    \A d \in Dispatchers, j \in working :
       step[d] = "triaged" /\ j # handling[d] /\ TitleOf[j] = TitleOf[handling[d]]
       => {handling[d], j} \in crossed

IntakeInv ==
    /\ IntakeTypes
    /\ DispatchedOnceIsInOnePlace
    /\ ProjectsAreBeingCreated
    /\ TriagedTitlesDiffer
    /\ IntakeGateHolds

LEMMA IntakeStart == IntakeInit => IntakeInv
BY IntakeAssumption
   DEF IntakeInit, IntakeInv, IntakeTypes, DispatchedOnceIsInOnePlace, ProjectsAreBeingCreated, TriagedTitlesDiffer,
       IntakeGateHolds, NewProjectsGetNoAgent, RunningTitlesDiffer

(* The gate lets d go on with i, or d is done with i.                       *)
LEMMA TriageOutcome ==
    ASSUME IntakeInv, NEW d \in Dispatchers, NEW i \in IntakeIssues, Triage(d, i)
    PROVE  \/ /\ step' = [step EXCEPT ![d] = "triaged"] /\ handling' = [handling EXCEPT ![d] = i]
              /\ \A j \in working : j # i => TitleOf[j] # TitleOf[i]
           \/ step' = [step EXCEPT ![d] = "no"] /\ handling' = [handling EXCEPT ![d] = NoIssue]
BY DEF Triage, triageIssue

(* Triage of an issue whose project, if it was created, was dispatched twice *)
(* or broke off.                                                            *)
LEMMA TriageKeepsInv ==
    ASSUME IntakeInv, NEW d \in Dispatchers, NEW i \in IntakeIssues, handling[d] = i, Triage(d, i),
           brokenOff \subseteq brokenOff',
           i \in repos => dispatches[i] > 1 \/ i \in brokenOff',
           UNCHANGED << dispatches, repos, working, crossed, fetched >>
    PROVE  IntakeInv'
<1>1. CASE /\ step' = [step EXCEPT ![d] = "triaged"] /\ handling' = [handling EXCEPT ![d] = i]
           /\ \A j \in working : j # i => TitleOf[j] # TitleOf[i]
  <2>1. handling' = handling
    BY <1>1 DEF IntakeInv, IntakeTypes
  <2> QED
    BY <1>1, <2>1
       DEF IntakeInv, IntakeTypes, DispatchedOnceIsInOnePlace, ProjectsAreBeingCreated, TriagedTitlesDiffer,
           IntakeGateHolds, NewProjectsGetNoAgent, RunningTitlesDiffer
<1>2. CASE step' = [step EXCEPT ![d] = "no"] /\ handling' = [handling EXCEPT ![d] = NoIssue]
  BY <1>2, IntakeAssumption
     DEF IntakeInv, IntakeTypes, DispatchedOnceIsInOnePlace, ProjectsAreBeingCreated, TriagedTitlesDiffer,
         IntakeGateHolds, NewProjectsGetNoAgent, RunningTitlesDiffer
<1> QED
  BY <1>1, <1>2, TriageOutcome

LEMMA DispatchKeepsInv ==
    ASSUME IntakeInv, NEW d \in Dispatchers, NEW i \in IntakeIssues, dispatchIssue(d, i)
    PROVE  IntakeInv'
<1>1. /\ step[d] = "no" /\ handling[d] = NoIssue /\ i # NoIssue /\ NoIssue \notin IntakeIssues
      /\ dispatches' = [dispatches EXCEPT ![i] = @ + 1]
      /\ fetched' \subseteq fetched
      /\ UNCHANGED << closedIssues, repos, working, recentlyCompleted, brokenOff, crossed >>
  BY IntakeAssumption DEF dispatchIssue, IntakeInv, IntakeTypes
<1>2. \/ step' = [step EXCEPT ![d] = "create"] /\ handling' = [handling EXCEPT ![d] = i]
      \/ /\ step' = [step EXCEPT ![d] = "triaged"] /\ handling' = [handling EXCEPT ![d] = i]
         /\ \A j \in working : j # i => TitleOf[j] # TitleOf[i]
      \/ step' = [step EXCEPT ![d] = "no"] /\ handling' = [handling EXCEPT ![d] = NoIssue]
  BY TriageOutcome DEF dispatchIssue
<1>3. IntakeTypes'
  BY <1>1, <1>2 DEF IntakeInv, IntakeTypes
<1>4. \A j \in IntakeIssues : dispatches'[j] = IF j = i THEN dispatches[j] + 1 ELSE dispatches[j]
  BY <1>1 DEF IntakeInv, IntakeTypes
<1>5. \A e \in Dispatchers : handling'[e] = IF e = d THEN handling'[d] ELSE handling[e]
  BY <1>2 DEF IntakeInv, IntakeTypes
<1>6. handling'[d] \in {i, NoIssue}
  BY <1>2 DEF IntakeInv, IntakeTypes
<1>7. DispatchedOnceIsInOnePlace'
  <2> SUFFICES ASSUME NEW j \in IntakeIssues
               PROVE  /\ dispatches'[j] = 0 => j \notin working \cup repos /\ \A e \in Dispatchers : handling'[e] # j
                      /\ dispatches'[j] = 1 =>
                            /\ \A e, o \in Dispatchers : handling'[e] = j /\ handling'[o] = j => e = o
                            /\ j \in working => \A e \in Dispatchers : handling'[e] # j
    BY <1>1 DEF DispatchedOnceIsInOnePlace
  <2>1. dispatches[j] \in Nat
    BY DEF IntakeInv, IntakeTypes
  <2> QED
    BY <1>1, <1>4, <1>5, <1>6, <2>1 DEF IntakeInv, DispatchedOnceIsInOnePlace
<1>8. ProjectsAreBeingCreated'
  <2> SUFFICES ASSUME NEW j \in repos \ brokenOff, j \in IntakeIssues, dispatches'[j] <= 1
               PROVE  /\ j \notin working
                      /\ \A e \in Dispatchers : handling'[e] = j => step'[e] \in {"scaffold", "close"}
    BY <1>1 DEF ProjectsAreBeingCreated
  <2>1. j # i /\ dispatches[j] <= 1
    BY <1>4 DEF IntakeInv, IntakeTypes, DispatchedOnceIsInOnePlace
  <2> QED
    BY <1>1, <1>2, <1>5, <1>6, <2>1 DEF IntakeInv, IntakeTypes, ProjectsAreBeingCreated
<1>9. TriagedTitlesDiffer'
  BY <1>1, <1>2 DEF IntakeInv, IntakeTypes, TriagedTitlesDiffer
<1>10. IntakeGateHolds'
  BY <1>1, <1>4 DEF IntakeInv, IntakeTypes, IntakeGateHolds, NewProjectsGetNoAgent, RunningTitlesDiffer
<1> QED
  BY <1>3, <1>7, <1>8, <1>9, <1>10 DEF IntakeInv

LEMMA ClaimKeepsInv ==
    ASSUME IntakeInv, NEW d \in Dispatchers, claimIssue(d)
    PROVE  IntakeInv'
<1> DEFINE i == handling[d]
<1>1. /\ step[d] = "triaged" /\ i \in IntakeIssues /\ i # NoIssue /\ NoIssue \notin IntakeIssues
      /\ working' = working \cup {i}
      /\ step' = [step EXCEPT ![d] = "no"]
      /\ handling' = [handling EXCEPT ![d] = NoIssue]
      /\ UNCHANGED << closedIssues, repos, fetched, events, recentlyCompleted, dispatches, brokenOff >>
  BY IntakeAssumption DEF claimIssue, IntakeInv, IntakeTypes
<1>2. /\ crossed \subseteq crossed'
      /\ \A e \in Dispatchers \ {d} : step[e] = "triaged" => {handling[e], i} \in crossed'
  <2>1. crossed' = crossed \cup {{i, handling[e]} : e \in {e \in Dispatchers \ {d} : step[e] = "triaged"}}
    BY DEF claimIssue
  <2>2. ASSUME NEW e \in Dispatchers \ {d}, step[e] = "triaged" PROVE {handling[e], i} \in crossed'
    <3>1. {handling[e], i} = {i, handling[e]}
      OBVIOUS
    <3> QED
      BY <2>1, <2>2, <3>1
  <2> QED
    BY <2>1, <2>2
<1>3. IntakeTypes'
  BY <1>1 DEF IntakeInv, IntakeTypes
<1>4. DispatchedOnceIsInOnePlace'
  BY <1>1 DEF IntakeInv, IntakeTypes, DispatchedOnceIsInOnePlace
<1>5. ProjectsAreBeingCreated'
  BY <1>1 DEF IntakeInv, IntakeTypes, ProjectsAreBeingCreated, DispatchedOnceIsInOnePlace
<1>6. TriagedTitlesDiffer'
  BY <1>1, <1>2 DEF IntakeInv, IntakeTypes, TriagedTitlesDiffer
<1>7. NewProjectsGetNoAgent'
  BY <1>1 DEF IntakeInv, IntakeTypes, ProjectsAreBeingCreated, IntakeGateHolds, NewProjectsGetNoAgent
<1>8. RunningTitlesDiffer'
  <2> SUFFICES ASSUME NEW j \in working', NEW k \in working', j # k, TitleOf[j] = TitleOf[k]
               PROVE  {j, k} \in crossed'
    BY DEF RunningTitlesDiffer
  <2>1. CASE j \in working /\ k \in working
    BY <1>2, <2>1 DEF IntakeInv, IntakeGateHolds, RunningTitlesDiffer
  <2>2. CASE j = i
    BY <1>1, <1>2, <2>2 DEF IntakeInv, TriagedTitlesDiffer
  <2>3. CASE k = i
    <3>1. {k, j} \in crossed'
      BY <1>1, <1>2, <2>3 DEF IntakeInv, TriagedTitlesDiffer
    <3>2. {k, j} = {j, k}
      OBVIOUS
    <3> QED
      BY <3>1, <3>2
  <2> QED
    BY <1>1, <2>1, <2>2, <2>3
<1> QED
  BY <1>3, <1>4, <1>5, <1>6, <1>7, <1>8 DEF IntakeInv, IntakeGateHolds

LEMMA IntakeStep == IntakeInv /\ [IntakeNext]_ivars => IntakeInv'
<1> SUFFICES ASSUME IntakeInv, [IntakeNext]_ivars PROVE IntakeInv'
  OBVIOUS
<1>1. CASE FetchCandidates
  BY <1>1 DEF FetchCandidates, IntakeInv, IntakeTypes, DispatchedOnceIsInOnePlace, ProjectsAreBeingCreated,
     TriagedTitlesDiffer, IntakeGateHolds, NewProjectsGetNoAgent, RunningTitlesDiffer
<1>2. ASSUME NEW i \in IntakeIssues, Labelled(i) PROVE IntakeInv'
  BY <1>2 DEF Labelled, IntakeInv, IntakeTypes, DispatchedOnceIsInOnePlace, ProjectsAreBeingCreated,
     TriagedTitlesDiffer, IntakeGateHolds, NewProjectsGetNoAgent, RunningTitlesDiffer
<1>3. ASSUME NEW i \in IntakeIssues, AgentEnds(i) PROVE IntakeInv'
  BY <1>3 DEF AgentEnds, IntakeInv, IntakeTypes, DispatchedOnceIsInOnePlace, ProjectsAreBeingCreated,
     TriagedTitlesDiffer, IntakeGateHolds, NewProjectsGetNoAgent, RunningTitlesDiffer
<1>4. ASSUME NEW d \in Dispatchers, createGitHubRepo(d) PROVE IntakeInv'
  <2>1. /\ step[d] = "create" /\ handling[d] \in IntakeIssues
        /\ UNCHANGED << closedIssues, fetched, events, working, recentlyCompleted, dispatches, brokenOff, crossed >>
    BY <1>4 DEF createGitHubRepo, IntakeInv, IntakeTypes
  <2>2. CASE /\ handling[d] \notin repos
             /\ repos' = repos \cup {handling[d]}
             /\ step' = [step EXCEPT ![d] = "scaffold"]
             /\ UNCHANGED handling
    BY <2>1, <2>2 DEF IntakeInv, IntakeTypes, DispatchedOnceIsInOnePlace, ProjectsAreBeingCreated,
       TriagedTitlesDiffer, IntakeGateHolds, NewProjectsGetNoAgent, RunningTitlesDiffer
  <2>3. CASE Triage(d, handling[d]) /\ UNCHANGED repos
    <3>1. handling[d] \in repos => dispatches[handling[d]] > 1 \/ handling[d] \in brokenOff'
      BY <2>1 DEF IntakeInv, IntakeTypes, ProjectsAreBeingCreated
    <3> QED
      BY <2>1, <2>3, <3>1, TriageKeepsInv
  <2> QED
    BY <1>4, <2>2, <2>3 DEF createGitHubRepo
<1>5. ASSUME NEW d \in Dispatchers, ScaffoldAndPush(d) PROVE IntakeInv'
  <2>1. /\ step[d] = "scaffold" /\ handling[d] \in IntakeIssues
        /\ UNCHANGED << closedIssues, repos, fetched, events, working, recentlyCompleted, dispatches, crossed >>
    BY <1>5 DEF ScaffoldAndPush, IntakeInv, IntakeTypes
  <2>2. CASE step' = [step EXCEPT ![d] = "close"] /\ UNCHANGED << handling, brokenOff >>
    BY <2>1, <2>2 DEF IntakeInv, IntakeTypes, DispatchedOnceIsInOnePlace, ProjectsAreBeingCreated,
       TriagedTitlesDiffer, IntakeGateHolds, NewProjectsGetNoAgent, RunningTitlesDiffer
  <2>3. CASE Triage(d, handling[d]) /\ brokenOff' = brokenOff \cup {handling[d]}
    BY <2>1, <2>3, TriageKeepsInv
  <2> QED
    BY <1>5, <2>2, <2>3 DEF ScaffoldAndPush
<1>6. ASSUME NEW d \in Dispatchers, CloseNewProject(d) PROVE IntakeInv'
  BY <1>6, IntakeAssumption
     DEF CloseNewProject, ProjectCreated, IntakeInv, IntakeTypes, DispatchedOnceIsInOnePlace, ProjectsAreBeingCreated,
         TriagedTitlesDiffer, IntakeGateHolds, NewProjectsGetNoAgent, RunningTitlesDiffer
<1>7. ASSUME NEW d \in Dispatchers, claimIssue(d) PROVE IntakeInv'
  BY <1>7, ClaimKeepsInv
<1>8. ASSUME NEW d \in Dispatchers, NEW i \in IntakeIssues, dispatchIssue(d, i) PROVE IntakeInv'
  BY <1>8, DispatchKeepsInv
<1>9. CASE UNCHANGED ivars
  BY <1>9 DEF ivars, IntakeInv, IntakeTypes, DispatchedOnceIsInOnePlace, ProjectsAreBeingCreated,
     TriagedTitlesDiffer, IntakeGateHolds, NewProjectsGetNoAgent, RunningTitlesDiffer
<1> QED
  BY <1>1, <1>2, <1>3, <1>4, <1>5, <1>6, <1>7, <1>8, <1>9 DEF IntakeNext

(* For any issues and dispatchers: dispatchIssue (dispatcher.ts) gives an   *)
(* issue whose project create.ts created no agent, unless it was dispatched *)
(* twice or its creation broke off, and triage.ts lets two issues with one  *)
(* title run at once only if both were triaged before one was claimed.      *)
THEOREM TheIntakeGateHolds == IntakeSpec => []IntakeGateHolds
<1>1. IntakeInv => IntakeGateHolds
  BY DEF IntakeInv
<1> QED
  BY <1>1, IntakeStart, IntakeStep, PTL DEF IntakeSpec

-----------------------------------------------------------------------------
(* Reactive issues: the daily count together with the issues for patterns   *)
(* that are being created; evaluators take turns while they have not        *)
(* overlapped, and then know of every open issue for a pattern they handle. *)

(* The evaluators that are about to create an issue for a pattern.          *)
Creating == {e \in Evaluators : activity[e] = "create" /\ current[e] \in Patterns}

ReactiveTypes ==
    /\ issueCounts \in Nat
    /\ openIssues \in [Titles -> Nat]
    /\ activity \in [Evaluators -> {"no", "list", "check", "create", "ended"}]
    /\ current \in [Evaluators -> Titles \cup {NoTitle}]
    /\ anomalies \in [Evaluators -> SUBSET Patterns]
    /\ knownTitles \in [Evaluators -> SUBSET Titles]
    /\ structured \subseteq Investigations
    /\ outOfSight \subseteq Titles
    /\ \A e \in Evaluators :
          activity[e] = "create" => current[e] \in Titles /\ (e # Loop => current[e] \in Patterns)

(* The count leaves room for the issues that are being created.             *)
WithinTheDay ==
    /\ issueCounts + Cardinality(Creating) <= MaxPerDay + Cardinality(Evaluators) - 1
    /\ overlapped \/ issueCounts + Cardinality(Creating) <= MaxPerDay

(* Until evaluators overlap, one is at work.                                *)
EvaluatorsTakeTurns == overlapped \/ \A e, o \in Evaluators : AtWork(e) /\ AtWork(o) => e = o

(* An evaluator that checks or creates knows of every open issue for what   *)
(* it handles, save those the query left out.                               *)
OpenIssuesAreKnown ==
    overlapped \/ unlisted \/
       /\ \A t \in Titles \ outOfSight : openIssues[t] <= 1
       /\ \A e \in Evaluators :
             /\ activity[e] = "create" =>
                   current[e] \notin anomalies[e] /\ (current[e] \in outOfSight \/ openIssues[current[e]] = 0)
             /\ activity[e] \in {"check", "create"} =>
                   \A p \in anomalies[e] : p \in knownTitles[e] \/ p \in outOfSight \/ openIssues[p] = 0

(* The loop's own issues have one creator, the loop.                        *)
InvestigationsAreKnown ==
    unlisted \/ \A t \in Investigations \ outOfSight :
       /\ openIssues[t] <= 1
       /\ activity[Loop] = "create" /\ current[Loop] = t => openIssues[t] = 0

ReactiveInv ==
    /\ ReactiveTypes
    /\ WithinTheDay
    /\ EvaluatorsTakeTurns
    /\ OpenIssuesAreKnown
    /\ InvestigationsAreKnown

LEMMA EvaluatorsAreFinite ==
    /\ Loop \in Evaluators /\ IsFiniteSet(Evaluators)
    /\ Cardinality(Evaluators) \in Nat /\ Cardinality(Evaluators) >= 1
    /\ Cardinality({}) = 0
<1>1. Loop \in Evaluators /\ IsFiniteSet(Evaluators)
  BY ReactiveAssumption, FS_AddElement DEF Evaluators
<1>2. Cardinality(Evaluators) \in Nat /\ Cardinality(Evaluators) # 0
  BY <1>1, FS_CardinalityType, FS_EmptySet
<1> QED
  BY <1>1, <1>2, FS_EmptySet

LEMMA TitlesDiffer ==
    /\ Patterns \subseteq Titles /\ Investigations \subseteq Titles /\ NoTitle \notin Titles
    /\ Patterns \cap Investigations = {}
BY ReactiveAssumption DEF Titles, Investigations, NoTitle

LEMMA CreatingIsFinite ==
    /\ Cardinality(Creating) \in Nat
    /\ Cardinality(Creating) <= Cardinality(Evaluators)
    /\ IsFiniteSet(Creating)
BY EvaluatorsAreFinite, FS_Subset, FS_CardinalityType DEF Creating

LEMMA CreatingIsFiniteNext ==
    /\ Cardinality(Creating') \in Nat
    /\ Cardinality(Creating') <= Cardinality(Evaluators)
BY EvaluatorsAreFinite, FS_Subset, FS_CardinalityType DEF Creating

LEMMA ReactiveStart == ReactiveInit => ReactiveInv
<1> SUFFICES ASSUME ReactiveInit PROVE ReactiveInv
  OBVIOUS
<1>1. Creating = {}
  BY DEF ReactiveInit, Creating
<1> QED
  BY <1>1, EvaluatorsAreFinite, ReactiveAssumption
     DEF ReactiveInit, ReactiveInv, ReactiveTypes, WithinTheDay, EvaluatorsTakeTurns, OpenIssuesAreKnown,
         InvestigationsAreKnown, AtWork, Titles

(* An evaluation begins: nobody else is at work, or evaluators overlap.     *)
LEMMA EvaluationKeepsInv ==
    ASSUME ReactiveInv, NEW e \in Evaluators, NEW rows, BeginEvaluation(e, rows),
           activity[e] # "create",
           structured' \subseteq Investigations,
           UNCHANGED << issueVars, issueCounts, knownTitles, current, unlisted >>
    PROVE  ReactiveInv'
<1> USE DEF issueVars
<1> DEFINE next == activity'[e]
<1>1. /\ anomalies' = [anomalies EXCEPT ![e] = detectAnomalies(rows)]
      /\ detectAnomalies(rows) \subseteq Patterns
      /\ \E a \in {"check", "list"} : activity' = [activity EXCEPT ![e] = a]
      /\ next = "check" => detectAnomalies(rows) = {}
  BY DEF BeginEvaluation, detectAnomalies, ReactiveInv, ReactiveTypes
<1>2. /\ overlapped' \/ ~overlapped
      /\ overlapped' \/ \A o \in Evaluators \ {e} : ~AtWork(o)
  BY Zenon DEF BeginEvaluation
<1>3. ReactiveTypes'
  BY <1>1 DEF ReactiveInv, ReactiveTypes
<1>4. Creating' = Creating
  BY <1>1 DEF ReactiveInv, ReactiveTypes, Creating
<1>5. WithinTheDay'
  BY <1>2, <1>4, CreatingIsFinite, EvaluatorsAreFinite, ReactiveAssumption DEF ReactiveInv, ReactiveTypes, WithinTheDay
<1>6. EvaluatorsTakeTurns'
  BY <1>1, <1>2 DEF ReactiveInv, ReactiveTypes, EvaluatorsTakeTurns, AtWork
<1>7. OpenIssuesAreKnown'
  BY <1>1, <1>2 DEF ReactiveInv, ReactiveTypes, OpenIssuesAreKnown
<1>8. InvestigationsAreKnown'
  BY <1>1 DEF ReactiveInv, ReactiveTypes, InvestigationsAreKnown
<1> QED
  BY <1>3, <1>5, <1>6, <1>7, <1>8 DEF ReactiveInv

(* An evaluator that goes on, ends or lists creates nothing.                *)
LEMMA CheckKeepsInv ==
    ASSUME ReactiveInv, NEW e \in Evaluators, CheckAnomaly(e)
    PROVE  ReactiveInv'
<1>1. PICK p \in anomalies[e] :
          IF ~WithinDailyLimit(e)
          THEN anomalies' = [anomalies EXCEPT ![e] = {}] /\ UNCHANGED << activity, current >>
          ELSE /\ anomalies' = [anomalies EXCEPT ![e] = @ \ {p}]
               /\ IF p \in knownTitles[e] THEN UNCHANGED << activity, current >>
                  ELSE /\ activity' = [activity EXCEPT ![e] = "create"]
                       /\ current' = [current EXCEPT ![e] = p]
  BY DEF CheckAnomaly
<1>2. /\ activity[e] = "check" /\ p \in Patterns /\ p \in Titles
      /\ UNCHANGED << recorded, openIssues, outOfSight, issueCounts, structured, knownTitles,
                      ticks, overlapped, unlisted >>
  BY TitlesDiffer DEF CheckAnomaly, issueVars, ReactiveInv, ReactiveTypes
<1>3. CASE UNCHANGED << activity, current >>
  <2>1. \E some \in SUBSET anomalies[e] : anomalies' = [anomalies EXCEPT ![e] = some]
    BY <1>1
  <2>2. Creating' = Creating
    BY <1>3 DEF Creating
  <2> QED
    BY <1>2, <1>3, <2>1, <2>2
       DEF ReactiveInv, ReactiveTypes, WithinTheDay, EvaluatorsTakeTurns, AtWork, OpenIssuesAreKnown, InvestigationsAreKnown
<1>4. CASE ~UNCHANGED << activity, current >>
  <2>1. /\ issueCounts < MaxPerDay /\ p \notin knownTitles[e]
        /\ anomalies' = [anomalies EXCEPT ![e] = @ \ {p}]
        /\ activity' = [activity EXCEPT ![e] = "create"]
        /\ current' = [current EXCEPT ![e] = p]
    BY <1>1, <1>4 DEF WithinDailyLimit
  <2>2. ReactiveTypes'
    BY <1>2, <2>1 DEF ReactiveInv, ReactiveTypes
  <2>3. overlapped \/ Creating' = {e}
    BY <1>2, <2>1 DEF ReactiveInv, ReactiveTypes, EvaluatorsTakeTurns, Creating, AtWork
  <2>4. WithinTheDay'
    <3>1. Cardinality({e}) = 1
      BY FS_Singleton
    <3>2. issueCounts' = issueCounts /\ issueCounts \in Nat /\ issueCounts < MaxPerDay /\ MaxPerDay \in Nat
      BY <1>2, <2>1, ReactiveAssumption DEF ReactiveInv, ReactiveTypes
    <3>3. issueCounts' + Cardinality(Creating') <= MaxPerDay + Cardinality(Evaluators) - 1
      BY <3>2, CreatingIsFiniteNext, EvaluatorsAreFinite
    <3>4. Creating' = {e} => issueCounts' + Cardinality(Creating') <= MaxPerDay
      BY <3>1, <3>2
    <3> QED
      BY <1>2, <2>3, <3>3, <3>4 DEF WithinTheDay
  <2>5. EvaluatorsTakeTurns'
    BY <1>2, <2>1 DEF ReactiveInv, ReactiveTypes, EvaluatorsTakeTurns, AtWork
  <2>6. OpenIssuesAreKnown'
    BY <1>2, <2>1 DEF ReactiveInv, ReactiveTypes, OpenIssuesAreKnown
  <2>7. InvestigationsAreKnown'
    BY <1>2, <2>1, TitlesDiffer DEF ReactiveInv, ReactiveTypes, InvestigationsAreKnown
  <2> QED
    BY <2>2, <2>4, <2>5, <2>6, <2>7 DEF ReactiveInv
<1> QED
  BY <1>3, <1>4

LEMMA CreatedKeepsInv ==
    ASSUME ReactiveInv, NEW e \in Evaluators, IssueCreated(e)
    PROVE  ReactiveInv'
<1>1. PICK ok \in BOOLEAN :
          /\ openIssues' = IF ok THEN [openIssues EXCEPT ![current[e]] = @ + 1] ELSE openIssues
          /\ issueCounts' = IF ok /\ current[e] \in Patterns THEN issueCounts + 1 ELSE issueCounts
  BY DEF IssueCreated
<1>2. /\ activity[e] = "create" /\ current[e] \in Titles /\ (e # Loop => current[e] \in Patterns)
      /\ activity' = [activity EXCEPT ![e] = "check"]
      /\ current' = [current EXCEPT ![e] = NoTitle]
      /\ UNCHANGED << recorded, outOfSight, anomalies, structured, knownTitles, ticks, overlapped, unlisted >>
  BY DEF IssueCreated, ReactiveInv, ReactiveTypes
<1>3. ReactiveTypes'
  BY <1>1, <1>2 DEF ReactiveInv, ReactiveTypes
<1>4. WithinTheDay'
  <2>1. CASE current[e] \in Patterns
    <3>1. Creating' = Creating \ {e} /\ e \in Creating
      BY <1>2, <2>1 DEF Creating, ReactiveInv, ReactiveTypes
    <3>2. Cardinality(Creating') = Cardinality(Creating) - 1
      BY <3>1, CreatingIsFinite, FS_RemoveElement
    <3>3. issueCounts' \in {issueCounts, issueCounts + 1}
      BY <1>1
    <3> QED
      BY <1>2, <3>2, <3>3, CreatingIsFinite, EvaluatorsAreFinite, ReactiveAssumption DEF ReactiveInv, ReactiveTypes, WithinTheDay
  <2>2. CASE current[e] \notin Patterns
    <3>1. Creating' = Creating /\ issueCounts' = issueCounts
      BY <1>1, <1>2, <2>2, TitlesDiffer DEF Creating, ReactiveInv, ReactiveTypes
    <3> QED
      BY <1>2, <3>1 DEF ReactiveInv, WithinTheDay
  <2> QED
    BY <2>1, <2>2
<1>5. EvaluatorsTakeTurns'
  BY <1>2 DEF ReactiveInv, ReactiveTypes, EvaluatorsTakeTurns, AtWork
<1>6. openIssues' \in {openIssues, [openIssues EXCEPT ![current[e]] = @ + 1]}
  BY <1>1
<1>7. OpenIssuesAreKnown'
  BY <1>2, <1>6, TitlesDiffer DEF ReactiveInv, ReactiveTypes, OpenIssuesAreKnown, EvaluatorsTakeTurns, AtWork
<1>8. InvestigationsAreKnown'
  BY <1>2, <1>6, TitlesDiffer DEF ReactiveInv, ReactiveTypes, InvestigationsAreKnown
<1> QED
  BY <1>3, <1>4, <1>5, <1>7, <1>8 DEF ReactiveInv

LEMMA ReactiveStep == ReactiveInv /\ [ReactiveNext]_rvars => ReactiveInv'
<1> SUFFICES ASSUME ReactiveInv, [ReactiveNext]_rvars PROVE ReactiveInv'
  OBVIOUS
<1>1. CASE tick
  <2>1. detectStructuredAnomalies(recorded) \subseteq Investigations
    BY DEF detectStructuredAnomalies, Investigations
  <2> QED
    BY <1>1, <2>1, EvaluationKeepsInv, EvaluatorsAreFinite DEF tick, LoopIsIdle, AtWork
<1>2. CASE CheckStructured
  <2>1. PICK s \in structured :
          /\ structured' = structured \ {s}
          /\ \/ s \in Open /\ UNCHANGED << activity, current, unlisted, outOfSight >>
             \/ /\ \/ UNCHANGED unlisted /\ outOfSight' = outOfSight \cup ({s} \cap Open)
                   \/ unlisted' = TRUE /\ UNCHANGED outOfSight
                /\ activity' = [activity EXCEPT ![Loop] = "create"]
                /\ current' = [current EXCEPT ![Loop] = s]
    BY <1>2 DEF CheckStructured
  <2>2. /\ activity[Loop] = "check" /\ anomalies[Loop] = {} /\ s \in Investigations /\ s \in Titles
        /\ s \notin Patterns /\ Loop \in Evaluators
        /\ UNCHANGED << recorded, openIssues, issueCounts, anomalies, knownTitles, ticks, overlapped >>
    BY <1>2, TitlesDiffer, EvaluatorsAreFinite DEF CheckStructured, ReactiveInv, ReactiveTypes
  <2>3. CASE s \in Open /\ UNCHANGED << activity, current, unlisted, outOfSight >>
    <3>1. Creating' = Creating
      BY <2>3 DEF Creating
    <3> QED
      BY <2>1, <2>2, <2>3, <3>1
         DEF ReactiveInv, ReactiveTypes, WithinTheDay, EvaluatorsTakeTurns, AtWork, OpenIssuesAreKnown, InvestigationsAreKnown
  <2>4. ASSUME \/ unlisted' = TRUE /\ UNCHANGED outOfSight
               \/ UNCHANGED unlisted /\ outOfSight' = outOfSight \cup ({s} \cap Open),
               activity' = [activity EXCEPT ![Loop] = "create"],
               current' = [current EXCEPT ![Loop] = s]
        PROVE  ReactiveInv'
    <3>1. Creating' = Creating
      BY <2>2, <2>4 DEF Creating, ReactiveInv, ReactiveTypes
    <3>2. ReactiveTypes' /\ WithinTheDay' /\ EvaluatorsTakeTurns'
      BY <2>1, <2>2, <2>4, <3>1 DEF ReactiveInv, ReactiveTypes, WithinTheDay, EvaluatorsTakeTurns, AtWork
    <3>3. CASE unlisted' = TRUE
      BY <3>2, <3>3 DEF ReactiveInv, OpenIssuesAreKnown, InvestigationsAreKnown
    <3>4. CASE UNCHANGED unlisted /\ outOfSight' = outOfSight \cup ({s} \cap Open)
      <4>1. s \in outOfSight' \/ openIssues[s] = 0
        BY <2>2, <3>4 DEF Open, ReactiveInv, ReactiveTypes
      <4>2. outOfSight \subseteq outOfSight'
        BY <3>4
      <4>3. OpenIssuesAreKnown'
        BY <2>2, <2>4, <3>4, <4>1, <4>2 DEF ReactiveInv, ReactiveTypes, OpenIssuesAreKnown
      <4>4. InvestigationsAreKnown'
        BY <2>2, <2>4, <3>4, <4>1, <4>2 DEF ReactiveInv, ReactiveTypes, InvestigationsAreKnown
      <4> QED
        BY <3>2, <4>3, <4>4 DEF ReactiveInv
    <3> QED
      BY <2>4, <3>3, <3>4
  <2> QED
    BY <2>1, <2>3, <2>4
<1>3. ASSUME NEW e \in Evaluators, ListTitles(e) PROVE ReactiveInv'
  <2>1. \/ \E found \in SUBSET (anomalies[e] \cap Open) :
              /\ knownTitles' = [knownTitles EXCEPT ![e] = found]
              /\ outOfSight' = outOfSight \cup ((anomalies[e] \cap Open) \ found)
              /\ UNCHANGED unlisted
        \/ knownTitles' = [knownTitles EXCEPT ![e] = {}] /\ unlisted' = TRUE /\ UNCHANGED outOfSight
    BY <1>3 DEF ListTitles
  <2>2. /\ activity[e] = "list" /\ activity' = [activity EXCEPT ![e] = "check"]
        /\ UNCHANGED << recorded, openIssues, issueCounts, anomalies, structured, current, ticks, overlapped >>
    BY <1>3 DEF ListTitles
  <2>3. Creating' = Creating
    BY <2>2 DEF Creating, ReactiveInv, ReactiveTypes
  <2>4. ReactiveTypes'
    BY <2>1, <2>2 DEF ReactiveInv, ReactiveTypes, Open
  <2>5. WithinTheDay' /\ EvaluatorsTakeTurns'
    BY <2>2, <2>3 DEF ReactiveInv, ReactiveTypes, WithinTheDay, EvaluatorsTakeTurns, AtWork
  <2>6. CASE unlisted' = TRUE
    BY <2>4, <2>5, <2>6 DEF ReactiveInv, OpenIssuesAreKnown, InvestigationsAreKnown
  <2>7. ASSUME NEW found \in SUBSET (anomalies[e] \cap Open),
               knownTitles' = [knownTitles EXCEPT ![e] = found],
               outOfSight' = outOfSight \cup ((anomalies[e] \cap Open) \ found),
               UNCHANGED unlisted
        PROVE  ReactiveInv'
    <3>1. \A p \in anomalies[e] : p \in found \/ p \in outOfSight' \/ openIssues[p] = 0
      BY <2>7, TitlesDiffer DEF Open, ReactiveInv, ReactiveTypes
    <3>2. outOfSight \subseteq outOfSight'
      BY <2>7
    <3>3. OpenIssuesAreKnown'
      BY <2>2, <2>7, <3>1, <3>2 DEF ReactiveInv, ReactiveTypes, OpenIssuesAreKnown
    <3>4. InvestigationsAreKnown'
      BY <2>2, <2>7, <3>2 DEF ReactiveInv, ReactiveTypes, InvestigationsAreKnown
    <3> QED
      BY <2>4, <2>5, <3>3, <3>4 DEF ReactiveInv
  <2> QED
    BY <2>1, <2>6, <2>7
<1>4. ASSUME NEW e \in Evaluators, CheckAnomaly(e) PROVE ReactiveInv'
  BY <1>4, CheckKeepsInv
<1>5. ASSUME NEW e \in Evaluators, IssueCreated(e) PROVE ReactiveInv'
  BY <1>5, CreatedKeepsInv
<1>6. ASSUME NEW e \in Evaluators, EvaluationEnds(e) PROVE ReactiveInv'
  <2>1. Creating' = Creating
    BY <1>6 DEF EvaluationEnds, Creating, ReactiveInv, ReactiveTypes
  <2> QED
    BY <1>6, <2>1
       DEF EvaluationEnds, issueVars, ReactiveInv, ReactiveTypes, WithinTheDay, EvaluatorsTakeTurns, AtWork, OpenIssuesAreKnown,
           InvestigationsAreKnown
<1>7. ASSUME NEW e \in Evaluators, NEW i \in Ended, NEW status, RunEnds(e, i, status) PROVE ReactiveInv'
  BY <1>7, EvaluationKeepsInv DEF RunEnds, ReactiveInv, ReactiveTypes
<1>8. ASSUME NEW t \in Titles, CloseIssue(t) PROVE ReactiveInv'
  <2>1. Creating' = Creating
    BY <1>8 DEF CloseIssue, Creating
  <2>2. openIssues' \in [Titles -> Nat] /\ \A u \in Titles : openIssues'[u] <= openIssues[u]
    BY <1>8 DEF CloseIssue, ReactiveInv, ReactiveTypes
  <2> QED
    BY <1>8, <2>1, <2>2, TitlesDiffer
       DEF CloseIssue, ReactiveInv, ReactiveTypes, WithinTheDay, EvaluatorsTakeTurns, AtWork, OpenIssuesAreKnown,
           InvestigationsAreKnown
<1>9. CASE UNCHANGED rvars
  BY <1>9 DEF rvars, ReactiveInv, ReactiveTypes, WithinTheDay, EvaluatorsTakeTurns, AtWork, OpenIssuesAreKnown,
              InvestigationsAreKnown, Creating
<1> QED
  BY <1>1, <1>2, <1>3, <1>4, <1>5, <1>6, <1>7, <1>8, <1>9 DEF ReactiveNext

(* For any number of evaluators, patterns and titles: reactive-dispatch.ts  *)
(* and metrics-loop.ts exceed the daily limit by no more than the other     *)
(* evaluators that overlap, and open a second issue for the same failure    *)
(* only when evaluators overlapped, the titles could not be fetched, or the *)
(* query left out the open issue for its state or labels.                   *)
THEOREM ReactiveIssuesStayBounded == ReactiveSpec => []ReactiveIssuesAreBounded
<1>1. ReactiveInv => ReactiveIssuesAreBounded
  BY CreatingIsFinite, EvaluatorsAreFinite, ReactiveAssumption, TitlesDiffer
     DEF ReactiveInv, ReactiveTypes, WithinTheDay, OpenIssuesAreKnown, InvestigationsAreKnown,
         ReactiveIssuesAreBounded, DailyLimitHolds, ReactiveIssuesAreDistinct, InvestigationsAreDistinct
<1> QED
  BY <1>1, ReactiveStart, ReactiveStep, PTL DEF ReactiveSpec

-----------------------------------------------------------------------------
(* Schedules: what a tick still has to dispatch is noted as the last run and *)
(* was not started yet, and no other tick has it as well; what passed the   *)
(* gates is still to be dispatched; what was noted a tick has seen.         *)

(* A start is left for s in minute m: one, and one more after a restart.    *)
MayBeStarted(s, m) == starts[s][m] <= IF m \in restartedIn THEN 1 ELSE 0

ScheduleTypes ==
    /\ instant \in Instants
    /\ lastRunAt \in [Names -> SUBSET Instants]
    /\ tickAt \in [TickCallers -> {"idle", "fetching", "dispatching"}]
    /\ due \in [TickCallers -> SUBSET (Names \X Instants)]
    /\ admitted \in [TickCallers -> SUBSET (Names \X Instants)]
    /\ starts \in [Names -> [Instants -> Nat]]
    /\ seen \subseteq Names \X (0 .. instant)
    /\ restartedIn \subseteq 0 .. instant

(* The start of s in minute m that tick c is to dispatch is new, and c      *)
(* alone has it.                                                            *)
NewIssue(c, s, m) ==
    /\ m <= instant /\ (m = instant => m \in lastRunAt[s])
    /\ MayBeStarted(s, m)
    /\ \A e \in TickCallers : << s, m >> \in due[e] => e = c

(* Whatever a tick is to dispatch is new.                                   *)
DueIssuesAreNew ==
    \A c \in TickCallers, s \in Names, m \in Instants : << s, m >> \in due[c] => NewIssue(c, s, m)

(* A tick has seen what is noted, and what is not noted may be started.     *)
NotedRunsWereSeen ==
    \A s \in Names :
       /\ \A m \in lastRunAt[s] : << s, m >> \in seen
       /\ instant \in lastRunAt[s] \/ MayBeStarted(s, instant)
       /\ \A m \in Instants : m > instant => starts[s][m] = 0

IdleTicksHaveNothingDue == \A c \in TickCallers : tickAt[c] = "idle" => due[c] = {}

(* What passed the gates is what its tick still has to dispatch.            *)
AdmittedAreDue ==
    \A c \in TickCallers : admitted[c] \subseteq due[c] /\ (tickAt[c] # "dispatching" => admitted[c] = {})

(* s in minute m was started, will be, had no slot, was turned away, or a   *)
(* restart came between.                                                    *)
Served(s, m) ==
    \/ starts[s][m] > 0
    \/ << s, m >> \in outranked
    \/ << s, m >> \in turnedAway /\ MayBeTurnedAway(s)
    \/ \E c \in TickCallers : << s, m >> \in due[c]
    \/ \E r \in restartedIn : m <= r

ScheduleInv ==
    /\ ScheduleTypes
    /\ DueIssuesAreNew
    /\ NotedRunsWereSeen
    /\ IdleTicksHaveNothingDue
    /\ AdmittedAreDue
    /\ OneStartPerMinute
    /\ \A s \in Names, m \in Instants : << s, m >> \in seen => Served(s, m)

LEMMA ScheduleStart == SchedulesInit => ScheduleInv
BY SchedulesAssumption
   DEF SchedulesInit, ScheduleInv, ScheduleTypes, DueIssuesAreNew, NewIssue, NotedRunsWereSeen, IdleTicksHaveNothingDue,
       AdmittedAreDue, OneStartPerMinute, MayBeStarted, Instants

LEMMA EvaluateKeepsInv ==
    ASSUME ScheduleInv, NEW c \in TickCallers, evaluateSchedules(c)
    PROVE  ScheduleInv'
<1>1. PICK matching \in SUBSET Names, triggered \in SUBSET Names :
        /\ triggered = {s \in matching : instant \notin lastRunAt[s]}
        /\ lastRunAt' = Noted(triggered)
        /\ due' = [due EXCEPT ![c] = triggered \X {instant}]
        /\ seen' = seen \cup (matching \X {instant})
  BY DEF evaluateSchedules
<1>2. /\ tickAt[c] = "idle" /\ due[c] = {} /\ tickAt' = [tickAt EXCEPT ![c] = "fetching"]
      /\ UNCHANGED << instant, admitted, starts, outranked, turnedAway, restartedIn, enableTriage >>
  BY DEF evaluateSchedules, ScheduleInv, IdleTicksHaveNothingDue
<1>3. /\ instant \in Instants /\ instant \in Nat /\ instant \in 0 .. instant
      /\ \A s \in Names : lastRunAt'[s] = IF s \in triggered THEN {instant} ELSE lastRunAt[s]
      /\ \A e \in TickCallers, s \in Names, m \in Instants :
            << s, m >> \in due'[e] <=> IF e = c THEN s \in triggered /\ m = instant ELSE << s, m >> \in due[e]
      /\ \A s \in Names, m \in Instants :
            << s, m >> \in seen' <=> << s, m >> \in seen \/ (s \in matching /\ m = instant)
  BY <1>1 DEF ScheduleInv, ScheduleTypes, Noted, Instants
<1>4. ScheduleTypes'
  <2>1. triggered \X {instant} \subseteq Names \X Instants /\ matching \X {instant} \subseteq Names \X (0 .. instant)
    BY <1>1, <1>3
  <2> QED
    BY <1>1, <1>2, <1>3, <2>1 DEF ScheduleInv, ScheduleTypes, Noted
<1>5. ASSUME NEW e \in TickCallers, NEW s \in Names, NEW m \in Instants, << s, m >> \in due'[e]
      PROVE  NewIssue(e, s, m)'
  <2>1. CASE e = c
    <3>1. s \in triggered /\ m = instant /\ instant \notin lastRunAt[s]
      BY <1>1, <1>3, <1>5, <2>1
    <3>2. \A o \in TickCallers : << s, m >> \notin due[o]
      BY <3>1 DEF ScheduleInv, DueIssuesAreNew, NewIssue
    <3>3. MayBeStarted(s, m)
      BY <3>1 DEF ScheduleInv, NotedRunsWereSeen
    <3> QED
      BY <1>2, <1>3, <2>1, <3>1, <3>2, <3>3 DEF NewIssue, MayBeStarted
  <2>2. CASE e # c
    <3>1. << s, m >> \in due[e] /\ NewIssue(e, s, m)
      BY <1>3, <1>5, <2>2 DEF ScheduleInv, DueIssuesAreNew
    <3>2. m = instant => m \in lastRunAt'[s] /\ s \notin triggered
      BY <1>1, <1>3, <3>1 DEF NewIssue
    <3> QED
      BY <1>2, <1>3, <3>1, <3>2 DEF NewIssue, MayBeStarted
  <2> QED
    BY <2>1, <2>2
<1>6. NotedRunsWereSeen'
  <2> SUFFICES ASSUME NEW s \in Names
               PROVE  /\ \A m \in lastRunAt'[s] : << s, m >> \in seen'
                      /\ instant \in lastRunAt'[s] \/ MayBeStarted(s, instant)
                      /\ \A m \in Instants : m > instant => starts[s][m] = 0
    BY <1>2 DEF NotedRunsWereSeen, MayBeStarted
  <2>1. lastRunAt'[s] \subseteq Instants
    BY <1>4 DEF ScheduleTypes
  <2> QED
    BY <1>1, <1>3, <2>1 DEF ScheduleInv, NotedRunsWereSeen
<1>7. IdleTicksHaveNothingDue'
  BY <1>1, <1>2 DEF ScheduleInv, ScheduleTypes, IdleTicksHaveNothingDue
<1>8. OneStartPerMinute'
  BY <1>2 DEF ScheduleInv, OneStartPerMinute
<1>9. ASSUME NEW s \in Names, NEW m \in Instants, << s, m >> \in seen' PROVE Served(s, m)'
  <2>1. Served(s, m) => Served(s, m)'
    BY <1>2, <1>3 DEF Served, MayBeTurnedAway
  <2>2. CASE << s, m >> \in seen
    BY <2>1, <2>2 DEF ScheduleInv
  <2>3. CASE s \in triggered /\ m = instant
    BY <1>3, <2>3 DEF Served
  <2>4. CASE s \notin triggered /\ m = instant /\ s \in matching
    BY <1>1, <2>1, <2>4 DEF ScheduleInv, NotedRunsWereSeen
  <2> QED
    BY <1>3, <1>9, <2>2, <2>3, <2>4
<1>10. AdmittedAreDue'
  BY <1>1, <1>2 DEF ScheduleInv, ScheduleTypes, AdmittedAreDue
<1> QED
  BY <1>4, <1>5, <1>6, <1>7, <1>8, <1>9, <1>10 DEF ScheduleInv, DueIssuesAreNew

(* What loses its slot is outranked.                                        *)
LEMMA FetchedKeepsInv ==
    ASSUME ScheduleInv, NEW c \in TickCallers, CandidatesFetched(c)
    PROVE  ScheduleInv'
<1>1. /\ tickAt[c] = "fetching"
      /\ UNCHANGED << instant, lastRunAt, admitted, starts, seen, turnedAway, restartedIn, enableTriage >>
  BY DEF CandidatesFetched
<1>2. \/ /\ due[c] = {} /\ UNCHANGED << due, outranked >>
         /\ tickAt' = [tickAt EXCEPT ![c] = "idle"]
      \/ \E taken \in SUBSET due[c] :
            /\ due' = [due EXCEPT ![c] = taken]
            /\ outranked' = outranked \cup (due[c] \ taken)
            /\ tickAt' = [tickAt EXCEPT ![c] = "dispatching"]
  BY DEF CandidatesFetched, FetchFails, TakeSlots, kSubset
<1>3. CASE /\ due[c] = {} /\ UNCHANGED << due, outranked >>
           /\ tickAt' = [tickAt EXCEPT ![c] = "idle"]
  BY <1>1, <1>3 DEF ScheduleInv, ScheduleTypes, DueIssuesAreNew, NewIssue, NotedRunsWereSeen, IdleTicksHaveNothingDue,
                    AdmittedAreDue, OneStartPerMinute, MayBeStarted, Served, MayBeTurnedAway
<1>4. ASSUME NEW taken \in SUBSET due[c],
             due' = [due EXCEPT ![c] = taken],
             outranked' = outranked \cup (due[c] \ taken),
             tickAt' = [tickAt EXCEPT ![c] = "dispatching"]
      PROVE  ScheduleInv'
  <2>1. ScheduleTypes'
    BY <1>1, <1>4 DEF ScheduleInv, ScheduleTypes
  <2>2. \A e \in TickCallers : due'[e] \subseteq due[e]
    BY <1>4 DEF ScheduleInv, ScheduleTypes
  <2>3. ASSUME NEW e \in TickCallers, NEW s \in Names, NEW m \in Instants, << s, m >> \in due'[e]
        PROVE  NewIssue(e, s, m)'
    <3>1. NewIssue(e, s, m)
      BY <2>2, <2>3 DEF ScheduleInv, DueIssuesAreNew
    <3> QED
      BY <1>1, <2>2, <3>1 DEF NewIssue, MayBeStarted
  <2>4. NotedRunsWereSeen' /\ OneStartPerMinute'
    BY <1>1 DEF ScheduleInv, NotedRunsWereSeen, MayBeStarted, OneStartPerMinute
  <2>5. IdleTicksHaveNothingDue'
    BY <1>4, <2>2 DEF ScheduleInv, ScheduleTypes, IdleTicksHaveNothingDue
  <2>6. ASSUME NEW s \in Names, NEW m \in Instants, Served(s, m) PROVE Served(s, m)'
    BY <1>1, <1>4, <2>6 DEF ScheduleInv, ScheduleTypes, Served, MayBeTurnedAway
  <2>7. AdmittedAreDue'
    BY <1>1, <1>4 DEF ScheduleInv, ScheduleTypes, AdmittedAreDue
  <2> QED
    BY <1>1, <2>1, <2>3, <2>4, <2>5, <2>6, <2>7 DEF ScheduleInv, DueIssuesAreNew
<1> QED
  BY <1>2, <1>3, <1>4

(* What the gates turn away is no longer to be dispatched.                  *)
LEMMA GatesKeepInv ==
    ASSUME ScheduleInv, NEW c \in TickCallers, TriageScheduled(c)
    PROVE  ScheduleInv'
<1>1. /\ tickAt[c] = "dispatching" /\ admitted[c] = {}
      /\ UNCHANGED << instant, lastRunAt, tickAt, starts, seen, outranked, restartedIn, enableTriage >>
  BY DEF TriageScheduled
<1>2. PICK d \in due[c] :
         \/ admitted' = [admitted EXCEPT ![c] = {d}] /\ UNCHANGED << due, turnedAway >>
         \/ /\ MayBeTurnedAway(d[1])
            /\ due' = [due EXCEPT ![c] = @ \ {d}]
            /\ turnedAway' = turnedAway \cup {d}
            /\ UNCHANGED admitted
  BY DEF TriageScheduled
<1>3. CASE admitted' = [admitted EXCEPT ![c] = {d}] /\ UNCHANGED << due, turnedAway >>
  <2>1. ScheduleTypes' /\ AdmittedAreDue'
    BY <1>1, <1>3 DEF ScheduleInv, ScheduleTypes, AdmittedAreDue
  <2> QED
    BY <1>1, <1>3, <2>1 DEF ScheduleInv, DueIssuesAreNew, NewIssue, NotedRunsWereSeen, IdleTicksHaveNothingDue,
                            OneStartPerMinute, MayBeStarted, Served, MayBeTurnedAway
<1>4. CASE /\ MayBeTurnedAway(d[1])
           /\ due' = [due EXCEPT ![c] = @ \ {d}]
           /\ turnedAway' = turnedAway \cup {d}
           /\ UNCHANGED admitted
  <2>1. PICK s \in Names, m \in Instants : d = << s, m >>
    BY DEF ScheduleInv, ScheduleTypes
  <2>2. \A e \in TickCallers, t \in Names, n \in Instants :
           << t, n >> \in due'[e] <=> << t, n >> \in due[e] /\ ~(e = c /\ t = s /\ n = m)
    BY <1>4, <2>1 DEF ScheduleInv, ScheduleTypes
  <2>3. ScheduleTypes'
    BY <1>1, <1>4 DEF ScheduleInv, ScheduleTypes
  <2>4. AdmittedAreDue' /\ IdleTicksHaveNothingDue'
    BY <1>1, <1>4 DEF ScheduleInv, ScheduleTypes, AdmittedAreDue, IdleTicksHaveNothingDue
  <2>5. ASSUME NEW e \in TickCallers, NEW t \in Names, NEW n \in Instants, << t, n >> \in due'[e]
        PROVE  NewIssue(e, t, n)'
    <3>1. << t, n >> \in due[e] /\ NewIssue(e, t, n)
      BY <2>2, <2>5 DEF ScheduleInv, DueIssuesAreNew
    <3> QED
      BY <1>1, <2>2, <3>1 DEF NewIssue, MayBeStarted
  <2>6. NotedRunsWereSeen' /\ OneStartPerMinute'
    BY <1>1 DEF ScheduleInv, NotedRunsWereSeen, MayBeStarted, OneStartPerMinute
  <2>7. ASSUME NEW t \in Names, NEW n \in Instants, Served(t, n) PROVE Served(t, n)'
    <3>1. CASE t = s /\ n = m
      <4>1. << s, m >> \in turnedAway' /\ MayBeTurnedAway(s)
        BY <1>4, <2>1
      <4> QED
        BY <1>1, <3>1, <4>1 DEF Served, MayBeTurnedAway
    <3>2. CASE ~(t = s /\ n = m)
      BY <1>1, <1>4, <2>2, <2>7, <3>2 DEF Served, MayBeTurnedAway
    <3> QED
      BY <3>1, <3>2
  <2> QED
    BY <1>1, <2>3, <2>4, <2>5, <2>6, <2>7 DEF ScheduleInv, DueIssuesAreNew
<1> QED
  BY <1>2, <1>3, <1>4

LEMMA DispatchDueKeepsInv ==
    ASSUME ScheduleInv, NEW c \in TickCallers, DispatchScheduled(c)
    PROVE  ScheduleInv'
<1>1. UNCHANGED << instant, lastRunAt, tickAt, seen, outranked, turnedAway, restartedIn, enableTriage >>
  BY DEF DispatchScheduled
<1>2. ASSUME NEW d \in admitted[c],
             due' = [due EXCEPT ![c] = @ \ {d}],
             admitted' = [admitted EXCEPT ![c] = {}],
             starts' = [starts EXCEPT ![d[1]][d[2]] = @ + 1]
      PROVE  ScheduleInv'
  <2>0. d \in due[c]
    BY DEF ScheduleInv, AdmittedAreDue
  <2>1. PICK s \in Names, m \in Instants : d = << s, m >>
    BY <2>0 DEF ScheduleInv, ScheduleTypes
  <2>2. /\ starts' \in [Names -> [Instants -> Nat]]
        /\ \A t \in Names, n \in Instants :
              starts'[t][n] = IF t = s /\ n = m THEN starts[t][n] + 1 ELSE starts[t][n]
    BY <1>2, <2>1 DEF ScheduleInv, ScheduleTypes
  <2>3. \A e \in TickCallers, t \in Names, n \in Instants :
           << t, n >> \in due'[e] <=> << t, n >> \in due[e] /\ ~(e = c /\ t = s /\ n = m)
    BY <1>2, <2>1 DEF ScheduleInv, ScheduleTypes
  <2>4. /\ m <= instant /\ (m = instant => m \in lastRunAt[s])
        /\ MayBeStarted(s, m)
        /\ \A e \in TickCallers : << s, m >> \in due[e] => e = c
    BY <2>0, <2>1 DEF ScheduleInv, DueIssuesAreNew, NewIssue
  <2>5. ScheduleTypes'
    BY <1>1, <1>2, <2>2 DEF ScheduleInv, ScheduleTypes
  <2>6. ASSUME NEW e \in TickCallers, NEW t \in Names, NEW n \in Instants, << t, n >> \in due'[e]
        PROVE  NewIssue(e, t, n)'
    <3>1. << t, n >> \in due[e] /\ NewIssue(e, t, n)
      BY <2>3, <2>6 DEF ScheduleInv, DueIssuesAreNew
    <3>2. ~(t = s /\ n = m)
      BY <2>3, <2>4, <2>6, <3>1
    <3> QED
      BY <1>1, <2>2, <2>3, <3>1, <3>2 DEF NewIssue, MayBeStarted
  <2>7. NotedRunsWereSeen'
    BY <1>1, <2>2, <2>4 DEF ScheduleInv, ScheduleTypes, NotedRunsWereSeen, MayBeStarted, Instants
  <2>8. IdleTicksHaveNothingDue'
    BY <1>1, <1>2 DEF ScheduleInv, ScheduleTypes, IdleTicksHaveNothingDue
  <2>9. OneStartPerMinute'
    BY <1>1, <2>2, <2>4 DEF ScheduleInv, ScheduleTypes, OneStartPerMinute, MayBeStarted
  <2>10. ASSUME NEW t \in Names, NEW n \in Instants, Served(t, n) PROVE Served(t, n)'
    <3>1. CASE t = s /\ n = m
      BY <2>2, <3>1 DEF ScheduleInv, ScheduleTypes, Served
    <3>2. CASE ~(t = s /\ n = m)
      BY <1>1, <2>2, <2>3, <2>10, <3>2 DEF Served, MayBeTurnedAway
    <3> QED
      BY <3>1, <3>2
  <2>11. AdmittedAreDue'
    BY <1>1, <1>2 DEF ScheduleInv, ScheduleTypes, AdmittedAreDue
  <2> QED
    BY <1>1, <2>5, <2>6, <2>7, <2>8, <2>9, <2>10, <2>11 DEF ScheduleInv, DueIssuesAreNew
<1> QED
  BY <1>2 DEF DispatchScheduled

LEMMA ScheduleStep == ScheduleInv /\ [SchedulesNext]_scheduleVars => ScheduleInv'
<1> SUFFICES ASSUME ScheduleInv, [SchedulesNext]_scheduleVars PROVE ScheduleInv'
  OBVIOUS
<1>1. CASE MinutePasses
  <2>1. /\ instant' = instant + 1 /\ instant \in Nat /\ instant' \in Instants
        /\ UNCHANGED << lastRunAt, tickAt, due, admitted, starts, seen, outranked, turnedAway, restartedIn, enableTriage >>
    BY <1>1, SchedulesAssumption DEF MinutePasses, ScheduleInv, ScheduleTypes, Instants
  <2>2. ScheduleTypes'
    BY <2>1 DEF ScheduleInv, ScheduleTypes
  <2>3. ASSUME NEW e \in TickCallers, NEW s \in Names, NEW m \in Instants, << s, m >> \in due'[e]
        PROVE  NewIssue(e, s, m)'
    <3>1. NewIssue(e, s, m) /\ m \in Nat
      BY <2>1, <2>3 DEF ScheduleInv, DueIssuesAreNew, Instants
    <3> QED
      BY <2>1, <3>1 DEF NewIssue, MayBeStarted
  <2>4. NotedRunsWereSeen'
    BY <2>1, SchedulesAssumption DEF ScheduleInv, ScheduleTypes, NotedRunsWereSeen, MayBeStarted, Instants
  <2> QED
    BY <2>1, <2>2, <2>3, <2>4 DEF ScheduleInv, DueIssuesAreNew, IdleTicksHaveNothingDue, AdmittedAreDue,
                                  OneStartPerMinute, Served, MayBeTurnedAway
<1>2. CASE WorkerEnds
  BY <1>2 DEF WorkerEnds, ScheduleInv, ScheduleTypes, DueIssuesAreNew, NewIssue, NotedRunsWereSeen,
              IdleTicksHaveNothingDue, AdmittedAreDue, OneStartPerMinute, MayBeStarted, Served, MayBeTurnedAway
<1>3. CASE ProcessRestarts
  <2>1. \A s \in Names, m \in Instants : starts[s][m] <= 1
    BY <1>3 DEF ProcessRestarts, ScheduleInv, OneStartPerMinute
  <2>2. /\ restartedIn = {} /\ restartedIn' = {instant}
        /\ lastRunAt' = [s \in Names |-> {}] /\ due' = [c \in TickCallers |-> {}]
        /\ tickAt' = [c \in TickCallers |-> "idle"] /\ admitted' = [c \in TickCallers |-> {}]
        /\ UNCHANGED << instant, starts, seen, outranked, turnedAway, enableTriage >>
    BY <1>3 DEF ProcessRestarts
  <2>3. instant \in Nat /\ instant \in 0 .. instant
    BY DEF ScheduleInv, ScheduleTypes, Instants
  <2>4. ScheduleTypes'
    BY <2>2, <2>3 DEF ScheduleInv, ScheduleTypes
  <2>5. DueIssuesAreNew' /\ IdleTicksHaveNothingDue' /\ AdmittedAreDue'
    BY <2>2 DEF DueIssuesAreNew, IdleTicksHaveNothingDue, AdmittedAreDue
  <2>6. NotedRunsWereSeen'
    BY <2>1, <2>2 DEF ScheduleInv, ScheduleTypes, NotedRunsWereSeen, MayBeStarted
  <2>7. OneStartPerMinute'
    BY <2>1, <2>2 DEF ScheduleInv, ScheduleTypes, OneStartPerMinute
  <2>8. ASSUME NEW s \in Names, NEW m \in Instants, << s, m >> \in seen' PROVE Served(s, m)'
    <3>1. m <= instant
      BY <2>2, <2>8 DEF ScheduleInv, ScheduleTypes
    <3> QED
      BY <2>2, <3>1 DEF Served
  <2> QED
    BY <2>4, <2>5, <2>6, <2>7, <2>8 DEF ScheduleInv
<1>4. ASSUME NEW c \in TickCallers, evaluateSchedules(c) PROVE ScheduleInv'
  BY <1>4, EvaluateKeepsInv
<1>5. ASSUME NEW c \in TickCallers, CandidatesFetched(c) PROVE ScheduleInv'
  BY <1>5, FetchedKeepsInv
<1>6. ASSUME NEW c \in TickCallers, DispatchScheduled(c) PROVE ScheduleInv'
  BY <1>6, DispatchDueKeepsInv
<1>7. ASSUME NEW c \in TickCallers, TriageScheduled(c) PROVE ScheduleInv'
  BY <1>7, GatesKeepInv
<1>8. ASSUME NEW c \in TickCallers, TickEnds(c) PROVE ScheduleInv'
  <2>1. ScheduleTypes' /\ AdmittedAreDue' /\ IdleTicksHaveNothingDue'
    BY <1>8 DEF TickEnds, ScheduleInv, ScheduleTypes, AdmittedAreDue, IdleTicksHaveNothingDue
  <2> QED
    BY <1>8, <2>1 DEF TickEnds, ScheduleInv, DueIssuesAreNew, NewIssue, NotedRunsWereSeen, OneStartPerMinute,
                      MayBeStarted, Served, MayBeTurnedAway
<1>9. CASE UNCHANGED scheduleVars
  BY <1>9 DEF scheduleVars, ScheduleInv, ScheduleTypes, DueIssuesAreNew, NewIssue, NotedRunsWereSeen,
              IdleTicksHaveNothingDue, AdmittedAreDue, OneStartPerMinute, MayBeStarted, Served, MayBeTurnedAway
<1> QED
  BY <1>1, <1>2, <1>3, <1>4, <1>5, <1>6, <1>7, <1>8, <1>9 DEF SchedulesNext

(* For any schedules, ticks and restarts: scheduler.ts starts a schedule    *)
(* once in a minute, or twice around a restart in that minute, and starts   *)
(* every one a tick found due, unless slots ran out, dispatcher.ts turned   *)
(* it away - the project flow, or triage.ts when it is enabled - or a       *)
(* restart came between.                                                    *)
THEOREM SchedulesStayKept == SchedulesSpec => []SchedulesAreKept
<1>1. ScheduleInv => SchedulesAreKept
  <2> SUFFICES ASSUME ScheduleInv, NEW d \in seen
               PROVE  \/ starts[d[1]][d[2]] > 0
                      \/ d \in outranked
                      \/ d \in turnedAway /\ MayBeTurnedAway(d[1])
                      \/ \E c \in TickCallers : d \in due[c]
                      \/ \E r \in restartedIn : d[2] <= r
    BY DEF ScheduleInv, SchedulesAreKept, DueSchedulesAreServed
  <2>1. PICK s \in Names, m \in Instants : d = << s, m >>
    <3>1. seen \subseteq Names \X Instants
      BY SchedulesAssumption DEF ScheduleInv, ScheduleTypes, Instants
    <3> QED
      BY <3>1
  <2> QED
    BY <2>1 DEF ScheduleInv, Served
<1> QED
  BY <1>1, ScheduleStart, ScheduleStep, PTL DEF SchedulesSpec

-----------------------------------------------------------------------------
(* Commands: of the queue's runs only the one that is executed is shown as  *)
(* running or cancelled.                                                    *)

RowStatuses ==
    {"absent", "queued", "running", "cancelled", "completed", "failed", "cost_ceiling_exceeded"}

Comments ==
    {Idle} \cup [at : {"posted", "allowed"}, issue : ChatIssues, cmd : {"run", "stop", "other"}]

(* The types of the commands and of the rows they touch.                    *)
ChatTypes ==
    /\ agentsOn \in [Dispatchable -> Nat]
    /\ row \in [RowIds -> RowStatuses]
    /\ line \in Seq(QueueRuns)
    /\ executed \subseteq QueueRuns
    /\ handler \in [Commenters -> Comments]

(* The row of a run that is neither waiting nor finished.                   *)
OnlyExecutedRunsAreShown(rows, runs) ==
    /\ rows \in [RowIds -> RowStatuses]
    /\ \A r, s \in runs : r = s
    /\ \A r \in QueueRuns : rows[r] \in {"running", "cancelled"} => r \in runs

ChatInv ==
    /\ ChatTypes
    /\ OneAgentEach
    /\ OnlyExecutedRunsAreShown(row, executed)

LEMMA ChatStart == ChatInit => ChatInv
<1> SUFFICES ASSUME ChatInit PROVE ChatInv
  OBVIOUS
<1>1. Idle \in Comments /\ "absent" \in RowStatuses /\ << >> \in Seq(QueueRuns)
  BY DEF Comments, RowStatuses
<1>2. ChatTypes
  BY <1>1 DEF ChatInit, ChatTypes
<1> QED
  BY <1>2 DEF ChatInit, ChatInv, OneAgentEach, OnlyExecutedRunsAreShown, ChatTypes, RowIds

(* A statement about the row of an agent, of the run that is executed, or one *)
(* that shows neither.                                                      *)
LEMMA RowStatements ==
    ASSUME NEW rows, NEW runs, OnlyExecutedRunsAreShown(rows, runs),
           NEW r \in RowIds, NEW status \in RowStatuses,
           r \in QueueRuns => r \in runs \/ status \notin {"running", "cancelled"}
    PROVE  /\ OnlyExecutedRunsAreShown(insert(rows, r, status), runs)
           /\ OnlyExecutedRunsAreShown(updateStatus(rows, r, status), runs)
<1>1. OnlyExecutedRunsAreShown([rows EXCEPT ![r] = status], runs)
  BY DEF OnlyExecutedRunsAreShown, RowIds
<1> QED
  BY <1>1 DEF insert, updateStatus

(* The queue shows as running what it takes.                                *)
LEMMA TakeNextShows ==
    ASSUME NEW rows, NEW runs \in Seq(QueueRuns), NEW busy \in SUBSET QueueRuns,
           OnlyExecutedRunsAreShown(rows, busy), TakeNext(rows, runs, busy)
    PROVE  /\ line' \in Seq(QueueRuns) /\ executed' \subseteq QueueRuns
           /\ OnlyExecutedRunsAreShown(row', executed')
<1>1. CASE busy # {} \/ runs = << >>
  BY <1>1 DEF TakeNext
<1>2. CASE busy = {} /\ runs # << >>
  <2>1. Head(runs) \in QueueRuns /\ Tail(runs) \in Seq(QueueRuns) /\ Head(runs) \in RowIds
    BY <1>2 DEF RowIds
  <2>2. /\ row' = updateStatus(rows, Head(runs), "running")
        /\ line' = Tail(runs) /\ executed' = {Head(runs)}
    BY <1>2 DEF TakeNext
  <2>3. OnlyExecutedRunsAreShown(rows, {Head(runs)}) /\ "running" \in RowStatuses
    BY <1>2 DEF OnlyExecutedRunsAreShown, RowStatuses
  <2>4. OnlyExecutedRunsAreShown(row', executed')
    BY <2>1, <2>2, <2>3, RowStatements
  <2> QED
    BY <2>1, <2>2, <2>4
<1> QED
  BY <1>1, <1>2

(* Dispatching what has no agent gives it one.                              *)
LEMMA DispatchedKeepsOne ==
    ASSUME ChatTypes, OneAgentEach, NEW k \in Dispatchable, Dispatched(k)
    PROVE  agentsOn' \in [Dispatchable -> Nat] /\ OneAgentEach'
BY DEF ChatTypes, OneAgentEach, Dispatched, MayClaim

LEMMA ChatStep == ChatInv /\ [ChatNext]_chatVars => ChatInv'
<1> SUFFICES ASSUME ChatInv, [ChatNext]_chatVars PROVE ChatInv'
  OBVIOUS
<1>1. ASSUME NEW k \in Dispatchable, Deliver(k) PROVE ChatInv'
  BY <1>1 DEF Deliver, ChatInv, ChatTypes, OneAgentEach, OnlyExecutedRunsAreShown
<1>2. ASSUME NEW k \in Dispatchable, HandleDelivery(k) PROVE ChatInv'
  BY <1>2, DispatchedKeepsOne DEF HandleDelivery, ChatInv, ChatTypes, OnlyExecutedRunsAreShown
<1>3. ASSUME NEW k \in Dispatchable, RecordAgent(k) PROVE ChatInv'
  <2>1. k \in RowIds /\ k \notin QueueRuns /\ "running" \in RowStatuses
    BY ChatOpsAssumption DEF RowIds, RowStatuses
  <2>2. OnlyExecutedRunsAreShown(row', executed)
    BY <1>3, <2>1, RowStatements DEF RecordAgent, ChatInv
  <2> QED
    BY <1>3, <2>2 DEF RecordAgent, ChatInv, ChatTypes, OneAgentEach, OnlyExecutedRunsAreShown
<1>4. ASSUME NEW k \in Dispatchable, AgentIsDone(k) PROVE ChatInv'
  <2>1. k \in RowIds /\ k \notin QueueRuns /\ "cost_ceiling_exceeded" \in RowStatuses
    BY ChatOpsAssumption DEF RowIds, RowStatuses
  <2>2. OnlyExecutedRunsAreShown(row', executed)
    BY <1>4, <2>1, RowStatements DEF AgentIsDone, ChatInv
  <2> QED
    BY <1>4, <2>2 DEF AgentIsDone, ChatInv, ChatTypes, OneAgentEach, OnlyExecutedRunsAreShown
<1>5. ASSUME NEW h \in Commenters, CheckPermission(h) PROVE ChatInv'
  <2>1. handler[h] \in [at : {"posted", "allowed"}, issue : ChatIssues, cmd : {"run", "stop", "other"}]
    BY <1>5 DEF CheckPermission, ChatInv, ChatTypes, Comments, Idle
  <2>3. PICK next \in {[handler[h] EXCEPT !.at = "allowed"], Idle} : handler' = [handler EXCEPT ![h] = next]
    BY <1>5 DEF CheckPermission
  <2>4. next \in Comments
    BY <2>1, <2>3 DEF Comments
  <2>5. handler' \in [Commenters -> Comments]
    BY <2>3, <2>4 DEF ChatInv, ChatTypes
  <2> QED
    BY <1>5, <2>5 DEF CheckPermission, ChatInv, ChatTypes, OneAgentEach, OnlyExecutedRunsAreShown
<1>6. ASSUME NEW h \in Commenters, RunCommand(h) PROVE ChatInv'
  <2>1. /\ handler[h].issue \in ChatIssues /\ handler[h].issue \in Dispatchable
        /\ handler' = [handler EXCEPT ![h] = Idle]
        /\ UNCHANGED << delivered, undelivered, commentsLeft, line, executed >>
    BY <1>6 DEF RunCommand, ChatInv, ChatTypes, Dispatchable, Comments, Idle
  <2>2. handler' \in [Commenters -> Comments]
    BY <2>1 DEF ChatInv, ChatTypes, Comments
  <2>3. agentsOn' \in [Dispatchable -> Nat] /\ OneAgentEach'
    BY <1>6, <2>1, DispatchedKeepsOne DEF RunCommand, ChatInv, ChatTypes, OneAgentEach
  <2>4. row' = row \/ \E r \in StopTargets(handler[h].issue) : row' = updateStatus(row, r, "cancelled")
    BY <1>6 DEF RunCommand, StopRun
  <2>5. ASSUME NEW r \in StopTargets(handler[h].issue), row' = updateStatus(row, r, "cancelled")
        PROVE  OnlyExecutedRunsAreShown(row', executed)
    <3>1. r \in QueueRuns /\ r \in RowIds /\ row[r] = "running" /\ "cancelled" \in RowStatuses
      BY DEF StopTargets, findByStatus, RowStatuses
    <3>2. r \in executed
      BY <3>1 DEF ChatInv, OnlyExecutedRunsAreShown
    <3> QED
      BY <2>5, <3>1, <3>2, RowStatements DEF ChatInv
  <2>6. OnlyExecutedRunsAreShown(row', executed)
    BY <2>4, <2>5 DEF ChatInv
  <2> QED
    BY <2>1, <2>2, <2>3, <2>6 DEF ChatInv, ChatTypes, OnlyExecutedRunsAreShown
<1>7. ASSUME NEW h \in Commenters, NEW i \in ChatIssues, NEW cmd \in {"run", "stop", "other"},
             CommentPosted(h, i, cmd)
      PROVE  ChatInv'
  <2>1. [at |-> "posted", issue |-> i, cmd |-> cmd] \in Comments
    BY DEF Comments
  <2>2. handler' \in [Commenters -> Comments]
    BY <1>7, <2>1 DEF CommentPosted, ChatInv, ChatTypes
  <2> QED
    BY <1>7, <2>2 DEF CommentPosted, ChatInv, ChatTypes, OneAgentEach, OnlyExecutedRunsAreShown
<1>8. ASSUME NEW r \in QueueRuns, SubmitRun(r) PROVE ChatInv'
  <2>1. /\ TakeNext(insert(row, r, "queued"), Append(line, r), executed)
        /\ UNCHANGED << delivered, undelivered, handler, commentsLeft, agentsOn, unrecorded >>
    BY <1>8 DEF SubmitRun
  <2>2. OnlyExecutedRunsAreShown(insert(row, r, "queued"), executed) /\ r \in RowIds
    <3>1. r \in RowIds /\ "queued" \in RowStatuses
      BY DEF RowIds, RowStatuses
    <3> QED
      BY <3>1, RowStatements DEF ChatInv
  <2>3. Append(line, r) \in Seq(QueueRuns) /\ executed \in SUBSET QueueRuns
    BY DEF ChatInv, ChatTypes
  <2> QED
    BY <2>1, <2>2, <2>3, TakeNextShows DEF ChatInv, ChatTypes, OneAgentEach, OnlyExecutedRunsAreShown
<1>9. ASSUME NEW r \in QueueRuns, RunIsDone(r) PROVE ChatInv'
  <2>1. PICK outcome \in {"completed", "failed"} : TakeNext(updateStatus(row, r, OutcomeOf(r, outcome)), line, {})
    BY <1>9 DEF RunIsDone
  <2>2. OnlyExecutedRunsAreShown(updateStatus(row, r, OutcomeOf(r, outcome)), {})
    <3>1. r \in executed /\ r \in RowIds /\ outcome \in RowStatuses
      BY <1>9 DEF RunIsDone, RowIds, RowStatuses
    <3>2. OnlyExecutedRunsAreShown(updateStatus(row, r, outcome), executed)
      BY <3>1, RowStatements DEF ChatInv
    <3>3. row[r] # "absent" => updateStatus(row, r, outcome)[r] = outcome
      BY <3>1 DEF updateStatus, ChatInv, ChatTypes
    <3>4. row[r] = "absent" => updateStatus(row, r, outcome)[r] = "absent"
      BY DEF updateStatus
    <3> QED
      BY <3>1, <3>2, <3>3, <3>4 DEF OnlyExecutedRunsAreShown, OutcomeOf
  <2> QED
    BY <1>9, <2>1, <2>2, TakeNextShows DEF RunIsDone, ChatInv, ChatTypes, OneAgentEach, OnlyExecutedRunsAreShown
<1>10. CASE UNCHANGED chatVars
  BY <1>10 DEF chatVars, ChatInv, ChatTypes, OneAgentEach, OnlyExecutedRunsAreShown
<1> QED
  BY <1>1, <1>2, <1>3, <1>4, <1>5, <1>6, <1>7, <1>8, <1>9, <1>10 DEF ChatNext

(* For any issues, commenters, queued runs and events: a webhook or a       *)
(* command of command-handler.ts starts no second agent for an issue or a   *)
(* build, and a run that /stop shows as cancelled is one that is executed.  *)
THEOREM CommandsStaySafe == ChatSpec => []CommandsAreSafe
<1>1. ChatInv => CommandsAreSafe
  BY DEF ChatInv, ChatTypes, OnlyExecutedRunsAreShown, CommandsAreSafe, CancelledRunsGoOn
<1> QED
  BY <1>1, ChatStart, ChatStep, PTL DEF ChatSpec

-----------------------------------------------------------------------------
(* Rollups: what an entry shows as closed is done; while rollups have not   *)
(* overlapped there is one at a time and one comment; and while nothing     *)
(* disturbed them, the rollup under way and the comment show the one entry. *)

RollupRecords ==
    {NoRollup} \cup
    [at : {"find", "write"}, entry : 1 .. entries, shows : SUBSET SubIssues, comment : Nat]

RollupTypes ==
    /\ entry \in 0 .. entries /\ entries \in 0 .. MaxEntries
    /\ childStates \in [1 .. MaxEntries -> SUBSET SubIssues]
    /\ closedInGitHub \subseteq SubIssues
    /\ returns \in [SubIssues -> Nat]
    /\ rollup \in [SubIssues -> RollupRecords]
    /\ posted \in 0 .. MaxPosted
    /\ progress \in [1 .. MaxPosted -> SUBSET SubIssues]

(* A child an entry shows as closed has returned or was closed on GitHub.   *)
ShownAsClosedIsDone ==
    /\ \A e \in 1 .. MaxEntries : \A k \in childStates[e] : returns[k] > 0 \/ k \in closedInGitHub
    /\ ParentClosesLast

(* The progress comments nobody deleted.                                    *)
LiveComments == (1 .. posted) \ deleted

(* Until rollups overlap there is one at a time and one live comment, which *)
(* it found.                                                                *)
OneRollupAtATime ==
    rollupsOverlapped \/
       /\ \A k, j \in SubIssues : rollup[k] # NoRollup /\ rollup[j] # NoRollup => k = j
       /\ \A c, d \in LiveComments : c = d
       /\ \A k \in SubIssues : rollup[k].at = "write" =>
             IF rollup[k].comment = 0 THEN LiveComments = {} ELSE rollup[k].comment \in 1 .. posted

(* Undisturbed, the rollup and the comment show the one entry.              *)
UndisturbedRollupsShowTheEntry ==
    rollupsOverlapped \/ disturbed \/
       /\ deleted = {} /\ entry = entries /\ entries <= 1 /\ posted <= entries
       /\ \A k \in SubIssues : rollup[k] # NoRollup => rollup[k].shows = childStates[entry]
       /\ (\A k \in SubIssues : rollup[k] = NoRollup) /\ posted > 0 => progress[posted] = childStates[entry]

RollupInv ==
    /\ RollupTypes
    /\ ShownAsClosedIsDone
    /\ OneRollupAtATime
    /\ UndisturbedRollupsShowTheEntry

(* A set of numbers has a smallest one.                                     *)
LEMMA SmallestComment ==
    ASSUME NEW T \in SUBSET Nat, T # {}
    PROVE  Min(T) \in T /\ \A y \in T : Min(T) <= y
<1>1. \E x \in T : \A y \in T : ~(<< y, x >> \in OpToRel(<, Nat))
  BY NatLessThanWellFounded, WFMin
<1>2. PICK x \in T : \A y \in T : ~(<< y, x >> \in OpToRel(<, Nat))
  BY <1>1
<1>3. ASSUME NEW y \in T PROVE x <= y
  <2>1. << y, x >> \in Nat \X Nat /\ << y, x >>[1] = y /\ << y, x >>[2] = x
    OBVIOUS
  <2>2. ~(y < x)
    BY <1>2, <2>1 DEF OpToRel
  <2> QED
    BY <2>2
<1> QED
  BY <1>3 DEF Min

(* No rollup is told from every rollup.                                     *)
LEMMA NoneIsNoRecord ==
    /\ NoRollup.at = "none" /\ NoRollup \in RollupRecords /\ NoRollup \in RollupRecords'
    /\ \A r \in RollupRecords : r # NoRollup =>
          r \in [at : {"find", "write"}, entry : 1 .. entries, shows : SUBSET SubIssues, comment : Nat]
BY DEF RollupRecords, NoRollup

LEMMA RollupStart == RollupInit => RollupInv
BY ParentRollupAssumption, NoneIsNoRecord
   DEF RollupInit, RollupInv, RollupTypes, ShownAsClosedIsDone, ParentClosesLast, OneRollupAtATime, LiveComments,
       UndisturbedRollupsShowTheEntry

(* The rollup of k goes on with r, and the others where they are.           *)
LEMMA RollupGoesOn ==
    ASSUME RollupInv, NEW k \in SubIssues, NEW r \in RollupRecords, rollup' = [rollup EXCEPT ![k] = r], entries' = entries
    PROVE  /\ rollup' \in [SubIssues -> RollupRecords']
           /\ rollup'[k] = r /\ \A j \in SubIssues : j # k => rollup'[j] = rollup[j]
BY DEF RollupInv, RollupTypes, RollupRecords

LEMMA TriggerKeepsInv ==
    ASSUME RollupInv, NEW k \in SubIssues, triggerParentRollup(k)
    PROVE  RollupInv'
<1>1. /\ rollup[k] = NoRollup /\ returns' = [returns EXCEPT ![k] = @ + 1]
      /\ UNCHANGED << entry, entries, closedInGitHub, posted, progress, deleted, parentClosed, disturbed >>
  BY DEF triggerParentRollup
<1>2. /\ returns' \in [SubIssues -> Nat] /\ returns'[k] > 0
      /\ \A j \in SubIssues : returns[j] > 0 => returns'[j] > 0
  BY <1>1 DEF RollupInv, RollupTypes
<1>3. CASE entry = 0
  BY <1>1, <1>2, <1>3
     DEF triggerParentRollup, RollupInv, RollupTypes, RollupRecords, ShownAsClosedIsDone, ParentClosesLast, OneRollupAtATime,
         LiveComments, UndisturbedRollupsShowTheEntry
<1>4. CASE entry # 0
  <2> DEFINE r == [at |-> "find", entry |-> entry, comment |-> 0, shows |-> childStates[entry] \cup {k}]
  <2>1. entry \in 1 .. MaxEntries /\ entry \in 1 .. entries /\ r \in RollupRecords /\ r # NoRollup
    <3>1. entry \in 1 .. MaxEntries /\ entry \in 1 .. entries
      BY <1>4, ParentRollupAssumption DEF RollupInv, RollupTypes
    <3>2. childStates[entry] \cup {k} \subseteq SubIssues
      BY <3>1 DEF RollupInv, RollupTypes
    <3>3. r \in [at : {"find", "write"}, entry : 1 .. entries, shows : SUBSET SubIssues, comment : Nat]
      BY <3>1, <3>2
    <3>4. r # NoRollup
      BY NoneIsNoRecord
    <3> QED
      BY <3>1, <3>3, <3>4 DEF RollupRecords
  <2>2. childStates' = [childStates EXCEPT ![entry] = @ \cup {k}] /\ rollup' = [rollup EXCEPT ![k] = r]
    BY <1>4 DEF triggerParentRollup, buildSubIssueProgressComment
  <2>3. /\ rollupsOverlapped' \/ ~rollupsOverlapped
        /\ rollupsOverlapped' \/ \A j \in SubIssues : rollup[j] = NoRollup
    BY <1>4, Zenon DEF triggerParentRollup
  <2>4. /\ rollup' \in [SubIssues -> RollupRecords']
        /\ rollup'[k] = r /\ \A j \in SubIssues : j # k => rollup'[j] = rollup[j]
    BY <1>1, <2>1, <2>2, RollupGoesOn
  <2>5. /\ childStates' \in [1 .. MaxEntries -> SUBSET SubIssues]
        /\ \A e \in 1 .. MaxEntries : childStates'[e] = IF e = entry THEN childStates[e] \cup {k} ELSE childStates[e]
    BY <2>1, <2>2 DEF RollupInv, RollupTypes
  <2>6. RollupTypes'
    BY <1>1, <1>2, <2>4, <2>5 DEF RollupInv, RollupTypes
  <2>7. ShownAsClosedIsDone'
    BY <1>1, <1>2, <2>5 DEF RollupInv, RollupTypes, ShownAsClosedIsDone, ParentClosesLast
  <2>8. OneRollupAtATime'
    BY <1>1, <2>3, <2>4, NoneIsNoRecord DEF RollupInv, OneRollupAtATime, LiveComments
  <2>9. UndisturbedRollupsShowTheEntry'
    <3> SUFFICES ASSUME ~rollupsOverlapped', ~disturbed
                 PROVE  /\ \A j \in SubIssues : rollup'[j] # NoRollup => rollup'[j].shows = childStates'[entry]
                        /\ ~ \A j \in SubIssues : rollup'[j] = NoRollup
      BY <1>1, <2>3 DEF RollupInv, UndisturbedRollupsShowTheEntry
    <3>1. r.shows = childStates'[entry]
      BY <2>1, <2>5
    <3> QED
      BY <2>1, <2>3, <2>4, <3>1
  <2> QED
    BY <2>6, <2>7, <2>8, <2>9 DEF RollupInv
<1> QED
  BY <1>3, <1>4

LEMMA FindKeepsInv ==
    ASSUME RollupInv, NEW k \in SubIssues, findRollupCommentId(k)
    PROVE  RollupInv'
<1> DEFINE c == Found(LiveComments)
           r == [rollup[k] EXCEPT !.at = "write", !.comment = c]
<1>1. /\ rollup[k].at = "find" /\ rollup[k] # NoRollup
      /\ rollup' = [rollup EXCEPT ![k].at = "write", ![k].comment = c]
      /\ UNCHANGED << entry, entries, childStates, closedInGitHub, returns, posted, progress, deleted,
                      parentClosed, rollupsOverlapped, disturbed >>
  BY NoneIsNoRecord DEF findRollupCommentId, LiveComments
<1>2. c \in Nat /\ IF c = 0 THEN LiveComments = {} ELSE c \in 1 .. posted
  <2>1. LiveComments \in SUBSET Nat /\ 0 \notin LiveComments /\ LiveComments \subseteq 1 .. posted
    BY DEF RollupInv, RollupTypes, LiveComments
  <2>2. CASE LiveComments = {}
    BY <2>2 DEF Found
  <2>3. CASE LiveComments # {}
    BY <2>1, <2>3, SmallestComment DEF Found
  <2> QED
    BY <2>2, <2>3
<1>3. r \in RollupRecords /\ r.at = "write" /\ r.comment = c /\ r.shows = rollup[k].shows
  BY <1>1, <1>2, NoneIsNoRecord DEF RollupInv, RollupTypes, RollupRecords
<1>4. rollup' = [rollup EXCEPT ![k] = r]
  BY <1>1 DEF RollupInv, RollupTypes
<1>5. /\ rollup' \in [SubIssues -> RollupRecords']
      /\ rollup'[k] = r /\ \A j \in SubIssues : j # k => rollup'[j] = rollup[j]
  BY <1>1, <1>3, <1>4, RollupGoesOn
<1>6. \A j \in SubIssues : rollup'[j] # NoRollup <=> rollup[j] # NoRollup
  BY <1>1, <1>3, <1>5, NoneIsNoRecord
<1>7. RollupTypes'
  BY <1>1, <1>5 DEF RollupInv, RollupTypes
<1>8. ShownAsClosedIsDone'
  BY <1>1 DEF RollupInv, ShownAsClosedIsDone, ParentClosesLast
<1>9. OneRollupAtATime'
  <2> SUFFICES ASSUME ~rollupsOverlapped, NEW j \in SubIssues, rollup'[j].at = "write"
               PROVE  IF rollup'[j].comment = 0 THEN LiveComments = {} ELSE rollup'[j].comment \in 1 .. posted
    BY <1>1, <1>6 DEF RollupInv, OneRollupAtATime, LiveComments
  <2>1. CASE j = k
    BY <1>2, <1>3, <1>5, <2>1
  <2>2. CASE j # k
    BY <1>5, <2>2 DEF RollupInv, OneRollupAtATime
  <2> QED
    BY <2>1, <2>2
<1>10. UndisturbedRollupsShowTheEntry'
  BY <1>1, <1>3, <1>5, <1>6 DEF RollupInv, UndisturbedRollupsShowTheEntry
<1> QED
  BY <1>7, <1>8, <1>9, <1>10 DEF RollupInv

LEMMA UpsertKeepsInv ==
    ASSUME RollupInv, NEW k \in SubIssues, upsertRollupComment(k)
    PROVE  RollupInv'
<1> DEFINE r == rollup[k]
           c == IF r.comment = 0 THEN posted + 1 ELSE r.comment
<1>1. /\ r.at = "write" /\ c \notin deleted /\ c <= MaxPosted
      /\ progress' = [progress EXCEPT ![c] = r.shows]
      /\ posted' = IF r.comment = 0 THEN posted + 1 ELSE posted
      /\ rollup' = [rollup EXCEPT ![k] = NoRollup]
      /\ UNCHANGED << entry, entries, childStates, closedInGitHub, returns, deleted, rollupsOverlapped, disturbed >>
  BY DEF upsertRollupComment
<1>2. parentClosed' => parentClosed \/ allChildrenTerminal(childStates[r.entry])
  BY Zenon DEF upsertRollupComment
<1>3. /\ r # NoRollup /\ r.entry \in 1 .. MaxEntries /\ r.shows \subseteq SubIssues /\ r.comment \in Nat
      /\ posted \in 0 .. MaxPosted /\ MaxPosted \in Nat
  BY <1>1, NoneIsNoRecord, ParentRollupAssumption DEF RollupInv, RollupTypes
<1>4. c \in 1 .. MaxPosted /\ posted' \in 0 .. MaxPosted /\ posted' \in {posted, posted + 1}
  BY <1>1, <1>3
<1>5. /\ progress' \in [1 .. MaxPosted -> SUBSET SubIssues] /\ progress'[c] = r.shows
  BY <1>1, <1>3, <1>4 DEF RollupInv, RollupTypes
<1>6. /\ rollup' \in [SubIssues -> RollupRecords']
      /\ rollup'[k] = NoRollup /\ \A j \in SubIssues : j # k => rollup'[j] = rollup[j]
  BY <1>1, NoneIsNoRecord, RollupGoesOn
<1>7. RollupTypes'
  BY <1>1, <1>4, <1>5, <1>6 DEF RollupInv, RollupTypes
<1>8. ShownAsClosedIsDone'
  BY <1>1, <1>2, <1>3 DEF RollupInv, ShownAsClosedIsDone, ParentClosesLast, allChildrenTerminal
<1>9. rollupsOverlapped \/
        (/\ \A j \in SubIssues : rollup'[j] = NoRollup
         /\ IF r.comment = 0 THEN LiveComments = {} ELSE c \in 1 .. posted)
  BY <1>1, <1>3, <1>6 DEF RollupInv, OneRollupAtATime
<1>10. rollupsOverlapped \/ \A d, e \in LiveComments' : d = e
  <2>1. CASE r.comment = 0
    <3>1. LiveComments' \subseteq LiveComments \cup {posted + 1}
      BY <1>1, <1>3, <2>1 DEF LiveComments
    <3> QED
      BY <1>9, <2>1, <3>1
  <2>2. CASE r.comment # 0
    BY <1>1, <2>2 DEF LiveComments, RollupInv, OneRollupAtATime
  <2> QED
    BY <2>1, <2>2
<1>11. OneRollupAtATime'
  BY <1>1, <1>9, <1>10, NoneIsNoRecord DEF OneRollupAtATime
<1>12. UndisturbedRollupsShowTheEntry'
  <2> SUFFICES ASSUME ~rollupsOverlapped, ~disturbed
               PROVE  /\ posted' <= entries /\ progress'[posted'] = childStates[entry]
                      /\ \A j \in SubIssues : rollup'[j] = NoRollup
    BY <1>1, <1>9 DEF RollupInv, UndisturbedRollupsShowTheEntry
  <2>1. /\ deleted = {} /\ entry = entries /\ entries <= 1 /\ posted <= entries
        /\ r.shows = childStates[entry]
    BY <1>3 DEF RollupInv, UndisturbedRollupsShowTheEntry
  <2>2. r.entry \in 1 .. entries /\ entries \in Nat
    BY <1>3, NoneIsNoRecord, ParentRollupAssumption DEF RollupInv, RollupTypes
  <2>3. entries = 1
    BY <2>1, <2>2
  <2>4. c = posted' /\ posted' <= 1
    <3>1. CASE r.comment = 0
      <4>1. posted = 0
        BY <1>3, <1>9, <2>1, <3>1 DEF LiveComments
      <4> QED
        BY <1>1, <3>1, <4>1
    <3>2. CASE r.comment # 0
      BY <1>1, <1>3, <1>9, <2>1, <2>3, <3>2
    <3> QED
      BY <3>1, <3>2
  <2> QED
    BY <1>5, <1>9, <2>1, <2>3, <2>4
<1> QED
  BY <1>7, <1>8, <1>11, <1>12 DEF RollupInv

LEMMA RollupStep == RollupInv /\ [RollupNext]_rollupVars => RollupInv'
<1> SUFFICES ASSUME RollupInv, [RollupNext]_rollupVars PROVE RollupInv'
  OBVIOUS
<1>1. CASE PollStoresEntry
  <2>1. /\ entries < MaxEntries
        /\ entries' = entries + 1 /\ entry' = entries + 1
        /\ childStates' = [childStates EXCEPT ![entries + 1] = closedInGitHub]
        /\ UNCHANGED << closedInGitHub, returns, rollup, posted, progress, deleted, parentClosed, rollupsOverlapped >>
    BY <1>1 DEF PollStoresEntry
  <2>2. disturbed' \/ (~disturbed /\ ~(entries > 0))
    BY <1>1, Zenon DEF PollStoresEntry
  <2>3. entries \in Nat /\ MaxEntries \in Nat /\ entries + 1 \in 1 .. MaxEntries
    BY <2>1, ParentRollupAssumption DEF RollupInv, RollupTypes
  <2>4. RollupRecords \subseteq RollupRecords'
    BY <2>1, <2>3 DEF RollupRecords
  <2>5. RollupTypes'
    BY <2>1, <2>3, <2>4 DEF RollupInv, RollupTypes
  <2>6. ShownAsClosedIsDone'
    BY <2>1, <2>3 DEF RollupInv, RollupTypes, ShownAsClosedIsDone, ParentClosesLast
  <2>7. OneRollupAtATime'
    BY <2>1 DEF RollupInv, OneRollupAtATime, LiveComments
  <2>8. UndisturbedRollupsShowTheEntry'
    <3> SUFFICES ASSUME ~rollupsOverlapped, ~disturbed, entries = 0
                 PROVE  UndisturbedRollupsShowTheEntry'
      BY <2>1, <2>2, <2>3 DEF UndisturbedRollupsShowTheEntry
    <3>1. \A k \in SubIssues : rollup[k] = NoRollup
      BY NoneIsNoRecord DEF RollupInv, RollupTypes
    <3>2. posted = 0 /\ deleted = {}
      BY ParentRollupAssumption DEF RollupInv, RollupTypes, UndisturbedRollupsShowTheEntry
    <3> QED
      BY <2>1, <2>3, <3>1, <3>2 DEF UndisturbedRollupsShowTheEntry
  <2> QED
    BY <2>5, <2>6, <2>7, <2>8 DEF RollupInv
<1>2. CASE EntryExpires
  BY <1>2 DEF EntryExpires, RollupInv, RollupTypes, RollupRecords, ShownAsClosedIsDone, ParentClosesLast, OneRollupAtATime,
     LiveComments, UndisturbedRollupsShowTheEntry
<1>3. CASE UserDeletesComment
  BY <1>3 DEF UserDeletesComment, RollupInv, RollupTypes, RollupRecords, ShownAsClosedIsDone, ParentClosesLast, OneRollupAtATime,
     LiveComments, UndisturbedRollupsShowTheEntry
<1>4. ASSUME NEW k \in SubIssues, ChildIsClosed(k) PROVE RollupInv'
  BY <1>4 DEF ChildIsClosed, RollupInv, RollupTypes, RollupRecords, ShownAsClosedIsDone, ParentClosesLast, OneRollupAtATime,
     LiveComments, UndisturbedRollupsShowTheEntry
<1>5. ASSUME NEW k \in SubIssues, triggerParentRollup(k) PROVE RollupInv'
  BY <1>5, TriggerKeepsInv
<1>6. ASSUME NEW k \in SubIssues, RollupFails(k) PROVE RollupInv'
  <2>1. /\ rollup' \in [SubIssues -> RollupRecords']
        /\ rollup'[k] = NoRollup /\ \A j \in SubIssues : j # k => rollup'[j] = rollup[j]
    BY <1>6, NoneIsNoRecord, RollupGoesOn DEF RollupFails
  <2> QED
    BY <1>6, <2>1, NoneIsNoRecord
       DEF RollupFails, RollupInv, RollupTypes, ShownAsClosedIsDone, ParentClosesLast, OneRollupAtATime,
           LiveComments, UndisturbedRollupsShowTheEntry
<1>7. ASSUME NEW k \in SubIssues, findRollupCommentId(k) PROVE RollupInv'
  BY <1>7, FindKeepsInv
<1>8. ASSUME NEW k \in SubIssues, upsertRollupComment(k) PROVE RollupInv'
  BY <1>8, UpsertKeepsInv
<1>9. CASE UNCHANGED rollupVars
  BY <1>9 DEF rollupVars, RollupInv, RollupTypes, RollupRecords, ShownAsClosedIsDone, ParentClosesLast, OneRollupAtATime,
     LiveComments, UndisturbedRollupsShowTheEntry
<1> QED
  BY <1>1, <1>2, <1>3, <1>4, <1>5, <1>6, <1>7, <1>8, <1>9 DEF RollupNext

(* For any sub-issues, cache entries and interleaving of rollups: sub-      *)
(* issue-rollup.ts closes the parent only after every child is done, keeps  *)
(* one progress comment unless rollups overlap, and that comment then shows *)
(* what is done.                                                            *)
THEOREM RollupsStayHonest == RollupSpec => []RollupsAreHonest
<1>1. ASSUME RollupInv PROVE OneProgressComment
  <2>1. CASE rollupsOverlapped
    BY <2>1 DEF OneProgressComment
  <2>2. CASE LiveComments = {}
    <3>1. Cardinality(LiveComments) = 0
      BY <2>2, FS_EmptySet
    <3> QED
      BY <3>1 DEF OneProgressComment, LiveComments
  <2>3. CASE ~rollupsOverlapped /\ LiveComments # {}
    <3>1. PICK c \in LiveComments : LiveComments = {c}
      BY <1>1, <2>3 DEF RollupInv, OneRollupAtATime
    <3>2. Cardinality(LiveComments) = 1
      BY <3>1, FS_Singleton
    <3> QED
      BY <3>2 DEF OneProgressComment, LiveComments
  <2> QED
    BY <2>1, <2>2, <2>3
<1>2. RollupInv => ParentClosesLast /\ ProgressIsShown
  BY DEF RollupInv, ShownAsClosedIsDone, UndisturbedRollupsShowTheEntry, ProgressIsShown
<1>3. RollupInv => RollupsAreHonest
  BY <1>1, <1>2 DEF RollupsAreHonest
<1> QED
  BY <1>3, RollupStart, RollupStep, PTL DEF RollupSpec

-----------------------------------------------------------------------------
(* Descriptions: what the daemon is about to replace it has read, and it was *)
(* no person's text; a text names the other issue, or none, only for the    *)
(* reasons the property allows, and the merge closes what the text names.   *)

ClosesFor(text) ==
    /\ text.closes = OtherIssue => text.by = "person" \/ titleNumber = OtherIssue
    /\ text.closes = NoNumber => text.by # "worker"

DescriptionInv ==
    /\ enrichment.at \in {"link", "patch"} => enrichment.saw.by \in {"empty", "worker", "daemon"}
    /\ enrichment.link \in {NoNumber, titleNumber}
    /\ description # NoText => ClosesFor(description)
    /\ DescriptionsAreRespected

LEMMA DescriptionStart == DescriptionInit => DescriptionInv
BY DEF DescriptionInit, DescriptionInv, Resting, DescriptionsAreRespected, ReadTextsAreKept, ClosesAreExplained

(* What a writer, a person or the daemon puts there is accounted for.       *)
LEMMA TextsAreExplained ==
    /\ ClosesFor(PRText("worker", OwnIssue))
    /\ \A issue \in {OwnIssue, NoNumber} : ClosesFor(PRText("dispatcher", issue))
    /\ ClosesFor(EmptyText)
    /\ \A issue : ClosesFor(PRText("person", issue))
    /\ \A issue \in {NoNumber, titleNumber} : ClosesFor(PRText("daemon", issue))
BY PRDescriptionsAssumption DEF ClosesFor, PRText, EmptyText

(* What the daemon replaces, it did not read, or it was its own to replace. *)
LEMMA EnrichKeepsReadTexts ==
    ASSUME DescriptionInv, enrichPRDescription
    PROVE  ReadTextsAreKept'
<1>1. enrichment.saw = description => description.by \notin {"person", "dispatcher"}
  BY DEF DescriptionInv, enrichPRDescription
<1> SUFFICES ASSUME NEW l \in lost', l \notin lost PROVE ~l.read
  BY DEF DescriptionInv, DescriptionsAreRespected, ReadTextsAreKept
<1>2. /\ description.by \in {"person", "dispatcher"}
      /\ l = [text |-> description, read |-> enrichment.saw = description]
  BY DEF enrichPRDescription
<1>3. ~(enrichment.saw = description)
  BY <1>1, <1>2
<1>4. l.read = (enrichment.saw = description)
  BY <1>2, Zenon
<1> QED
  BY <1>3, <1>4, Zenon

LEMMA DescriptionStep == DescriptionInv /\ [DescriptionNext]_prTextVars => DescriptionInv'
<1> SUFFICES ASSUME DescriptionInv, [DescriptionNext]_prTextVars PROVE DescriptionInv'
  OBVIOUS
<1> USE DEF DescriptionInv, DescriptionsAreRespected, ReadTextsAreKept, ClosesAreExplained, ClosesFor
<1>1. CASE ListPullRequests
  BY <1>1 DEF ListPullRequests
<1>2. CASE createPRForBranch
  BY <1>2, TextsAreExplained DEF createPRForBranch, Create
<1>3. CASE buildRichPRBody
  BY <1>3, TextsAreExplained DEF buildRichPRBody, Create
<1>4. CASE WorkerCreatesNone
  BY <1>4 DEF WorkerCreatesNone
<1>5. CASE PersonWrites
  BY <1>5, TextsAreExplained DEF PersonWrites
<1>6. CASE fetchPRDescription
  BY <1>6 DEF fetchPRDescription, MayReplace, Resting
<1>7. CASE fetchLinkedIssue
  <2>1. PICK issue \in {titleNumber, NoNumber} :
          enrichment' = [enrichment EXCEPT !.at = "patch", !.link = issue]
    BY <1>7 DEF fetchLinkedIssue
  <2> QED
    BY <1>7, <2>1 DEF fetchLinkedIssue
<1>8. CASE enrichPRDescription
  BY <1>8, EnrichKeepsReadTexts, TextsAreExplained DEF enrichPRDescription, Resting
<1>9. CASE EnrichmentFails
  BY <1>9 DEF EnrichmentFails, Resting
<1>10. CASE MergeCloses
  BY <1>10 DEF MergeCloses, Exists
<1>11. CASE UNCHANGED prTextVars
  BY <1>11 DEF prTextVars
<1> QED
  BY <1>1, <1>2, <1>3, <1>4, <1>5, <1>6, <1>7, <1>8, <1>9, <1>10, <1>11 DEF DescriptionNext

(* Whatever order the worker, the dispatcher, the daemon and people write a *)
(* description in, the daemon replaces no text of theirs that it has read,  *)
(* and a merge closes the issue it should, or for a reason (pr-description). *)
THEOREM TextsAreRespected == DescriptionSpec => []DescriptionsAreRespected
<1>1. DescriptionInv => DescriptionsAreRespected
  BY DEF DescriptionInv
<1> QED
  BY <1>1, DescriptionStart, DescriptionStep, PTL DEF DescriptionSpec

-----------------------------------------------------------------------------
(* The graphs of a poll (IssueGraph): the search leaves an issue only when  *)
(* all it leads to is left, so what was left can be started in some order   *)
(* and a neighbour on the path is a cycle; the count meets what waits and   *)
(* nothing else.                                                            *)

(* What waits for an issue is closed under waiting.                         *)
LEMMA WaitForIsClosed ==
    ASSUME NEW edges, NEW n
    PROVE  /\ WaitFor(edges, n) \subseteq DOMAIN edges
           /\ Dependents(edges, n) \subseteq WaitFor(edges, n)
           /\ \A k \in WaitFor(edges, n) : Dependents(edges, k) \subseteq WaitFor(edges, n)
BY DEF WaitFor, Dependents

(* And every closed set of issues contains it.                              *)
LEMMA WaitForIsLeast ==
    ASSUME NEW edges, NEW n, NEW S \in SUBSET DOMAIN edges,
           Dependents(edges, n) \subseteq S, \A k \in S : Dependents(edges, k) \subseteq S
    PROVE  WaitFor(edges, n) \subseteq S
BY DEF WaitFor

-----------------------------------------------------------------------------
Colours == {"white", "gray", "black"}

(* The values of both analyses.                                             *)
GraphTypeOK ==
    /\ analysis \in {"cycles", "report", "reported", "scores", "scored"}
    /\ known \subseteq GraphIssues
    /\ adj \in [known -> SUBSET known]
    /\ colour \in [known -> Colours]
    /\ path \in Seq(known)
    /\ remaining \in [known -> SUBSET known]
    /\ parent \in [known -> known \cup {NoIssueId}]
    /\ cycle \in Seq(known)
    /\ analysis = "report" => cycle # << >>
    /\ counting \in known \cup {NoIssueId}
    /\ stack \in SUBSET known
    /\ reachable \in SUBSET known
    /\ DOMAIN scores \subseteq known

(* An analysis begins with values of the right types.                       *)
LEMMA GraphTypeInit ==
    ASSUME NEW listed \in SUBSET GraphIssues, NEW blocked_by \in [listed -> SUBSET GraphIssues],
           analysis \in {"cycles", "scores"}, AnalysisInit(blocked_by)
    PROVE  GraphTypeOK
<1>1. /\ adj = [i \in listed |-> blocked_by[i] \cap listed]
      /\ known = listed
  BY DEF AnalysisInit, localDeps, known
<1>2. path \in Seq(known) /\ cycle \in Seq(known)
  BY DEF AnalysisInit
<1> QED
  BY <1>1, <1>2 DEF AnalysisInit, GraphTypeOK, Colours

(* A step of either analysis keeps them.                                    *)
LEMMA GraphTypeNext == ASSUME GraphTypeOK, [GraphNext]_graphVars PROVE GraphTypeOK'
<1> USE DEF GraphTypeOK, Colours
<1>a. adj' = adj => known' = known
  BY DEF known
<1>1. ASSUME NEW n \in known, SearchFrom(n) PROVE GraphTypeOK'
  <2>1. Append(path, n) \in Seq(known)
    BY AppendProperties
  <2> QED
    BY <1>1, <1>a, <2>1 DEF SearchFrom, dfs, countVars
<1>2. ASSUME NEW m \in known, LookAt(m) PROVE GraphTypeOK'
  <2> DEFINE n == Last(path)
  <2>1. n \in known
    BY <1>2 DEF LookAt, Last
  <2>2. Append(path, m) \in Seq(known) /\ << m, n >> \in Seq(known)
    BY AppendProperties, <2>1
  <2>3. [remaining EXCEPT ![n] = @ \ {m}] \in [known -> SUBSET known]
    BY <2>1
  <2> HIDE DEF n
  <2>4. CASE IsOnPath(colour[m])
    <3>1. /\ cycle' = << m, n >> /\ analysis' = "report"
          /\ UNCHANGED << adj, colour, path, remaining, parent, countVars >>
      BY <1>2, <2>4 DEF LookAt, n
    <3>2. << m, n >> # << >>
      OBVIOUS
    <3> QED
      BY <1>a, <2>2, <3>1, <3>2 DEF countVars
  <2>5. CASE ~ IsOnPath(colour[m]) /\ colour[m] = "white"
    <3>1. /\ parent' = [parent EXCEPT ![m] = n]
          /\ dfs(m, [remaining EXCEPT ![n] = @ \ {m}])
          /\ UNCHANGED << adj, analysis, cycle, countVars >>
      BY <1>2, <2>5 DEF LookAt, n
    <3>2. parent' \in [known -> known \cup {NoIssueId}]
      BY <2>1, <3>1
    <3> QED
      BY <1>a, <2>2, <2>3, <3>1, <3>2 DEF dfs, countVars
  <2>6. CASE ~ IsOnPath(colour[m]) /\ colour[m] # "white"
    BY <1>2, <1>a, <2>1, <2>2, <2>3, <2>6 DEF LookAt, dfs, countVars, n
  <2> QED
    BY <2>4, <2>5, <2>6
<1>3. ASSUME Leave PROVE GraphTypeOK'
  <2>1. Front(path) \in Seq(known)
    BY <1>3 DEF Leave, Front
  <2> QED
    BY <1>3, <1>a, <2>1 DEF Leave, countVars
<1>4. ASSUME ReadParent PROVE GraphTypeOK'
  <2>1. CASE UNCHANGED cycle
    BY <1>4, <1>a, <2>1 DEF ReadParent, countVars
  <2>2. CASE ~ UNCHANGED cycle
    <3>1. PICK up : up = parent[Last(cycle)]
      OBVIOUS
    <3>2. cycle' = Append(cycle, up) /\ up # NoIssueId /\ Last(cycle) # cycle[1] /\ UNCHANGED analysis
      BY <1>4, <2>2, <3>1 DEF ReadParent
    <3>3. Last(cycle) \in known /\ up \in known
      BY <1>4, <3>1, <3>2 DEF ReadParent, Last
    <3>4. Append(cycle, up) \in Seq(known) /\ Append(cycle, up) # << >>
      BY <3>3, AppendProperties
    <3> QED
      BY <1>4, <1>a, <3>2, <3>4 DEF ReadParent, countVars
  <2> QED
    BY <2>1, <2>2
<1>5. ASSUME NEW n \in known, countDescendants(n) PROVE GraphTypeOK'
  BY <1>5, <1>a DEF countDescendants, searchVars, Dependents, known
<1>6. ASSUME NEW c \in known, Pop(c) PROVE GraphTypeOK'
  <2>1. Dependents(adj, c) \subseteq known
    BY DEF Dependents, known
  <2>2. stack' \subseteq known /\ reachable' \subseteq known
    BY <1>6, <2>1 DEF Pop
  <2> QED
    BY <1>6, <1>a, <2>2 DEF Pop, searchVars
<1>7. ASSUME IsCounted PROVE GraphTypeOK'
  BY <1>7, <1>a DEF IsCounted, searchVars
<1>8. CASE NoCycle
  BY <1>8, <1>a DEF NoCycle, searchVars, countVars
<1>9. CASE AllAreCounted
  BY <1>9, <1>a DEF AllAreCounted, searchVars, countVars
<1>10. CASE UNCHANGED graphVars
  BY <1>10, <1>a DEF graphVars, searchVars, countVars
<1> QED
  BY <1>1, <1>2, <1>3, <1>4, <1>5, <1>6, <1>7, <1>8, <1>9, <1>10 DEF GraphNext

-----------------------------------------------------------------------------

(* The search has left n for good.                                          *)
IsBlack(n) == colour[n] = "black"
Black == {n \in known : IsBlack(n)}

(* The gray issues are the calls under way, each once.                      *)
PathIsGray == \A n \in known : colour[n] = "gray" <=> \E i \in 1 .. Len(path) : path[i] = n

(* No issue is on the path twice.                                           *)
PathIsOnce == \A i, j \in 1 .. Len(path) : path[i] = path[j] => i = j

(* Each call on the path was made by the one before it.                     *)
PathIsCalls ==
    /\ path # << >> => parent[path[1]] = NoIssueId
    /\ \A i \in 1 .. Len(path) - 1 : path[i + 1] \in adj[path[i]] /\ parent[path[i + 1]] = path[i]
    /\ \A n \in known : colour[n] = "white" => parent[n] = NoIssueId

(* What a call has looked at is done, but for the call it waits for.        *)
LookedAtIsBlack ==
    \A i \in 1 .. Len(path) : \A m \in adj[path[i]] \ remaining[path[i]] :
        IsBlack(m) \/ (i < Len(path) /\ m = path[i + 1])

(* What a call has yet to look at are neighbours.                           *)
RemainingIsAdjacent == \A n \in known : remaining[n] \subseteq adj[n]

(* What was left leads to nothing else, and can be started in some order.   *)
BlackIsClosed == \A n \in Black : adj[n] \subseteq Black
BlackIsOrdered == \A S \in SUBSET Black : ~ Stuck(S)

(* The inductive invariant of the search.                                   *)
SearchInv ==
    /\ PathIsGray /\ PathIsOnce /\ PathIsCalls /\ LookedAtIsBlack /\ RemainingIsAdjacent
    /\ BlackIsClosed /\ BlackIsOrdered

(* The cycle so far is the end of the path, down from its last call, after  *)
(* the issue k on the path that the search came back to.                    *)
CycleFrom(k) ==
    /\ k \in 1 .. Len(path) /\ Len(cycle) >= 2 /\ Len(cycle) - 2 <= Len(path) - k
    /\ cycle[1] = path[k] /\ path[k] \in adj[path[Len(path)]]
    /\ \A j \in 2 .. Len(cycle) : cycle[j] = path[Len(path) - j + 2]
    /\ Len(cycle) = 2 \/ Len(cycle) - 2 < Len(path) - k

(* Once a neighbour on the path was met, the cycle follows the path;        *)
(* before, there is none.                                                   *)
CycleInv ==
    /\ analysis \in {"cycles", "scores", "scored"} => cycle = << >>
    /\ analysis = "report" => \E k \in 1 .. Len(path) : CycleFrom(k)
    /\ analysis = "reported" => IF cycle = << >> THEN Black = known ELSE IsACycle(cycle)

(* The invariant of the search reads nothing else.                          *)
LEMMA SearchInvKept ==
    ASSUME SearchInv, UNCHANGED << adj, colour, path, remaining, parent >>
    PROVE  SearchInv'
<1>1. known' = known /\ Black' = Black
  BY DEF known, Black, IsBlack
<1> QED
  BY <1>1 DEF SearchInv, PathIsGray, PathIsOnce, PathIsCalls, LookedAtIsBlack, RemainingIsAdjacent,
              BlackIsClosed, BlackIsOrdered, Stuck, IsBlack

(* A call begins, for the first issue or for a neighbour of the last one.   *)
LEMMA CallKeepsSearchInv ==
    ASSUME GraphTypeOK, SearchInv, NEW n \in known, colour[n] = "white",
           NEW before \in [known -> SUBSET known], dfs(n, before), adj' = adj,
           parent' \in [known -> known \cup {NoIssueId}],
           \A m \in known : m # n => parent'[m] = parent[m],
           IF path = << >>
           THEN parent'[n] = NoIssueId /\ before = remaining
           ELSE /\ n \in adj[Last(path)] /\ parent'[n] = Last(path)
                /\ before = [remaining EXCEPT ![Last(path)] = @ \ {n}]
    PROVE  SearchInv'
<1> DEFINE L == Len(path)
<1>1. known' = known
  BY DEF known
<1>2. L \in Nat /\ \A i \in 1 .. L : path[i] \in known
  BY DEF GraphTypeOK
<1>3. /\ path' \in Seq(known) /\ Len(path') = L + 1 /\ path'[L + 1] = n
      /\ \A i \in 1 .. L : path'[i] = path[i]
  BY AppendProperties DEF dfs, GraphTypeOK
<1>4. \A m \in known : colour'[m] = IF m = n THEN "gray" ELSE colour[m]
  BY DEF dfs, GraphTypeOK
<1>5. \A i \in 1 .. L : path[i] # n
  BY <1>2 DEF SearchInv, PathIsGray
<1>6. path # << >> => L >= 1 /\ Last(path) = path[L] /\ Last(path) \in known /\ Last(path) # n
  BY <1>2, <1>5 DEF GraphTypeOK, Last
<1>7. path = << >> <=> L = 0
  BY DEF GraphTypeOK
<1>8. Black' = Black /\ \A m \in known : IsBlack(m)' <=> IsBlack(m)
  BY <1>1, <1>4 DEF Black, IsBlack
<1>9. remaining' \in [known -> SUBSET known] /\ remaining'[n] = adj[n]
  BY DEF dfs, GraphTypeOK
<1>10. \A m \in known : m # n => remaining'[m] = before[m]
  BY DEF dfs
<1> HIDE DEF L
<1>11. PathIsGray'
  <2>1. ASSUME NEW m \in known
        PROVE  colour'[m] = "gray" <=> \E i \in 1 .. Len(path') : path'[i] = m
    <3>1. CASE m = n
      BY <3>1, <1>2, <1>3, <1>4
    <3>2. CASE m # n
      <4>1. colour'[m] = colour[m]
        BY <1>4, <3>2
      <4>2. (\E i \in 1 .. Len(path') : path'[i] = m) <=> (\E i \in 1 .. L : path[i] = m)
        BY <1>2, <1>3, <3>2
      <4> QED
        BY <4>1, <4>2 DEF SearchInv, PathIsGray, L
    <3> QED
      BY <3>1, <3>2
  <2> QED
    BY <2>1, <1>1 DEF PathIsGray
<1>12. PathIsOnce'
  <2>1. \A i, j \in 1 .. L : path[i] = path[j] => i = j
    BY DEF SearchInv, PathIsOnce, L
  <2> QED
    BY <2>1, <1>2, <1>3, <1>5 DEF PathIsOnce
<1>13. PathIsCalls'
  <2>1. path'[1] \in known /\ parent'[path'[1]] = NoIssueId
    <3>1. CASE path = << >>
      BY <3>1, <1>3, <1>7
    <3>2. CASE path # << >>
      <4>1. path'[1] = path[1] /\ path[1] \in known /\ path[1] # n
        BY <3>2, <1>2, <1>3, <1>5, <1>6
      <4> QED
        BY <4>1, <3>2 DEF SearchInv, PathIsCalls
    <3> QED
      BY <3>1, <3>2
  <2>2. ASSUME NEW i \in 1 .. Len(path') - 1
        PROVE  path'[i + 1] \in adj[path'[i]] /\ parent'[path'[i + 1]] = path'[i]
    <3>1. CASE i = L
      <4>1. path # << >> /\ path'[i] = Last(path) /\ path'[i + 1] = n
        BY <3>1, <2>2, <1>2, <1>3, <1>6, <1>7
      <4> QED
        BY <4>1
    <3>2. CASE i < L
      <4>1. i \in 1 .. L - 1 /\ i + 1 \in 1 .. L
        BY <3>2, <2>2, <1>2, <1>3
      <4>2. path'[i] = path[i] /\ path'[i + 1] = path[i + 1] /\ path[i + 1] # n /\ path[i + 1] \in known
        BY <4>1, <1>2, <1>3, <1>5
      <4>3. path[i + 1] \in adj[path[i]] /\ parent[path[i + 1]] = path[i]
        BY <4>1 DEF SearchInv, PathIsCalls, L
      <4> QED
        BY <4>2, <4>3
    <3> QED
      BY <3>1, <3>2, <2>2, <1>2, <1>3
  <2>3. \A m \in known : colour'[m] = "white" => parent'[m] = NoIssueId
    BY <1>4 DEF SearchInv, PathIsCalls
  <2> QED
    BY <1>1, <2>1, <2>2, <2>3 DEF PathIsCalls
<1>14. LookedAtIsBlack'
  <2>1. ASSUME NEW i \in 1 .. L, NEW m \in adj[path[i]] \ remaining'[path[i]]
        PROVE  IsBlack(m)' \/ (i < L + 1 /\ m = path'[i + 1])
    <3>0. path[i] \in known /\ path[i] # n /\ m \in known
      BY <1>2, <1>5 DEF GraphTypeOK
    <3>1. remaining'[path[i]] = before[path[i]]
      BY <3>0, <1>10
    <3>2. path # << >>
      BY <1>7, <1>2
    <3>3. CASE m \in remaining[path[i]]
      <4>1. m = n /\ path[i] = Last(path)
        BY <3>0, <3>1, <3>2, <3>3 DEF GraphTypeOK
      <4>2. i = L
        BY <4>1, <3>2, <1>2, <1>6 DEF SearchInv, PathIsOnce, L
      <4> QED
        BY <4>1, <4>2, <1>2, <1>3
    <3>4. CASE m \notin remaining[path[i]]
      <4>1. IsBlack(m) \/ (i < L /\ m = path[i + 1])
        BY <3>4 DEF SearchInv, LookedAtIsBlack, L
      <4> QED
        BY <4>1, <3>0, <1>2, <1>3, <1>8
    <3> QED
      BY <3>3, <3>4
  <2>2. \A m \in adj[n] \ remaining'[n] : IsBlack(m)'
    BY <1>9
  <2>3. ASSUME NEW i \in 1 .. Len(path'), NEW m \in adj[path'[i]] \ remaining'[path'[i]]
        PROVE  IsBlack(m)' \/ (i < Len(path') /\ m = path'[i + 1])
    <3>1. CASE i = L + 1
      BY <3>1, <2>2, <1>3
    <3>2. CASE i \in 1 .. L
      <4>1. path'[i] = path[i]
        BY <3>2, <1>3
      <4> QED
        BY <4>1, <3>2, <2>1, <1>3
    <3> QED
      BY <3>1, <3>2, <1>2, <1>3
  <2> QED
    BY <2>3 DEF LookedAtIsBlack
<1>15. RemainingIsAdjacent'
  <2>1. \A m \in known : before[m] \subseteq remaining[m]
    BY <1>6 DEF GraphTypeOK
  <2> QED
    BY <2>1, <1>1, <1>9, <1>10 DEF SearchInv, RemainingIsAdjacent
<1>16. BlackIsClosed' /\ BlackIsOrdered'
  BY <1>8 DEF SearchInv, BlackIsClosed, BlackIsOrdered, Stuck
<1> QED
  BY <1>11, <1>12, <1>13, <1>14, <1>15, <1>16 DEF SearchInv

(* A neighbour that was left before is passed over.                         *)
LEMMA SkipKeepsSearchInv ==
    ASSUME GraphTypeOK, SearchInv, path # << >>, NEW m \in known, IsBlack(m),
           remaining' = [remaining EXCEPT ![Last(path)] = @ \ {m}],
           UNCHANGED << adj, colour, path, parent >>
    PROVE  SearchInv'
<1>1. known' = known /\ Black' = Black /\ \A k \in known : IsBlack(k)' <=> IsBlack(k)
  BY DEF known, Black, IsBlack
<1>2. Last(path) \in known
  BY DEF GraphTypeOK, Last
<1>3. \A k \in known : remaining'[k] = IF k = Last(path) THEN remaining[k] \ {m} ELSE remaining[k]
  BY <1>2 DEF GraphTypeOK
<1>4. LookedAtIsBlack'
  <2>1. ASSUME NEW i \in 1 .. Len(path), NEW k \in adj[path[i]] \ remaining'[path[i]]
        PROVE  IsBlack(k)' \/ (i < Len(path) /\ k = path[i + 1])
    <3>1. path[i] \in known /\ k \in known
      BY DEF GraphTypeOK
    <3>2. k = m \/ k \notin remaining[path[i]]
      BY <3>1, <1>3
    <3> QED
      BY <3>1, <3>2, <1>1 DEF SearchInv, LookedAtIsBlack
  <2> QED
    BY <2>1 DEF LookedAtIsBlack
<1>5. RemainingIsAdjacent'
  BY <1>1, <1>3 DEF SearchInv, RemainingIsAdjacent
<1> QED
  BY <1>1, <1>4, <1>5 DEF SearchInv, PathIsGray, PathIsOnce, PathIsCalls, BlackIsClosed, BlackIsOrdered, Stuck

(* A call returns: all it leads to is black already.                        *)
LEMMA LeaveKeepsSearchInv ==
    ASSUME GraphTypeOK, SearchInv, Leave
    PROVE  SearchInv'
<1> DEFINE L == Len(path)
           n == Last(path)
<1>1. known' = known /\ adj' = adj /\ parent' = parent /\ remaining' = remaining
  BY DEF known, Leave
<1>2. L \in Nat /\ L >= 1 /\ n = path[L] /\ \A i \in 1 .. L : path[i] \in known
  BY DEF GraphTypeOK, Leave, Last
<1>3. Len(path') = L - 1 /\ \A i \in 1 .. L - 1 : path'[i] = path[i]
  <2>1. path' = SubSeq(path, 1, L - 1) /\ path \in Seq(known)
    BY DEF Leave, Front, GraphTypeOK
  <2> QED
    <3>1. L - 1 \in Int /\ 1 \in Int /\ \A i \in 1 .. L - 1 : path[i] \in known
      BY <1>2
    <3>2. /\ Len(SubSeq(path, 1, L - 1)) = IF 1 <= L - 1 THEN (L - 1) - 1 + 1 ELSE 0
          /\ \A i \in 1 .. (L - 1) - 1 + 1 : SubSeq(path, 1, L - 1)[i] = path[1 + i - 1]
      BY <3>1, SubSeqProperties
    <3> HIDE DEF L, n
    <3>3. L \in Nat /\ L >= 1
      BY <1>2
    <3>4. Len(path') = L - 1
      BY <2>1, <3>2, <3>3
    <3>5. ASSUME NEW i \in 1 .. L - 1 PROVE path'[i] = path[i]
      <4>1. i \in 1 .. (L - 1) - 1 + 1 /\ 1 + i - 1 = i
        BY <3>3
      <4> QED
        BY <4>1, <2>1, <3>2
    <3> QED
      BY <3>4, <3>5
<1>4. n \in known /\ remaining[n] = {} /\ path # << >>
  BY <1>2 DEF Leave
<1>5. \A m \in known : colour'[m] = IF m = n THEN "black" ELSE colour[m]
  BY <1>4 DEF Leave, GraphTypeOK
<1>6. \A i \in 1 .. L - 1 : path[i] # n
  BY <1>2 DEF SearchInv, PathIsOnce
<1>7. Black' = Black \cup {n} /\ \A m \in known : IsBlack(m)' <=> IsBlack(m) \/ m = n
  BY <1>1, <1>4, <1>5 DEF Black, IsBlack
<1>8. adj[n] \subseteq Black
  <2>1. \A m \in adj[n] : IsBlack(m)
    BY <1>2, <1>4 DEF SearchInv, LookedAtIsBlack
  <2> QED
    BY <2>1, <1>4 DEF Black, GraphTypeOK
<1>9. n \notin Black
  BY <1>2 DEF SearchInv, PathIsGray, Black, IsBlack
<1> HIDE DEF L, n
<1>10. PathIsGray'
  <2>1. ASSUME NEW m \in known
        PROVE  colour'[m] = "gray" <=> \E i \in 1 .. L - 1 : path[i] = m
    <3>1. CASE m = n
      BY <3>1, <1>5, <1>6
    <3>2. CASE m # n
      <4>1. (\E i \in 1 .. L - 1 : path[i] = m) <=> \E i \in 1 .. L : path[i] = m
        BY <1>2, <3>2
      <4> QED
        BY <3>2, <4>1, <1>5 DEF SearchInv, PathIsGray, L
    <3> QED
      BY <3>1, <3>2
  <2> QED
    BY <2>1, <1>1, <1>3 DEF PathIsGray
<1>11. PathIsOnce'
  BY <1>2, <1>3 DEF SearchInv, PathIsOnce, L
<1>12. PathIsCalls'
  <2>1. path' # << >> => path'[1] = path[1] /\ 1 <= L - 1
    BY <1>2, <1>3 DEF Leave, Front, GraphTypeOK, L
  <2>2. \A i \in 1 .. Len(path') - 1 :
           path'[i + 1] \in adj[path'[i]] /\ parent[path'[i + 1]] = path'[i]
    <3>1. ASSUME NEW i \in 1 .. Len(path') - 1
          PROVE  /\ path'[i] = path[i] /\ path'[i + 1] = path[i + 1]
                 /\ i \in 1 .. L - 1
      BY <1>2, <1>3
    <3> QED
      BY <3>1 DEF SearchInv, PathIsCalls, L
  <2>3. \A m \in known : colour'[m] = "white" => parent[m] = NoIssueId
    BY <1>5 DEF SearchInv, PathIsCalls
  <2>4. path' # << >> => parent[path'[1]] = NoIssueId
    BY <2>1, <1>4 DEF SearchInv, PathIsCalls
  <2> QED
    BY <1>1, <2>2, <2>3, <2>4 DEF PathIsCalls
<1>13. LookedAtIsBlack'
  <2>1. ASSUME NEW i \in 1 .. L - 1, NEW m \in adj[path[i]] \ remaining[path[i]]
        PROVE  IsBlack(m)' \/ (i < L - 1 /\ m = path[i + 1])
    <3>0. path[i] \in known /\ m \in known
      BY <1>2 DEF GraphTypeOK
    <3>1. IsBlack(m) \/ m = path[i + 1]
      BY <1>2 DEF SearchInv, LookedAtIsBlack, L
    <3>2. CASE i = L - 1
      BY <3>0, <3>1, <3>2, <1>2, <1>7
    <3> QED
      BY <3>0, <3>1, <3>2, <1>2, <1>7
  <2> QED
    BY <2>1, <1>1, <1>2, <1>3 DEF LookedAtIsBlack
<1>14. RemainingIsAdjacent'
  BY <1>1 DEF SearchInv, RemainingIsAdjacent
<1>15. BlackIsClosed'
  BY <1>1, <1>7, <1>8 DEF SearchInv, BlackIsClosed
<1>16. BlackIsOrdered'
  <2>1. ASSUME NEW S \in SUBSET (Black \cup {n}), Stuck(S) PROVE FALSE
    <3>1. CASE S \subseteq {n}
      BY <3>1, <2>1, <1>8, <1>9 DEF Stuck
    <3>2. CASE ~ (S \subseteq {n})
      <4>1. S \ {n} \in SUBSET Black /\ S \ {n} # {}
        BY <3>2
      <4>2. ASSUME NEW m \in S \ {n} PROVE adj[m] \cap (S \ {n}) # {}
        <5>1. m \in Black /\ adj[m] \subseteq Black
          BY <4>1 DEF SearchInv, BlackIsClosed
        <5> QED
          BY <5>1, <1>9, <2>1 DEF Stuck
      <4>3. Stuck(S \ {n})
        BY <4>1, <4>2 DEF Stuck
      <4> QED
        BY <4>1, <4>3 DEF SearchInv, BlackIsOrdered
    <3> QED
      BY <3>1, <3>2
  <2> QED
    BY <2>1, <1>1, <1>7 DEF BlackIsOrdered, Stuck
<1> QED
  BY <1>10, <1>11, <1>12, <1>13, <1>14, <1>15, <1>16 DEF SearchInv

(* Nor does that of the cycle.                                              *)
LEMMA CycleInvKept ==
    ASSUME CycleInv, UNCHANGED << analysis, adj, colour, path, cycle >>
    PROVE  CycleInv'
<1>1. known' = known /\ Black' = Black
  BY DEF known, Black, IsBlack
<1> QED
  BY <1>1 DEF CycleInv, CycleFrom, IsACycle, Last

(* A step of the search keeps its invariant.                                *)
LEMMA LookAtKeepsInv ==
    ASSUME GraphTypeOK, SearchInv, CycleInv, NEW m \in known, LookAt(m)
    PROVE  SearchInv' /\ CycleInv'
<1> DEFINE n == Last(path)
<1>1. n \in known /\ path # << >> /\ Len(path) >= 1 /\ n = path[Len(path)] /\ Len(path) \in Nat
  BY DEF LookAt, Last, GraphTypeOK
<1>2. m \in remaining[n] /\ m \in adj[n]
  BY <1>1 DEF LookAt, SearchInv, RemainingIsAdjacent
<1>3. analysis = "cycles" /\ cycle = << >> /\ adj' = adj /\ known' = known
  BY DEF LookAt, CycleInv, known
<1> HIDE DEF n
<1>4. CASE IsOnPath(colour[m])
  <2>1. /\ cycle' = << m, n >> /\ analysis' = "report"
        /\ UNCHANGED << colour, path, remaining, parent >>
    BY <1>4 DEF LookAt, n
  <2>2. PICK k \in 1 .. Len(path) : path[k] = m
    BY <1>4 DEF IsOnPath, SearchInv, PathIsGray
  <2>3. Len(cycle') = 2 /\ cycle'[1] = m /\ cycle'[2] = n
    BY <2>1
  <2>4. \A j \in 2 .. Len(cycle') : cycle'[j] = path[Len(path) - j + 2]
    <3>1. ASSUME NEW j \in 2 .. Len(cycle') PROVE j = 2
      BY <2>3
    <3> QED
      BY <3>1, <2>3, <1>1
  <2>5. CycleFrom(k)'
    BY <2>1, <2>2, <2>3, <2>4, <1>1, <1>2, <1>3 DEF CycleFrom
  <2>6. CycleInv'
    BY <2>1, <2>2, <2>5 DEF CycleInv
  <2> QED
    BY <2>1, <2>6, <1>3, SearchInvKept
<1>5. CASE ~ IsOnPath(colour[m])
  <2>1. analysis' = "cycles" /\ cycle' = << >>
    BY <1>3, <1>5 DEF LookAt
  <2>2. CycleInv'
    BY <2>1 DEF CycleInv
  <2>3. CASE colour[m] = "white"
    <3>1. /\ parent' = [parent EXCEPT ![m] = n]
          /\ dfs(m, [remaining EXCEPT ![n] = @ \ {m}])
      BY <1>5, <2>3 DEF LookAt, n
    <3>2. /\ parent' \in [known -> known \cup {NoIssueId}] /\ parent'[m] = n
          /\ \A k \in known : k # m => parent'[k] = parent[k]
      BY <3>1, <1>1 DEF GraphTypeOK
    <3>3. [remaining EXCEPT ![n] = @ \ {m}] \in [known -> SUBSET known]
      BY <1>1 DEF GraphTypeOK
    <3>4. /\ path # << >> /\ m \in adj[Last(path)] /\ parent'[m] = Last(path)
          /\ [remaining EXCEPT ![n] = @ \ {m}] = [remaining EXCEPT ![Last(path)] = @ \ {m}]
      BY <3>2, <1>1, <1>2 DEF n
    <3>5. PICK before \in [known -> SUBSET known] : before = [remaining EXCEPT ![Last(path)] = @ \ {m}]
      BY <3>3, <3>4
    <3>6. dfs(m, before)
      BY <3>1, <3>4, <3>5
    <3>7. IF path = << >>
          THEN parent'[m] = NoIssueId /\ before = remaining
          ELSE /\ m \in adj[Last(path)] /\ parent'[m] = Last(path)
               /\ before = [remaining EXCEPT ![Last(path)] = @ \ {m}]
      BY <3>4, <3>5
    <3>8. SearchInv'
      BY <3>2, <3>6, <3>7, <2>3, <1>3, CallKeepsSearchInv
    <3> QED
      BY <3>8, <2>2
  <2>4. CASE colour[m] # "white"
    <3>1. remaining' = [remaining EXCEPT ![n] = @ \ {m}] /\ UNCHANGED << colour, path, parent >>
      BY <1>5, <2>4 DEF LookAt, n
    <3>2. IsBlack(m)
      BY <1>5, <2>4 DEF IsOnPath, IsBlack, GraphTypeOK, Colours
    <3> QED
      BY <3>1, <3>2, <2>2, <1>1, <1>3, SkipKeepsSearchInv DEF n
  <2> QED
    BY <2>3, <2>4
<1> QED
  BY <1>4, <1>5

(* A parent is read: the cycle grows down the path, or is complete.         *)
LEMMA ReadParentKeepsInv ==
    ASSUME GraphTypeOK, SearchInv, CycleInv, ReadParent
    PROVE  SearchInv' /\ CycleInv'
<1> DEFINE L == Len(path)
           C == Len(cycle)
           at == L - C + 2
           up == parent[Last(cycle)]
<1>0. adj' = adj /\ known' = known /\ UNCHANGED << colour, path, remaining, parent >>
  BY DEF ReadParent, known
<1>1. PICK k \in 1 .. L : CycleFrom(k)
  BY DEF ReadParent, CycleInv
<1>2. /\ L \in Nat /\ C \in Nat /\ k \in Nat /\ 1 <= k /\ k <= L /\ C >= 2 /\ C - 2 <= L - k
      /\ cycle[1] = path[k] /\ path[k] \in adj[path[L]]
      /\ \A j \in 2 .. C : cycle[j] = path[L - j + 2]
      /\ C = 2 \/ C - 2 < L - k
  BY <1>1 DEF CycleFrom, GraphTypeOK
<1>3. \A i \in 1 .. L : path[i] \in known
  BY DEF GraphTypeOK
<1>4. at \in k .. L /\ Last(cycle) = path[at]
  BY <1>2 DEF Last
<1>5. \A i, j \in 1 .. L : path[i] = path[j] => i = j
  BY DEF SearchInv, PathIsOnce
<1>6. \A i \in 1 .. L - 1 : path[i + 1] \in adj[path[i]] /\ parent[path[i + 1]] = path[i]
  BY DEF SearchInv, PathIsCalls
<1>7. IF Last(cycle) = cycle[1] \/ up \in {NoIssueId, cycle[1]}
      THEN analysis' = "reported" /\ cycle' = cycle
      ELSE cycle' = Append(cycle, up) /\ analysis' = "report"
  BY DEF ReadParent
<1>8. cycle \in Seq(known) /\ \A j \in 1 .. C : cycle[j] \in known
  BY DEF GraphTypeOK
<1> HIDE DEF L, C, at, up
(* Every issue of the cycle blocks the one before it, so far.               *)
<1>9. \A j \in 1 .. C - 1 : cycle[j] \in adj[cycle[j + 1]]
  <2> TAKE j \in 1 .. C - 1
  <2>1. CASE j = 1
    BY <2>1, <1>2
  <2>2. CASE j # 1
    <3>1. j \in 2 .. C /\ j + 1 \in 2 .. C
      BY <2>2, <1>2
    <3>2. cycle[j] = path[L - j + 2] /\ cycle[j + 1] = path[L - (j + 1) + 2]
      BY <3>1, <1>2
    <3>3. L - (j + 1) + 2 \in 1 .. L - 1 /\ L - (j + 1) + 2 + 1 = L - j + 2
      BY <3>1, <1>2
    <3> QED
      BY <3>2, <3>3, <1>6
  <2> QED
    BY <2>1, <2>2
<1>10. at = k \/ up = path[at - 1]
  <2>1. CASE at # k
    <3>1. at - 1 \in 1 .. L - 1 /\ (at - 1) + 1 = at
      BY <2>1, <1>2, <1>4
    <3> QED
      BY <3>1, <1>4, <1>6 DEF up
  <2> QED
    BY <2>1
<1>11. CASE at = k
  <2>1. Last(cycle) = cycle[1] /\ C = 2 /\ k = L
    BY <1>11, <1>2, <1>4 DEF at
  <2>2. IsACycle(cycle)
    <3>1. Last(cycle) \in adj[cycle[1]]
      BY <2>1, <1>2
    <3> QED
      BY <3>1, <1>8, <1>9 DEF IsACycle, C
  <2> QED
    <3>1. analysis' = "reported" /\ cycle' = cycle
      BY <2>1, <1>7
    <3>2. cycle # << >>
      BY <2>1 DEF C
    <3>3. CycleInv'
      BY <2>2, <3>1, <3>2, <1>0 DEF CycleInv, IsACycle, Last
    <3> QED
      BY <3>3, <1>0, SearchInvKept
<1>12. CASE at # k
  <2>1. at - 1 \in k .. L /\ at - 1 \in 1 .. L /\ at \in 1 .. L /\ k \in 1 .. L
    BY <1>12, <1>2, <1>4
  <2>2. up = path[at - 1] /\ up \in known /\ up # NoIssueId
    <3>1. up = path[at - 1] /\ up \in known
      BY <2>1, <1>3, <1>10, <1>12
    <3> QED
      BY <3>1, IssueGraphAssumption DEF GraphTypeOK
  <2>3. Last(cycle) # cycle[1]
    BY <2>1, <1>2, <1>4, <1>5, <1>12
  <2>4. CASE up = cycle[1]
    <3>1. at - 1 = k
      BY <2>1, <2>2, <2>4, <1>2, <1>5
    <3>2. k \in 1 .. L - 1 /\ k + 1 = at
      BY <3>1, <2>1, <1>2
    <3>3. Last(cycle) \in adj[cycle[1]]
      BY <3>2, <1>2, <1>4, <1>6
    <3>4. IsACycle(cycle)
      BY <3>3, <1>8, <1>9 DEF IsACycle, C
    <3> QED
      BY <2>4, <3>4, <1>0, <1>2, <1>7, SearchInvKept DEF CycleInv, IsACycle, Last, C
  <2>5. CASE up # cycle[1]
    <3>1. cycle' = Append(cycle, up) /\ analysis' = "report"
      BY <2>2, <2>3, <2>5, <1>7
    <3>2. /\ Len(cycle') = C + 1 /\ cycle'[C + 1] = up
          /\ \A j \in 1 .. C : cycle'[j] = cycle[j]
      BY <3>1, <2>2, <1>8, AppendProperties DEF C
    <3>3. at - 1 # k
      BY <2>2, <2>5, <1>2
    <3>4. \A j \in 2 .. C + 1 : cycle'[j] = path[L - j + 2]
      <4> TAKE j \in 2 .. C + 1
      <4>1. CASE j = C + 1
        <5>1. L - j + 2 = at - 1
          BY <4>1, <1>2 DEF at
        <5> QED
          BY <4>1, <5>1, <3>2, <2>2
      <4>2. CASE j # C + 1
        <5>1. j \in 1 .. C /\ j \in 2 .. C
          BY <4>2, <1>2
        <5> QED
          BY <5>1, <3>2, <1>2
      <4> QED
        BY <4>1, <4>2
    <3>5. (C + 1) - 2 < L - k /\ (C + 1) - 2 <= L - k /\ C + 1 >= 2
      BY <3>3, <2>1, <1>2, <1>4 DEF at
    <3>6. cycle'[1] = path[k]
      BY <3>2, <1>2
    <3>7. CycleFrom(k)'
      BY <3>2, <3>4, <3>5, <3>6, <1>0, <1>2 DEF CycleFrom, L
    <3>8. CycleInv'
      BY <3>1, <3>7, <1>0, <2>1 DEF CycleInv, L
    <3> QED
      BY <3>8, <1>0, SearchInvKept
  <2> QED
    BY <2>4, <2>5
<1> QED
  BY <1>11, <1>12

(* Every step of either analysis keeps the invariants of search and cycle.  *)
LEMMA SearchInvNext ==
    ASSUME GraphTypeOK, SearchInv, CycleInv, [GraphNext]_graphVars
    PROVE  SearchInv' /\ CycleInv'
<1>1. ASSUME NEW n \in known, SearchFrom(n) PROVE SearchInv' /\ CycleInv'
  <2>1. CycleInv'
    BY <1>1 DEF SearchFrom, CycleInv
  <2>2. parent'[n] = NoIssueId
    BY <1>1 DEF SearchFrom, SearchInv, PathIsCalls
  <2>3. /\ colour[n] = "white" /\ dfs(n, remaining) /\ adj' = adj /\ path = << >> /\ parent' = parent
        /\ remaining \in [known -> SUBSET known] /\ parent \in [known -> known \cup {NoIssueId}]
    BY <1>1 DEF SearchFrom, GraphTypeOK
  <2> QED
    BY <2>1, <2>2, <2>3, CallKeepsSearchInv
<1>2. ASSUME Leave PROVE SearchInv' /\ CycleInv'
  <2>1. CycleInv'
    BY <1>2 DEF Leave, CycleInv
  <2> QED
    BY <1>2, <2>1, LeaveKeepsSearchInv
<1>3. CASE NoCycle
  <2>1. UNCHANGED << adj, colour, path, remaining, parent, cycle >> /\ analysis' = "reported"
    BY <1>3 DEF NoCycle, searchVars
  <2>2. cycle = << >> /\ known' = known /\ Black' = Black
    BY <1>3, <2>1 DEF NoCycle, CycleInv, known, Black, IsBlack
  <2>3. \A n \in known : colour[n] # "gray" /\ colour[n] # "white"
    BY <1>3 DEF NoCycle, SearchInv, PathIsGray
  <2>4. Black = known
    BY <2>3 DEF Black, IsBlack, GraphTypeOK, Colours
  <2> QED
    BY <2>1, <2>2, <2>4, SearchInvKept DEF CycleInv
<1>4. CASE AllAreCounted
  <2>1. UNCHANGED << adj, colour, path, remaining, parent, cycle >> /\ analysis' = "scored" /\ analysis = "scores"
    BY <1>4 DEF AllAreCounted, searchVars
  <2> QED
    BY <2>1, SearchInvKept DEF CycleInv
<1>5. ASSUME UNCHANGED << analysis, adj, searchVars >> PROVE SearchInv' /\ CycleInv'
  BY <1>5, SearchInvKept, CycleInvKept DEF searchVars
<1>6. ASSUME NEW n \in known, countDescendants(n) \/ Pop(n) PROVE SearchInv' /\ CycleInv'
  BY <1>6, <1>5 DEF countDescendants, Pop
<1>7. CASE IsCounted \/ UNCHANGED graphVars
  BY <1>7, <1>5 DEF IsCounted, graphVars
<1> QED
  BY <1>1, <1>2, <1>3, <1>4, <1>6, <1>7, LookAtKeepsInv, ReadParentKeepsInv DEF GraphNext

-----------------------------------------------------------------------------

(* What was met waits for the issue, and what waits for what was met was met *)
(* or is on the stack.                                                      *)
CountInv ==
    IF counting = NoIssueId
    THEN stack = {} /\ reachable = {}
    ELSE /\ stack \subseteq WaitFor(adj, counting)
         /\ reachable \subseteq WaitFor(adj, counting) \ {counting}
         /\ \A c \in reachable \cup {counting} :
                Dependents(adj, c) \subseteq reachable \cup stack \cup {counting}

(* When the stack is empty, what was met is what waits for the issue, but   *)
(* the issue itself.                                                        *)
LEMMA CountIsRight ==
    ASSUME GraphTypeOK, CountInv, counting # NoIssueId, stack = {}
    PROVE  reachable = WaitFor(adj, counting) \ {counting}
<1> DEFINE S == reachable \cup {counting}
<1>1. S \in SUBSET DOMAIN adj
  BY DEF GraphTypeOK, known
<1>2. \A k \in S : Dependents(adj, k) \subseteq S
  BY DEF CountInv
<1>3. WaitFor(adj, counting) \subseteq S
  BY <1>1, <1>2, WaitForIsLeast
<1> QED
  BY <1>3 DEF CountInv

(* Every step of either analysis keeps those of the count and of the        *)
(* scores.                                                                  *)
LEMMA CountInvNext ==
    ASSUME GraphTypeOK, CountInv, ScoresAreRight, [GraphNext]_graphVars
    PROVE  CountInv' /\ ScoresAreRight'
<1>1. ASSUME UNCHANGED << adj, countVars >> PROVE CountInv' /\ ScoresAreRight'
  BY <1>1 DEF countVars, CountInv, ScoresAreRight
<1>2. ASSUME NEW n \in known, countDescendants(n) PROVE CountInv' /\ ScoresAreRight'
  <2>1. /\ counting' = n /\ stack' = Dependents(adj, n) /\ reachable' = {} /\ adj' = adj /\ scores' = scores
        /\ n # NoIssueId
    BY <1>2, IssueGraphAssumption DEF countDescendants, CountInv, GraphTypeOK
  <2> QED
    BY <2>1, WaitForIsClosed DEF CountInv, ScoresAreRight
<1>3. ASSUME NEW c \in known, Pop(c) PROVE CountInv' /\ ScoresAreRight'
  <2>1. counting # NoIssueId /\ c \in WaitFor(adj, counting) /\ counting' = counting /\ adj' = adj /\ scores' = scores
    BY <1>3 DEF Pop, CountInv, searchVars
  <2>2. CASE IsSkipped(c)
    BY <1>3, <2>1, <2>2 DEF Pop, IsSkipped, CountInv, ScoresAreRight
  <2>3. CASE ~ IsSkipped(c)
    <3>1. /\ reachable' = reachable \cup {c} /\ c # counting
          /\ stack' = (stack \ {c}) \cup (Dependents(adj, c) \ (reachable \cup {c}))
      BY <1>3, <2>3 DEF Pop, IsSkipped
    <3>2. Dependents(adj, c) \subseteq WaitFor(adj, counting)
      BY <2>1, WaitForIsClosed
    <3>3. /\ stack' \subseteq WaitFor(adj, counting)
          /\ reachable' \subseteq WaitFor(adj, counting) \ {counting}
      BY <2>1, <3>1, <3>2 DEF CountInv
    <3>4. \A d \in reachable' \cup {counting} :
             Dependents(adj, d) \subseteq reachable' \cup stack' \cup {counting}
      BY <2>1, <3>1 DEF CountInv
    <3> QED
      BY <2>1, <3>3, <3>4 DEF CountInv, ScoresAreRight
  <2> QED
    BY <2>2, <2>3
<1>4. ASSUME IsCounted PROVE CountInv' /\ ScoresAreRight'
  <2>1. reachable = WaitFor(adj, counting) \ {counting}
    BY <1>4, CountIsRight DEF IsCounted
  <2> QED
    BY <1>4, <2>1 DEF IsCounted, CountInv, ScoresAreRight
<1>5. ASSUME NEW n \in known, SearchFrom(n) \/ LookAt(n) PROVE CountInv' /\ ScoresAreRight'
  BY <1>5, <1>1 DEF SearchFrom, LookAt
<1>6. CASE Leave \/ NoCycle \/ ReadParent \/ AllAreCounted \/ UNCHANGED graphVars
  BY <1>6, <1>1 DEF Leave, NoCycle, ReadParent, AllAreCounted, graphVars
<1> QED
  BY <1>2, <1>3, <1>4, <1>5, <1>6 DEF GraphNext

-----------------------------------------------------------------------------

(* The inductive invariant of both analyses.                                *)
GraphInv == GraphTypeOK /\ SearchInv /\ CycleInv /\ CountInv /\ ScoresAreRight

(* It holds at the start, for any blockers.                                 *)
LEMMA AnalysisBegins ==
    ASSUME NEW listed \in SUBSET GraphIssues, NEW blocked_by \in [listed -> SUBSET GraphIssues],
           analysis \in {"cycles", "scores"}, AnalysisInit(blocked_by)
    PROVE  GraphInv
<1>1. /\ \A n \in known : colour[n] = "white" /\ parent[n] = NoIssueId /\ remaining[n] = {}
      /\ path = << >> /\ Len(path) = 0 /\ cycle = << >> /\ counting = NoIssueId
      /\ stack = {} /\ reachable = {} /\ DOMAIN scores = {}
  BY DEF AnalysisInit
<1>2. Black = {}
  BY <1>1 DEF Black, IsBlack
<1>3. SearchInv
  BY <1>1, <1>2 DEF SearchInv, PathIsGray, PathIsOnce, PathIsCalls, LookedAtIsBlack, RemainingIsAdjacent,
                    BlackIsClosed, BlackIsOrdered, Stuck
<1> QED
  BY <1>1, <1>3, GraphTypeInit DEF GraphInv, CycleInv, CountInv, ScoresAreRight

(* So it does initially.                                                    *)
LEMMA GraphInvInit == ASSUME GraphInit PROVE GraphInv
<1>1. PICK listed \in SUBSET GraphIssues :
         \E blocked_by \in [listed -> SUBSET GraphIssues] : AnalysisInit(blocked_by)
  BY DEF GraphInit
<1>2. PICK blocked_by \in [listed -> SUBSET GraphIssues] : AnalysisInit(blocked_by)
  BY <1>1
<1> QED
  BY <1>2, AnalysisBegins DEF GraphInit

(* And every step keeps it.                                                 *)
LEMMA GraphInvNext == ASSUME GraphInv, [GraphNext]_graphVars PROVE GraphInv'
BY GraphTypeNext, SearchInvNext, CountInvNext DEF GraphInv

(* Issues on a reported cycle cannot start; if all can be left, they can.   *)
LEMMA GraphInvIsEnough == ASSUME GraphInv PROVE GraphAnalysisIsRight
<1>1. ASSUME analysis = "reported" PROVE CyclesAreReported
  <2>1. CASE cycle = << >>
    <3>1. \A S \in SUBSET known : ~ Stuck(S)
      BY <1>1, <2>1 DEF GraphInv, CycleInv, SearchInv, BlackIsOrdered
    <3> QED
      BY <2>1, <3>1 DEF CyclesAreReported
  <2>2. CASE cycle # << >>
    <3> DEFINE S == {cycle[k] : k \in 1 .. Len(cycle)}
    <3>1. IsACycle(cycle) /\ cycle \in Seq(known) /\ Len(cycle) \in Nat /\ Len(cycle) >= 1
      BY <1>1, <2>2 DEF GraphInv, CycleInv, GraphTypeOK
    <3>2. S \in SUBSET known /\ cycle[1] \in S
      BY <3>1
    <3>3. ASSUME NEW k \in 1 .. Len(cycle) PROVE adj[cycle[k]] \cap S # {}
      <4>1. CASE k = 1
        <5>1. Last(cycle) \in adj[cycle[1]] /\ Last(cycle) \in S
          BY <3>1 DEF IsACycle, Last
        <5> QED
          BY <4>1, <5>1
      <4>2. CASE k # 1
        <5>1. k - 1 \in 1 .. Len(cycle) - 1 /\ k - 1 \in 1 .. Len(cycle) /\ (k - 1) + 1 = k
          BY <4>2, <3>1
        <5>2. cycle[k - 1] \in adj[cycle[k]]
          BY <5>1, <3>1 DEF IsACycle
        <5>3. cycle[k - 1] \in S
          BY <5>1
        <5> QED
          BY <5>2, <5>3
      <4> QED
        BY <4>1, <4>2
    <3>4. Stuck(S)
      BY <3>2, <3>3 DEF Stuck
    <3> HIDE DEF S
    <3> QED
      BY <2>2, <3>1, <3>2, <3>4 DEF CyclesAreReported
  <2> QED
    BY <2>1, <2>2
<1> QED
  BY <1>1 DEF GraphInv, GraphAnalysisIsRight, CyclesAreReported

(* A poll that runs its two analyses on any graph.                          *)
THEOREM AnalysesAreRight == GraphSpec => []GraphAnalysisIsRight
<1>1. GraphInit => GraphInv
  BY GraphInvInit
<1>2. GraphInv /\ [GraphNext]_graphVars => GraphInv'
  BY GraphInvNext
<1>3. GraphInv => GraphAnalysisIsRight
  BY GraphInvIsEnough
<1> QED
  BY <1>1, <1>2, <1>3, PTL DEF GraphSpec

-----------------------------------------------------------------------------

(* A condition on numbers that some number meets is met by a least one.     *)
LEMMA LeastExists ==
    ASSUME NEW T \in SUBSET Nat, T # {}
    PROVE  \E x \in T : \A y \in T : x <= y
<1>1. PICK x \in T : \A y \in T : ~(<< y, x >> \in OpToRel(<, Nat))
  BY NatLessThanWellFounded, WFMin
<1>2. ASSUME NEW y \in T PROVE x <= y
  <2>1. << y, x >> \in Nat \X Nat /\ << y, x >>[1] = y /\ << y, x >>[2] = x
    OBVIOUS
  <2>2. ~(y < x)
    BY <1>1, <2>1 DEF OpToRel
  <2> QED
    BY <2>2
<1> QED
  BY <1>2

(* Of some things that have a size up to N, one is as large as any.         *)
LEMMA LargestExists ==
    ASSUME NEW N \in Nat, NEW Q, Q # {}, NEW size \in [Q -> 0 .. N]
    PROVE  \E q \in Q : \A r \in Q : size[r] <= size[q]
<1> DEFINE T == {N - size[q] : q \in Q}
<1>1. T \in SUBSET Nat /\ T # {}
  OBVIOUS
<1>2. PICK x \in T : \A y \in T : x <= y
  BY <1>1, LeastExists
<1>3. PICK q \in Q : x = N - size[q]
  OBVIOUS
<1>4. ASSUME NEW r \in Q PROVE size[r] <= size[q]
  <2>1. N - size[q] <= N - size[r]
    BY <1>2, <1>3
  <2>2. size[q] \in 0 .. N /\ size[r] \in 0 .. N
    OBVIOUS
  <2> QED
    BY <2>1, <2>2
<1> QED
  BY <1>4

(* What waits for something that waits waits for both.                      *)
LEMMA WaitForIsTransitive ==
    ASSUME NEW edges, NEW n, NEW k, k \in WaitFor(edges, n)
    PROVE  WaitFor(edges, k) \subseteq WaitFor(edges, n)
<1>1. /\ WaitFor(edges, n) \in SUBSET DOMAIN edges
      /\ Dependents(edges, k) \subseteq WaitFor(edges, n)
      /\ \A m \in WaitFor(edges, n) : Dependents(edges, m) \subseteq WaitFor(edges, n)
  BY WaitForIsClosed
<1> QED
  BY <1>1, WaitForIsLeast

(* Some of finitely many issues can never start if and only if one of them  *)
(* waits for itself, directly or not: what the search reports, and what leaves *)
(* the children of a plan unfinished, are one thing.                        *)
THEOREM StuckMeansWaitingForOneself ==
    ASSUME IsFiniteSet(known), adj \in [known -> SUBSET known]
    PROVE  (\E S \in SUBSET known : Stuck(S)) <=> \E n \in known : n \in WaitFor(adj, n)
<1>1. ASSUME NEW S \in SUBSET known, Stuck(S)
      PROVE  \E n \in known : n \in WaitFor(adj, n)
  <2> DEFINE size == [m \in S |-> Cardinality(WaitFor(adj, m))]
             N == Cardinality(known)
  <2>1. \A m \in S : WaitFor(adj, m) \subseteq known /\ IsFiniteSet(WaitFor(adj, m))
    BY WaitForIsClosed, FS_Subset DEF known
  <2>2. N \in Nat
    BY FS_CardinalityType
  <2>3. \A m \in S : Cardinality(WaitFor(adj, m)) \in 0 .. N
    BY <2>1, <2>2, FS_Subset, FS_CardinalityType
  <2>4. size \in [S -> 0 .. N] /\ S # {}
    BY <2>3, <1>1 DEF Stuck
  <2>5. PICK m \in S : \A k \in S : size[k] <= size[m]
    <3> HIDE DEF size, N
    <3> QED
      BY <2>2, <2>4, LargestExists
  <2>6. PICK k \in S : k \in adj[m]
    BY <1>1 DEF Stuck
  <2>7. m \in WaitFor(adj, k)
    <3>1. m \in Dependents(adj, k)
      BY <2>6 DEF Dependents, known
    <3> QED
      BY <3>1, WaitForIsClosed
  <2>8. WaitFor(adj, m) \subseteq WaitFor(adj, k)
    BY <2>7, WaitForIsTransitive
  <2>9. Cardinality(WaitFor(adj, k)) <= Cardinality(WaitFor(adj, m))
    BY <2>5
  <2>10. WaitFor(adj, m) = WaitFor(adj, k)
    BY <2>1, <2>8, <2>9, FS_Subset, FS_CardinalityType
  <2> QED
    BY <2>7, <2>10
<1>2. ASSUME NEW n \in known, n \in WaitFor(adj, n)
      PROVE  \E S \in SUBSET known : Stuck(S)
  <2> DEFINE S == WaitFor(adj, n)
             X == {m \in S : adj[m] \cap S # {}}
  <2>1. /\ S \in SUBSET known /\ Dependents(adj, n) \subseteq S
        /\ \A k \in S : Dependents(adj, k) \subseteq S
    BY WaitForIsClosed DEF known
  <2>2. \A k \in S : Dependents(adj, k) \subseteq X
    BY <2>1 DEF Dependents
  <2>3. X \in SUBSET DOMAIN adj /\ Dependents(adj, n) \subseteq X /\ \A k \in X : Dependents(adj, k) \subseteq X
    BY <1>2, <2>1, <2>2 DEF known
  <2>4. S \subseteq X
    <3> HIDE DEF X
    <3> QED
      BY <2>3, WaitForIsLeast
  <2>5. Stuck(S)
    BY <1>2, <2>4 DEF Stuck
  <2> QED
    BY <2>1, <2>5
<1> QED
  BY <1>1, <1>2

-----------------------------------------------------------------------------
(* The children of a plan (Decomposition): relations are created after the  *)
(* children they join, and all of them before the flow ends.                *)

(* The children of a plan: created in order, then their relations, all of   *)
(* them when the flow ends.                                                 *)
PlanInv ==
    flow = "planner" =>
        /\ blockedBy \in [Kept -> SUBSET Kept]
        /\ made \in Nat /\ made <= MaxSubIssues
        /\ stage \in {"asked", "children", "relations", "ended", "failed"}
        /\ stage = "asked" => made = 0 /\ relations = {}
        /\ stage = "children" => made < MaxSubIssues
        /\ stage \in {"relations", "ended"} => made = MaxSubIssues
        /\ started \subseteq 1 .. made
        /\ relations \subseteq Wanted
        /\ stage = "ended" => relations = Wanted

(* A request to the endpoint is accepted or not in one step.                *)
RequestInv ==
    flow = "endpoint" =>
        /\ stage \in {"asked", "ended", "failed"}
        /\ stage = "ended" => started # {}

(* An analysis has no children.                                             *)
PollInv == flow = "poll" => stage = "asked"

(* The inductive invariant of the decompositions and the analyses.          *)
DecInv ==
    /\ flow \in {"planner", "endpoint", "poll"}
    /\ PlanInv /\ RequestInv /\ PollInv /\ ChildrenWaitTheirTurn /\ GraphInv

(* The relations a plan asks for are finitely many.                         *)
LEMMA WantedIsFinite ==
    ASSUME blockedBy \in [Kept -> SUBSET Kept]
    PROVE  IsFiniteSet(Wanted) /\ Wanted \subseteq Kept \X Kept
<1>1. IsFiniteSet(Kept)
  BY FS_Interval, DecompositionAssumption DEF Kept
<1>2. IsFiniteSet(Kept \X Kept)
  BY <1>1, FS_Product
<1>3. Wanted \subseteq Kept \X Kept
  BY DEF Wanted
<1> QED
  BY <1>2, <1>3, FS_Subset

(* It holds at the start.                                                   *)
LEMMA DecInvInit == ASSUME DecInit PROVE DecInv
<1>1. GraphInv
  <2>1. CASE flow \in {"planner", "endpoint"} /\ analysis = "cycles" /\ AnalysisInit(<< >>)
    <3>1. << >> \in [{} -> SUBSET GraphIssues] /\ {} \in SUBSET GraphIssues
      OBVIOUS
    <3> QED
      BY <2>1, <3>1, AnalysisBegins
  <2>2. CASE GraphInit
    BY <2>2, GraphInvInit
  <2> QED
    BY <2>1, <2>2 DEF DecInit
<1>2. PlanInv
  BY DecompositionAssumption DEF DecInit, PlanInv, Wanted, Kept
<1> QED
  BY <1>1, <1>2 DEF DecInit, DecInv, RequestInv, PollInv, ChildrenWaitTheirTurn

(* A step of a plan, of a tick, of an agent or of the endpoint keeps it.    *)
LEMMA PlanNextKeeps ==
    ASSUME DecInv, PlanNext
    PROVE  flow' = flow /\ PlanInv' /\ RequestInv' /\ PollInv' /\ ChildrenWaitTheirTurn'
<1> USE DecompositionAssumption
<1>1. CASE parseDecompositionResponse
  <2>1. flow = "planner" /\ flow' = "planner" /\ made = 0 /\ started = {} /\ relations = {}
    BY <1>1 DEF parseDecompositionResponse, DecInv, PlanInv
  <2>2. blockedBy' \in [Kept -> SUBSET Kept] /\ stage' \in {"children", "failed"}
    <3>1. \A i \in Kept, named \in SUBSET (Kept \cup {Elsewhere}) : ParsedBlockers(i, named) \subseteq Kept
      BY DEF ParsedBlockers
    <3> QED
      BY <1>1, <2>1, <3>1 DEF parseDecompositionResponse, DecInv, PlanInv
  <2>3. UNCHANGED << made, relations, started, finished, early >>
    BY <1>1 DEF parseDecompositionResponse
  <2> QED
    BY <2>1, <2>2, <2>3 DEF PlanInv, RequestInv, PollInv, ChildrenWaitTheirTurn
<1>2. CASE createSubIssue
  <2>1. flow = "planner"
    BY <1>2 DEF createSubIssue, DecInv, RequestInv, PollInv
  <2> QED
    BY <1>2, <2>1 DEF createSubIssue, DecInv, PlanInv, RequestInv, PollInv, ChildrenWaitTheirTurn, Wanted
<1>3. CASE createBlockingRelation
  <2>1. flow = "planner"
    BY <1>3 DEF createBlockingRelation, DecInv, RequestInv, PollInv
  <2>2. blockedBy \in [Kept -> SUBSET Kept] /\ relations \subseteq Wanted /\ blockedBy' = blockedBy /\ Wanted' = Wanted
    BY <1>3, <2>1 DEF createBlockingRelation, DecInv, PlanInv, Wanted
  <2>3. relations' \subseteq Wanted
    <3>1. ASSUME NEW w \in Wanted PROVE RelationOf(w[1], w[2]) = w
      BY WantedIsFinite, <2>2 DEF RelationOf
    <3> QED
      BY <1>3, <2>2, <3>1 DEF createBlockingRelation
  <2>4. stage' = "ended" => relations' = Wanted
    <3>1. ASSUME Cardinality(relations) = Cardinality(Wanted) PROVE relations = Wanted
      BY <3>1, <2>2, WantedIsFinite, FS_Subset
    <3> QED
      BY <1>3, <3>1 DEF createBlockingRelation
  <2>5. /\ stage = "relations" /\ stage' \in {"relations", "ended", "failed"}
        /\ UNCHANGED << flow, made, started, finished, early >>
    BY <1>3 DEF createBlockingRelation
  <2> QED
    BY <2>1, <2>2, <2>3, <2>4, <2>5 DEF DecInv, PlanInv, RequestInv, PollInv, ChildrenWaitTheirTurn
<1>4. ASSUME NEW i \in Kept, DispatchBest(i)
      PROVE  flow' = flow /\ PlanInv' /\ RequestInv' /\ PollInv' /\ ChildrenWaitTheirTurn'
  <2>1. /\ flow = "planner" /\ started' = started \cup {i} /\ i \in 1 .. made
        /\ early' = IF stage = "ended" THEN early ELSE early \cup {i}
        /\ AreClosed(GraphOf(1 .. made)[i])
        /\ UNCHANGED << flow, stage, blockedBy, made, relations, finished >>
    BY <1>4 DEF DispatchBest
  <2>2. stage = "ended" => blockedBy[i] \subseteq finished
    <3> SUFFICES ASSUME stage = "ended", NEW b \in blockedBy[i] PROVE b \in finished
      OBVIOUS
    <3>1. 1 .. made = Kept /\ relations = Wanted /\ b \in Kept
      BY <2>1 DEF DecInv, PlanInv, Kept
    <3>2. << b, i >> \in Wanted
      BY DEF Wanted
    <3> QED
      BY <2>1, <3>1, <3>2 DEF AreClosed, GraphOf
  <2>3. ChildrenWaitTheirTurn'
    BY <2>1, <2>2 DEF DecInv, ChildrenWaitTheirTurn
  <2> QED
    BY <2>1, <2>3 DEF DecInv, PlanInv, RequestInv, PollInv, Wanted
<1>5. ASSUME NEW i \in Kept, AgentCloses(i)
      PROVE  flow' = flow /\ PlanInv' /\ RequestInv' /\ PollInv' /\ ChildrenWaitTheirTurn'
  BY <1>5 DEF AgentCloses, DecInv, PlanInv, RequestInv, PollInv, ChildrenWaitTheirTurn, Wanted
<1>6. ASSUME NEW request \in Requests, DispatchRequest(request)
      PROVE  flow' = flow /\ PlanInv' /\ RequestInv' /\ PollInv' /\ ChildrenWaitTheirTurn'
  <2>1. flow = "endpoint" /\ flow' = "endpoint" /\ stage' \in {"ended", "failed"} /\ started' = ChildrenOf(request)
    BY <1>6 DEF DispatchRequest
  <2>2. ASSUME stage' = "ended" PROVE ChildrenOf(request) # {}
    <3>1. ~ (request.numbered = 0 /\ shouldDecompose(request)) /\ request.numbered \in 0 .. 2
      BY <1>6, <2>2 DEF DispatchRequest, Requests
    <3>2. request.numbered # 0 => 1 \in 1 .. request.numbered
      BY <3>1
    <3> QED
      BY <3>1, <3>2 DEF ChildrenOf
  <2> QED
    BY <2>1, <2>2 DEF PlanInv, RequestInv, PollInv, ChildrenWaitTheirTurn
<1> QED
  BY <1>1, <1>2, <1>3, <1>4, <1>5, <1>6 DEF PlanNext

(* So does a step of an analysis.                                           *)
LEMMA DecInvNext == ASSUME DecInv, [DecNext]_decVars PROVE DecInv'
<1>1. CASE PlanNext /\ UNCHANGED graphVars
  <2>1. GraphInv'
    BY <1>1, GraphInvNext DEF DecInv
  <2> QED
    BY <1>1, <2>1, PlanNextKeeps DEF DecInv
<1>2. ASSUME [GraphNext]_graphVars, UNCHANGED << flow, planVars >> PROVE DecInv'
  <2>1. GraphInv'
    BY <1>2, GraphInvNext DEF DecInv
  <2> QED
    BY <1>2, <2>1 DEF DecInv, PlanInv, RequestInv, PollInv, ChildrenWaitTheirTurn, planVars, Wanted
<1> QED
  BY <1>1, <1>2 DEF DecNext, Analyse, decVars

(* The graphs of a poll are analysed right, children wait for the children  *)
(* that block them, and an accepted request starts an agent: whatever the   *)
(* model answers, however many sub-issues it may make.                      *)
THEOREM DecompositionStaysOrderly == DecSpec => []DecompositionIsOrderly
<1>1. DecInit => DecInv
  BY DecInvInit
<1>2. DecInv /\ [DecNext]_decVars => DecInv'
  BY DecInvNext
<1>3. DecInv => DecompositionIsOrderly
  BY GraphInvIsEnough DEF DecInv, DecompositionIsOrderly, AcceptedRequestsAreStarted, RequestInv
<1> QED
  BY <1>1, <1>2, <1>3, PTL DEF DecSpec

-----------------------------------------------------------------------------
(* The records of the review daemon (ReviewRecords): rounds have no gaps,   *)
(* the first row is that of the first review, an approval is never taken    *)
(* back, and only what the daemon merged is at the analysis of its merge.   *)

(* What the rows may say of a pull request.                                 *)
Outcomes == {"none", "failed", "skipped", "escalated", "merged"}

(* Who may have merged a pull request.                                      *)
Mergers == {"nobody", "daemon", "unanswered", "human"}

(* A row of the table of reviews.                                           *)
Rows == [approved : BOOLEAN, outcome : Outcomes]

(* The rows of a pull request are those of rounds without a gap.            *)
RecordsTypeOK ==
    /\ longest \in [ReviewedPRs -> Nat]
    /\ DOMAIN metrics = ReviewedPRs
    /\ \A p \in ReviewedPRs : metrics[p] \in [1 .. longest[p] -> Rows]
    /\ reviewRounds \in [ReviewedPRs -> Nat]
    /\ lastVerdict \in [ReviewedPRs -> {"none", "approve", "request_changes"}]
    /\ processing \in [pr : ReviewedPRs \cup {NoPR}, at : {"idle", "review", "address", "merge", "analysis"},
                       tries : {0, 1}, again : BOOLEAN]
    /\ mergedByWhom \in [ReviewedPRs -> Mergers]
    /\ interrupted \in [restarts : Nat, prs : SUBSET ReviewedPRs]
    /\ commented \in [FindingKeys -> Nat]
    /\ reviewed \in [ReviewedPRs -> Nat]
    /\ approvedAtOnce \in SUBSET ReviewedPRs

(* The rounds of one life follow those that have rows; the first review of  *)
(* all made the first row, and an approval is never taken back.             *)
RoundsFollow ==
    \A p \in ReviewedPRs :
        /\ reviewRounds[p] <= longest[p]
        /\ reviewed[p] = 0 => longest[p] = 0
        /\ p \in approvedAtOnce => longest[p] >= 1 /\ metrics[p][1].approved

(* Only what the daemon merged is at the analysis of its merge.             *)
WorkIsInOrder ==
    /\ processing.pr = NoPR <=> processing.at = "idle"
    /\ processing.pr # NoPR => (processing.at = "analysis" <=> mergedByWhom[processing.pr] = "daemon")

(* The inductive invariant of the records.                                  *)
RecordsInv == RecordsTypeOK /\ RoundsFollow /\ WorkIsInOrder /\ OutcomesAreTrue /\ ConventionsRecur

(* The last round of those without a gap.                                   *)
LEMMA MaxOfInterval == ASSUME NEW n \in Nat, n >= 1 PROVE Max(1 .. n) = n
BY DEF Max

(* The greater of two numbers.                                              *)
LEMMA MaxOfTwo == ASSUME NEW m \in Nat, NEW n \in Nat PROVE Max({m, n}) = IF m <= n THEN n ELSE m
<1>1. \A x \in {m, n} : (\A y \in {m, n} : x >= y) <=> x = IF m <= n THEN n ELSE m
  OBVIOUS
<1> QED
  BY <1>1 DEF Max

(* It holds at the start.                                                   *)
LEMMA RecordsInvInit == ASSUME RecordsInit PROVE RecordsInv
<1> USE ReviewRecordsAssumption
<1>1. RecordsTypeOK
  BY DEF RecordsInit, RecordsTypeOK, NotProcessing, Rows, Mergers
<1>2. RoundsFollow /\ WorkIsInOrder
  BY DEF RecordsInit, RoundsFollow, WorkIsInOrder, NotProcessing
<1>3. OutcomesAreTrue
  BY DEF RecordsInit, OutcomesAreTrue
<1>4. ConventionsRecur
  <2>1. ~ 0 >= PromotionThreshold
    OBVIOUS
  <2>2. \A k \in FindingKeys :
           /\ findings[k] = [count |-> 0, convention |-> FALSE]
           /\ commented[k] = 0
    BY DEF RecordsInit
  <2>3. \A k \in FindingKeys :
           findings[k] = [count |-> commented[k], convention |-> commented[k] >= PromotionThreshold]
    <3> TAKE k \in FindingKeys
    <3>1. (commented[k] >= PromotionThreshold) = FALSE
      BY <2>1, <2>2
    <3> QED
      BY <2>2, <3>1
  <2>4. promotedFindings = {}
    BY DEF RecordsInit
  <2> QED
    BY <2>3, <2>4 DEF ConventionsRecur
<1> QED
  BY <1>1, <1>2, <1>3, <1>4 DEF RecordsInv

(* A pull request ends: all its rows get the outcome.                       *)
LEMMA RecordResultKeepsInv ==
    ASSUME RecordsInv, NEW p \in ReviewedPRs, processing.pr = p, NEW outcome \in Outcomes \ {"none"},
           recordResult(p, outcome), outcome = "merged" <=> mergedByWhom[p] = "daemon",
           UNCHANGED << findings, promotedFindings, mergedByWhom, commented, reviewed, longest, approvedAtOnce >>
    PROVE  RecordsInv'
<1> USE ReviewRecordsAssumption
<1>1. /\ DOMAIN metrics' = ReviewedPRs
      /\ \A q \in ReviewedPRs : metrics'[q] = IF q = p THEN updateOutcome(metrics[p], outcome) ELSE metrics[q]
  BY DEF recordResult, RecordsInv, RecordsTypeOK
<1>2. /\ metrics[p] \in [1 .. longest[p] -> Rows]
      /\ metrics'[p] = [r \in 1 .. longest[p] |-> [metrics[p][r] EXCEPT !.outcome = outcome]]
  BY <1>1 DEF updateOutcome, RecordsInv, RecordsTypeOK
<1>3. \A r \in 1 .. longest[p] : /\ metrics'[p][r] \in Rows
                                 /\ metrics'[p][r].outcome = outcome
                                 /\ metrics'[p][r].approved = metrics[p][r].approved
  <2> TAKE r \in 1 .. longest[p]
  <2>1. PICK record \in Rows : record = metrics[p][r]
    BY <1>2
  <2>2. metrics'[p][r] = [record EXCEPT !.outcome = outcome]
    BY <1>2, <2>1
  <2> QED
    BY <2>1, <2>2 DEF Rows
<1>4. metrics'[p] \in [1 .. longest[p] -> Rows]
  BY <1>2, <1>3
<1>5. processing' = NotProcessing /\ interrupted' = [interrupted EXCEPT !.prs = @ \ {p}]
  BY DEF recordResult
<1>6. /\ reviewRounds' \in [ReviewedPRs -> Nat]
      /\ lastVerdict' \in [ReviewedPRs -> {"none", "approve", "request_changes"}]
      /\ \A q \in ReviewedPRs : reviewRounds'[q] = reviewRounds[q] \/ reviewRounds'[q] = 0
  <2>1. /\ reviewRounds \in [ReviewedPRs -> Nat]
        /\ lastVerdict \in [ReviewedPRs -> {"none", "approve", "request_changes"}]
    BY DEF RecordsInv, RecordsTypeOK
  <2>2. CASE outcome \in {"merged", "failed"}
    <3>1. /\ reviewRounds' = [reviewRounds EXCEPT ![p] = 0]
          /\ lastVerdict' = [lastVerdict EXCEPT ![p] = "none"]
      BY <2>2 DEF recordResult
    <3> QED
      BY <2>1, <3>1
  <2>3. CASE outcome \notin {"merged", "failed"}
    <3>1. UNCHANGED << reviewRounds, lastVerdict >>
      BY <2>3 DEF recordResult
    <3> QED
      BY <2>1, <3>1
  <2> QED
    BY <2>2, <2>3
<1>7. /\ interrupted' \in [restarts : Nat, prs : SUBSET ReviewedPRs]
      /\ interrupted'.prs = interrupted.prs \ {p}
  BY <1>5 DEF RecordsInv, RecordsTypeOK
<1>8. RecordsTypeOK'
  BY <1>1, <1>4, <1>5, <1>6, <1>7 DEF RecordsInv, RecordsTypeOK, NotProcessing
<1>9. RoundsFollow'
  <2>1. ASSUME NEW q \in ReviewedPRs, q \in approvedAtOnce
        PROVE  longest[q] >= 1 /\ metrics'[q][1].approved
    <3>1. longest[q] >= 1 /\ metrics[q][1].approved /\ longest[q] \in Nat
      BY <2>1 DEF RecordsInv, RoundsFollow, RecordsTypeOK
    <3>2. 1 \in 1 .. longest[q]
      BY <3>1
    <3> QED
      BY <3>1, <3>2, <1>1, <1>3
  <2>2. \A q \in ReviewedPRs : reviewRounds'[q] <= longest[q] /\ (reviewed[q] = 0 => longest[q] = 0)
    <3> TAKE q \in ReviewedPRs
    <3>1. reviewRounds[q] \in Nat /\ longest[q] \in Nat
      BY DEF RecordsInv, RecordsTypeOK
    <3>2. reviewRounds[q] <= longest[q] /\ (reviewed[q] = 0 => longest[q] = 0)
      BY DEF RecordsInv, RoundsFollow
    <3>3. reviewRounds'[q] = reviewRounds[q] \/ reviewRounds'[q] = 0
      BY <1>6
    <3> QED
      BY <3>1, <3>2, <3>3
  <2> QED
    BY <2>1, <2>2 DEF RoundsFollow
<1>10. WorkIsInOrder'
  BY <1>5 DEF WorkIsInOrder, NotProcessing
<1>11. OutcomesAreTrue'
  <2>1. ASSUME NEW q \in ReviewedPRs \ (interrupted.prs \ {p}), NEW r \in DOMAIN metrics'[q]
        PROVE  /\ metrics'[q][r].outcome = metrics'[q][1].outcome
               /\ metrics'[q][r].outcome # "none"
               /\ metrics'[q][r].outcome = "merged" <=> mergedByWhom[q] = "daemon"
    <3>1. CASE q = p
      <4>1. r \in 1 .. longest[p] /\ longest[p] \in Nat
        BY <3>1, <1>2 DEF RecordsInv, RecordsTypeOK
      <4>2. 1 \in 1 .. longest[p]
        BY <4>1
      <4> QED
        BY <3>1, <4>1, <4>2, <1>3
    <3>2. CASE q # p
      BY <2>1, <3>2, <1>1 DEF RecordsInv, OutcomesAreTrue
    <3> QED
      BY <3>1, <3>2
  <2> QED
    BY <2>1, <1>5, <1>7 DEF OutcomesAreTrue, NotProcessing
<1>12. ConventionsRecur'
  BY DEF RecordsInv, ConventionsRecur, Promoted
<1> QED
  BY <1>8, <1>9, <1>10, <1>11, <1>12 DEF RecordsInv

(* A review gets its row: the next round of this life, which may have one.  *)
LEMMA UpsertIsARow ==
    ASSUME NEW n \in Nat, NEW rows \in [1 .. n -> Rows], NEW round \in 1 .. n + 1, NEW approved \in BOOLEAN
    PROVE  /\ upsert(rows, round, approved) \in [1 .. Max({n, round}) -> Rows]
           /\ Max({n, round}) \in Nat /\ round <= Max({n, round}) /\ n <= Max({n, round})
           /\ \A r \in 1 .. n : rows[r].approved => upsert(rows, round, approved)[r].approved
           /\ approved => upsert(rows, round, approved)[round].approved
<1>1. Max({n, round}) = IF n <= round THEN round ELSE n
  BY MaxOfTwo
<1>2. (1 .. n) \cup {round} = 1 .. Max({n, round})
  BY <1>1
<1>3. ASSUME NEW r \in (1 .. n) \cup {round}
      PROVE  /\ upsert(rows, round, approved)[r] \in Rows
             /\ r \in 1 .. n /\ rows[r].approved => upsert(rows, round, approved)[r].approved
             /\ r = round /\ approved => upsert(rows, round, approved)[r].approved
  <2>1. upsert(rows, round, approved)[r] =
           IF r # round THEN rows[r]
           ELSE IF r \in 1 .. n THEN [rows[r] EXCEPT !.approved = @ \/ approved]
           ELSE [approved |-> approved, outcome |-> "none"]
    BY DEF upsert
  <2>2. CASE r # round
    BY <2>1, <2>2
  <2>3. CASE r = round /\ r \in 1 .. n
    <3>1. rows[r] \in Rows
      BY <2>3
    <3>2. PICK record \in Rows : record = rows[r]
      BY <3>1
    <3>3. PICK either \in BOOLEAN : either <=> (record.approved \/ approved)
      BY <3>2 DEF Rows
    <3>4. upsert(rows, round, approved)[r] = [record EXCEPT !.approved = record.approved \/ approved]
      BY <2>1, <2>3, <3>2
    <3>5. [record EXCEPT !.approved = record.approved \/ approved] \in Rows
      BY <3>2 DEF Rows
    <3>6. [record EXCEPT !.approved = record.approved \/ approved].approved = (record.approved \/ approved)
      BY <3>2 DEF Rows
    <3> QED
      BY <3>2, <3>4, <3>5, <3>6
  <2>4. CASE r = round /\ r \notin 1 .. n
    BY <2>1, <2>4 DEF Rows, Outcomes
  <2> QED
    BY <2>2, <2>3, <2>4
<1>4. upsert(rows, round, approved) \in [(1 .. n) \cup {round} -> Rows]
  <2>1. upsert(rows, round, approved) =
           [r \in (1 .. n) \cup {round} |-> upsert(rows, round, approved)[r]]
    BY DEF upsert
  <2> QED
    BY <1>3, <2>1
<1>5. upsert(rows, round, approved) \in [1 .. Max({n, round}) -> Rows]
  BY <1>2, <1>4
<1>6. Max({n, round}) \in Nat /\ round <= Max({n, round}) /\ n <= Max({n, round})
  BY <1>1
<1>7. \A r \in 1 .. n : rows[r].approved => upsert(rows, round, approved)[r].approved
  BY <1>3
<1>8. approved => upsert(rows, round, approved)[round].approved
  BY <1>3
<1> QED
  BY <1>5, <1>6, <1>7, <1>8

(* A posted review keeps the invariant: its row, its comments, its verdict. *)
LEMMA ReviewKeepsInv ==
    ASSUME RecordsInv, NEW p \in ReviewedPRs, ReviewIsPosted(p)
    PROVE  RecordsInv'
<1> USE ReviewRecordsAssumption
<1>1. PICK approved \in BOOLEAN, comments \in [FindingKeys -> 0 .. 2] :
         /\ At(p, "review")
         /\ recordReviewMetrics(p, approved, comments)
         /\ reviewed' = [reviewed EXCEPT ![p] = @ + 1]
         /\ approvedAtOnce' = approvedAtOnce \cup (IF approved /\ reviewed[p] = 0 THEN {p} ELSE {})
         /\ processing' = [processing EXCEPT !.at =
               IF approved /\ ~processing.again THEN "merge" ELSE "address"]
         /\ lastVerdict' = IF processing.again THEN lastVerdict
                           ELSE [lastVerdict EXCEPT ![p] = IF approved THEN "approve" ELSE "request_changes"]
         /\ UNCHANGED << promotedFindings, mergedByWhom, interrupted >>
  BY DEF ReviewIsPosted
<1>2. PICK round : round = reviewRounds[p] + 1
  OBVIOUS
<1>3. /\ reviewRounds' = [reviewRounds EXCEPT ![p] = round]
      /\ metrics' = [metrics EXCEPT ![p] = upsert(metrics[p], round, approved)]
      /\ findings' = [k \in FindingKeys |-> upsertFinding(findings[k], comments[k])]
      /\ commented' = [k \in FindingKeys |-> commented[k] + comments[k]]
      /\ longest' = [longest EXCEPT ![p] = Max({longest[p], round})]
  BY <1>1, <1>2 DEF recordReviewMetrics
<1>4. /\ longest \in [ReviewedPRs -> Nat] /\ longest[p] \in Nat
      /\ DOMAIN metrics = ReviewedPRs /\ metrics[p] \in [1 .. longest[p] -> Rows]
      /\ reviewRounds \in [ReviewedPRs -> Nat] /\ reviewRounds[p] \in Nat
      /\ reviewed \in [ReviewedPRs -> Nat] /\ reviewed[p] \in Nat
  BY DEF RecordsInv, RecordsTypeOK
<1>5. round \in 1 .. longest[p] + 1
  BY <1>2, <1>4 DEF RecordsInv, RoundsFollow
<1>6. PICK most : most = Max({longest[p], round})
  OBVIOUS
<1>7. PICK rows : rows = upsert(metrics[p], round, approved)
  OBVIOUS
<1>8. /\ rows \in [1 .. most -> Rows]
      /\ most \in Nat /\ round <= most /\ longest[p] <= most
      /\ \A r \in 1 .. longest[p] : metrics[p][r].approved => rows[r].approved
      /\ approved => rows[round].approved
  BY <1>4, <1>5, <1>6, <1>7, UpsertIsARow
<1>9. /\ DOMAIN metrics' = ReviewedPRs
      /\ metrics'[p] = rows
      /\ \A q \in ReviewedPRs \ {p} : metrics'[q] = metrics[q]
  BY <1>3, <1>4, <1>7
<1>10. /\ longest' \in [ReviewedPRs -> Nat]
       /\ longest'[p] = most
       /\ \A q \in ReviewedPRs \ {p} : longest'[q] = longest[q]
  BY <1>3, <1>4, <1>6, <1>8
<1>11. /\ reviewRounds' \in [ReviewedPRs -> Nat]
       /\ reviewRounds'[p] = round
       /\ \A q \in ReviewedPRs \ {p} : reviewRounds'[q] = reviewRounds[q]
  BY <1>3, <1>4, <1>5
<1>12. /\ reviewed' \in [ReviewedPRs -> Nat]
       /\ reviewed'[p] # 0
       /\ \A q \in ReviewedPRs \ {p} : reviewed'[q] = reviewed[q]
  BY <1>1, <1>4
<1>13. processing.pr = p /\ processing.at = "review" /\ p # NoPR
  BY <1>1 DEF At
<1>14. /\ processing' \in [pr : ReviewedPRs \cup {NoPR}, at : {"idle", "review", "address", "merge", "analysis"},
                           tries : {0, 1}, again : BOOLEAN]
       /\ processing'.pr = p /\ processing'.at \in {"merge", "address"}
  <2>1. PICK after \in {"merge", "address"} : processing' = [processing EXCEPT !.at = after]
    BY <1>1
  <2> QED
    BY <2>1, <1>13 DEF RecordsInv, RecordsTypeOK
<1>15. lastVerdict' \in [ReviewedPRs -> {"none", "approve", "request_changes"}]
  <2>1. lastVerdict \in [ReviewedPRs -> {"none", "approve", "request_changes"}]
    BY DEF RecordsInv, RecordsTypeOK
  <2>2. PICK verdict \in {"approve", "request_changes"} : verdict = IF approved THEN "approve" ELSE "request_changes"
    OBVIOUS
  <2>3. lastVerdict' = lastVerdict \/ lastVerdict' = [lastVerdict EXCEPT ![p] = verdict]
    BY <1>1, <2>2
  <2> QED
    BY <2>1, <2>3
<1>16. /\ commented' \in [FindingKeys -> Nat]
       /\ \A k \in FindingKeys :
             /\ commented[k] \in Nat /\ commented'[k] \in Nat /\ comments[k] \in Nat
             /\ commented'[k] = commented[k] + comments[k]
  <2>1. commented \in [FindingKeys -> Nat]
    BY DEF RecordsInv, RecordsTypeOK
  <2>2. ASSUME NEW k \in FindingKeys
        PROVE  /\ commented[k] \in Nat /\ commented[k] + comments[k] \in Nat /\ comments[k] \in Nat
    <3>1. commented[k] \in Nat /\ comments[k] \in 0 .. 2
      BY <2>1
    <3> QED
      BY <3>1
  <2>3. commented' = [k \in FindingKeys |-> commented[k] + comments[k]]
    BY <1>3
  <2> QED
    BY <2>2, <2>3
<1>17. RecordsTypeOK'
  <2>1. \A q \in ReviewedPRs : metrics'[q] \in [1 .. longest'[q] -> Rows]
    BY <1>8, <1>9, <1>10 DEF RecordsInv, RecordsTypeOK
  <2>2. approvedAtOnce' \in SUBSET ReviewedPRs
    BY <1>1 DEF RecordsInv, RecordsTypeOK
  <2>3. /\ mergedByWhom' \in [ReviewedPRs -> Mergers]
        /\ interrupted' \in [restarts : Nat, prs : SUBSET ReviewedPRs]
    BY <1>1 DEF RecordsInv, RecordsTypeOK
  <2> QED
    BY <1>9, <1>10, <1>11, <1>12, <1>14, <1>15, <1>16, <2>1, <2>2, <2>3 DEF RecordsTypeOK
<1>18. RoundsFollow'
  <2>1. ASSUME NEW q \in ReviewedPRs
        PROVE  /\ reviewRounds'[q] <= longest'[q]
               /\ reviewed'[q] = 0 => longest'[q] = 0
               /\ q \in approvedAtOnce' => longest'[q] >= 1 /\ metrics'[q][1].approved
    <3>1. CASE q # p
      BY <3>1, <1>1, <1>9, <1>10, <1>11, <1>12 DEF RecordsInv, RoundsFollow
    <3>2. CASE q = p
      <4>1. reviewRounds'[q] <= longest'[q] /\ (reviewed'[q] = 0 => longest'[q] = 0)
        BY <3>2, <1>8, <1>10, <1>11, <1>12
      <4>2. ASSUME p \in approvedAtOnce PROVE longest'[q] >= 1 /\ metrics'[q][1].approved
        <5>1. longest[p] >= 1 /\ metrics[p][1].approved
          BY <4>2 DEF RecordsInv, RoundsFollow
        <5>2. 1 \in 1 .. longest[p] /\ most >= 1
          BY <5>1, <1>4, <1>8
        <5> QED
          BY <3>2, <5>1, <5>2, <1>8, <1>9, <1>10
      <4>3. ASSUME approved, reviewed[p] = 0 PROVE longest'[q] >= 1 /\ metrics'[q][1].approved
        <5>1. longest[p] = 0
          BY <4>3 DEF RecordsInv, RoundsFollow
        <5>2. round = 1 /\ most >= 1
          BY <5>1, <1>5, <1>8
        <5> QED
          BY <3>2, <4>3, <5>2, <1>8, <1>9, <1>10
      <4> QED
        BY <3>2, <4>1, <4>2, <4>3, <1>1
    <3> QED
      BY <3>1, <3>2
  <2> QED
    BY <2>1 DEF RoundsFollow
<1>19. WorkIsInOrder'
  <2>1. mergedByWhom'[p] # "daemon"
    BY <1>1, <1>13 DEF RecordsInv, WorkIsInOrder
  <2> QED
    BY <2>1, <1>13, <1>14 DEF WorkIsInOrder
<1>20. OutcomesAreTrue'
  BY <1>1, <1>9, <1>13, <1>14 DEF RecordsInv, OutcomesAreTrue
<1>21. ConventionsRecur'
  <2>1. ASSUME NEW k \in FindingKeys
        PROVE  /\ findings'[k] = [count |-> commented'[k], convention |-> commented'[k] >= PromotionThreshold]
               /\ findings[k].convention => findings'[k].convention
    <3>1. PICK once \in Nat, now \in Nat : once = commented[k] /\ now = commented'[k] /\ now = once + comments[k] /\ once <= now
      BY <1>16
    <3>2. findings[k].count = once /\ (findings[k].convention = (once >= PromotionThreshold))
      <4>1. findings[k] = [count |-> commented[k], convention |-> commented[k] >= PromotionThreshold]
        BY DEF RecordsInv, ConventionsRecur
      <4> QED
        BY <4>1, <3>1
    <3>3. findings'[k] = [count |-> now, convention |-> findings[k].convention \/ now >= PromotionThreshold]
      BY <3>1, <3>2, <1>3 DEF upsertFinding, promoteEligible
    <3>4. once >= PromotionThreshold => now >= PromotionThreshold
      BY <3>1
    <3>5. (findings[k].convention \/ now >= PromotionThreshold) = (now >= PromotionThreshold)
      <4>1. CASE now >= PromotionThreshold
        BY <4>1
      <4>2. CASE ~(now >= PromotionThreshold)
        <5>1. ~(once >= PromotionThreshold)
          BY <3>4, <4>2
        <5>2. (once >= PromotionThreshold) = FALSE
          BY <5>1
        <5>3. findings[k].convention = FALSE
          BY <3>2, <5>2, Zenon
        <5> QED
          BY <4>2, <5>3
      <4> QED
        BY <4>1, <4>2
    <3> QED
      BY <3>1, <3>2, <3>3, <3>4, <3>5
  <2>2. promotedFindings \subseteq Promoted
    BY DEF RecordsInv, ConventionsRecur
  <2>3. promotedFindings' \subseteq Promoted'
    BY <1>1, <2>1, <2>2 DEF Promoted
  <2> QED
    BY <2>1, <2>3 DEF ConventionsRecur
<1> QED
  BY <1>17, <1>18, <1>19, <1>20, <1>21 DEF RecordsInv

(* Steps that write no row.                                                 *)
LEMMA OtherStepsKeepInv ==
    ASSUME RecordsInv, UNCHANGED << metrics, findings, commented, reviewed, longest, approvedAtOnce >>,
           WorkIsInOrder', OutcomesAreTrue', RoundsFollow',
           promotedFindings' \subseteq Promoted,
           reviewRounds' \in [ReviewedPRs -> Nat],
           lastVerdict' \in [ReviewedPRs -> {"none", "approve", "request_changes"}],
           processing' \in [pr : ReviewedPRs \cup {NoPR}, at : {"idle", "review", "address", "merge", "analysis"},
                            tries : {0, 1}, again : BOOLEAN],
           mergedByWhom' \in [ReviewedPRs -> Mergers],
           interrupted' \in [restarts : Nat, prs : SUBSET ReviewedPRs]
    PROVE  RecordsInv'
<1>1. RecordsTypeOK'
  BY DEF RecordsInv, RecordsTypeOK
<1>2. ConventionsRecur'
  BY DEF RecordsInv, ConventionsRecur, Promoted
<1> QED
  BY <1>1, <1>2 DEF RecordsInv

(* Every step of the daemon, of a person and of a restart keeps the         *)
(* invariant.                                                               *)
LEMMA RecordsInvNext == ASSUME RecordsInv, [RecordsNext]_recordVars PROVE RecordsInv'
<1> USE ReviewRecordsAssumption
<1>1. CASE UNCHANGED recordVars
  BY <1>1 DEF RecordsInv, RecordsTypeOK, RoundsFollow, WorkIsInOrder, OutcomesAreTrue, ConventionsRecur,
              Promoted, recordVars
<1>2. CASE DaemonRestarts
  <2>1. PICK died : died = {processing.pr} \ {NoPR}
    OBVIOUS
  <2>2. /\ interrupted' = [restarts |-> interrupted.restarts + 1, prs |-> interrupted.prs \cup died]
        /\ died \in SUBSET ReviewedPRs
    BY <1>2, <2>1 DEF DaemonRestarts, RecordsInv, RecordsTypeOK
  <2>3. interrupted' \in [restarts : Nat, prs : SUBSET ReviewedPRs]
    BY <2>2 DEF RecordsInv, RecordsTypeOK
  <2>4. /\ processing' = NotProcessing /\ reviewRounds' = [q \in ReviewedPRs |-> 0]
        /\ lastVerdict' = [q \in ReviewedPRs |-> "none"] /\ promotedFindings' = Promoted
        /\ UNCHANGED << metrics, findings, mergedByWhom, commented, reviewed, longest, approvedAtOnce >>
    BY <1>2 DEF DaemonRestarts
  <2>5. WorkIsInOrder'
    BY <2>4 DEF WorkIsInOrder, NotProcessing
  <2>6. OutcomesAreTrue'
    <3>1. \A q \in ReviewedPRs \ ({processing'.pr} \cup interrupted'.prs) :
             q \in ReviewedPRs \ ({processing.pr} \cup interrupted.prs)
      BY <2>1, <2>2
    <3> QED
      BY <3>1, <2>4 DEF RecordsInv, OutcomesAreTrue
  <2>7. RoundsFollow'
    BY <2>4 DEF RecordsInv, RoundsFollow, RecordsTypeOK
  <2>8. processing' \in [pr : ReviewedPRs \cup {NoPR}, at : {"idle", "review", "address", "merge", "analysis"},
                         tries : {0, 1}, again : BOOLEAN]
    BY <2>4 DEF NotProcessing
  <2>9. mergedByWhom' \in [ReviewedPRs -> Mergers]
    BY <2>4 DEF RecordsInv, RecordsTypeOK
  <2> QED
    BY <2>3, <2>4, <2>5, <2>6, <2>7, <2>8, <2>9, OtherStepsKeepInv
<1>3. ASSUME NEW p \in ReviewedPRs,
             \/ BeginPR(p) \/ EndsBeforeReview(p) \/ ReviewIsPosted(p) \/ ReviewIsLost(p)
             \/ ChangesAreRequested(p) \/ MergeIsAccepted(p) \/ MergeAnswerIsLost(p)
             \/ postMergeAnalysis(p) \/ MergeIsGivenUp(p) \/ HumanMerges(p)
      PROVE  RecordsInv'
  <2>1. /\ processing \in [pr : ReviewedPRs \cup {NoPR}, at : {"idle", "review", "address", "merge", "analysis"},
                           tries : {0, 1}, again : BOOLEAN]
        /\ mergedByWhom \in [ReviewedPRs -> Mergers]
        /\ interrupted \in [restarts : Nat, prs : SUBSET ReviewedPRs]
        /\ reviewRounds \in [ReviewedPRs -> Nat]
        /\ lastVerdict \in [ReviewedPRs -> {"none", "approve", "request_changes"}]
        /\ promotedFindings \subseteq Promoted
        /\ RoundsFollow /\ WorkIsInOrder /\ OutcomesAreTrue
    BY DEF RecordsInv, RecordsTypeOK, ConventionsRecur
  <2>2. CASE BeginPR(p)
    <3>1. PICK again \in {FALSE, lastVerdict[p] = "request_changes"} :
             processing' = [pr |-> p, at |-> "review", tries |-> 0, again |-> again]
      BY <2>2 DEF BeginPR
    <3>2. again \in BOOLEAN
      OBVIOUS
    <3>3. /\ processing = NotProcessing /\ mergedByWhom[p] = "nobody"
          /\ UNCHANGED << metrics, findings, promotedFindings, reviewRounds, lastVerdict, mergedByWhom,
                          commented, reviewed, longest, approvedAtOnce, interrupted >>
      BY <2>2 DEF BeginPR
    <3>4. processing' \in [pr : ReviewedPRs \cup {NoPR}, at : {"idle", "review", "address", "merge", "analysis"},
                           tries : {0, 1}, again : BOOLEAN]
      BY <3>1, <3>2
    <3>5. WorkIsInOrder'
      BY <3>1, <3>3 DEF WorkIsInOrder
    <3>6. OutcomesAreTrue'
      BY <2>1, <3>1, <3>3 DEF OutcomesAreTrue, NotProcessing
    <3>7. RoundsFollow'
      BY <2>1, <3>3 DEF RoundsFollow
    <3> QED
      BY <2>1, <3>3, <3>4, <3>5, <3>6, <3>7, OtherStepsKeepInv
  <2>3. CASE EndsBeforeReview(p)
    BY <2>1, <2>3, RecordResultKeepsInv DEF EndsBeforeReview, At, WorkIsInOrder, Outcomes
  <2>4. CASE ReviewIsPosted(p)
    BY <2>4, ReviewKeepsInv
  <2>5. CASE ReviewIsLost(p)
    <3>1. At(p, "review") /\ mergedByWhom[p] # "daemon"
      BY <2>1, <2>5 DEF ReviewIsLost, At, WorkIsInOrder
    <3>2. CASE ~processing.again /\ processing.tries = 0
      <4>1. /\ processing' = [processing EXCEPT !.tries = 1]
            /\ UNCHANGED << metrics, reviewRounds, lastVerdict, interrupted, findings, promotedFindings,
                            mergedByWhom, commented, reviewed, longest, approvedAtOnce >>
        BY <2>5, <3>2 DEF ReviewIsLost
      <4>2. processing' \in [pr : ReviewedPRs \cup {NoPR}, at : {"idle", "review", "address", "merge", "analysis"},
                             tries : {0, 1}, again : BOOLEAN]
        BY <2>1, <4>1
      <4>3. processing'.pr = processing.pr /\ processing'.at = processing.at
        BY <2>1, <4>1
      <4>4. WorkIsInOrder'
        BY <2>1, <4>1, <4>3 DEF WorkIsInOrder
      <4>5. OutcomesAreTrue' /\ RoundsFollow'
        BY <2>1, <4>1, <4>3 DEF OutcomesAreTrue, RoundsFollow
      <4> QED
        BY <2>1, <4>1, <4>2, <4>4, <4>5, OtherStepsKeepInv
    <3>3. CASE ~(~processing.again /\ processing.tries = 0)
      <4>1. PICK outcome \in {"escalated", "skipped"} : recordResult(p, outcome)
        BY <2>5, <3>3 DEF ReviewIsLost
      <4>2. UNCHANGED << findings, promotedFindings, mergedByWhom, commented, reviewed, longest, approvedAtOnce >>
        BY <2>5 DEF ReviewIsLost
      <4> QED
        BY <3>1, <4>1, <4>2, RecordResultKeepsInv DEF At, Outcomes
    <3> QED
      BY <3>2, <3>3
  <2>6. CASE ChangesAreRequested(p)
    BY <2>1, <2>6, RecordResultKeepsInv DEF ChangesAreRequested, At, WorkIsInOrder, Outcomes
  <2>7. CASE MergeIsAccepted(p)
    <3>1. /\ At(p, "merge") /\ mergedByWhom[p] = "nobody"
          /\ mergedByWhom' = [mergedByWhom EXCEPT ![p] = "daemon"]
          /\ processing' = [processing EXCEPT !.at = "analysis"]
          /\ UNCHANGED << metrics, findings, promotedFindings, reviewRounds, lastVerdict,
                          commented, reviewed, longest, approvedAtOnce, interrupted >>
      BY <2>7 DEF MergeIsAccepted
    <3>2. /\ processing' \in [pr : ReviewedPRs \cup {NoPR}, at : {"idle", "review", "address", "merge", "analysis"},
                              tries : {0, 1}, again : BOOLEAN]
          /\ processing'.pr = p /\ processing'.at = "analysis"
      BY <2>1, <3>1 DEF At
    <3>3. /\ mergedByWhom' \in [ReviewedPRs -> Mergers]
          /\ mergedByWhom'[p] = "daemon"
          /\ \A q \in ReviewedPRs \ {p} : mergedByWhom'[q] = mergedByWhom[q]
      BY <2>1, <3>1 DEF Mergers
    <3>4. WorkIsInOrder'
      BY <3>2, <3>3 DEF WorkIsInOrder
    <3>5. OutcomesAreTrue'
      BY <2>1, <3>1, <3>2, <3>3 DEF OutcomesAreTrue, At
    <3>6. RoundsFollow'
      BY <2>1, <3>1 DEF RoundsFollow
    <3> QED
      BY <2>1, <3>1, <3>2, <3>3, <3>4, <3>5, <3>6, OtherStepsKeepInv
  <2>8. CASE postMergeAnalysis(p)
    BY <2>1, <2>8, RecordResultKeepsInv DEF postMergeAnalysis, At, WorkIsInOrder, Outcomes
  <2>9. CASE MergeIsGivenUp(p)
    BY <2>1, <2>9, RecordResultKeepsInv DEF MergeIsGivenUp, At, WorkIsInOrder, Outcomes
  <2>10. CASE HumanMerges(p) \/ MergeAnswerIsLost(p)
    <3>1. /\ mergedByWhom[p] = "nobody"
          /\ \/ mergedByWhom' = [mergedByWhom EXCEPT ![p] = "human"]
             \/ mergedByWhom' = [mergedByWhom EXCEPT ![p] = "unanswered"]
          /\ UNCHANGED << metrics, findings, promotedFindings, reviewRounds, lastVerdict, processing,
                          commented, reviewed, longest, approvedAtOnce, interrupted >>
      BY <2>10 DEF HumanMerges, MergeAnswerIsLost
    <3>2. /\ mergedByWhom' \in [ReviewedPRs -> Mergers]
          /\ \A q \in ReviewedPRs : mergedByWhom'[q] = "daemon" <=> mergedByWhom[q] = "daemon"
      BY <2>1, <3>1 DEF Mergers
    <3>3. WorkIsInOrder'
      BY <2>1, <3>1, <3>2 DEF WorkIsInOrder
    <3>4. OutcomesAreTrue'
      BY <2>1, <3>1, <3>2 DEF OutcomesAreTrue
    <3>5. RoundsFollow'
      BY <2>1, <3>1 DEF RoundsFollow
    <3> QED
      BY <2>1, <3>1, <3>2, <3>3, <3>4, <3>5, OtherStepsKeepInv
  <2> QED
    BY <1>3, <2>2, <2>3, <2>4, <2>5, <2>6, <2>7, <2>8, <2>9, <2>10
<1> QED
  BY <1>1, <1>2, <1>3 DEF RecordsNext

(* What the reports add up.                                                 *)

(* The sums of the reports follow from the rows.                            *)
LEMMA ReportsAreRight == ASSUME RecordsInv PROVE RoundsAreCounted
<1> USE ReviewRecordsAssumption
<1>1. \A p \in ReviewedPRs : /\ longest[p] \in Nat /\ metrics[p] \in [1 .. longest[p] -> Rows]
                             /\ DOMAIN metrics[p] = 1 .. longest[p] /\ reviewRounds[p] <= longest[p]
                             /\ p \in approvedAtOnce => longest[p] >= 1 /\ metrics[p][1].approved
  BY DEF RecordsInv, RecordsTypeOK, RoundsFollow
<1>2. PICK tracked : tracked = {p \in ReviewedPRs : DOMAIN metrics[p] # {}}
  OBVIOUS
<1>3. \A p \in ReviewedPRs : p \in tracked <=> longest[p] >= 1
  <2> TAKE p \in ReviewedPRs
  <2>1. longest[p] \in Nat /\ DOMAIN metrics[p] = 1 .. longest[p]
    BY <1>1
  <2>2. longest[p] >= 1 => 1 \in 1 .. longest[p]
    BY <2>1
  <2>3. ~(longest[p] >= 1) => 1 .. longest[p] = {}
    BY <2>1
  <2> QED
    BY <1>2, <2>1, <2>2, <2>3
<1>4. \A p \in tracked : Max(DOMAIN metrics[p]) = longest[p]
  BY <1>1, <1>2, <1>3, MaxOfInterval
<1>5. PICK last : last = [p \in tracked |-> Max(DOMAIN metrics[p])]
  OBVIOUS
<1>6. RoundsTo(last, tracked) = RoundsTo(longest, ReviewedPRs)
  <2>1. \A p \in tracked : p \in ReviewedPRs /\ last[p] = longest[p]
    BY <1>2, <1>4, <1>5
  <2>2. \A p \in ReviewedPRs \ tracked : 1 .. longest[p] = {}
    BY <1>1, <1>3
  <2> QED
    BY <2>1, <2>2 DEF RoundsTo
<1>7. computeStats.totalRounds = Cardinality(RoundsTo(last, tracked))
  BY <1>2, <1>5 DEF computeStats
<1>8. PICK first : first = {p \in tracked : metrics[p][1].approved}
  OBVIOUS
<1>9. computeStats.firstPass = Cardinality(first)
  BY <1>2, <1>8 DEF computeStats
<1>10. /\ approvedAtOnce \subseteq first
       /\ IsFiniteSet(first)
  <2>1. approvedAtOnce \subseteq first
    BY <1>1, <1>3, <1>8 DEF RecordsInv, RecordsTypeOK
  <2>2. first \subseteq ReviewedPRs
    BY <1>2, <1>8
  <2> QED
    BY <2>1, <2>2, FS_Subset
<1>11. Cardinality(first) >= Cardinality(approvedAtOnce)
  BY <1>10, FS_Subset, FS_CardinalityType
<1> QED
  BY <1>1, <1>6, <1>7, <1>9, <1>11 DEF RoundsAreCounted

(* For any pull requests, keys of findings, threshold and restarts: the     *)
(* reports of review-metrics.ts count the rounds of the longest life of     *)
(* each pull request and every approval by a first review, a pull request   *)
(* is noted as merged exactly if the daemon merged it, unless the daemon    *)
(* died on it (pr-processor.ts), and findings count every comment (review-  *)
(* findings.ts).                                                            *)
THEOREM RecordsStayTrue == RecordsSpec => []RecordsAreTrue
<1>1. RecordsInit => RecordsInv
  BY RecordsInvInit
<1>2. RecordsInv /\ [RecordsNext]_recordVars => RecordsInv'
  BY RecordsInvNext
<1>3. RecordsInv => RecordsAreTrue
  BY ReportsAreRight DEF RecordsInv, RecordsAreTrue
<1> QED
  BY <1>1, <1>2, <1>3, PTL DEF RecordsSpec

=============================================================================
