---------------------------- MODULE NotionPolls -----------------------------
(***************************************************************************)
(* The Notion adapter: polls that ask only for pages edited since the last   *)
(* poll, and the throttle every request of the adapter goes through          *)
(* (tracker/notion.ts). Time counts Notion's units of last_edited_time; the   *)
(* second of the throttle is Window of them.                                *)
(***************************************************************************)
EXTENDS TrackerPolls, Sequences

CONSTANTS
    Pages,
    Callers,       \* the poll and whoever else calls the adapter
    Poll,          \* the caller that polls; polls of one adapter follow each other
    Window,        \* one second
    MaxPerWindow,  \* MAX_REQUESTS_PER_SECOND
    MaxClock        \* bound: the clock

ASSUME NotionAssumption ==
    /\ Poll \in Callers
    /\ Window \in Nat \ {0} /\ MaxPerWindow \in Nat \ {0} /\ MaxClock \in Nat

VARIABLES
    clock,
    active,             \* the pages whose status is an active one
    editedAt,           \* last_edited_time of each page
    lastPollTime,       \* 0 before the first poll
    requestTimestamps,
    caller,             \* caller[c]: "idle", "throttled", "sent" or "answered"
    wakeAt,             \* when a throttled caller goes on
    answeredPages,             \* the pages the answered query has
    offered,            \* history: offered[p]: the edit of p a poll has returned, or 0
    slipped,            \* history: pages edited behind the back of a query
    crowded             \* history: someone called while another was throttled

nvars == << clock, active, editedAt, lastPollTime, requestTimestamps, caller, wakeAt, answeredPages, offered, slipped, crowded >>

NotionInit ==
    /\ clock = 1
    /\ active \in SUBSET Pages
    /\ editedAt = [p \in Pages |-> 1]
    /\ lastPollTime = 0
    /\ requestTimestamps = << >>
    /\ caller = [c \in Callers |-> "idle"]
    /\ wakeAt = [c \in Callers |-> 0]
    /\ answeredPages = {}
    /\ offered = [p \in Pages |-> 0]
    /\ slipped = {}
    /\ crowded = FALSE

(* The filter that drops what is older than the window: times are in order,  *)
(* so it drops a prefix.                                                    *)
Recent(times) ==
    LET old == {i \in DOMAIN times : clock - times[i] >= Window}
    IN  SubSeq(times, Cardinality(old) + 1, Len(times))

(* A full window makes the caller wait until its oldest request is one       *)
(* second old.                                                             *)
throttle(c) ==
    LET recent == Recent(requestTimestamps)
    IN  /\ caller[c] = "idle"
        /\ IF Len(recent) >= MaxPerWindow
           THEN /\ requestTimestamps' = recent
                /\ caller' = [caller EXCEPT ![c] = "throttled"]
                /\ wakeAt' = [wakeAt EXCEPT ![c] = recent[1] + Window]
           ELSE /\ requestTimestamps' = Append(recent, clock)
                /\ caller' = [caller EXCEPT ![c] = "sent"]
                /\ UNCHANGED wakeAt

(* Then it goes on without looking again.                                   *)
Wake(c) ==
    /\ caller[c] = "throttled" /\ clock >= wakeAt[c]
    /\ requestTimestamps' = Append(Recent(requestTimestamps), clock)
    /\ caller' = [caller EXCEPT ![c] = "sent"]
    /\ wakeAt' = [wakeAt EXCEPT ![c] = 0]

notionFetch(c) ==
    /\ throttle(c) \/ Wake(c)
    /\ crowded' = (crowded \/ \E d \in Callers \ {c} : caller[d] = "throttled")
    /\ UNCHANGED << clock, active, editedAt, lastPollTime, answeredPages, offered, slipped >>

(* The call of another caller is over, or the query failed: the next poll    *)
(* asks for the same span again.                                           *)
RequestEnds(c) ==
    /\ caller[c] = "sent"
    /\ caller' = [caller EXCEPT ![c] = "idle"]
    /\ UNCHANGED << clock, active, editedAt, lastPollTime, requestTimestamps, wakeAt, answeredPages, offered, slipped, crowded >>

(* Fault: from the end of the last but one second on.                       *)
EditedSinceLate(p) == lastPollTime = 0 \/ editedAt[p] > lastPollTime + 1

EditedSince(p) == lastPollTime = 0 \/ editedAt[p] > lastPollTime

(* Notion answers the query.                                               *)
queryDatabase ==
    /\ caller[Poll] = "sent"
    /\ answeredPages' = {p \in active : EditedSince(p)}
    /\ caller' = [caller EXCEPT ![Poll] = "answered"]
    /\ UNCHANGED << clock, active, editedAt, lastPollTime, requestTimestamps, wakeAt, offered, slipped, crowded >>

(* The time of the poll is taken when its answer has been read.              *)
fetchNotionCandidates ==
    /\ caller[Poll] = "answered"
    /\ lastPollTime' = clock
    /\ caller' = [caller EXCEPT ![Poll] = "idle"]
    /\ offered' = [p \in Pages |-> IF p \in answeredPages /\ p \notin slipped THEN editedAt[p] ELSE offered[p]]
    /\ answeredPages' = {}
    /\ UNCHANGED << clock, active, editedAt, requestTimestamps, wakeAt, slipped, crowded >>

(* Someone edits a page, by which it may become active or stop being so. An  *)
(* edit slips when the next query will not look so far back: behind an       *)
(* answered query, or in the very unit of time that a poll ended in.         *)
EditPage(p) ==
    /\ editedAt[p] < clock
    /\ editedAt' = [editedAt EXCEPT ![p] = clock]
    /\ active' \in {active \cup {p}, active \ {p}}
    /\ slipped' = IF caller[Poll] = "answered" \/ lastPollTime = clock THEN slipped \cup {p} ELSE slipped \ {p}
    /\ UNCHANGED << clock, lastPollTime, requestTimestamps, caller, wakeAt, answeredPages, offered, crowded >>

(* A timer fires within the unit of time it is due in.                       *)
ClockTicks ==
    /\ clock < MaxClock
    /\ \A c \in Callers : caller[c] = "throttled" => clock < wakeAt[c]
    /\ clock' = clock + 1
    /\ UNCHANGED << active, editedAt, lastPollTime, requestTimestamps, caller, wakeAt, answeredPages, offered, slipped, crowded >>

NotionNext ==
    \/ \E c \in Callers : notionFetch(c) \/ RequestEnds(c)
    \/ queryDatabase
    \/ fetchNotionCandidates
    \/ \E p \in Pages : EditPage(p)
    \/ ClockTicks

NotionSpec == NotionInit /\ [][NotionNext]_nvars

-----------------------------------------------------------------------------

(* Delta polling loses no edit: the last edit of an active page was offered, *)
(* or the query under way has it, or the next one will find it, except for   *)
(* edits behind the back of a query.                                       *)
EditsAreOffered ==
    \A p \in active :
        \/ offered[p] = editedAt[p]
        \/ p \in answeredPages
        \/ EditedSince(p)
        \/ p \in slipped

(* MAX_REQUESTS_PER_SECOND is kept, whatever the pattern of calls, until a   *)
(* second caller calls while the first one waits.                           *)
ThrottleHolds == crowded \/ Len(Recent(requestTimestamps)) <= MaxPerWindow

(* Both, although the poll shares throttle and connection with the workers.  *)
NotionPollsAreTrue == EditsAreOffered /\ ThrottleHolds

(* What polls of the adapters return was true meanwhile, of all three kinds.  *)
PollsAreTrue == TrackerPollsAreTrue /\ NotionPollsAreTrue
=============================================================================
