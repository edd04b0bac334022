--------------------------- MODULE PRDescriptions ---------------------------
(***************************************************************************)
(* The description of a pull request: the worker creates it with one, the     *)
(* dispatcher with another, the review daemon enriches it at every poll, and   *)
(* people edit it; a merge closes the issue it names (github/pr-description.ts,*)
(* merge-daemon/pr-processor.ts).                                           *)
(*                                                                         *)
(* A text is who wrote it and the issue it closes. Only the worker's and the  *)
(* daemon's texts hold the marker "forgectl-generated".                      *)
(***************************************************************************)
EXTENDS Naturals

CONSTANTS
    OwnIssue,      \* the issue the pull request is for
    OtherIssue,    \* an issue its title or its branch may name
    NoText,
    NoNumber,
    MaxTexts,      \* bound: edits by people
    MaxEnriched    \* bound: polls of the daemon

ASSUME PRDescriptionsAssumption ==
    /\ {MaxTexts, MaxEnriched} \subseteq Nat
    /\ NoNumber \notin {OwnIssue, OtherIssue} /\ OwnIssue # OtherIssue

VARIABLES
    description,  \* of the pull request, NoText when there is none
    titleNumber,  \* the issue the title or else the branch names
    creation,     \* of the worker and the dispatcher: where each is
    enrichment,   \* of the daemon: what it read and where it is
    edits,
    enriched,
    lost,         \* texts of people that were replaced, and whether after being read
    mergedText    \* the description at the merge; NoText while it is open

prTextVars == << description, titleNumber, creation, enrichment, edits, enriched, lost, mergedText >>

PRText(by, issue) == [by |-> by, closes |-> issue]
EmptyText == PRText("empty", NoNumber)
Writers == {"worker", "dispatcher"}
Resting == [at |-> "rest", saw |-> NoText, link |-> NoNumber]
Exists == description # NoText /\ mergedText = NoText

DescriptionInit ==
    /\ description = NoText /\ mergedText = NoText
    /\ titleNumber \in {NoNumber, OwnIssue, OtherIssue}
    /\ creation = [w \in Writers |-> "list"]
    /\ enrichment = Resting
    /\ edits = 0 /\ enriched = 0
    /\ lost = {}

-----------------------------------------------------------------------------

(* The worker asks whether the branch has a pull request, and keeps that.     *)
ListPullRequests ==
    /\ creation["worker"] = "list"
    /\ creation' = [creation EXCEPT !["worker"] = IF description = NoText THEN "create" ELSE "done"]
    /\ UNCHANGED << description, titleNumber, enrichment, edits, enriched, lost, mergedText >>

(* GitHub refuses a second pull request of a branch: the text is dropped.     *)
Create(w, text) ==
    /\ creation' = [creation EXCEPT ![w] = "done"]
    /\ description' = IF description = NoText THEN text ELSE description
    /\ UNCHANGED << titleNumber, enrichment, edits, enriched, lost, mergedText >>

createPRForBranch == creation["worker"] = "create" /\ Create("worker", PRText("worker", OwnIssue))

(* The dispatcher creates it after the worker has returned; its text has no    *)
(* marker. Linear's id of an issue is no number: then the text closes nothing. *)
buildRichPRBody ==
    /\ creation["worker"] = "done" /\ creation["dispatcher"] = "list"
    /\ \E issue \in {OwnIssue, NoNumber} : Create("dispatcher", PRText("dispatcher", issue))

(* The worker has no GitHub context, or its call fails.                      *)
WorkerCreatesNone ==
    /\ creation["worker"] \in {"list", "create"}
    /\ creation' = [creation EXCEPT !["worker"] = "done"]
    /\ UNCHANGED << description, titleNumber, enrichment, edits, enriched, lost, mergedText >>

(* A person edits the text or opens the pull request, with or without a text.  *)
PersonWrites ==
    /\ mergedText = NoText /\ edits < MaxTexts
    /\ edits' = edits + 1
    /\ description' \in {EmptyText} \cup {PRText("person", i) : i \in {OwnIssue, OtherIssue, NoNumber}}
    /\ UNCHANGED << titleNumber, creation, enrichment, enriched, lost, mergedText >>

-----------------------------------------------------------------------------

(* Fault: whatever stands there is replaced.                                *)
MayReplaceAll(text) == TRUE

(* An empty text, or one with the marker.                                    *)
MayReplace(text) == text.by \in {"empty", "worker", "daemon"}

fetchPRDescription ==
    /\ Exists /\ enrichment = Resting /\ enriched < MaxEnriched
    /\ enriched' = enriched + 1
    /\ enrichment' = IF MayReplace(description) THEN [Resting EXCEPT !.at = "link", !.saw = description]
                     ELSE Resting
    /\ UNCHANGED << description, titleNumber, creation, edits, lost, mergedText >>

(* The issue is looked for by the number in the title or the branch; without   *)
(* one, or when the call fails, the new text closes no issue.                *)
fetchLinkedIssue ==
    /\ enrichment.at = "link"
    /\ \E issue \in {titleNumber, NoNumber} :
          enrichment' = [enrichment EXCEPT !.at = "patch", !.link = issue]
    /\ UNCHANGED << description, titleNumber, creation, edits, enriched, lost, mergedText >>

enrichPRDescription ==
    /\ enrichment.at = "patch"
    /\ description' = PRText("daemon", enrichment.link)
    /\ lost' = IF description.by \in {"person", "dispatcher"}
               THEN lost \cup {[text |-> description, read |-> enrichment.saw = description]} ELSE lost
    /\ enrichment' = Resting
    /\ UNCHANGED << titleNumber, creation, edits, enriched, mergedText >>

(* A call fails: the text stays.                                            *)
EnrichmentFails ==
    /\ enrichment # Resting
    /\ enrichment' = Resting
    /\ UNCHANGED << description, titleNumber, creation, edits, enriched, lost, mergedText >>

(* The pull request is merged: by the daemon, the merge queue or a person.    *)
MergeCloses ==
    /\ Exists
    /\ mergedText' = description
    /\ UNCHANGED << description, titleNumber, creation, enrichment, edits, enriched, lost >>

DescriptionNext ==
    \/ ListPullRequests \/ createPRForBranch \/ buildRichPRBody \/ WorkerCreatesNone \/ PersonWrites
    \/ fetchPRDescription \/ fetchLinkedIssue \/ enrichPRDescription \/ EnrichmentFails \/ MergeCloses

DescriptionSpec == DescriptionInit /\ [][DescriptionNext]_prTextVars

-----------------------------------------------------------------------------

(* The daemon replaces no text of a person or of the dispatcher that it has     *)
(* read: only one written between its read and its write is lost.            *)
ReadTextsAreKept == \A l \in lost : ~l.read

(* A merge closes the issue of the pull request, one a person wrote or one its *)
(* title names. It closes none when the daemon found no number: the enriched   *)
(* text drops the "Closes" of the worker.                                   *)
ClosesAreExplained ==
    mergedText # NoText =>
       /\ mergedText.closes = OtherIssue => mergedText.by = "person" \/ titleNumber = OtherIssue
       /\ mergedText.closes = NoNumber => mergedText.by # "worker"

(* What the author of a description and of an issue can rely on.             *)
DescriptionsAreRespected == ReadTextsAreKept /\ ClosesAreExplained
=============================================================================
