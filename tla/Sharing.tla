-------------------------------- MODULE Sharing --------------------------------
(***************************************************************************)
(* Sharing of content between spaces: a rule of the owner names what may   *)
(* be shared, a preview is prepared in saved steps (input, filter answer,  *)
(* output, guarded copy), a release makes its text readable in another     *)
(* space, and a reader checks all of it again, query by query.             *)
(* (src/src/stores/sharing.ts, projects.ts, owner-commands.ts, learned.ts, *)
(*  access.ts, audience.ts, prepared-context.ts)                           *)
(*                                                                         *)
(* Nothing of it is one transaction: the rule and the releases are in the  *)
(* control store, the texts in the derived one.  What holds a decision     *)
(* together is the guard epoch, which every change of the owner moves in   *)
(* its own commit and every replacement of a text moves before it is seen. *)
(***************************************************************************)
EXTENDS Integers, FiniteSets

CONSTANTS
  SharePreview, \* previews; a filtered one belongs to one rule revision and one epoch
  ShareCaller,  \* requests that prepare, approve or filter
  ShareReader,  \* requests that read a release
  NoSharePreview,
  MaxShareEpoch, \* bound: guard epochs
  MaxRule       \* bound: revisions of the rule

ASSUME SharingAssumption ==
  /\ NoSharePreview \notin SharePreview
  /\ MaxShareEpoch \in Nat /\ MaxRule \in Nat \ {0}

VARIABLES
  rule,         \* sharing_rules: one rule
  shareEpoch,   \* guard_state.epoch
  replacing,    \* the text of which a replacement was revoked for and is not yet active
  sourceText,   \* the active revision of the source
  outputText,   \* the active guard revision of each preview's output; 0 before there is one
  preview,      \* sharing_previews and the artifacts sharing-input, -filter and -output
  release,      \* sharing_releases
  sharingLock,  \* advisory lock 803360
  caller,       \* what each preparing request holds
  reader        \* what each reading request holds

SharingVars == <<rule, shareEpoch, replacing, sourceText, outputText, preview, release,
                 sharingLock, caller, reader>>
texts == <<replacing, sourceText, outputText>>

Modes == {"approved", "filtered"}
NoPreviewRow == [at |-> "none", mode |-> "approved", revision |-> 0, bound |-> 0, source |-> 0]
NoRelease == [state |-> "none", revision |-> 0, text |-> 0, expired |-> FALSE]
NoCaller == [at |-> "idle", preview |-> NoSharePreview, bound |-> 0, inner |-> 0,
             revision |-> 0, text |-> 0]
NoReading == [at |-> "idle", preview |-> NoSharePreview, bound |-> 0, row |-> NoRelease]

SharingInit ==
  /\ rule \in {[revision |-> 1, enabled |-> TRUE, mode |-> m] : m \in Modes}
  /\ shareEpoch = 0 /\ replacing = "none" /\ sourceText = 1
  /\ outputText = [v \in SharePreview |-> 0]
  /\ preview = [v \in SharePreview |-> NoPreviewRow]
  /\ release = [v \in SharePreview |-> NoRelease]
  /\ sharingLock = {} /\ caller = [c \in ShareCaller |-> NoCaller]
  /\ reader = [r \in ShareReader |-> NoReading]

\* guards.state and assertCurrent.
NoReplacement == replacing = "none"
Unmoved(bound) == NoReplacement /\ bound = shareEpoch

\* validate with validateDependencies.  It reads the rule, each source and each selection,
\* and asserts the binding last: a change of any of them meanwhile has moved the epoch.
Holds(v, bound) ==
  /\ Unmoved(bound)
  /\ rule.revision = preview[v].revision /\ sourceText = preview[v].source
HoldsEnabled(v, bound) == Holds(v, bound) /\ rule.enabled

----------------------------------------------------------------------------
(* The owner.                                                              *)

\* OwnerCommands.run: the change and the new epoch are one commit, which waits for no
\* pending publication.
OwnerCommit == shareEpoch < MaxShareEpoch /\ shareEpoch' = shareEpoch + 1

SaveRule ==
  /\ rule.revision < MaxRule /\ OwnerCommit
  /\ \E e \in BOOLEAN, m \in Modes :
       rule' = [revision |-> rule.revision + 1, enabled |-> e, mode |-> m]
  /\ UNCHANGED <<texts, preview, release, sharingLock, caller, reader>>

RevokeRelease(v) ==
  /\ release[v].state = "active" /\ OwnerCommit
  /\ release' = [release EXCEPT ![v].state = "revoked"]
  /\ UNCHANGED <<rule, texts, preview, sharingLock, caller, reader>>

\* ProjectRepository.save and assign, and setConsent: nothing here is theirs but the epoch.
SaveOther ==
  /\ OwnerCommit
  /\ UNCHANGED <<rule, texts, preview, release, sharingLock, caller, reader>>

\* Editing a source or an output: revoked for first, then active and settled (the two
\* stores of it are the matter of GuardPublication).
BeginReplacement(t) ==
  /\ NoReplacement /\ (t # "source" => outputText[t] \in {1})
  /\ t = "source" => sourceText < 2
  /\ OwnerCommit /\ replacing' = t
  /\ UNCHANGED <<rule, sourceText, outputText, preview, release, sharingLock, caller, reader>>
EndReplacement ==
  /\ replacing # "none" /\ replacing' = "none"
  /\ IF replacing = "source" THEN sourceText' = sourceText + 1 /\ UNCHANGED outputText
     ELSE outputText' = [outputText EXCEPT ![replacing] = @ + 1] /\ UNCHANGED sourceText
  /\ UNCHANGED <<rule, shareEpoch, preview, release, sharingLock, caller, reader>>

----------------------------------------------------------------------------
(* Preparing a preview.                                                    *)

ShareMoves(c, at) == caller' = [caller EXCEPT ![c].at = at]
HoldingNothing == UNCHANGED <<rule, shareEpoch, texts, release, reader>>

\* preview and filtered: the rule and the binding are read, and the preview found that
\* belongs to them: the owner's operation, or that of this rule revision and epoch.
\* (Two requests that begin at once may choose different ones; each of them is real.)
AskPreview(c, v) ==
  /\ caller[c].at = "idle" /\ NoReplacement
  /\ rule.mode = "filtered" => rule.enabled
  /\ \/ preview[v].at = "none"
     \/ preview[v].mode = rule.mode /\ preview[v].revision = rule.revision
        /\ (rule.mode = "filtered" => preview[v].bound = shareEpoch)
  /\ caller' = [caller EXCEPT ![c] = [NoCaller EXCEPT !.at = "asked", !.preview = v,
                                      !.bound = shareEpoch, !.revision = rule.revision]]
  /\ HoldingNothing /\ UNCHANGED <<preview, sharingLock>>

\* prepare, snapshot: the source as it is under the binding, saved as the input.
SaveInput(c) ==
  LET v == caller[c].preview IN
  /\ caller[c].at = "asked" /\ Unmoved(caller[c].bound)
  /\ IF preview[v].at # "none" THEN UNCHANGED preview
     ELSE preview' = [preview EXCEPT ![v] = [at |-> "input", mode |-> rule.mode,
            revision |-> caller[c].revision, bound |-> caller[c].bound, source |-> sourceText]]
  /\ ShareMoves(c, "saved")
  /\ HoldingNothing /\ UNCHANGED sharingLock

\* An input that a crash left is used as it was saved, if it still holds.
InsertPreview(c) ==
  LET v == caller[c].preview IN
  /\ caller[c].at = "saved"
  /\ preview[v].at = "input" => Holds(v, caller[c].bound)
  /\ preview' = [preview EXCEPT ![v].at = IF @ = "input" THEN "row" ELSE @]
  /\ ShareMoves(c, "ready")
  /\ HoldingNothing /\ UNCHANGED sharingLock

\* finish: one preparation at a time, under a binding of its own; a ready one has nothing
\* left to do.
StartFinish(c) ==
  LET v == caller[c].preview IN
  /\ caller[c].at = "ready" /\ preview[v].at # "ready"
  /\ sharingLock = {} /\ Holds(v, shareEpoch)
  /\ sharingLock' = {c}
  /\ caller' = [caller EXCEPT ![c].at = "locked", ![c].inner = shareEpoch]
  /\ HoldingNothing /\ UNCHANGED preview

\* memory.filter: allowed and prepared for the service, validated, called; the answer is
\* saved before it is looked at.
CallFilter(c) ==
  LET v == caller[c].preview IN
  /\ caller[c].at = "locked" /\ preview[v].at = "row" /\ preview[v].mode = "filtered"
  /\ Holds(v, caller[c].inner)
  /\ ShareMoves(c, "answered")
  /\ HoldingNothing /\ UNCHANGED <<preview, sharingLock>>
Advance(c, from, to) ==
  LET v == caller[c].preview IN
  /\ preview[v].at = from
  /\ preview' = [preview EXCEPT ![v].at = to] /\ ShareMoves(c, "locked")
  /\ HoldingNothing /\ UNCHANGED sharingLock
SaveAnswer(c) == caller[c].at = "answered" /\ Advance(c, "row", "answer")
\* filteredItems, noPrivateCitation and the output artifact.
SaveOutput(c) ==
  /\ caller[c].at = "locked"
  /\ \/ preview[caller[c].preview].mode = "approved" /\ Advance(c, "row", "output")
     \/ Advance(c, "answer", "output")

\* guards.prepare: a first copy revokes nothing.
GuardOutput(c) ==
  LET v == caller[c].preview IN
  /\ caller[c].at = "locked" /\ preview[v].at = "output"
  /\ outputText' = [outputText EXCEPT ![v] = IF @ = 0 THEN 1 ELSE @]
  /\ ShareMoves(c, "guarded")
  /\ UNCHANGED <<rule, shareEpoch, replacing, sourceText, preview, release, sharingLock, reader>>
\* The last validation is under the binding of that moment; the receipt is another commit.
ValidateOutput(c) ==
  /\ caller[c].at = "guarded" /\ Holds(caller[c].preview, shareEpoch)
  /\ ShareMoves(c, "validated")
  /\ HoldingNothing /\ UNCHANGED <<preview, sharingLock>>
FinishPreview(c) ==
  LET v == caller[c].preview IN
  /\ caller[c].at = "validated"
  /\ preview' = [preview EXCEPT ![v].at = "ready"] /\ sharingLock' = {}
  /\ ShareMoves(c, "ready") /\ HoldingNothing

\* Any refusal, error or crash: the lock goes with the connection, what was saved stays.
Abandon(c) ==
  /\ caller[c].at # "idle" /\ caller' = [caller EXCEPT ![c] = NoCaller]
  /\ sharingLock' = sharingLock \ {c}
  /\ HoldingNothing /\ UNCHANGED preview

----------------------------------------------------------------------------
(* Releasing it.                                                           *)

\* approve: a committed approval answers with its receipt, also after its revocation.
BeginApproval(c, v) ==
  /\ caller[c].at = "idle" /\ preview[v].at = "ready" /\ preview[v].mode = "approved"
  /\ release[v].state = "none" /\ HoldsEnabled(v, shareEpoch)
  /\ caller' = [caller EXCEPT ![c] = [NoCaller EXCEPT !.at = "judged", !.preview = v,
                                      !.bound = shareEpoch]]
  /\ HoldingNothing /\ UNCHANGED <<preview, sharingLock>>
\* filtered: under the binding of the request, not that of finish.
JudgeFiltered(c) ==
  LET v == caller[c].preview IN
  /\ caller[c].at = "ready" /\ preview[v].at = "ready" /\ preview[v].mode = "filtered"
  /\ HoldsEnabled(v, caller[c].bound)
  /\ ShareMoves(c, "judged")
  /\ HoldingNothing /\ UNCHANGED <<preview, sharingLock>>

\* representation: the guarded copy as it is under the binding.  (The owner approves the
\* hash and revision of the text they were shown: this one, or the approval is refused.)
ReadRepresentation(c) ==
  LET v == caller[c].preview IN
  /\ caller[c].at = "judged" /\ Unmoved(caller[c].bound)
  /\ caller' = [caller EXCEPT ![c].at = "releasing", ![c].text = outputText[v]]
  /\ HoldingNothing /\ UNCHANGED <<preview, sharingLock>>

\* A fault: nothing is looked at again when the release is committed.
FenceNothing(c) == TRUE
\* fence, under the lock of the guard row.
Fence(c) ==
  /\ Unmoved(caller[c].bound)
  /\ rule.enabled /\ rule.revision = preview[caller[c].preview].revision
InsertRelease(v, text) ==
  release' = [release EXCEPT ![v] = IF @.state # "none" THEN @
                ELSE [state |-> "active", revision |-> preview[v].revision,
                      text |-> text, expired |-> FALSE]]
\* The approval is an owner command and moves the epoch; a filtered release does not.
CommitRelease(c) ==
  LET v == caller[c].preview IN
  /\ caller[c].at = "releasing" /\ Fence(c)
  /\ InsertRelease(v, caller[c].text)
  /\ IF preview[v].mode = "approved" /\ release[v].state = "none" THEN OwnerCommit
     ELSE UNCHANGED shareEpoch
  /\ caller' = [caller EXCEPT ![c] = NoCaller]
  /\ UNCHANGED <<rule, texts, preview, sharingLock, reader>>

ExpireRelease(v) ==
  /\ release[v].state = "active" /\ preview[v].mode = "filtered" /\ ~release[v].expired
  /\ release' = [release EXCEPT ![v].expired = TRUE]
  /\ UNCHANGED <<rule, shareEpoch, texts, preview, sharingLock, caller, reader>>

----------------------------------------------------------------------------
(* Reading it in the destination.                                          *)

ReaderMoves(r, to) ==
  /\ reader' = [reader EXCEPT ![r] = to]
  /\ UNCHANGED <<rule, shareEpoch, texts, preview, release, sharingLock, caller>>

\* context: the audience asserted, then each release of the destination in turn.
BeginRead(r, v) ==
  /\ reader[r].at = "idle" /\ NoReplacement
  /\ ReaderMoves(r, [NoReading EXCEPT !.at = "asserted", !.preview = v, !.bound = shareEpoch])
FindRelease(r) ==
  LET row == release[reader[r].preview] IN
  /\ reader[r].at = "asserted" /\ row.state = "active" /\ ~row.expired
  /\ rule.enabled /\ rule.revision = row.revision
  /\ ReaderMoves(r, [reader[r] EXCEPT !.at = "found", !.row = row])
ValidateRead(r) ==
  /\ reader[r].at = "found" /\ HoldsEnabled(reader[r].preview, reader[r].bound)
  /\ ReaderMoves(r, [reader[r] EXCEPT !.at = "validated"])
ReadShared(r) ==
  /\ reader[r].at = "validated" /\ Unmoved(reader[r].bound)
  /\ outputText[reader[r].preview] = reader[r].row.text
  /\ ReaderMoves(r, [reader[r] EXCEPT !.at = "read"])
Reassert(r) == Unmoved(reader[r].bound)
DeliverShared(r) ==
  /\ reader[r].at = "read" /\ Reassert(r)
  /\ ReaderMoves(r, [reader[r] EXCEPT !.at = "delivered"])
LeaveRead(r) == reader[r].at # "idle" /\ ReaderMoves(r, NoReading)

SharingNext ==
  \/ SaveRule \/ SaveOther \/ EndReplacement
  \/ \E t \in SharePreview \cup {"source"} : BeginReplacement(t)
  \/ \E v \in SharePreview : RevokeRelease(v) \/ ExpireRelease(v)
  \/ \E c \in ShareCaller :
       \/ SaveInput(c) \/ InsertPreview(c) \/ StartFinish(c) \/ CallFilter(c) \/ SaveAnswer(c)
       \/ SaveOutput(c) \/ GuardOutput(c) \/ ValidateOutput(c) \/ FinishPreview(c) \/ Abandon(c)
       \/ JudgeFiltered(c) \/ ReadRepresentation(c) \/ CommitRelease(c)
       \/ \E v \in SharePreview : AskPreview(c, v) \/ BeginApproval(c, v)
  \/ \E r \in ShareReader :
       \/ FindRelease(r) \/ ValidateRead(r) \/ ReadShared(r) \/ DeliverShared(r) \/ LeaveRead(r)
       \/ \E v \in SharePreview : BeginRead(r, v)

SharingSpec == SharingInit /\ [][SharingNext]_SharingVars

----------------------------------------------------------------------------
\* A text is handed to the other space only while all of it still stands: a release the
\* owner has not revoked, of the rule as it is now and enabled, with the very text that
\* was released and the source it was made from.  Each of these was checked in a query of
\* its own, and the owner may have changed any of them since.  (A filtered release may run
\* out on the way: its time is not part of the binding.)
DeliversReleased ==
  \A r \in ShareReader :
    reader[r].at = "read" /\ reader'[r].at = "delivered" =>
      LET v == reader[r].preview IN
      /\ release[v].state = "active" /\ release[v].text = outputText[v]
      /\ rule.enabled /\ rule.revision = release[v].revision
      /\ sourceText = preview[v].source

\* A release begins from a finished preview, with the text that is the active one at that
\* moment and the rule that stands then; one that was revoked never begins again.
ReleasesStand ==
  \A v \in SharePreview : release'[v].state = "active" /\ release[v].state # "active" =>
    /\ release[v].state = "none" /\ preview[v].at = "ready"
    /\ rule.enabled /\ rule.revision = release'[v].revision
    /\ NoReplacement /\ release'[v].text = outputText[v] /\ sourceText = preview[v].source
=============================================================================
