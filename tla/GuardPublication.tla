-------------------------- MODULE GuardPublication --------------------------
(***************************************************************************)
(* Representations of content: guarded copies, selected derivatives and    *)
(* learned memory.  A new revision is staged in the derived store, revoked *)
(* for in the control store, activated in the derived store and settled in *)
(* the control store: four commits in two databases, any of which may be   *)
(* the last before a crash, and anyone may finish what another began.      *)
(* (src/src/stores/publications.ts, guards.ts, selections.ts, learned.ts,  *)
(*  learning-engine.ts, audience.ts, turns.ts, prepared-context.ts)        *)
(*                                                                         *)
(* A reader holds a binding, the guard epoch it was admitted under, and    *)
(* asserts before and after each query that the epoch is still current.    *)
(***************************************************************************)
EXTENDS Integers, FiniteSets

CONSTANTS
  Copy,       \* guarded sources and derivative selections
  Learned,    \* learned entries
  Revision,   \* operations: each stages one revision of one entry
  NoRevision,
  MaxEpoch    \* bound: guard epochs

Entry == Copy \cup Learned

ASSUME PublicationAssumption ==
  {NoRevision, "unread"} \cap Revision = {} /\ Copy \cap Learned = {} /\ MaxEpoch \in Nat

VARIABLES
  staged,      \* guard_revisions, derivative_selection_revisions, learned_versions
  active,      \* active_revision of each entry, in the derived store
  activated,   \* guard_activations, derivative_activations, learned_activations
  publication, \* guard_publications of the control store
  finishing,   \* finishers between the derived and the control commit, with their verdict
  guardEpoch,  \* guard_state
  learningJob, \* an interpretation job, and what the run of it holds in memory
  contextReader \* a reader of several entries

PublicationVars == <<staged, active, activated, publication, finishing, guardEpoch,
                     learningJob, contextReader>>
derivedRows == <<staged, active, activated>>

NoEpoch == -1
Unstaged == [entry |-> "none", expected |-> NoRevision, author |-> "none", bound |-> NoEpoch]
NoJob == [state |-> "none", bound |-> NoEpoch, todo |-> {}, batch |-> {}]
NoReader == [at |-> "idle", bound |-> NoEpoch, seen |-> [e \in Entry |-> "unread"]]

PublicationInit ==
  /\ staged = [o \in Revision |-> Unstaged] /\ active = [e \in Entry |-> NoRevision]
  /\ activated = {} /\ publication = [o \in Revision |-> "none"] /\ finishing = {}
  /\ guardEpoch = 0 /\ learningJob = NoJob /\ contextReader = NoReader

IsStaged(o) == staged[o] # Unstaged
\* A first copy or selection revokes nothing and blocks nobody.
Blocks(o) == publication[o] = "pending" /\
             (staged[o].entry \in Learned \/ staged[o].expected # NoRevision)
\* state and assertCurrent.
NothingPending == \A o \in Revision : ~Blocks(o)
IsCurrent(bound) == NothingPending /\ bound = guardEpoch
AuthorOf(e) == IF active[e] = NoRevision THEN "none" ELSE staged[active[e]].author

----------------------------------------------------------------------------
(* Staging a revision.                                                     *)

StageOf(o, e, author, bound) ==
  staged' = [staged EXCEPT ![o] = [entry |-> e, expected |-> active[e],
                                   author |-> author, bound |-> bound]]

\* register, stage: a context prepares a first copy, bound to its epoch; the owner edits or
\* restores at any time.  (A first copy that no context asked for is not bound either.)
StageCopy(o, e) ==
  /\ ~IsStaged(o)
  /\ \/ StageOf(o, e, "owner", NoEpoch)
     \/ active[e] = NoRevision /\ StageOf(o, e, "automatic", guardEpoch)
  /\ UNCHANGED <<active, activated, publication, finishing, guardEpoch,
                 learningJob, contextReader>>

\* correct, publish: the owner's correction of an active entry.
CorrectLearned(o, e) ==
  /\ ~IsStaged(o) /\ NothingPending /\ active[e] # NoRevision
  /\ StageOf(o, e, "owner", guardEpoch)
  /\ UNCHANGED <<active, activated, publication, finishing, guardEpoch,
                 learningJob, contextReader>>

----------------------------------------------------------------------------
(* The two stores.                                                         *)

\* The revocation: the epoch moves before a replacement may become visible.
EpochAfter(ops) ==
  guardEpoch + (IF \E o \in ops : staged[o].expected # NoRevision THEN 1 ELSE 0)
Revoke(ops) ==
  /\ EpochAfter(ops) <= MaxEpoch
  /\ publication' = [o \in Revision |-> IF o \in ops THEN "pending" ELSE publication[o]]
  /\ guardEpoch' = EpochAfter(ops)

InBatch(o) == o \in learningJob.batch
BeginPublication(o) ==
  /\ IsStaged(o) /\ ~InBatch(o) /\ publication[o] = "none"
  /\ staged[o].bound \in {NoEpoch, guardEpoch}
  /\ Revoke({o})
  /\ UNCHANGED <<derivedRows, finishing, learningJob, contextReader>>

\* A fault: the expected revision is not looked at.
ConflictsNever(o) == FALSE
\* The derived half of finishPublication, finish and reconcile: by the publisher, a retry,
\* or the reconciliation, of which each read the operation while it was pending.
Conflicts(o) == o \notin activated /\ active[staged[o].entry] # staged[o].expected
\* reconcile, of which anyone finds the pending operation.
MayFinish(o) == publication[o] # "none"
Activate(o) ==
  /\ MayFinish(o)
  /\ IF o \in activated \/ Conflicts(o) THEN UNCHANGED <<active, activated>>
     ELSE active' = [active EXCEPT ![staged[o].entry] = o] /\ activated' = activated \cup {o}
  /\ finishing' = IF publication[o] # "pending" THEN finishing
                  ELSE finishing \cup {<<o, IF Conflicts(o) THEN "conflict" ELSE "done">>}
  /\ UNCHANGED <<staged, publication, guardEpoch, learningJob, contextReader>>

\* The control half, of a publication that is still pending.
SettlePublication(o, verdict) ==
  /\ <<o, verdict>> \in finishing
  /\ publication' = [publication EXCEPT ![o] = IF @ = "pending" THEN verdict ELSE @]
  /\ finishing' = finishing \ {<<o, verdict>>}
  /\ UNCHANGED <<derivedRows, guardEpoch, learningJob, contextReader>>
LoseFinisher ==
  /\ finishing # {} /\ finishing' = {}
  /\ UNCHANGED <<derivedRows, publication, guardEpoch, learningJob, contextReader>>

\* setMode, and OwnerCommands.run, which does not wait for pending publications.  The
\* original that a reader sees without the guard never changes: the guard is on here.
ChangeBinding ==
  /\ guardEpoch < MaxEpoch /\ guardEpoch' = guardEpoch + 1
  /\ UNCHANGED <<derivedRows, publication, finishing, learningJob, contextReader>>

----------------------------------------------------------------------------
(* A learning job: one control commit for the whole batch it publishes.    *)

RequestLearning ==
  /\ learningJob.state = "none" /\ NothingPending
  /\ learningJob' = [NoJob EXCEPT !.state = "pending", !.bound = guardEpoch]
  /\ UNCHANGED <<derivedRows, publication, finishing, guardEpoch, contextReader>>

\* run: a retry starts again from the saved result, in the context the job was made for.
RunLearning ==
  /\ learningJob.state \in {"pending", "failed", "running"} /\ IsCurrent(learningJob.bound)
  /\ learningJob' = [learningJob EXCEPT !.state = "running", !.todo = Learned, !.batch = {}]
  /\ UNCHANGED <<derivedRows, publication, finishing, guardEpoch, contextReader>>

\* An owner's version, or an identical active one, is left as it is.
SkipEntry(e) ==
  /\ learningJob.state = "running" /\ e \in learningJob.todo /\ active[e] # NoRevision
  /\ learningJob' = [learningJob EXCEPT !.todo = @ \ {e}]
  /\ UNCHANGED <<derivedRows, publication, finishing, guardEpoch, contextReader>>
StageForBatch(o, e) ==
  /\ learningJob.state = "running" /\ e \in learningJob.todo
  /\ ~IsStaged(o) /\ AuthorOf(e) # "owner" /\ IsCurrent(learningJob.bound)
  /\ StageOf(o, e, "automatic", learningJob.bound)
  /\ learningJob' = [learningJob EXCEPT !.todo = @ \ {e}, !.batch = @ \cup {o}]
  /\ UNCHANGED <<active, activated, publication, finishing, guardEpoch, contextReader>>

ActivateBatch ==
  /\ learningJob.state = "running" /\ learningJob.todo = {}
  /\ learningJob.bound = guardEpoch
  /\ Revoke(learningJob.batch)
  /\ learningJob' = [learningJob EXCEPT !.state = "publishing"]
  /\ UNCHANGED <<derivedRows, finishing, contextReader>>

\* complete: after every operation of the batch finished; a conflict is thrown instead.
CompleteLearning ==
  /\ learningJob.state = "publishing"
  /\ \A o \in learningJob.batch : publication[o] = "done"
  /\ learningJob' = [learningJob EXCEPT !.state = "done"]
  /\ UNCHANGED <<derivedRows, publication, finishing, guardEpoch, contextReader>>
\* A batch that met a foreground reply of its epoch waits; any other error fails the run.
FailLearning ==
  /\ learningJob.state = "running"
  /\ \E kept \in {"failed", "pending"} :
       /\ kept = "pending" => learningJob.todo = {} /\ learningJob.batch # {}
       /\ learningJob' = [learningJob EXCEPT !.state = kept, !.todo = {}, !.batch = {}]
  /\ UNCHANGED <<derivedRows, publication, finishing, guardEpoch, contextReader>>

----------------------------------------------------------------------------
(* A reader of several entries under one binding.                          *)

Admit ==
  /\ contextReader.at = "idle" /\ NothingPending
  /\ contextReader' = [NoReader EXCEPT !.at = "open", !.bound = guardEpoch]
  /\ UNCHANGED <<derivedRows, publication, finishing, guardEpoch, learningJob>>

\* assertCurrent and assertAudience, before and after each query.
ReadAll(reader) == reader.at = "check" /\ \A e \in Entry : reader.seen[e] # "unread"
AssertCurrent ==
  /\ contextReader.at \in {"open", "check"}
  /\ contextReader' = IF ~IsCurrent(contextReader.bound) \/ ReadAll(contextReader) THEN NoReader
                      ELSE [contextReader EXCEPT !.at = IF @ = "open" THEN "look" ELSE "open"]
  /\ UNCHANGED <<derivedRows, publication, finishing, guardEpoch, learningJob>>

\* guards.read, selections.current and learned.read: the query of one entry.
LookAt(e) ==
  /\ contextReader.at = "look" /\ contextReader.seen[e] = "unread"
  /\ contextReader' = [contextReader EXCEPT !.at = "check", !.seen[e] = active[e]]
  /\ UNCHANGED <<derivedRows, publication, finishing, guardEpoch, learningJob>>

PublicationNext ==
  \/ ChangeBinding \/ LoseFinisher
  \/ RequestLearning \/ RunLearning \/ ActivateBatch \/ CompleteLearning \/ FailLearning
  \/ Admit \/ AssertCurrent
  \/ \E e \in Entry : LookAt(e)
  \/ \E e \in Learned : SkipEntry(e)
  \/ \E o \in Revision :
       \/ BeginPublication(o) \/ Activate(o)
       \/ \E e \in Copy : StageCopy(o, e)
       \/ \E e \in Learned : CorrectLearned(o, e) \/ StageForBatch(o, e)
       \/ \E verdict \in {"done", "conflict"} : SettlePublication(o, verdict)

PublicationSpec == PublicationInit /\ [][PublicationNext]_PublicationVars

----------------------------------------------------------------------------
PublicationTypeOK ==
  /\ staged \in [Revision -> [entry : Entry \cup {"none"}, expected : Revision \cup {NoRevision},
                              author : {"none", "automatic", "owner"}, bound : NoEpoch..MaxEpoch]]
  /\ active \in [Entry -> Revision \cup {NoRevision}] /\ activated \subseteq Revision
  /\ publication \in [Revision -> {"none", "pending", "done", "conflict"}]
  /\ finishing \subseteq Revision \X {"done", "conflict"}
  /\ guardEpoch \in 0..MaxEpoch
  /\ learningJob \in [state : {"none", "pending", "running", "publishing", "done", "failed"},
                      bound : NoEpoch..MaxEpoch, todo : SUBSET Learned, batch : SUBSET Revision]
  /\ contextReader \in [at : {"idle", "open", "look", "check"}, bound : NoEpoch..MaxEpoch,
                        seen : [Entry -> {"unread", NoRevision} \cup Revision]]

\* The two stores agree on every settled publication, whoever finished it and however
\* often it was begun again: done means it was activated, conflict that it never was.
StoresAgree ==
  \A o \in Revision :
    /\ publication[o] = "done" => o \in activated
    /\ publication[o] = "conflict" => o \notin activated

\* What a reader keeps under one binding belongs to one moment: when its check passes,
\* every revision it has read so far is still the active one, also of entries that a
\* batch changes together.
ReadsOneMoment ==
  contextReader.at = "check" /\ contextReader' # contextReader /\ IsCurrent(contextReader.bound) =>
    \A e \in Entry : contextReader.seen[e] \in Revision => contextReader.seen[e] = active[e]

\* A revision of the owner is replaced only by the owner, although the authorship is
\* checked when a revision is staged and it becomes active two commits later.
OwnerStays ==
  \A e \in Entry :
    AuthorOf(e) = "owner" /\ active'[e] # active[e] => staged[active'[e]].author = "owner"
=============================================================================
