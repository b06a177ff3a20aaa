------------------------------ MODULE ManagedRun ------------------------------
(***************************************************************************)
(* One managed run of the browser or the scheduler: its row in             *)
(* `managed_runs' with claim, lease and cancellation, the workflow step    *)
(* that starts and observes it, its receipt in the registry, and the       *)
(* supervised thread in the native runtime with its files.                 *)
(* (src/src/stores/managed-execution.ts, browser-runs.ts,                  *)
(*  scheduled-runs.ts, src/services/hermes/managed_async.py)               *)
(*                                                                         *)
(* Control service and runtime call each other: the step starts, observes  *)
(* and cancels the native run, the thread claims the row and publishes its *)
(* receipt. Any call may be lost before or after its effect or be handled  *)
(* late. A successful heartbeat changes nothing here, because time is      *)
(* abstract and a lease may run out at any moment.                         *)
(***************************************************************************)
EXTENDS Integers

CONSTANTS
  Channel,    \* the channels: "browser", "scheduler"
  MaxEpoch    \* bound of the family's epoch

ASSUME ChannelAssumption == Channel \subseteq {"browser", "scheduler"}
ASSUME EpochAssumption == MaxEpoch \in Nat \ {0}

VARIABLES
  channel, state, rowEpoch,     \* managed_runs: channel, state, owner_epoch
  bound,                        \* launch_requested_at
  cancelRequested, claimed,     \* cancel_requested; actor and input_reference
  leased, stale,                \* lease_until in the future; binding outdated
  saved, recorded,              \* derived checkpoint of the result; result_reference
  receipt, heldEpoch,           \* workflow_receipts; history: epoch of the claim
  epoch, admission,             \* workflow_owners
  workflow,                     \* workflow_registry.state, open states as one
  pc, saw, sawCancel, current,  \* the step: place, the row it read, its check
  thread, disk, closed,         \* AsyncRuns: thread, request and start marks, .result
  cancelling, lost,             \* the thread's events
  file,                         \* .receipt
  startLate, claimLate          \* calls whose caller stopped waiting

rowVars == <<channel, state, rowEpoch, bound, cancelRequested, claimed, leased, stale, saved, recorded>>
receiptVars == <<receipt, heldEpoch>>
ownerVars == <<epoch, admission>>
stepVars == <<workflow, pc, saw, sawCancel, current>>
runtimeVars == <<thread, disk, closed, cancelling, lost, file, startLate, claimLate>>
vars == <<rowVars, receiptVars, ownerVars, stepVars, runtimeVars>>

ClosedStates == {"done", "failed", "cancelled", "interrupted"}
RowStates == {"absent", "captured", "running"} \cup ClosedStates
PC == {"idle", "bind", "check", "cancel", "resume", "start", "interrupt", "final"}
Thread == {"none", "launched", "started", "claimed", "assistant"}

RowTypes ==
  /\ channel \in Channel /\ state \in RowStates /\ rowEpoch \in 0..MaxEpoch
  /\ bound \in BOOLEAN /\ cancelRequested \in BOOLEAN /\ claimed \in BOOLEAN
  /\ leased \in BOOLEAN /\ stale \in BOOLEAN
  /\ saved \in BOOLEAN /\ recorded \in BOOLEAN
  /\ receipt \in {"none", "started", "done", "failed", "ambiguous"} /\ heldEpoch \in 0..MaxEpoch

OwnerTypes == epoch \in 1..MaxEpoch /\ admission \in BOOLEAN

StepTypes ==
  /\ workflow \in {"open"} \cup ClosedStates
  /\ pc \in PC /\ saw \in RowStates /\ sawCancel \in BOOLEAN /\ current \in BOOLEAN

RuntimeTypes ==
  /\ thread \in Thread /\ disk \in {"empty", "request", "started"}
  /\ closed \in BOOLEAN /\ cancelling \in BOOLEAN /\ lost \in BOOLEAN
  /\ startLate \in BOOLEAN /\ claimLate \in BOOLEAN
  /\ file \in {"none"} \cup ClosedStates

TypeOK == RowTypes /\ OwnerTypes /\ StepTypes /\ RuntimeTypes

Init ==
  /\ channel \in Channel /\ state = "absent" /\ rowEpoch = 0 /\ bound = FALSE
  /\ cancelRequested = FALSE /\ claimed = FALSE
  /\ leased = FALSE /\ stale = FALSE
  /\ saved = FALSE /\ recorded = FALSE
  /\ receipt = "none" /\ heldEpoch = 0
  /\ epoch = 1 /\ admission = TRUE
  /\ workflow = "open" /\ pc = "idle" /\ saw = "absent"
  /\ sawCancel = FALSE /\ current = FALSE
  /\ thread = "none" /\ disk = "empty" /\ closed = FALSE
  /\ cancelling = FALSE /\ lost = FALSE /\ file = "none"
  /\ startLate = FALSE /\ claimLate = FALSE

-----------------------------------------------------------------------------
(* Transactions on the row and its receipt.                                *)

\* rebindBeforeLaunch: the browser's context is bound anew after a change.
Rebinds == channel = "browser"

\* The run is admitted with its workflow; a missed or overlapping occurrence
\* of a schedule is born cancelled.
Admit ==
  /\ state = "absent" /\ admission
  /\ \/ state' = "captured"
     \/ ~Rebinds /\ state' = "cancelled"
  /\ rowEpoch' = epoch
  /\ UNCHANGED <<channel, bound, cancelRequested, claimed, leased, stale, saved, recorded,
                 receiptVars, ownerVars, stepVars, runtimeVars>>

\* cancelRow.
CancelRow ==
  /\ cancelRequested' = (cancelRequested \/ state \in {"captured", "running"})
  /\ state' = IF state = "captured" THEN "cancelled" ELSE state
  /\ UNCHANGED <<channel, rowEpoch, bound, claimed, leased, stale, saved, recorded, receiptVars>>

\* Mutant: the receipt is left to the completion.
InterruptRowOnly ==
  /\ IF state \in {"captured", "running"}
     THEN state' = "interrupted" /\ leased' = FALSE ELSE UNCHANGED <<state, leased>>
  /\ UNCHANGED receipt
  /\ UNCHANGED <<channel, rowEpoch, bound, cancelRequested, claimed, stale, saved, recorded, heldEpoch>>

\* interrupt: the row and its started receipt in one transaction.
InterruptRow ==
  /\ IF state \in {"captured", "running"}
     THEN state' = "interrupted" /\ leased' = FALSE ELSE UNCHANGED <<state, leased>>
  /\ receipt' = IF receipt = "started" THEN "ambiguous" ELSE receipt
  /\ UNCHANGED <<channel, rowEpoch, bound, cancelRequested, claimed, stale, saved, recorded, heldEpoch>>

\* Mutant: the request's own epoch and admission are not looked at.
ClaimableAnyEpoch == state = "captured" /\ ~cancelRequested /\ ~stale

\* claim: authority, guard binding and row are checked in one transaction.
Claimable ==
  /\ admission /\ rowEpoch = epoch
  /\ state = "captured" /\ ~cancelRequested /\ ~stale

ClaimRow ==
  /\ Claimable
  /\ state' = "running" /\ claimed' = TRUE /\ leased' = TRUE
  /\ receipt' = (IF receipt = "none" THEN "started" ELSE receipt) /\ heldEpoch' = rowEpoch
  /\ UNCHANGED <<channel, rowEpoch, bound, cancelRequested, stale, saved, recorded>>

\* Mutant: only the guard binding is compared again.
SupervisedLoosely == ~stale

\* A result counts only when its execution was supervised to the end.
Supervised == state # "interrupted" /\ leased /\ ~stale

\* Mutant: a request to cancel is not looked at again.
SettlementIgnoresCancel == IF ~Supervised THEN "interrupted" ELSE file

\* What a published result makes of the row.
Settlement == IF ~Supervised THEN "interrupted"
              ELSE IF cancelRequested THEN "cancelled" ELSE file

ReceiptOf(s) == CASE s = "done" -> "done" [] s = "interrupted" -> "ambiguous" [] OTHER -> "failed"

\* Mutant: the result of an interrupted run is refused.
CompletableOpen == file # "none" /\ saved /\ ~recorded /\ state = "running"

\* A result is recorded once, late evidence included.
Completable == file # "none" /\ saved /\ ~recorded

\* complete.
CompleteRow ==
  /\ Completable
  /\ state' = Settlement /\ recorded' = TRUE /\ leased' = FALSE
  /\ receipt' = IF receipt \in {"started", "ambiguous"} THEN ReceiptOf(Settlement) ELSE receipt
  /\ UNCHANGED <<channel, rowEpoch, bound, cancelRequested, claimed, stale, saved, heldEpoch>>

-----------------------------------------------------------------------------
(* Publication: finish stores the result in the derived database, then     *)
(* completes the row in the control database. The thread, the runtime's    *)
(* flush and every reconciliation send the same immutable receipt, so a    *)
(* call handled late or twice is one of these steps.                       *)

RecordResult ==
  /\ file # "none" /\ claimed /\ ~saved
  /\ saved' = TRUE
  /\ UNCHANGED <<channel, state, rowEpoch, bound, cancelRequested, claimed, leased, stale, recorded,
                 receiptVars, ownerVars, stepVars, runtimeVars>>

CompleteRun == CompleteRow /\ UNCHANGED <<ownerVars, stepVars, runtimeVars>>

-----------------------------------------------------------------------------
(* The workflow step: run. The family lock is held shared and the event    *)
(* lock exclusively from Enter to Report, so there is one step at a time   *)
(* and the epoch cannot change under it; admission and the row can.        *)

Goto(place) == pc' = place

Observe(seen, cancel) == saw' = seen /\ sawCancel' = cancel

\* Mutant: every row that is past its admission closes its workflow.
ReportAdmitted(seen) ==
  /\ Goto("idle") /\ Observe("absent", FALSE) /\ current' = FALSE
  /\ workflow' = IF seen # "captured" THEN seen ELSE workflow

\* The step ends and the registry records the row's state.
Report(seen) ==
  /\ Goto("idle") /\ Observe("absent", FALSE) /\ current' = FALSE
  /\ workflow' = IF seen \in ClosedStates THEN seen ELSE workflow

\* The row is read; a stored result its completion was lost for is recovered.
Recoverable == claimed /\ Completable

Enter ==
  /\ pc = "idle" /\ workflow = "open" /\ state # "absent" /\ admission
  /\ IF Recoverable THEN CompleteRow ELSE UNCHANGED <<rowVars, receiptVars>>
  /\ IF state' \in ClosedStates THEN Report(state')
     ELSE /\ Goto(IF state' = "captured" /\ ~bound /\ rowEpoch = epoch THEN "bind" ELSE "check")
          /\ Observe(state', cancelRequested) /\ UNCHANGED <<workflow, current>>
  /\ UNCHANGED <<ownerVars, runtimeVars>>

\* bindPrepared: the prepared context and the guard binding of now.
Bind ==
  /\ pc = "bind" /\ (Rebinds \/ ~stale)
  /\ admission /\ state = "captured"
  /\ bound' = TRUE /\ stale' = FALSE
  /\ Goto("check") /\ Observe(state, cancelRequested)
  /\ UNCHANGED <<channel, state, rowEpoch, cancelRequested, claimed, leased, saved, recorded,
                 receiptVars, ownerVars, workflow, current, runtimeVars>>

\* The context is denied for good: the run is cancelled.
BindDenied ==
  /\ pc = "bind"
  /\ CancelRow /\ Report(state')
  /\ UNCHANGED <<ownerVars, runtimeVars>>

\* Not ready, the owner paused, the row cancelled meanwhile, or a query failed
\* (executionFailure): the step reports an open state.
Wait ==
  /\ pc \in {"bind", "check", "resume"}
  /\ Report("captured")
  /\ UNCHANGED <<rowVars, receiptVars, ownerVars, runtimeVars>>

\* Is the run still authorized? A withdrawn or cancelled one is cancelled.
Check ==
  /\ pc = "check"
  /\ current' = (rowEpoch = epoch /\ ~stale)
  /\ IF current' /\ ~sawCancel
     THEN Goto("resume") /\ UNCHANGED <<rowVars, receiptVars>>
     ELSE Goto("cancel") /\ CancelRow
  /\ UNCHANGED <<ownerVars, workflow, saw, sawCancel, runtimeVars>>

\* A started run without thread is dead: an observation closes it, after
\* its receipt, if it has one, was published.
Dead == disk = "started" /\ thread = "none" /\ ~closed
Reconcilable == Dead => (file = "none" \/ recorded)

NativeClosed == closed \/ Dead

\* Mutant: a run that is queued counts as running.
StartableFresh == disk = "empty" /\ thread = "none" /\ ~closed

\* not_found, or queued without a thread.
Startable == disk # "started" /\ thread = "none" /\ ~closed

\* run.cancel, whose failure is ignored, then the row as it is now.
Cancel ==
  /\ pc = "cancel"
  /\ \/ UNCHANGED <<cancelling, closed>>
     \/ /\ cancelling' = (cancelling \/ thread # "none")
        /\ closed' = (closed \/ (disk # "empty" /\ thread = "none" /\ Reconcilable))
  /\ IF state \in {"captured", "cancelled"} THEN Report(state)
     ELSE Goto("resume") /\ Observe(state, cancelRequested) /\ UNCHANGED <<workflow, current>>
  /\ UNCHANGED <<rowVars, receiptVars, ownerVars, thread, disk, lost, file, startLate, claimLate>>

Resume ==
  /\ pc = "resume" /\ Reconcilable
  /\ closed' = NativeClosed
  /\ Goto(CASE current /\ ~sawCancel /\ saw = "captured" /\ Startable -> "start"
            [] NativeClosed \/ (disk = "empty" /\ saw = "running")  -> "interrupt"
            [] OTHER -> "final")
  /\ UNCHANGED <<rowVars, receiptVars, ownerVars, workflow, saw, sawCancel, current,
                 thread, disk, cancelling, lost, file, startLate, claimLate>>

\* run.start: the request is written, and a run that never started launched.
RunStart ==
  /\ disk' = IF disk = "empty" THEN "request" ELSE disk
  /\ thread' = IF Startable THEN "launched" ELSE thread
  /\ UNCHANGED <<closed, cancelling, lost, file, claimLate>>

Start ==
  /\ pc = "start"
  /\ RunStart /\ Goto("final")
  /\ UNCHANGED <<rowVars, receiptVars, ownerVars, workflow, saw, sawCancel, current, startLate>>

\* The native job store does not name this occurrence (yet), or its job was
\* edited or removed: nothing is written.
StartRefused ==
  /\ pc = "start" /\ ~Rebinds /\ disk = "empty" /\ Goto("final")
  /\ UNCHANGED <<rowVars, receiptVars, ownerVars, workflow, saw, sawCancel, current, runtimeVars>>

\* No answer to run.start or run.resume: nothing is concluded, a start may
\* still arrive.
CallLost ==
  /\ pc \in {"resume", "start"}
  /\ startLate' = (startLate \/ pc = "start")
  /\ closed' \in (IF pc = "resume" /\ Reconcilable THEN {closed, NativeClosed} ELSE {closed})
  /\ Report("captured")
  /\ UNCHANGED <<rowVars, receiptVars, ownerVars, thread, disk, cancelling, lost, file, claimLate>>

\* The native run is over without a published result.
Interrupt ==
  /\ pc = "interrupt"
  /\ InterruptRow /\ Goto("final")
  /\ UNCHANGED <<ownerVars, workflow, saw, sawCancel, current, runtimeVars>>

LeaseLapsed == state = "running" /\ ~leased

\* The row is read again; a running one whose lease ran out is interrupted.
Final ==
  /\ pc = "final"
  /\ IF LeaseLapsed THEN InterruptRow ELSE UNCHANGED <<rowVars, receiptVars>>
  /\ Report(state')
  /\ UNCHANGED <<ownerVars, runtimeVars>>

\* The process dies or a query fails: both locks go.
Crash ==
  /\ pc # "idle" /\ Report("captured")
  /\ UNCHANGED <<rowVars, receiptVars, ownerVars, runtimeVars>>

-----------------------------------------------------------------------------
(* The native runtime: AsyncRuns around ManagedAsync.execute.              *)

Elsewhere == UNCHANGED <<ownerVars, stepVars>>
RowUnchanged == UNCHANGED <<rowVars, receiptVars>>

\* The thread ends and its .result is written.
EndThread ==
  /\ thread' = "none" /\ cancelling' = FALSE /\ lost' = FALSE
  /\ closed' = TRUE

LateStart ==
  /\ startLate /\ startLate' = FALSE
  /\ RunStart /\ RowUnchanged /\ Elsewhere

LostStart ==
  /\ startLate /\ startLate' = FALSE
  /\ UNCHANGED <<thread, disk, closed, cancelling, lost, file, claimLate>>
  /\ RowUnchanged /\ Elsewhere

\* No run is closed between its launch and this (cancel tells its thread).
MarkStarted ==
  /\ thread = "launched" /\ ~closed
  /\ thread' = "started" /\ disk' = "started"
  /\ UNCHANGED <<closed, cancelling, lost, file, startLate, claimLate>>
  /\ RowUnchanged /\ Elsewhere

ThreadClaim ==
  /\ thread = "started" /\ ~cancelling
  /\ ClaimRow /\ thread' = "claimed"
  /\ UNCHANGED <<disk, closed, cancelling, lost, file, startLate, claimLate>> /\ Elsewhere

\* No claim, as far as the thread knows: cancelled before, refused, an error,
\* or an answer that is lost or comes too late.
ThreadGivesUp ==
  /\ thread = "started"
  /\ \/ RowUnchanged /\ UNCHANGED claimLate
     \/ ~cancelling /\ ClaimRow /\ UNCHANGED claimLate
     \/ ~cancelling /\ claimLate' = TRUE /\ RowUnchanged
  /\ EndThread /\ UNCHANGED <<disk, file, startLate>> /\ Elsewhere

LateClaim ==
  /\ claimLate /\ claimLate' = FALSE
  /\ IF Claimable THEN ClaimRow ELSE RowUnchanged
  /\ UNCHANGED <<thread, disk, closed, cancelling, lost, file, startLate>> /\ Elsewhere

\* A heartbeat that tells of a cancellation, or that fails: refused by
\* `leased' (lease, owner, guard) or without an answer.
Heartbeat ==
  /\ thread \in {"claimed", "assistant"} /\ file = "none"
  /\ cancelling' = TRUE
  /\ \/ cancelRequested /\ UNCHANGED lost
     \/ lost' = TRUE
  /\ UNCHANGED <<thread, disk, closed, file, startLate, claimLate>> /\ RowUnchanged /\ Elsewhere

Execute ==
  /\ thread = "claimed" /\ ~cancelling /\ file = "none"
  /\ thread' = "assistant"
  /\ UNCHANGED <<disk, closed, cancelling, lost, file, startLate, claimLate>>
  /\ RowUnchanged /\ Elsewhere

\* The receipt: what became of the supervision overrides the turn's result.
WriteReceipt ==
  /\ thread \in {"claimed", "assistant"} /\ file = "none"
  /\ file' \in (IF lost THEN {"interrupted"} ELSE IF cancelling THEN {"cancelled"}
                ELSE IF thread = "claimed" THEN {"interrupted"}
                ELSE {"done", "failed", "interrupted"})
  /\ UNCHANGED <<thread, disk, closed, cancelling, lost, startLate, claimLate>>
  /\ RowUnchanged /\ Elsewhere

\* The thread is told the receipt was recorded, or gives up after a second
\* attempt and leaves it to the flush; a claim it cannot use leaves none.
ThreadEnds ==
  /\ thread \in {"claimed", "assistant"} /\ (file # "none" \/ thread = "claimed")
  /\ EndThread /\ UNCHANGED <<disk, file, startLate, claimLate>>
  /\ RowUnchanged /\ Elsewhere

RuntimeRestart ==
  /\ thread' = "none" /\ cancelling' = FALSE /\ lost' = FALSE
  /\ UNCHANGED <<disk, closed, file, startLate, claimLate>> /\ RowUnchanged /\ Elsewhere

-----------------------------------------------------------------------------
(* Others.                                                                 *)

\* The person or an edited schedule asks for cancellation.
UserCancel == CancelRow /\ UNCHANGED <<ownerVars, stepVars, runtimeVars>>

\* The owner cancels the workflow: exclusive family lock, no receipt, no actor.
OwnerCancel ==
  /\ pc = "idle" /\ workflow = "open" /\ admission /\ receipt \in {"none", "failed"}
  /\ state = "captured" /\ ~claimed
  /\ state' = "cancelled" /\ cancelRequested' = TRUE /\ workflow' = "cancelled"
  /\ UNCHANGED <<channel, rowEpoch, bound, claimed, leased, stale, saved, recorded, receiptVars,
                 ownerVars, pc, saw, sawCancel, current, runtimeVars>>

GuardChange ==
  /\ state # "absent" /\ stale' = TRUE
  /\ UNCHANGED <<channel, state, rowEpoch, bound, cancelRequested, claimed, leased, saved, recorded,
                 receiptVars, ownerVars, stepVars, runtimeVars>>

ExpireLease ==
  /\ leased /\ leased' = FALSE
  /\ UNCHANGED <<channel, state, rowEpoch, bound, cancelRequested, claimed, stale, saved, recorded,
                 receiptVars, ownerVars, stepVars, runtimeVars>>

\* recoverExpired, when the scheduler starts: no family lock, no admission.
RecoverExpired ==
  /\ ~Rebinds /\ LeaseLapsed
  /\ IF Recoverable THEN CompleteRow ELSE InterruptRow
  /\ UNCHANGED <<ownerVars, stepVars, runtimeVars>>

Pause ==
  /\ admission /\ admission' = FALSE
  /\ UNCHANGED <<rowVars, receiptVars, epoch, stepVars, runtimeVars>>

Switch ==
  /\ ~admission /\ epoch < MaxEpoch /\ pc = "idle" /\ receipt # "started"
  /\ epoch' = epoch + 1 /\ admission' = TRUE
  /\ UNCHANGED <<rowVars, receiptVars, stepVars, runtimeVars>>

-----------------------------------------------------------------------------
StepAdvance == Enter \/ Bind \/ Check \/ Cancel \/ Resume \/ Start \/ Interrupt \/ Final
Step == StepAdvance \/ BindDenied \/ Wait \/ StartRefused \/ CallLost \/ Crash

ThreadAdvance == \/ MarkStarted \/ ThreadClaim \/ ThreadGivesUp
                 \/ Execute \/ WriteReceipt \/ ThreadEnds
Runtime == ThreadAdvance \/ LateStart \/ LostStart \/ LateClaim \/ Heartbeat \/ RuntimeRestart

Next == \/ Admit \/ RecordResult \/ CompleteRun \/ Step \/ Runtime
        \/ UserCancel \/ OwnerCancel \/ GuardChange \/ ExpireLease \/ RecoverExpired
        \/ Pause \/ Switch

Spec == Init /\ [][Next]_vars

\* Scheduling: the engine takes its steps, the thread ends, the runtime's
\* flush publishes what is left, and the lease of a run without a thread
\* runs out. Steps may wait, lose calls and crash, and the runtime may
\* restart, any number of times but not for ever.
Faults == Wait \/ StartRefused \/ CallLost \/ Crash \/ RuntimeRestart

Fairness ==
  /\ WF_vars(StepAdvance) /\ WF_vars(ThreadAdvance)
  /\ WF_vars(RecordResult) /\ WF_vars(CompleteRun)
  /\ WF_vars(thread = "none" /\ ExpireLease)
  /\ <>[][Faults => StepAdvance]_vars

FairSpec == Spec /\ Fairness

-----------------------------------------------------------------------------
(* Properties.                                                             *)

\* The registry's receipt always tells what became of the run, although the
\* claim, a late result and an interruption come from different processes
\* (claim, complete, interrupt).
ReceiptAgrees ==
  receipt = IF ~claimed THEN "none"
            ELSE CASE state = "running" -> "started"
                   [] state = "done" -> "done"
                   [] state = "interrupted" -> "ambiguous"
                   [] OTHER -> "failed"

\* A run somebody asked to cancel never counts as done, wherever the
\* cancellation meets the claim, the heartbeat and the result.
CancelledNeverDone == cancelRequested => state # "done"

\* "Late results remain separate evidence and do not erase an interrupted
\* execution status": a closed run keeps its state.
ClosedStays == [][(state \in ClosedStates) => state' = state]_vars

\* A run that was launched is closed, whatever becomes of its calls and its
\* thread, as long as the family admits work (run, claim, _snapshot).
RunSettles ==
  (<>[]admission) =>
    ((bound /\ state \in {"captured", "running"}) ~> (state \in ClosedStates))

\* The evidence of the runtime is not lost: a receipt is recorded with its
\* run, however late and whether or not the run was interrupted.
EvidenceRecorded == (file # "none") ~> recorded

\* The run executes its effect as the registry's receipts promise.
Effect == INSTANCE DurableEffect
EffectKept == Effect!EffectSpec
=============================================================================
