-------------------------- MODULE TelegramDispatch --------------------------
(***************************************************************************)
(* One captured Telegram message on its way to one reply: the workflow     *)
(* steps that advance it, its row in `dispatches', the result checkpoint,  *)
(* the receipts mirrored for the registry, and the asynchronous run of     *)
(* each attempt inside the native runtime with its journal on disk.        *)
(* (src/src/stores/telegram-dispatch.ts, src/src/workflows/engine.ts,      *)
(*  src/services/hermes/async_runs.py, assistant_gateway.py)               *)
(*                                                                         *)
(* The runtime and the control database share nothing but calls, and a     *)
(* call may fail before or after it had its effect. Back-offs, leases and  *)
(* preparation may end at any moment.                                      *)
(***************************************************************************)
EXTENDS Integers, FiniteSets

CONSTANTS
  Step,          \* workflow steps that may overlap when a lease runs out
  NoStep,        \* SQL NULL in lease_token
  MaxAttempts    \* bound of dispatches.attempts

ASSUME StepAssumption == NoStep \notin Step
ASSUME AttemptAssumption == MaxAttempts \in Nat \ {0}

Attempt == 1..MaxAttempts

\* What a closed attempt reports. An `ambiguous' result is split by its error
\* code: "interrupted" stands for the three codes reconcileInterrupted may
\* reopen, "unconfirmed" for delivery_unconfirmed.
Ambiguous == {"interrupted", "unconfirmed"}
Result == {"done", "failed", "suppressed", "cancelled"} \cup Ambiguous
Terminal == Result \ {"failed"}
Retryable == {"pending", "failed"}
OpenStates == {"queued", "waiting", "running", "retryable_failed"}
ClosedStates == {"completed", "skipped", "cancelled", "ambiguous"}
Blocking == {"started", "done", "ambiguous"}     \* workflow_effect_exclusion

VARIABLES
  dstate, attempts, checked,   \* dispatches: state, attempts, reconciliation_checked_at
  saved,                       \* derived checkpoint of each attempt's result
  retired, stale,              \* source retired; attempts whose guard binding is outdated
  wf, holder, live,            \* workflow_registry: state, lease_token, lease in the future
  receipts,                    \* workflow_receipts of step `telegram', by attempt
  pc, saw, at, val, output,    \* a step: place, the row it read, answer, observation
  phase, active, cancelling,   \* AsyncRuns: journal progress, threads, cancel events
  outcome, closed,             \* the gateway's receipt; AsyncRuns' .result
  inflight,                    \* run.start requests whose caller stopped waiting
  delivered                    \* history: attempts that sent a message

dispatchVars == <<dstate, attempts, checked, saved>>
guardVars == <<retired, stale>>
registryVars == <<wf, holder, live, receipts>>
stepVars == <<pc, saw, at, val, output>>
runtimeVars == <<phase, active, cancelling, outcome, closed, inflight, delivered>>
vars == <<dispatchVars, guardVars, registryVars, stepVars, runtimeVars>>

OpPlaces == {"entered", "build", "observed", "launch", "store", "finish"}
PC == {"idle", "claimed", "mirror", "record"} \cup OpPlaces
Phase == {"absent", "queued", "started", "assistant", "delivery"}
Answer == Result \cup {"none", "not_found", "queued", "running"}

TypeOK ==
  /\ dstate \in {"none", "pending", "running"} \cup Result
  /\ attempts \in 0..MaxAttempts /\ checked \in BOOLEAN
  /\ saved \in [Attempt -> Result \cup {"none"}]
  /\ retired \in BOOLEAN /\ stale \subseteq Attempt
  /\ wf \in OpenStates \cup ClosedStates
  /\ holder \in Step \cup {NoStep} /\ live \in BOOLEAN
  /\ receipts \in [Attempt -> Blocking \cup {"none", "failed"}]
  /\ pc \in [Step -> PC]
  /\ saw \in [Step -> {"none", "pending", "running"} \cup Result]
  /\ at \in [Step -> 0..MaxAttempts]
  /\ val \in [Step -> Answer]
  /\ output \in [Step -> OpenStates \cup ClosedStates]
  /\ phase \in [Attempt -> Phase]
  /\ active \subseteq Attempt /\ cancelling \subseteq Attempt
  /\ outcome \in [Attempt -> Result \cup {"none"}]
  /\ closed \in [Attempt -> Result \cup {"none"}]
  /\ inflight \subseteq Attempt /\ delivered \subseteq Attempt

Init ==
  /\ dstate = "none" /\ attempts = 0 /\ checked = FALSE
  /\ saved = [a \in Attempt |-> "none"]
  /\ retired = FALSE /\ stale = {}
  /\ wf = "queued" /\ holder = NoStep /\ live = FALSE
  /\ receipts = [a \in Attempt |-> "none"]
  /\ pc = [s \in Step |-> "idle"] /\ saw = [s \in Step |-> "none"]
  /\ at = [s \in Step |-> 0] /\ val = [s \in Step |-> "none"]
  /\ output = [s \in Step |-> "waiting"]
  /\ phase = [a \in Attempt |-> "absent"] /\ active = {} /\ cancelling = {}
  /\ outcome = [a \in Attempt |-> "none"] /\ closed = [a \in Attempt |-> "none"]
  /\ inflight = {} /\ delivered = {}

Open == wf \in OpenStates
InOperation(s) == pc[s] \in OpPlaces          \* holds both advisory locks
FamilyFree == \A s \in Step : ~InOperation(s)
ReceiptBlocked == \E a \in Attempt : receipts[a] \in Blocking
Current(a) == a \notin stale /\ ~retired

\* TelegramDispatchRepository.observation.
Observed(d) ==
  CASE d \in {"none", "pending"} -> "waiting"
    [] d = "running"             -> "running"
    [] d = "done"                -> "completed"
    [] d = "failed"              -> "retryable_failed"
    [] d \in Ambiguous           -> "ambiguous"
    [] d = "suppressed"          -> "skipped"
    [] d = "cancelled"           -> "cancelled"

-----------------------------------------------------------------------------
(* The native runtime: AsyncRuns and the gateway behind it.                *)

\* A started run without thread and result was interrupted: the next call
\* that names it closes it with the gateway's receipt, if there is one.
Dead(a) == phase[a] \notin {"absent", "queued"} /\ a \notin active /\ closed[a] = "none"

\* Mutant: an interrupted run counts as a failed one.
ReconciledAsFailed(a) == IF outcome[a] = "none" THEN "failed" ELSE outcome[a]

Reconciled(a) == IF outcome[a] = "none" THEN "interrupted" ELSE outcome[a]

\* Mutant: a run whose thread is gone still counts as running.
SnapshotKeepsDead(a) ==
  IF closed[a] # "none" THEN closed[a]
  ELSE IF phase[a] = "absent" THEN "not_found"
  ELSE IF phase[a] = "queued" /\ a \notin active THEN "queued" ELSE "running"

Snapshot(a) ==
  IF closed[a] # "none" THEN closed[a]
  ELSE IF Dead(a) THEN Reconciled(a)
  ELSE IF a \in active THEN "running"
  ELSE IF phase[a] = "absent" THEN "not_found" ELSE "queued"

SnapshotCloses(a) ==
  closed' = IF Snapshot(a) \in Result THEN [closed EXCEPT ![a] = Snapshot(a)] ELSE closed

\* run.start: writes the request, and launches a thread for a queued run.
RunStart(a) ==
  /\ phase' = [phase EXCEPT ![a] = IF @ = "absent" THEN "queued" ELSE @]
  /\ active' = IF Snapshot(a) \in {"not_found", "queued"} THEN active \cup {a} ELSE active
  /\ SnapshotCloses(a)
  /\ UNCHANGED <<cancelling, outcome, delivered>>

Started(a) == IF Snapshot(a) \in Result THEN Snapshot(a) ELSE "running"

\* run.cancel: sets the event of a live thread, closes a run that has none.
RunCancel(a) ==
  /\ cancelling' = IF a \in active THEN cancelling \cup {a} ELSE cancelling
  /\ closed' = IF Snapshot(a) = "queued" THEN [closed EXCEPT ![a] = "cancelled"]
               ELSE IF Snapshot(a) \in Result THEN [closed EXCEPT ![a] = Snapshot(a)] ELSE closed
  /\ UNCHANGED <<phase, active, outcome, inflight, delivered>>

Cancelled(a) == IF Snapshot(a) = "queued" THEN "cancelled"
                ELSE IF Snapshot(a) \in Result THEN Snapshot(a) ELSE "running"

\* run.resume with observe_only.
RunObserve(a) == SnapshotCloses(a) /\ UNCHANGED <<phase, active, cancelling, outcome, inflight, delivered>>

Elsewhere == UNCHANGED <<dispatchVars, guardVars, registryVars, stepVars>>

\* A request its caller gave up on is handled late, or never.
LateStart(a) == a \in inflight /\ inflight' = inflight \ {a} /\ RunStart(a) /\ Elsewhere

LostStart(a) ==
  /\ a \in inflight /\ inflight' = inflight \ {a}
  /\ UNCHANGED <<phase, active, cancelling, outcome, closed, delivered>> /\ Elsewhere

\* The thread's progress through its journal: .started, then the assistant
\* stage with the gateway's intent, then the delivery stage.
Stage(p) == CASE p = "queued" -> "started" [] p = "started" -> "assistant" [] OTHER -> "delivery"

Working(a) == a \in active /\ closed[a] = "none" /\ outcome[a] = "none"

Progress(a) ==
  /\ Working(a) /\ phase[a] # "delivery"
  /\ phase[a] = "started" => a \notin cancelling
  /\ phase' = [phase EXCEPT ![a] = Stage(@)]
  /\ UNCHANGED <<active, cancelling, outcome, closed, inflight, delivered>> /\ Elsewhere

Send(a) ==
  /\ Working(a) /\ phase[a] = "delivery" /\ a \notin cancelling
  /\ delivered' = delivered \cup {a}
  /\ UNCHANGED <<phase, active, cancelling, outcome, closed, inflight>> /\ Elsewhere

\* What the gateway may write into its receipt at each stage: before the
\* delivery stage nothing was sent; after it "failed", "suppressed" and
\* "cancelled" need the proof that Telegram admitted no request.
Receivable(a) ==
  CASE phase[a] = "queued"    -> {}
    [] phase[a] = "started"   -> IF a \in cancelling THEN {"cancelled"} ELSE {}
    [] phase[a] = "assistant" -> {"failed", "suppressed"} \cup (IF a \in cancelling THEN {"cancelled"} ELSE {})
    [] OTHER -> Ambiguous \cup
         (IF a \in delivered THEN {"done"}
          ELSE {"failed", "suppressed"} \cup (IF a \in cancelling THEN {"cancelled"} ELSE {}))

WriteReceipt(a) ==
  /\ Working(a) /\ \E r \in Receivable(a) : outcome' = [outcome EXCEPT ![a] = r]
  /\ UNCHANGED <<phase, active, cancelling, closed, inflight, delivered>> /\ Elsewhere

\* The thread ends: with the receipt, because the turn raised without one, or
\* with a conversation that is no longer selected and leaves no receipt.
EndThread(a) ==
  /\ a \in active /\ phase[a] # "queued"
  /\ \/ closed' = [closed EXCEPT ![a] = Reconciled(a)]
     \/ phase[a] = "started" /\ outcome[a] = "none" /\ closed' = [closed EXCEPT ![a] = "suppressed"]
  /\ active' = active \ {a} /\ cancelling' = cancelling \ {a}
  /\ UNCHANGED <<phase, outcome, inflight, delivered>> /\ Elsewhere

\* The runtime restarts: threads are gone, and every intent without a receipt
\* gets an ambiguous one.
RuntimeRestart ==
  /\ active' = {} /\ cancelling' = {}
  /\ outcome' = [a \in Attempt |->
       IF phase[a] \in {"assistant", "delivery"} THEN Reconciled(a) ELSE outcome[a]]
  /\ UNCHANGED <<phase, closed, inflight, delivered>> /\ Elsewhere

-----------------------------------------------------------------------------
(* A workflow step: advanceWorkflow around TelegramDispatchRepository.run. *)

Goto(s, place) == pc' = [pc EXCEPT ![s] = place]

Forget(s) == /\ saw' = [saw EXCEPT ![s] = "none"] /\ at' = [at EXCEPT ![s] = 0]
             /\ val' = [val EXCEPT ![s] = "none"]

\* The operation gives both locks back and reports `d'.
Leave(s, d) ==
  /\ Goto(s, "mirror") /\ output' = [output EXCEPT ![s] = Observed(d)]
  /\ Forget(s)

\* The step is over.
EndStep(s) == Goto(s, "idle") /\ output' = [output EXCEPT ![s] = "waiting"] /\ Forget(s)

Claim(s) ==
  /\ pc[s] = "idle" /\ Open /\ (holder = NoStep \/ ~live)
  /\ holder' = s /\ live' = TRUE
  /\ Goto(s, "claimed")
  /\ UNCHANGED <<dispatchVars, guardVars, wf, receipts, saw, at, val, output, runtimeVars>>

\* Mutant: the operation takes no lock on the event.
EventLockAlwaysFree(s) == TRUE

EventLockFree(s) == \A other \in Step \ {s} : ~InOperation(other)

\* Another step still operates on this event: report `waiting'.
Busy(s) ==
  /\ pc[s] = "claimed" /\ ~EventLockFree(s)
  /\ Leave(s, "none")
  /\ UNCHANGED <<dispatchVars, guardVars, registryVars, runtimeVars>>

\* Both locks, the row inserted when it is missing, and read once.
Enter(s) ==
  /\ pc[s] = "claimed" /\ EventLockFree(s)
  /\ dstate' = IF dstate = "none" THEN "pending" ELSE dstate
  /\ saw' = [saw EXCEPT ![s] = dstate'] /\ at' = [at EXCEPT ![s] = attempts]
  /\ Goto(s, "entered")
  /\ UNCHANGED <<attempts, checked, saved, guardVars, registryVars, val, output, runtimeVars>>

Settled(s) ==
  /\ pc[s] = "entered" /\ saw[s] \in Terminal
  /\ Leave(s, saw[s])
  /\ UNCHANGED <<dispatchVars, guardVars, registryVars, runtimeVars>>

\* A running row without a recorded result: the runtime has to be asked.
MustObserve(s) == pc[s] = "entered" /\ saw[s] = "running" /\ saved[at[s]] = "none"

\* The attempt cannot be built yet: the preparation of its message, its space
\* or an earlier message of the conversation is awaited.
NotReady(s) == pc[s] = "build"

\* Not ready, or the back-off of a retryable or running row is not over.
Wait(s) ==
  /\ \/ NotReady(s)
     \/ pc[s] = "entered" /\ saw[s] \in Retryable /\ ~retired
     \/ MustObserve(s)
  /\ Leave(s, saw[s])
  /\ UNCHANGED <<dispatchVars, guardVars, registryVars, runtimeVars>>

CancelUnstarted(s) ==
  /\ pc[s] = "entered" /\ saw[s] \in Retryable /\ retired
  /\ dstate' = IF dstate \in Retryable THEN "cancelled" ELSE dstate
  /\ Leave(s, dstate')
  /\ UNCHANGED <<attempts, checked, saved, guardVars, registryVars, runtimeVars>>

Build(s) ==
  /\ pc[s] = "entered" /\ saw[s] \in Retryable /\ ~retired
  /\ Goto(s, "build")
  /\ UNCHANGED <<dispatchVars, guardVars, registryVars, saw, at, val, output, runtimeVars>>

\* The conversation is not selected, or speech has no text.
Suppress(s) ==
  /\ pc[s] = "build"
  /\ dstate' = "suppressed"
  /\ Leave(s, "suppressed")
  /\ UNCHANGED <<attempts, checked, saved, guardVars, registryVars, runtimeVars>>

\* A new attempt, committed under the guard fence before anything is sent.
StartAttempt(s) ==
  /\ pc[s] = "build" /\ at[s] < MaxAttempts
  /\ IF dstate \in Retryable
     THEN dstate' = "running" /\ attempts' = at[s] + 1
     ELSE UNCHANGED <<dstate, attempts>>
  /\ at' = [at EXCEPT ![s] = attempts']
  /\ Goto(s, "launch")
  /\ UNCHANGED <<checked, saved, guardVars, registryVars, saw, val, output, runtimeVars>>

\* A result was recorded, its row not yet finished.
Reuse(s) ==
  /\ pc[s] = "entered" /\ saw[s] = "running" /\ saved[at[s]] # "none"
  /\ val' = [val EXCEPT ![s] = saved[at[s]]]
  /\ Goto(s, "finish")
  /\ UNCHANGED <<dispatchVars, guardVars, registryVars, saw, at, output, runtimeVars>>

\* receive: a closed answer is stored, any other leaves the row running.
StillRunning(s) ==
  /\ dstate' = "running" /\ Leave(s, "running")
  /\ UNCHANGED <<attempts, checked, saved, guardVars, registryVars>>

\* Mutant: every answer is stored as a result.
ReceiveAny(s, answer) ==
  /\ val' = [val EXCEPT ![s] = answer] /\ Goto(s, "store")
  /\ UNCHANGED <<saw, at, output, dispatchVars, guardVars, registryVars>>

Receive(s, answer) ==
  \/ /\ answer \in Result
     /\ val' = [val EXCEPT ![s] = answer] /\ Goto(s, "store")
     /\ UNCHANGED <<saw, at, output, dispatchVars, guardVars, registryVars>>
  \/ answer \notin Result /\ StillRunning(s)

Observe(s) ==
  LET answer == Snapshot(at[s]) IN
  /\ MustObserve(s)
  /\ RunObserve(at[s])
  /\ IF answer \in Result THEN Receive(s, answer)
     ELSE /\ val' = [val EXCEPT ![s] = answer] /\ Goto(s, "observed")
          /\ UNCHANGED <<saw, at, output, dispatchVars, guardVars, registryVars>>

\* What it saw is judged under the binding of now: outdated, the run is
\* cancelled; otherwise only a run that never started may be started.
Judge(s) ==
  LET a == at[s] IN
  /\ pc[s] = "observed"
  /\ \/ ~Current(a) /\ val[s] = "not_found" /\ Receive(s, "cancelled") /\ UNCHANGED runtimeVars
     \/ ~Current(a) /\ val[s] # "not_found" /\ Receive(s, Cancelled(a)) /\ RunCancel(a)
     \/ Current(a) /\ val[s] = "running" /\ StillRunning(s) /\ UNCHANGED runtimeVars
     \/ /\ Current(a) /\ val[s] # "running" /\ Goto(s, "launch")
        /\ UNCHANGED <<saw, at, val, output, dispatchVars, guardVars, registryVars, runtimeVars>>

Launch(s) ==
  /\ pc[s] = "launch" /\ Current(at[s])
  /\ RunStart(at[s]) /\ Receive(s, Started(at[s])) /\ UNCHANGED inflight

\* The binding changed since: the operation throws (executionFailure).
LaunchDenied(s) ==
  /\ pc[s] = "launch" /\ ~Current(at[s])
  /\ Leave(s, "failed")
  /\ UNCHANGED <<dispatchVars, guardVars, registryVars, runtimeVars>>

\* A call without an answer counts as running; a start may still arrive.
CallLost(s) ==
  /\ \/ MustObserve(s) /\ UNCHANGED runtimeVars
     \/ MustObserve(s) /\ RunObserve(at[s])
     \/ pc[s] = "observed" /\ ~Current(at[s]) /\ val[s] # "not_found" /\ UNCHANGED runtimeVars
     \/ /\ pc[s] = "launch" /\ Current(at[s]) /\ inflight' = inflight \cup {at[s]}
        /\ UNCHANGED <<phase, active, cancelling, outcome, closed, delivered>>
  /\ StillRunning(s)

\* storeResult: the checkpoint in the derived store, then the row in the
\* control store; the two databases share no transaction.
Store(s) ==
  /\ pc[s] = "store"
  /\ saved' = [saved EXCEPT ![at[s]] = IF @ = "none" THEN val[s] ELSE @]
  /\ Goto(s, "finish")
  /\ UNCHANGED <<dstate, attempts, checked, guardVars, registryVars, saw, at, val, output, runtimeVars>>

Finish(s) ==
  /\ pc[s] = "finish"
  /\ dstate' = val[s]
  /\ Leave(s, val[s])
  /\ UNCHANGED <<attempts, checked, saved, guardVars, registryVars, runtimeVars>>

\* The step mirrors the row it finds into the receipts of the registry.
ReceiptOf(d) == CASE d = "running" -> "started" [] d = "failed" -> "failed"
                  [] d \in Ambiguous -> "ambiguous" [] OTHER -> "done"

MirrorRefused(a) ==
  /\ receipts[a] = "none" /\ ReceiptOf(dstate) \in Blocking
  /\ \E b \in Attempt \ {a} : receipts[b] \in Blocking

Mirror(s) ==
  /\ pc[s] = "mirror"
  /\ attempts > 0 => ~MirrorRefused(attempts)
  /\ receipts' = IF attempts > 0 /\ receipts[attempts] \in {"none", "started"}
                 THEN [receipts EXCEPT ![attempts] = ReceiptOf(dstate)] ELSE receipts
  /\ Goto(s, "record")
  /\ UNCHANGED <<dispatchVars, guardVars, wf, holder, live, saw, at, val, output, runtimeVars>>

\* The insert breaks the exclusion index: the step throws.
MirrorThrows(s) ==
  /\ pc[s] = "mirror" /\ attempts > 0 /\ MirrorRefused(attempts)
  /\ EndStep(s)
  /\ UNCHANGED <<dispatchVars, guardVars, registryVars, runtimeVars>>

\* Mutant: the row is written whoever holds the lease.
RecordUnfenced(s) ==
  /\ pc[s] = "record"
  /\ IF Open THEN wf' = output[s] /\ holder' = NoStep /\ live' = FALSE
     ELSE UNCHANGED <<wf, holder, live>>
  /\ EndStep(s)
  /\ UNCHANGED <<dispatchVars, guardVars, receipts, runtimeVars>>

Record(s) ==
  /\ pc[s] = "record"
  /\ IF holder = s /\ Open THEN wf' = output[s] /\ holder' = NoStep /\ live' = FALSE
     ELSE UNCHANGED <<wf, holder, live>>
  /\ EndStep(s)
  /\ UNCHANGED <<dispatchVars, guardVars, receipts, runtimeVars>>

\* The process dies or a query fails: the locks go, the lease stays until it
\* runs out.
Crash(s) ==
  /\ pc[s] # "idle" /\ EndStep(s)
  /\ UNCHANGED <<dispatchVars, guardVars, registryVars, runtimeVars>>

ExpireLease ==
  /\ live /\ live' = FALSE
  /\ UNCHANGED <<dispatchVars, guardVars, wf, holder, receipts, stepVars, runtimeVars>>

-----------------------------------------------------------------------------
(* Maintenance and the owner.                                              *)

\* Mutant: any journal with an assistant stage is a proof.
ProvesSilenceLoosely(a) == phase[a] \in {"assistant", "delivery"}

\* A complete journal that never entered the delivery stage.
ProvesSilence(a) == phase[a] = "assistant"

Candidate == dstate = "interrupted" /\ attempts > 0 /\ ~checked

\* interruptedJournalDisposition denies the proof: no further reading. The
\* last line of a journal can be missing after a restart.
KeepAmbiguous ==
  /\ Candidate
  /\ checked' = TRUE
  /\ UNCHANGED <<dstate, attempts, saved, guardVars, registryVars, stepVars, runtimeVars>>

ReopenInterrupted ==
  /\ Candidate /\ ProvesSilence(attempts) /\ FamilyFree
  /\ wf = "ambiguous" /\ receipts[attempts] = "ambiguous"
  /\ dstate' = "failed" /\ checked' = TRUE
  /\ receipts' = [receipts EXCEPT ![attempts] = "failed"]
  /\ wf' = "retryable_failed" /\ holder' = NoStep /\ live' = FALSE
  /\ UNCHANGED <<attempts, saved, guardVars, stepVars, runtimeVars>>

OwnerRetry ==
  /\ wf = "retryable_failed" /\ ~live /\ FamilyFree /\ ~ReceiptBlocked
  /\ wf' = "queued" /\ holder' = NoStep /\ live' = FALSE
  /\ UNCHANGED <<dispatchVars, guardVars, receipts, stepVars, runtimeVars>>

OwnerCancel ==
  /\ Open /\ wf # "running" /\ ~live /\ FamilyFree /\ ~ReceiptBlocked
  /\ dstate \in {"none", "pending"} /\ attempts = 0
  /\ dstate' = "cancelled"
  /\ wf' = "cancelled" /\ holder' = NoStep /\ live' = FALSE
  /\ UNCHANGED <<attempts, checked, saved, guardVars, receipts, stepVars, runtimeVars>>

GuardChange ==
  /\ stale' = stale \cup 1..attempts
  /\ UNCHANGED <<dispatchVars, retired, registryVars, stepVars, runtimeVars>>

RetireSource ==
  /\ ~retired /\ retired' = TRUE
  /\ UNCHANGED <<dispatchVars, stale, registryVars, stepVars, runtimeVars>>

\* cancelRetired, best effort.
CancelRetired ==
  /\ retired /\ dstate = "running" /\ attempts > 0
  /\ RunCancel(attempts) /\ Elsewhere

-----------------------------------------------------------------------------
Advance(s) == \/ Claim(s) \/ Busy(s) \/ Enter(s) \/ Settled(s) \/ CancelUnstarted(s)
              \/ Build(s) \/ Suppress(s) \/ StartAttempt(s) \/ Reuse(s) \/ Observe(s) \/ Judge(s) \/ Launch(s)
              \/ LaunchDenied(s) \/ Store(s) \/ Finish(s) \/ Mirror(s) \/ MirrorThrows(s)
              \/ Record(s)

StepAction(s) == Advance(s) \/ Wait(s) \/ CallLost(s) \/ Crash(s)

RuntimeAction(a) == \/ LateStart(a) \/ LostStart(a) \/ Progress(a) \/ Send(a)
                    \/ WriteReceipt(a) \/ EndThread(a)

Next == \/ \E s \in Step : StepAction(s)
        \/ \E a \in Attempt : RuntimeAction(a)
        \/ RuntimeRestart \/ ExpireLease
        \/ KeepAmbiguous \/ ReopenInterrupted \/ OwnerRetry \/ OwnerCancel
        \/ GuardChange \/ RetireSource \/ CancelRetired

Spec == Init /\ [][Next]_vars

\* Scheduling: the engine goes on taking steps, leases run out, threads of
\* the runtime end (the gateway bounds a turn). A back-off ends. Calls and
\* processes may fail any number of times, but not for ever. (A refused
\* mirror leaves the same state as a crash; it is a step of the code.)
Faults == \/ \E s \in Step : Crash(s) \/ CallLost(s)
          \/ RuntimeRestart

Fairness ==
  /\ \A s \in Step : WF_vars(Advance(s)) /\ SF_vars(Observe(s)) /\ SF_vars(Build(s))
  /\ \A a \in Attempt : WF_vars(Progress(a)) /\ WF_vars(EndThread(a))
  /\ WF_vars(ExpireLease)
  /\ <>[][Faults => \E s \in Step : Advance(s)]_vars

FairSpec == Spec /\ Fairness

-----------------------------------------------------------------------------
(* Properties.                                                             *)

\* Whatever is lost, late, repeated or restarted on the way, one message of
\* the group gets at most one reply.
AtMostOneReply == Cardinality(delivered) <= 1

\* A row that may start another attempt has nothing behind it: no earlier
\* attempt sent anything, and none still can, because each is closed in the
\* runtime (storeResult, reconcileInterrupted).
RetryIsSafe ==
  dstate \in Retryable =>
    \A a \in 1..attempts : a \notin delivered /\ closed[a] # "none"

\* The receipts of the registry never call an attempt failed that replied:
\* the owner's retry relies on them (controlStorageWorkflow).
FailedMeansSilent == \A a \in Attempt : receipts[a] = "failed" => a \notin delivered

\* A settled row is never unsettled by a slower step, a late answer or a
\* second step after a lost lease; only an interrupted one is reopened.
SettledStays ==
  [][(dstate \in Terminal /\ dstate' # dstate) => (dstate = "interrupted" /\ dstate' = "failed")]_vars

\* A closed workflow tells what became of its message, also after a
\* reopening that overtakes a step still recording an older observation.
ClosedAgrees == wf \in ClosedStates => wf = Observed(dstate)

\* A running message is not left running: its attempt is observed until it
\* has a result, whatever restarts meanwhile.
RunningSettles == (dstate = "running") ~> (dstate # "running")

\* "The domain receipt remains authoritative even if the last step output or
\* run acknowledgment was lost": a settled message closes its workflow.
SettledCloses == (dstate \in Terminal) ~> ~Open
=============================================================================
