----------------------- MODULE TelegramDispatch_proofs -----------------------
(***************************************************************************)
(* Proofs that a message gets at most one reply whatever is lost, late or   *)
(* restarted: the types, the coherence of each attempt inside the runtime,  *)
(* the step that owns the row, and from them AtMostOneReply, RetryIsSafe,   *)
(* FailedMeansSilent, ClosedAgrees and SettledStays, for every number of    *)
(* overlapping steps and attempts.                                          *)
(***************************************************************************)
EXTENDS TelegramDispatch, FiniteSetTheorems, TLAPS

(* The inductive invariant.                                                *)

\* A result that tells that nothing was sent.
Silence == {"failed", "suppressed", "cancelled"}

\* An attempt is closed in the runtime, and nothing was sent.
Quiet(a) == closed[a] # "none" /\ a \notin delivered

\* The runtime does not know the attempt, and no request for it is on its way.
Unknown(a) == phase[a] = "absent" /\ a \notin active /\ a \notin inflight /\ a \notin delivered

AttemptAgrees(a) ==
  /\ a \in active => closed[a] = "none" /\ phase[a] # "absent"
  /\ a \in delivered => phase[a] = "delivery"
  /\ outcome[a] \in Silence => a \notin delivered
  /\ closed[a] \in Silence => a \notin delivered

AttemptsAgree == \A a \in Attempt : AttemptAgrees(a)
LaterUnknown == \A a \in Attempt : a > attempts => Unknown(a)

\* Only one step is inside the operation.
OneOperates == \A s, t \in Step : InOperation(s) /\ InOperation(t) => s = t

\* What it read is still the row, and what it stores the runtime has closed:
\* only the cancellation of a run that was never known is not.
Owned(s) ==
  /\ InOperation(s) => at[s] = attempts
  /\ pc[s] \in {"entered", "build"} => dstate = saw[s]
  /\ pc[s] = "build" => saw[s] \in Retryable
  /\ pc[s] \in {"observed", "launch", "store", "finish"} => dstate = "running"
  /\ pc[s] \in {"store", "finish"} =>
       val[s] \in Result /\ (val[s] # "cancelled" => closed[attempts] = val[s])

RowOwned == \A s \in Step : Owned(s)

RowTells ==
  /\ dstate = "none" => attempts = 0
  /\ dstate = "running" => attempts > 0
  /\ dstate = "interrupted" => attempts > 0 /\ closed[attempts] # "none"

SavedWasClosed == \A a \in Attempt : saved[a] \notin {"none", "cancelled"} => closed[a] = saved[a]

\* Every attempt before the present one is quiet, and the present one too
\* when the row may be tried again.
EarlierQuiet == \A a \in 1..attempts : a < attempts \/ dstate \in Retryable => Quiet(a)

FailedQuiet == \A a \in Attempt : receipts[a] = "failed" => Quiet(a)

\* What the holder of the lease is about to record is what became of the row.
ToldTruly ==
  \A s \in Step :
    pc[s] \in {"mirror", "record"} /\ output[s] \in ClosedStates /\ holder = s
      => output[s] = Observed(dstate)

RuntimeInv == AttemptsAgree /\ LaterUnknown
RowInv == OneOperates /\ RowOwned /\ RowTells /\ SavedWasClosed
ReplyInv == TypeOK /\ RuntimeInv /\ RowInv /\ EarlierQuiet /\ FailedQuiet

-----------------------------------------------------------------------------
(* What a step can do to the runtime.                                      *)

RuntimeCall(a) ==
  \/ RunStart(a) /\ inflight' \subseteq inflight
  \/ RunCancel(a) \/ RunObserve(a)
  \/ inflight' \subseteq inflight \cup {a} /\ UNCHANGED <<phase, active, cancelling, outcome, closed, delivered>>

RuntimeMove ==
  \/ UNCHANGED runtimeVars
  \/ \E a \in 1..attempts : RuntimeCall(a)
  \/ \E a \in Attempt : Progress(a) \/ Send(a) \/ WriteReceipt(a) \/ EndThread(a)
  \/ RuntimeRestart

\* A call names the attempt the step works on, which the row knows.
LEMMA AttemptKnown ==
  ASSUME TypeOK, RowOwned, RowTells, NEW s \in Step,
         MustObserve(s) \/ pc[s] \in {"observed", "launch", "store", "finish"}
  PROVE  at[s] = attempts /\ dstate = "running" /\ attempts \in 1..attempts /\ attempts \in Attempt
<1>1. pc[s] \in {"entered", "observed", "launch", "store", "finish"}
  BY DEF MustObserve
<1>2. at[s] = attempts /\ dstate = "running"
  BY <1>1 DEF MustObserve, RowOwned, Owned, InOperation, OpPlaces
<1> QED
  BY <1>2, AttemptAssumption DEF RowTells, TypeOK, Attempt

USE DEF dispatchVars, guardVars, registryVars, stepVars, runtimeVars

LEMMA RuntimeMoves ==
  ASSUME TypeOK, LaterUnknown, RowOwned, RowTells, [Next]_vars
  PROVE  RuntimeMove /\ attempts' \in Nat /\ attempts <= attempts'
<1> USE DEF RuntimeMove
<1>0. attempts \in Nat
  BY DEF TypeOK
<1>a. ASSUME NEW s \in Step, StepAction(s) PROVE RuntimeMove /\ attempts' \in Nat /\ attempts <= attempts'
  <2>1. CASE Observe(s)
    <3>1. at[s] \in 1..attempts
      BY <2>1, AttemptKnown DEF Observe
    <3> QED
      BY <1>0, <2>1, <3>1 DEF Observe, Receive, StillRunning, RuntimeCall
  <2>2. CASE Judge(s)
    <3>1. at[s] \in 1..attempts
      BY <2>2, AttemptKnown DEF Judge
    <3> QED
      BY <1>0, <2>2, <3>1 DEF Judge, Receive, StillRunning, RuntimeCall
  <2>3. CASE Launch(s)
    <3>1. at[s] \in 1..attempts
      BY <2>3, AttemptKnown DEF Launch
    <3> QED
      BY <1>0, <2>3, <3>1 DEF Launch, Receive, StillRunning, RuntimeCall
  <2>4. CASE CallLost(s)
    <3>1. at[s] \in 1..attempts
      BY <2>4, AttemptKnown DEF CallLost
    <3> QED
      BY <1>0, <2>4, <3>1 DEF CallLost, StillRunning, RuntimeCall
  <2>5. CASE StartAttempt(s)
    <3>1. at[s] = attempts
      BY <2>5 DEF StartAttempt, RowOwned, Owned, InOperation, OpPlaces
    <3> QED
      BY <1>0, <2>5, <3>1 DEF StartAttempt
  <2>6. CASE Claim(s) \/ Busy(s) \/ Enter(s) \/ Settled(s) \/ CancelUnstarted(s) \/ Build(s) \/ Suppress(s)
             \/ Reuse(s) \/ LaunchDenied(s) \/ Store(s)
    BY <1>0, <2>6 DEF Claim, Busy, Enter, Settled, CancelUnstarted, Build, Suppress, Reuse, LaunchDenied, Store
  <2>7. CASE Finish(s) \/ Mirror(s) \/ MirrorThrows(s) \/ Record(s) \/ Wait(s) \/ Crash(s)
    BY <1>0, <2>7 DEF Finish, Mirror, MirrorThrows, Record, Wait, Crash
  <2> QED
    BY <1>a, <2>1, <2>2, <2>3, <2>4, <2>5, <2>6, <2>7 DEF StepAction, Advance
<1>b. ASSUME NEW a \in Attempt, RuntimeAction(a) PROVE RuntimeMove /\ attempts' \in Nat /\ attempts <= attempts'
  <2>1. CASE LateStart(a) \/ LostStart(a)
    <3>1. a \in 1..attempts
      BY <2>1, <1>0 DEF LateStart, LostStart, LaterUnknown, Unknown, Attempt
    <3> QED
      BY <1>0, <2>1, <3>1 DEF LateStart, LostStart, Elsewhere, RuntimeCall
  <2>2. CASE Progress(a) \/ Send(a) \/ WriteReceipt(a) \/ EndThread(a)
    BY <1>0, <2>2 DEF Progress, Send, WriteReceipt, EndThread, Elsewhere
  <2> QED
    BY <1>b, <2>1, <2>2 DEF RuntimeAction
<1>1. CASE CancelRetired
  <2>1. attempts \in 1..attempts
    BY <1>0, <1>1 DEF CancelRetired
  <2> QED
    BY <1>0, <1>1, <2>1 DEF CancelRetired, Elsewhere, RuntimeCall
<1>2. CASE RuntimeRestart
  BY <1>0, <1>2 DEF RuntimeRestart, Elsewhere
<1>3. CASE ExpireLease \/ KeepAmbiguous \/ ReopenInterrupted \/ OwnerRetry \/ OwnerCancel \/ GuardChange \/ RetireSource
  BY <1>0, <1>3 DEF ExpireLease, KeepAmbiguous, ReopenInterrupted, OwnerRetry, OwnerCancel, GuardChange, RetireSource
<1>4. CASE UNCHANGED vars
  BY <1>0, <1>4 DEF vars
<1> QED
  BY <1>a, <1>b, <1>1, <1>2, <1>3, <1>4 DEF Next

-----------------------------------------------------------------------------
(* What the runtime says of an attempt stays true.                         *)

\* A closed attempt stays closed as it is, and sends nothing any more.
ClosedKept ==
  \A a \in Attempt : closed[a] # "none" => closed'[a] = closed[a] /\ (a \in delivered' => a \in delivered)

LEMMA RuntimeKeeps ==
  ASSUME TypeOK, RuntimeInv, RuntimeMove, attempts' \in Nat, attempts <= attempts'
  PROVE  RuntimeInv' /\ ClosedKept
<1> USE DEF RuntimeInv, AttemptsAgree, LaterUnknown, ClosedKept
<1> attempts \in 0..MaxAttempts /\ MaxAttempts \in Nat
  BY AttemptAssumption DEF TypeOK
<1>1. CASE UNCHANGED runtimeVars
  BY <1>1 DEF AttemptAgrees, Unknown, Attempt
<1>2. ASSUME NEW a \in 1..attempts, RuntimeCall(a) PROVE RuntimeInv' /\ ClosedKept
  <2> a \in Attempt /\ ~(a > attempts)
    BY <1>2 DEF Attempt
  <2>1. CASE RunStart(a) /\ inflight' \subseteq inflight
    BY <2>1 DEF RunStart, SnapshotCloses, Snapshot, Dead, Reconciled, AttemptAgrees, Unknown, Attempt, TypeOK, Silence, Result, Ambiguous
  <2>2. CASE RunCancel(a)
    BY <2>2 DEF RunCancel, Snapshot, Dead, Reconciled, AttemptAgrees, Unknown, Attempt, TypeOK, Silence, Result, Ambiguous
  <2>3. CASE RunObserve(a)
    BY <2>3 DEF RunObserve, SnapshotCloses, Snapshot, Dead, Reconciled, AttemptAgrees, Unknown, Attempt, TypeOK, Silence, Result, Ambiguous
  <2>4. CASE inflight' \subseteq inflight \cup {a} /\ UNCHANGED <<phase, active, cancelling, outcome, closed, delivered>>
    BY <2>4 DEF AttemptAgrees, Unknown, Attempt
  <2> QED
    BY <1>2, <2>1, <2>2, <2>3, <2>4 DEF RuntimeCall
<1>3. ASSUME NEW a \in Attempt, Progress(a) PROVE RuntimeInv' /\ ClosedKept
  BY <1>3 DEF Progress, Working, Stage, AttemptAgrees, Unknown, Attempt, TypeOK
<1>4. ASSUME NEW a \in Attempt, Send(a) PROVE RuntimeInv' /\ ClosedKept
  BY <1>4 DEF Send, Working, AttemptAgrees, Unknown, Attempt, TypeOK, Silence
<1>5. ASSUME NEW a \in Attempt, WriteReceipt(a) PROVE RuntimeInv' /\ ClosedKept
  BY <1>5 DEF WriteReceipt, Working, Receivable, AttemptAgrees, Unknown, Attempt, TypeOK, Silence, Ambiguous, Phase
<1>6. ASSUME NEW a \in Attempt, EndThread(a) PROVE RuntimeInv' /\ ClosedKept
  BY <1>6 DEF EndThread, Reconciled, AttemptAgrees, Unknown, Attempt, TypeOK, Silence
<1>7. CASE RuntimeRestart
  BY <1>7 DEF RuntimeRestart, Reconciled, AttemptAgrees, Unknown, Attempt, TypeOK, Silence
<1> QED
  BY <1>1, <1>2, <1>3, <1>4, <1>5, <1>6, <1>7 DEF RuntimeMove

-----------------------------------------------------------------------------
(* Types.                                                                  *)

RuntimeTypes ==
  /\ phase \in [Attempt -> Phase]
  /\ active \subseteq Attempt /\ cancelling \subseteq Attempt
  /\ outcome \in [Attempt -> Result \cup {"none"}]
  /\ closed \in [Attempt -> Result \cup {"none"}]
  /\ inflight \subseteq Attempt /\ delivered \subseteq Attempt

LEMMA RuntimeMoveTypes == TypeOK /\ RuntimeMove => RuntimeTypes'
<1> SUFFICES ASSUME TypeOK, RuntimeMove PROVE RuntimeTypes'
  OBVIOUS
<1> USE DEF RuntimeTypes, TypeOK
<1>1. CASE UNCHANGED runtimeVars
  BY <1>1
<1>2. ASSUME NEW a \in 1..attempts, RuntimeCall(a) PROVE RuntimeTypes'
  <2> a \in Attempt
    BY AttemptAssumption DEF Attempt
  <2> QED
    BY ZenonT(60), <1>2 DEF RuntimeCall, RunStart, RunCancel, RunObserve, SnapshotCloses, Phase, Result
<1>3. ASSUME NEW a \in Attempt, Progress(a) \/ Send(a) \/ WriteReceipt(a) \/ EndThread(a) PROVE RuntimeTypes'
  BY <1>3 DEF Progress, Send, WriteReceipt, EndThread, Stage, Phase, Receivable, Result, Ambiguous, Reconciled
<1>4. CASE RuntimeRestart
  BY <1>4 DEF RuntimeRestart, Reconciled, Result, Ambiguous
<1> QED
  BY <1>1, <1>2, <1>3, <1>4 DEF RuntimeMove

LEMMA SnapshotType == ASSUME TypeOK, NEW a \in Attempt PROVE Snapshot(a) \in Answer
BY DEF TypeOK, Snapshot, Reconciled, Answer, Result, Ambiguous

LEMMA ObservedType ==
  ASSUME NEW d \in {"none", "pending", "running"} \cup Result
  PROVE  Observed(d) \in OpenStates \cup ClosedStates
BY DEF Observed, Result, Ambiguous, OpenStates, ClosedStates

RowTypes ==
  /\ dstate \in {"none", "pending", "running"} \cup Result
  /\ attempts \in 0..MaxAttempts /\ checked \in BOOLEAN
  /\ saved \in [Attempt -> Result \cup {"none"}]
  /\ retired \in BOOLEAN /\ stale \subseteq Attempt
  /\ wf \in OpenStates \cup ClosedStates
  /\ holder \in Step \cup {NoStep} /\ live \in BOOLEAN
  /\ receipts \in [Attempt -> Blocking \cup {"none", "failed"}]

StepTypes ==
  /\ pc \in [Step -> PC]
  /\ saw \in [Step -> {"none", "pending", "running"} \cup Result]
  /\ at \in [Step -> 0..MaxAttempts]
  /\ val \in [Step -> Answer]
  /\ output \in [Step -> OpenStates \cup ClosedStates]

\* Answers are stored, or the row is left running.
LEMMA ReceiveTypes ==
  ASSUME TypeOK, NEW s \in Step, NEW answer \in Answer, Receive(s, answer)
  PROVE  RowTypes' /\ StepTypes'
<1>1. CASE StillRunning(s)
  <2>1. Observed("running") \in OpenStates \cup ClosedStates
    BY ObservedType
  <2>2. RowTypes'
    BY <1>1 DEF StillRunning, TypeOK, RowTypes
  <2>3. pc' \in [Step -> PC] /\ output' \in [Step -> OpenStates \cup ClosedStates]
    BY <1>1, <2>1 DEF StillRunning, Leave, Goto, TypeOK, PC
  <2>4. /\ saw' \in [Step -> {"none", "pending", "running"} \cup Result]
        /\ at' \in [Step -> 0..MaxAttempts] /\ val' \in [Step -> Answer]
    BY <1>1, AttemptAssumption DEF StillRunning, Leave, Forget, TypeOK, Answer
  <2> QED
    BY <2>2, <2>3, <2>4 DEF StepTypes
<1>2. CASE val' = [val EXCEPT ![s] = answer] /\ Goto(s, "store") /\ UNCHANGED <<saw, at, output, dispatchVars, guardVars, registryVars>>
  BY <1>2 DEF Goto, TypeOK, RowTypes, StepTypes, PC, OpPlaces
<1> QED
  BY <1>1, <1>2 DEF Receive

LEMMA StepMoveTypes ==
  ASSUME TypeOK, RowOwned, RowTells, NEW s \in Step, StepAction(s)
  PROVE  RowTypes' /\ StepTypes'
<1> USE AttemptAssumption DEF RowTypes, StepTypes
<1>l. ASSUME NEW d \in {"none", "pending", "running"} \cup Result, Leave(s, d) PROVE StepTypes'
  BY <1>l, ObservedType DEF Leave, Forget, Goto, TypeOK, PC, Answer
<1>e. ASSUME EndStep(s) PROVE StepTypes'
  BY <1>e DEF EndStep, Forget, Goto, TypeOK, PC, Answer, OpenStates
<1>w. saw[s] \in {"none", "pending", "running"} \cup Result
  BY DEF TypeOK
<1>1. CASE Claim(s)
  BY <1>1 DEF Claim, Goto, TypeOK, PC
<1>2. CASE Busy(s) \/ Settled(s) \/ Wait(s) \/ LaunchDenied(s)
  BY <1>2, <1>l, <1>w DEF Busy, Settled, Wait, LaunchDenied, TypeOK, Result
<1>3. CASE Enter(s)
  BY <1>3 DEF Enter, Goto, TypeOK, PC, OpPlaces
<1>4. CASE CancelUnstarted(s)
  <2>1. dstate' \in {"none", "pending", "running"} \cup Result
    BY <1>4 DEF CancelUnstarted, TypeOK, Result
  <2> QED
    BY <1>4, <1>l, <2>1 DEF CancelUnstarted, TypeOK
<1>5. CASE Build(s)
  BY <1>5 DEF Build, Goto, TypeOK, PC, OpPlaces
<1>6. CASE Suppress(s)
  BY <1>6, <1>l DEF Suppress, TypeOK, Result
<1>7. CASE StartAttempt(s)
  BY <1>7 DEF StartAttempt, Goto, TypeOK, PC, OpPlaces, Attempt
<1>8. CASE Reuse(s)
  <2>1. at[s] \in Attempt
    <3>1. pc[s] = "entered" /\ dstate = "running" /\ at[s] = attempts
      BY <1>8 DEF Reuse, RowOwned, Owned, InOperation, OpPlaces
    <3> QED
      BY <3>1 DEF RowTells, TypeOK, Attempt
  <2> QED
    BY <1>8, <2>1 DEF Reuse, Goto, TypeOK, PC, OpPlaces, Answer
<1>9. CASE Observe(s)
  <2>1. at[s] \in Attempt
    BY <1>9, AttemptKnown DEF Observe
  <2>2. Snapshot(at[s]) \in Answer
    BY <2>1, SnapshotType
  <2> QED
    BY <1>9, <2>2, ReceiveTypes DEF Observe, Goto, TypeOK, PC, OpPlaces
<1>10. CASE Judge(s)
  <2>1. at[s] \in Attempt
    BY <1>10, AttemptKnown DEF Judge
  <2>2. Cancelled(at[s]) \in Answer /\ "cancelled" \in Answer
    BY <2>1, SnapshotType DEF Cancelled, Answer, Result
  <2>3. CASE Receive(s, "cancelled") \/ Receive(s, Cancelled(at[s]))
    BY <2>2, <2>3, ReceiveTypes
  <2>4. CASE StillRunning(s)
    BY <2>4, <1>l DEF StillRunning, TypeOK
  <2>5. CASE Goto(s, "launch") /\ UNCHANGED <<saw, at, val, output, dispatchVars, guardVars, registryVars>>
    BY <2>5 DEF Goto, TypeOK, PC, OpPlaces
  <2> QED
    BY <1>10, <2>3, <2>4, <2>5 DEF Judge
<1>11. CASE Launch(s)
  <2>1. at[s] \in Attempt
    BY <1>11, AttemptKnown DEF Launch
  <2>2. Started(at[s]) \in Answer
    BY <2>1, SnapshotType DEF Started, Answer
  <2> QED
    BY <1>11, <2>2, ReceiveTypes DEF Launch
<1>12. CASE CallLost(s)
  BY <1>12, <1>l DEF CallLost, StillRunning, TypeOK
<1>13. CASE Store(s)
  <2>1. at[s] \in Attempt
    BY <1>13, AttemptKnown DEF Store
  <2>2. val[s] \in Result
    BY <1>13 DEF Store, RowOwned, Owned
  <2> QED
    BY <1>13, <2>1, <2>2 DEF Store, Goto, TypeOK, PC, OpPlaces
<1>14. CASE Finish(s)
  <2>1. val[s] \in Result
    BY <1>14 DEF Finish, RowOwned, Owned
  <2> QED
    BY <1>14, <1>l, <2>1 DEF Finish, TypeOK
<1>15. CASE Mirror(s)
  BY <1>15 DEF Mirror, ReceiptOf, Goto, TypeOK, PC, Blocking, Attempt, Result, Ambiguous
<1>16. CASE MirrorThrows(s) \/ Crash(s)
  BY <1>16, <1>e DEF MirrorThrows, Crash, TypeOK
<1>17. CASE Record(s)
  <2>1. live' \in BOOLEAN
    BY <1>17 DEF Record, TypeOK
  <2>2. wf' \in OpenStates \cup ClosedStates /\ holder' \in Step \cup {NoStep}
    BY <1>17 DEF Record, TypeOK
  <2> QED
    BY <1>17, <1>e, <2>1, <2>2 DEF Record, TypeOK
<1> QED
  BY <1>1, <1>2, <1>3, <1>4, <1>5, <1>6, <1>7, <1>8, <1>9, <1>10, <1>11, <1>12, <1>13, <1>14, <1>15, <1>16, <1>17
  DEF StepAction, Advance

LEMMA TypeStep ==
  ASSUME TypeOK, LaterUnknown, RowOwned, RowTells, [Next]_vars
  PROVE  TypeOK'
<1> USE DEF RowTypes, StepTypes
<1>1. RuntimeTypes'
  BY RuntimeMoves, RuntimeMoveTypes
<1>2. RowTypes' /\ StepTypes'
  <2>1. CASE \E s \in Step : StepAction(s)
    BY <2>1, StepMoveTypes
  <2>2. CASE \E a \in Attempt : RuntimeAction(a)
    BY <2>2 DEF RuntimeAction, LateStart, LostStart, Progress, Send, WriteReceipt, EndThread, Elsewhere, TypeOK
  <2>3. CASE RuntimeRestart \/ CancelRetired \/ ExpireLease \/ KeepAmbiguous \/ RetireSource
    BY <2>3 DEF RuntimeRestart, CancelRetired, ExpireLease, KeepAmbiguous, RetireSource, Elsewhere, TypeOK
  <2>4. CASE ReopenInterrupted \/ OwnerRetry \/ OwnerCancel
    BY <2>4 DEF ReopenInterrupted, OwnerRetry, OwnerCancel, TypeOK, Result, OpenStates, ClosedStates, Blocking
  <2>5. CASE GuardChange
    BY <2>5, AttemptAssumption DEF GuardChange, TypeOK, Attempt
  <2>6. CASE UNCHANGED vars
    BY <2>6 DEF vars, TypeOK
  <2> QED
    BY <2>1, <2>2, <2>3, <2>4, <2>5, <2>6 DEF Next
<1> QED
  BY <1>1, <1>2 DEF TypeOK, RuntimeTypes

-----------------------------------------------------------------------------
(* The step that owns the row.                                             *)

\* An answer the runtime gives as a result is closed when the call returns.
LEMMA AnswerIsClosed ==
  ASSUME TypeOK, NEW a \in Attempt
  PROVE  /\ SnapshotCloses(a) /\ Snapshot(a) \in Result => closed'[a] = Snapshot(a)
         /\ RunCancel(a) /\ Cancelled(a) \in Result => closed'[a] = Cancelled(a)
         /\ RunStart(a) /\ Started(a) \in Result => closed'[a] = Started(a)
BY DEF TypeOK, SnapshotCloses, RunCancel, Cancelled, RunStart, Started, Result, Ambiguous

\* The row did not change, or nobody else was inside the operation.
LEMMA OwnerOnly ==
  ASSUME TypeOK, RowInv, NEW s \in Step, StepAction(s), NEW t \in Step, t # s
  PROVE  /\ UNCHANGED <<dstate, attempts>> \/ ~InOperation(t)
         /\ pc'[t] = pc[t] /\ saw'[t] = saw[t] /\ at'[t] = at[t] /\ val'[t] = val[t] /\ output'[t] = output[t]
<1> USE DEF TypeOK, RowInv, OneOperates, InOperation, OpPlaces, Goto, Leave, Forget, EndStep
<1>1. CASE Claim(s) \/ Busy(s) \/ Settled(s) \/ Wait(s) \/ LaunchDenied(s)
  BY <1>1 DEF Claim, Busy, Settled, Wait, LaunchDenied
<1>2. CASE Enter(s)
  BY <1>2 DEF Enter, EventLockFree
<1>3. CASE CancelUnstarted(s) \/ Build(s) \/ Suppress(s) \/ StartAttempt(s) \/ Reuse(s)
  BY <1>3 DEF CancelUnstarted, Build, Suppress, StartAttempt, Reuse
<1>4. CASE Observe(s) \/ Judge(s) \/ Launch(s) \/ CallLost(s)
  <2>1. InOperation(s)
    BY <1>4 DEF Observe, MustObserve, Judge, Launch, CallLost
  <2> QED
    BY <1>4, <2>1 DEF Observe, Judge, Launch, CallLost, Receive, StillRunning
<1>5. CASE Store(s) \/ Finish(s)
  BY <1>5 DEF Store, Finish
<1>6. CASE Mirror(s) \/ MirrorThrows(s) \/ Crash(s) \/ Record(s)
  BY <1>6 DEF Mirror, MirrorThrows, Crash, Record
<1> QED
  BY <1>1, <1>2, <1>3, <1>4, <1>5, <1>6 DEF StepAction, Advance

\* Only Enter brings a step into the operation.
LEMMA OnlyEnterEnters ==
  ASSUME TypeOK, RowOwned, RowTells, NEW s \in Step, StepAction(s), ~Enter(s), InOperation(s)'
  PROVE  InOperation(s)
<1> USE DEF TypeOK, InOperation, OpPlaces, Goto, Leave, EndStep
<1>1. CASE Claim(s) \/ Busy(s) \/ Settled(s) \/ Wait(s) \/ LaunchDenied(s) \/ CancelUnstarted(s) \/ Suppress(s)
  BY <1>1 DEF Claim, Busy, Settled, Wait, LaunchDenied, CancelUnstarted, Suppress
<1>2. CASE Build(s) \/ StartAttempt(s) \/ Reuse(s) \/ Observe(s) \/ Judge(s) \/ Launch(s) \/ CallLost(s) \/ Store(s)
  BY <1>2 DEF Build, StartAttempt, Reuse, Observe, MustObserve, Judge, Launch, CallLost, Store
<1>3. CASE Finish(s) \/ Mirror(s) \/ MirrorThrows(s) \/ Crash(s) \/ Record(s)
  BY <1>3 DEF Finish, Mirror, MirrorThrows, Crash, Record
<1> QED
  BY <1>1, <1>2, <1>3 DEF StepAction, Advance

LEMMA OneOperatesStep ==
  ASSUME TypeOK, RowInv, NEW s \in Step, StepAction(s)
  PROVE  OneOperates'
<1> SUFFICES ASSUME NEW t \in Step, NEW u \in Step, InOperation(t)', InOperation(u)', t # u PROVE FALSE
  BY DEF OneOperates
<1>1. ASSUME NEW v \in Step, v # s, InOperation(v)' PROVE InOperation(v)
  BY <1>1, OwnerOnly DEF InOperation
<1>2. CASE t # s /\ u # s
  BY <1>1, <1>2 DEF RowInv, OneOperates
<1>3. ASSUME NEW v \in Step, v # s, InOperation(v)', InOperation(s)' PROVE FALSE
  <2>1. InOperation(v)
    BY <1>1, <1>3
  <2>2. CASE Enter(s)
    BY <1>3, <2>1, <2>2 DEF Enter, EventLockFree
  <2>3. CASE ~Enter(s)
    BY <1>3, <2>1, <2>3, OnlyEnterEnters DEF RowInv, OneOperates
  <2> QED
    BY <2>2, <2>3
<1> QED
  BY <1>2, <1>3

\* What a step does to its own place in the operation.
LEMMA OwnedStep ==
  ASSUME TypeOK, RowInv, ClosedKept, NEW s \in Step, StepAction(s)
  PROVE  Owned(s)'
<1> USE DEF TypeOK, RowInv, RowOwned, InOperation, OpPlaces, Goto
<1>o. Owned(s) /\ RowTells /\ SavedWasClosed
  OBVIOUS
<1>p. attempts \in Nat /\ (attempts > 0 => attempts \in Attempt)
  BY AttemptAssumption DEF Attempt
<1>1. CASE Claim(s) \/ Busy(s) \/ Settled(s) \/ Wait(s) \/ LaunchDenied(s) \/ CancelUnstarted(s) \/ Suppress(s)
  BY <1>1 DEF Claim, Busy, Settled, Wait, LaunchDenied, CancelUnstarted, Suppress, Leave, Owned
<1>2. CASE Enter(s)
  BY <1>2 DEF Enter, Owned
<1>3. CASE Build(s)
  BY <1>3, <1>o DEF Build, Owned
<1>4. CASE StartAttempt(s)
  BY <1>4, <1>o DEF StartAttempt, Owned, Retryable
<1>5. CASE Reuse(s)
  <2>1. dstate = "running" /\ at[s] = attempts /\ attempts \in Attempt
    BY <1>5, <1>o, <1>p DEF Reuse, Owned, RowTells
  <2>2. saved[attempts] # "cancelled" => closed'[attempts] = saved[attempts]
    BY <1>5, <2>1, <1>o DEF SavedWasClosed, Reuse
  <2> QED
    BY <1>5, <2>1, <2>2 DEF Reuse, Owned
<1>6. CASE Observe(s) \/ Judge(s) \/ Launch(s) \/ CallLost(s)
  <2>1. at[s] = attempts /\ dstate = "running" /\ attempts \in Attempt
    BY <1>6, AttemptKnown DEF Observe, Judge, Launch, CallLost
  <2>2. CASE StillRunning(s)
    BY <2>2 DEF StillRunning, Leave, Owned
  <2>3. CASE UNCHANGED <<at, dstate, attempts>> /\ pc' = [pc EXCEPT ![s] = "observed"]
    BY <2>1, <2>3 DEF Owned
  <2>4. CASE UNCHANGED <<at, dstate, attempts>> /\ pc' = [pc EXCEPT ![s] = "launch"]
    BY <2>1, <2>4 DEF Owned
  <2>5. ASSUME NEW answer \in Result, Receive(s, answer), answer # "cancelled" => closed'[attempts] = answer
        PROVE Owned(s)'
    <3>1. pc' = [pc EXCEPT ![s] = "store"] /\ val' = [val EXCEPT ![s] = answer] /\ UNCHANGED <<at, dstate, attempts>>
      BY <2>5 DEF Receive
    <3> QED
      BY <2>1, <2>5, <3>1 DEF Owned
  <2>6. CASE Observe(s)
    BY <2>1, <2>3, <2>5, <2>6, AnswerIsClosed DEF Observe, RunObserve
  <2>7. CASE Judge(s)
    <3>1. CASE Receive(s, "cancelled")
      BY <3>1, <2>5 DEF Result
    <3>2. CASE Receive(s, Cancelled(at[s])) /\ RunCancel(at[s])
      BY <3>2, <2>1, <2>2, <2>5, AnswerIsClosed DEF Receive
    <3> QED
      BY <2>7, <2>2, <2>4, <3>1, <3>2 DEF Judge
  <2>8. CASE Launch(s)
    BY <2>8, <2>1, <2>2, <2>5, AnswerIsClosed DEF Launch, Receive
  <2>9. CASE CallLost(s)
    BY <2>9, <2>2 DEF CallLost
  <2> QED
    BY <1>6, <2>6, <2>7, <2>8, <2>9
<1>7. CASE Store(s)
  <2>1. dstate = "running" /\ attempts \in Attempt
    BY <1>7, AttemptKnown DEF Store
  <2>2. closed' = closed
    BY <1>7 DEF Store
  <2> QED
    BY <1>7, <1>o, <2>1, <2>2 DEF Store, Owned
<1>8. CASE Finish(s) \/ Mirror(s) \/ MirrorThrows(s) \/ Crash(s) \/ Record(s)
  BY <1>8 DEF Finish, Mirror, MirrorThrows, Crash, Record, Leave, EndStep, Owned
<1> QED
  BY <1>1, <1>2, <1>3, <1>4, <1>5, <1>6, <1>7, <1>8 DEF StepAction, Advance

LEMMA OthersOwnedStep ==
  ASSUME TypeOK, RowInv, ClosedKept, NEW s \in Step, StepAction(s), NEW t \in Step, t # s
  PROVE  Owned(t)'
<1> USE DEF InOperation, OpPlaces
<1>1. CASE ~InOperation(t)
  BY <1>1, OwnerOnly DEF Owned
<1>2. CASE InOperation(t)
  <2>1. UNCHANGED <<dstate, attempts>>
    BY <1>2, OwnerOnly
  <2>2. Owned(t)
    BY DEF RowInv, RowOwned
  <2>3. pc[t] \in {"store", "finish"} /\ val[t] # "cancelled" => closed'[attempts] = val[t]
    <3> SUFFICES ASSUME pc[t] \in {"store", "finish"}, val[t] # "cancelled" PROVE closed'[attempts] = val[t]
      OBVIOUS
    <3>1. attempts \in Attempt
      BY AttemptKnown DEF RowInv
    <3>2. val[t] \in Result /\ closed[attempts] = val[t]
      BY <2>2 DEF Owned
    <3> QED
      BY <3>1, <3>2 DEF ClosedKept, Result, Ambiguous
  <2> QED
    BY <2>1, <2>2, <2>3, OwnerOnly DEF Owned
<1> QED
  BY <1>1, <1>2

-----------------------------------------------------------------------------
(* What becomes of the row.                                                *)

\* A step inserts the row, settles it before its next attempt, starts that
\* attempt, or gives it the result that closed the present one.
RowMove ==
  \/ UNCHANGED <<dstate, attempts>>
  \/ dstate = "none" /\ dstate' = "pending" /\ UNCHANGED attempts
  \/ dstate \in Retryable /\ dstate' \in {"cancelled", "suppressed"} /\ UNCHANGED attempts
  \/ dstate \in Retryable /\ dstate' = "running" /\ attempts' = attempts + 1
  \/ /\ dstate = "running" /\ dstate' \in Result /\ UNCHANGED attempts
     /\ dstate' # "cancelled" => closed[attempts] = dstate'

\* Only the owner and the reconciliation change it beside the steps.
OwnerCancelsRow == attempts = 0 /\ dstate \in {"none", "pending"} /\ dstate' = "cancelled" /\ UNCHANGED attempts
ReconcileReopens ==
  dstate = "interrupted" /\ dstate' = "failed" /\ ProvesSilence(attempts) /\ UNCHANGED attempts

LEMMA StepRowMoves == ASSUME TypeOK, RowInv, NEW s \in Step, StepAction(s) PROVE RowMove
<1> USE DEF RowMove, RowInv, RowOwned, InOperation, OpPlaces, TypeOK
<1>o. Owned(s)
  OBVIOUS
<1>1. CASE Claim(s) \/ Busy(s) \/ Settled(s) \/ Wait(s) \/ LaunchDenied(s) \/ Build(s) \/ Reuse(s)
  BY <1>1 DEF Claim, Busy, Settled, Wait, LaunchDenied, Build, Reuse
<1>2. CASE Enter(s)
  BY <1>2 DEF Enter
<1>3. CASE CancelUnstarted(s) \/ Suppress(s) \/ StartAttempt(s)
  BY <1>3, <1>o DEF CancelUnstarted, Suppress, StartAttempt, Owned
<1>4. CASE Observe(s) \/ Judge(s) \/ Launch(s) \/ CallLost(s)
  <2>1. dstate = "running"
    BY <1>4, AttemptKnown DEF Observe, Judge, Launch, CallLost
  <2> QED
    BY <1>4, <2>1 DEF Observe, Judge, Launch, CallLost, Receive, StillRunning
<1>5. CASE Store(s) \/ Mirror(s) \/ MirrorThrows(s) \/ Crash(s) \/ Record(s)
  BY <1>5 DEF Store, Mirror, MirrorThrows, Crash, Record
<1>6. CASE Finish(s)
  BY <1>6, <1>o DEF Finish, Owned
<1> QED
  BY <1>1, <1>2, <1>3, <1>4, <1>5, <1>6 DEF StepAction, Advance

LEMMA RowMoves ==
  ASSUME TypeOK, RowInv, [Next]_vars
  PROVE  RowMove \/ OwnerCancelsRow \/ ReconcileReopens
<1>1. CASE \E s \in Step : StepAction(s)
  BY <1>1, StepRowMoves
<1>2. CASE \E a \in Attempt : RuntimeAction(a)
  BY <1>2 DEF RuntimeAction, LateStart, LostStart, Progress, Send, WriteReceipt, EndThread, Elsewhere, RowMove
<1>3. CASE RuntimeRestart \/ CancelRetired \/ ExpireLease \/ KeepAmbiguous \/ RetireSource \/ OwnerRetry \/ GuardChange
  BY <1>3 DEF RuntimeRestart, CancelRetired, ExpireLease, KeepAmbiguous, RetireSource, OwnerRetry, GuardChange, Elsewhere, RowMove
<1>4. CASE ReopenInterrupted \/ OwnerCancel
  BY <1>4 DEF ReopenInterrupted, OwnerCancel, Candidate, OwnerCancelsRow, ReconcileReopens
<1>5. CASE UNCHANGED vars
  BY <1>5 DEF vars, RowMove
<1> QED
  BY <1>1, <1>2, <1>3, <1>4, <1>5 DEF Next

\* The row goes on telling about its attempts, and a retry has nothing behind it.
LEMMA QuietStep ==
  ASSUME TypeOK, TypeOK', RuntimeInv, RuntimeInv', RowInv, EarlierQuiet, ClosedKept, [Next]_vars
  PROVE  RowTells' /\ EarlierQuiet'
<1> USE DEF RowTells, EarlierQuiet, Quiet
<1>a. attempts \in Nat /\ MaxAttempts \in Nat /\ (attempts > 0 => attempts \in Attempt)
  BY AttemptAssumption DEF Attempt, TypeOK
<1>k. ASSUME NEW a \in Attempt, Quiet(a) PROVE Quiet(a)'
  BY <1>k DEF ClosedKept
<1>e. \A a \in 1..attempts : a \in Attempt
  BY AttemptAssumption DEF Attempt, TypeOK
<1>r. RowTells /\ \A a \in Attempt : AttemptAgrees(a)
  BY DEF RowInv, RuntimeInv, AttemptsAgree
<1>1. CASE UNCHANGED <<dstate, attempts>>
  BY <1>1, <1>a, <1>k, <1>e, <1>r DEF ClosedKept
<1>2. CASE attempts = 0 /\ UNCHANGED attempts /\ dstate' \in {"pending", "cancelled"}
  BY <1>2
<1>3. CASE dstate \in Retryable /\ dstate' \in {"cancelled", "suppressed"} /\ UNCHANGED attempts
  BY <1>3, <1>k, <1>e DEF Retryable
<1>4. CASE dstate \in Retryable /\ dstate' = "running" /\ attempts' = attempts + 1
  <2>1. \A a \in 1..attempts' : a < attempts' => a \in 1..attempts
    BY <1>4, <1>a
  <2> QED
    BY <1>4, <1>a, <1>k, <1>e, <2>1 DEF Retryable
<1>5. CASE /\ dstate = "running" /\ dstate' \in Result /\ UNCHANGED attempts
           /\ dstate' # "cancelled" => closed[attempts] = dstate'
  <2>1. attempts \in Attempt
    BY <1>5, <1>a, <1>r
  <2>2. dstate' = "failed" => Quiet(attempts)'
    BY <1>5, <1>r, <2>1, <1>k DEF AttemptAgrees, Silence
  <2>3. dstate' = "interrupted" => closed'[attempts] # "none"
    BY <1>5, <2>1 DEF ClosedKept
  <2>4. \A a \in 1..attempts : a < attempts => Quiet(a)'
    BY <1>e, <1>k
  <2>5. \A a \in 1..attempts : a < attempts \/ a = attempts
    BY <1>a
  <2>6. dstate' \notin {"none", "running", "pending"}
    BY <1>5 DEF Result, Ambiguous
  <2> QED
    BY <1>5, <1>a, <1>r, <2>2, <2>3, <2>4, <2>5, <2>6 DEF Retryable
<1>6. CASE ReconcileReopens
  <2>1. attempts \in Attempt /\ attempts > 0
    BY <1>6, <1>a, <1>r DEF ReconcileReopens
  <2>2. Quiet(attempts)'
    BY <1>6, <1>r, <2>1, <1>k DEF ReconcileReopens, ProvesSilence, AttemptAgrees
  <2>3. \A a \in 1..attempts : a < attempts => Quiet(a)'
    BY <1>e, <1>k
  <2>4. \A a \in 1..attempts : a < attempts \/ a = attempts
    BY <1>a
  <2> QED
    BY <1>6, <2>1, <2>2, <2>3, <2>4 DEF ReconcileReopens
<1> QED
  BY RowMoves, <1>1, <1>2, <1>3, <1>4, <1>5, <1>6, <1>r DEF RowMove, OwnerCancelsRow

\* What is recorded as a result was closed before.
LEMMA SavedStep ==
  ASSUME TypeOK, RowInv, ClosedKept, [Next]_vars
  PROVE  SavedWasClosed'
<1> USE DEF SavedWasClosed
<1>r. SavedWasClosed
  BY DEF RowInv
<1>1. CASE UNCHANGED saved
  BY <1>1, <1>r DEF ClosedKept, TypeOK
<1>2. ASSUME NEW s \in Step, Store(s) PROVE SavedWasClosed'
  <2>1. at[s] = attempts /\ attempts \in Attempt
    BY <1>2, AttemptKnown DEF Store, RowInv
  <2>2. val[s] \in Result /\ (val[s] # "cancelled" => closed[attempts] = val[s])
    BY <1>2 DEF Store, RowInv, RowOwned, Owned
  <2>3. closed' = closed /\ saved' = [saved EXCEPT ![attempts] = IF @ = "none" THEN val[s] ELSE @]
    BY <1>2, <2>1 DEF Store
  <2> QED
    BY <1>r, <2>1, <2>2, <2>3 DEF TypeOK
<1>3. ASSUME NEW s \in Step, StepAction(s), ~Store(s) PROVE UNCHANGED saved
  <2>1. CASE Claim(s) \/ Busy(s) \/ Enter(s) \/ Settled(s) \/ CancelUnstarted(s) \/ Build(s) \/ Suppress(s)
             \/ StartAttempt(s) \/ Reuse(s) \/ LaunchDenied(s)
    BY <2>1 DEF Claim, Busy, Enter, Settled, CancelUnstarted, Build, Suppress, StartAttempt, Reuse, LaunchDenied
  <2>2. CASE Observe(s) \/ Judge(s) \/ Launch(s) \/ CallLost(s)
    BY <2>2 DEF Observe, Judge, Launch, CallLost, Receive, StillRunning
  <2>3. CASE Finish(s) \/ Mirror(s) \/ MirrorThrows(s) \/ Record(s) \/ Wait(s) \/ Crash(s)
    BY <2>3 DEF Finish, Mirror, MirrorThrows, Record, Wait, Crash
  <2> QED
    BY <1>3, <2>1, <2>2, <2>3 DEF StepAction, Advance
<1>4. ASSUME NEW a \in Attempt, RuntimeAction(a) PROVE UNCHANGED saved
  BY <1>4 DEF RuntimeAction, LateStart, LostStart, Progress, Send, WriteReceipt, EndThread, Elsewhere
<1>5. CASE RuntimeRestart \/ CancelRetired \/ ExpireLease \/ KeepAmbiguous \/ RetireSource \/ OwnerRetry \/ GuardChange
           \/ ReopenInterrupted \/ OwnerCancel
  BY <1>1, <1>5 DEF RuntimeRestart, CancelRetired, ExpireLease, KeepAmbiguous, RetireSource, OwnerRetry, GuardChange,
     ReopenInterrupted, OwnerCancel, Elsewhere
<1> QED
  BY <1>1, <1>2, <1>3, <1>4, <1>5 DEF Next, vars

\* The registry calls an attempt failed when its row does.
LEMMA FailedReceipts ==
  ASSUME TypeOK, RowInv, [Next]_vars, NEW a \in Attempt, receipts'[a] = "failed", receipts[a] # "failed"
  PROVE  dstate' = "failed" /\ a = attempts'
<1>1. ASSUME NEW s \in Step, Mirror(s) PROVE dstate' = "failed" /\ a = attempts'
  BY <1>1 DEF Mirror, ReceiptOf, TypeOK
<1>2. CASE ReopenInterrupted
  BY <1>2 DEF ReopenInterrupted, TypeOK
<1>3. ASSUME NEW s \in Step, StepAction(s), ~Mirror(s) PROVE UNCHANGED receipts
  <2>1. CASE Claim(s) \/ Busy(s) \/ Enter(s) \/ Settled(s) \/ CancelUnstarted(s) \/ Build(s) \/ Suppress(s)
             \/ StartAttempt(s) \/ Reuse(s) \/ LaunchDenied(s)
    BY <2>1 DEF Claim, Busy, Enter, Settled, CancelUnstarted, Build, Suppress, StartAttempt, Reuse, LaunchDenied
  <2>2. CASE Observe(s) \/ Judge(s) \/ Launch(s) \/ CallLost(s)
    BY <2>2 DEF Observe, Judge, Launch, CallLost, Receive, StillRunning
  <2>3. CASE Store(s) \/ Finish(s) \/ MirrorThrows(s) \/ Record(s) \/ Wait(s) \/ Crash(s)
    BY <2>3 DEF Store, Finish, MirrorThrows, Record, Wait, Crash
  <2> QED
    BY <1>3, <2>1, <2>2, <2>3 DEF StepAction, Advance
<1>4. ASSUME NEW b \in Attempt, RuntimeAction(b) PROVE UNCHANGED receipts
  BY <1>4 DEF RuntimeAction, LateStart, LostStart, Progress, Send, WriteReceipt, EndThread, Elsewhere
<1>5. CASE RuntimeRestart \/ CancelRetired \/ ExpireLease \/ KeepAmbiguous \/ RetireSource \/ OwnerRetry \/ GuardChange
           \/ OwnerCancel
  BY <1>5 DEF RuntimeRestart, CancelRetired, ExpireLease, KeepAmbiguous, RetireSource, OwnerRetry, GuardChange,
     OwnerCancel, Elsewhere
<1> QED
  BY <1>1, <1>2, <1>3, <1>4, <1>5 DEF Next, vars

LEMMA FailedStep ==
  ASSUME TypeOK, TypeOK', RowInv, FailedQuiet, EarlierQuiet', ClosedKept, [Next]_vars
  PROVE  FailedQuiet'
<1> SUFFICES ASSUME NEW a \in Attempt, receipts'[a] = "failed" PROVE Quiet(a)'
  BY DEF FailedQuiet
<1>1. CASE receipts[a] = "failed"
  BY <1>1 DEF FailedQuiet, Quiet, ClosedKept
<1>2. CASE receipts[a] # "failed"
  <2>1. dstate' = "failed" /\ a = attempts'
    BY <1>2, FailedReceipts
  <2>2. a \in 1..a
    BY DEF Attempt
  <2> QED
    BY <2>1, <2>2 DEF EarlierQuiet, Retryable
<1> QED
  BY <1>1, <1>2

\* Beside the steps nothing moves a step or a row that one is working on.
LEMMA EnvironmentKeepsSteps ==
  ASSUME TypeOK, RowInv, [Next]_vars, ~ \E s \in Step : StepAction(s)
  PROVE  UNCHANGED stepVars /\ (UNCHANGED <<dstate, attempts>> \/ FamilyFree)
<1>1. CASE \E a \in Attempt : RuntimeAction(a)
  BY <1>1 DEF RuntimeAction, LateStart, LostStart, Progress, Send, WriteReceipt, EndThread, Elsewhere
<1>2. CASE RuntimeRestart \/ CancelRetired \/ ExpireLease \/ KeepAmbiguous \/ RetireSource \/ OwnerRetry \/ GuardChange
  BY <1>2 DEF RuntimeRestart, CancelRetired, ExpireLease, KeepAmbiguous, RetireSource, OwnerRetry, GuardChange, Elsewhere
<1>3. CASE ReopenInterrupted \/ OwnerCancel
  BY <1>3 DEF ReopenInterrupted, OwnerCancel
<1>4. CASE UNCHANGED vars
  BY <1>4 DEF vars
<1> QED
  BY <1>1, <1>2, <1>3, <1>4 DEF Next

LEMMA OwnedKept ==
  ASSUME TypeOK, RowInv, ClosedKept, [Next]_vars
  PROVE  OneOperates' /\ RowOwned'
<1>1. CASE \E s \in Step : StepAction(s)
  BY <1>1, OneOperatesStep, OwnedStep, OthersOwnedStep DEF RowOwned
<1>2. CASE ~ \E s \in Step : StepAction(s)
  <2>1. UNCHANGED stepVars /\ (UNCHANGED <<dstate, attempts>> \/ FamilyFree)
    BY <1>2, EnvironmentKeepsSteps
  <2>2. OneOperates'
    BY <2>1 DEF RowInv, OneOperates, InOperation
  <2>3. ASSUME NEW s \in Step PROVE Owned(s)'
    <3>1. CASE ~InOperation(s)
      BY <2>1, <3>1 DEF Owned, InOperation, OpPlaces
    <3>2. CASE InOperation(s)
      <4>1. UNCHANGED <<dstate, attempts>> /\ Owned(s)
        BY <2>1, <3>2 DEF FamilyFree, RowInv, RowOwned
      <4>2. pc[s] \in {"store", "finish"} => attempts \in Attempt
        BY AttemptKnown DEF RowInv
      <4> QED
        BY <2>1, <4>1, <4>2 DEF Owned, InOperation, ClosedKept, Result, Ambiguous
    <3> QED
      BY <3>1, <3>2
  <2> QED
    BY <2>2, <2>3 DEF RowOwned
<1> QED
  BY <1>1, <1>2

-----------------------------------------------------------------------------
(* The invariant, and what follows of replies.                             *)

LEMMA ReplyInit == Init => ReplyInv
<1> SUFFICES ASSUME Init PROVE ReplyInv
  OBVIOUS
<1> USE AttemptAssumption DEF Init
<1>1. TypeOK
  <2>1. attempts \in 0..MaxAttempts /\ at \in [Step -> 0..MaxAttempts]
    OBVIOUS
  <2>2. wf \in OpenStates \cup ClosedStates /\ output \in [Step -> OpenStates \cup ClosedStates]
    BY DEF OpenStates
  <2>3. pc \in [Step -> PC] /\ phase \in [Attempt -> Phase] /\ val \in [Step -> Answer]
    BY DEF PC, Phase, Answer
  <2>4. checked \in BOOLEAN /\ retired \in BOOLEAN /\ live \in BOOLEAN
    OBVIOUS
  <2> QED
    BY <2>1, <2>2, <2>3, <2>4 DEF TypeOK
<1>2. RuntimeInv
  BY DEF RuntimeInv, AttemptsAgree, AttemptAgrees, LaterUnknown, Unknown, Silence
<1>3. RowInv
  BY DEF RowInv, OneOperates, InOperation, OpPlaces, RowOwned, Owned, RowTells, SavedWasClosed
<1>4. EarlierQuiet /\ FailedQuiet
  BY DEF EarlierQuiet, FailedQuiet
<1> QED
  BY <1>1, <1>2, <1>3, <1>4 DEF ReplyInv

LEMMA ReplyStep == ReplyInv /\ [Next]_vars => ReplyInv' /\ ClosedKept
<1> SUFFICES ASSUME ReplyInv, [Next]_vars PROVE ReplyInv' /\ ClosedKept
  OBVIOUS
<1> USE DEF ReplyInv
<1>1. LaterUnknown /\ RowOwned /\ RowTells
  BY DEF RuntimeInv, RowInv
<1>2. TypeOK'
  BY <1>1, TypeStep
<1>3. RuntimeInv' /\ ClosedKept
  BY <1>1, RuntimeMoves, RuntimeKeeps
<1>4. OneOperates' /\ RowOwned'
  BY <1>3, OwnedKept
<1>5. RowTells' /\ EarlierQuiet'
  BY <1>2, <1>3, QuietStep
<1>6. SavedWasClosed'
  BY <1>3, SavedStep
<1>7. FailedQuiet'
  BY <1>2, <1>3, <1>5, FailedStep
<1> QED
  BY <1>2, <1>3, <1>4, <1>5, <1>6, <1>7 DEF RowInv

LEMMA Invariant == Spec => []ReplyInv
<1>1. ReplyInv /\ [Next]_vars => ReplyInv'
  BY ReplyStep
<1> QED
  BY ReplyInit, <1>1, PTL DEF Spec

\* The row, the registry, the steps and the runtime keep their types.
THEOREM TypeCorrect == Spec => []TypeOK
<1>1. ReplyInv => TypeOK
  BY DEF ReplyInv
<1> QED
  BY Invariant, <1>1, PTL

\* Whatever is lost, late, repeated or restarted on the way, one message gets at most one
\* reply, however many steps overlap and however often it is tried.
THEOREM OneReply == Spec => []AtMostOneReply
<1>1. ReplyInv => AtMostOneReply
  <2> SUFFICES ASSUME ReplyInv PROVE AtMostOneReply
    OBVIOUS
  <2>1. delivered \subseteq {attempts}
    <3> SUFFICES ASSUME NEW a \in delivered, a # attempts PROVE FALSE
      OBVIOUS
    <3>1. a \in Attempt /\ attempts \in Nat /\ a \in Nat /\ 1 <= a
      BY AttemptAssumption DEF ReplyInv, TypeOK, Attempt
    <3>2. a <= attempts
      BY <3>1 DEF ReplyInv, RuntimeInv, LaterUnknown, Unknown
    <3>3. a \in 1..attempts /\ a < attempts
      BY <3>1, <3>2
    <3> QED
      BY <3>3 DEF ReplyInv, EarlierQuiet, Quiet
  <2>2. IsFiniteSet({attempts}) /\ Cardinality({attempts}) = 1
    BY FS_Singleton
  <2>3. Cardinality(delivered) <= Cardinality({attempts})
    BY <2>1, <2>2, FS_Subset
  <2> QED
    BY <2>2, <2>3 DEF AtMostOneReply
<1> QED
  BY Invariant, <1>1, PTL

\* A row that may be tried again has nothing behind it: each attempt is closed in the runtime,
\* and none of them sent anything.
THEOREM RetriesAreSafe == Spec => []RetryIsSafe
<1>1. ReplyInv => RetryIsSafe
  BY DEF ReplyInv, EarlierQuiet, RetryIsSafe, Quiet
<1> QED
  BY Invariant, <1>1, PTL

\* The registry never calls an attempt failed that replied.
THEOREM FailuresAreSilent == Spec => []FailedMeansSilent
<1>1. ReplyInv => FailedMeansSilent
  BY DEF ReplyInv, FailedQuiet, FailedMeansSilent, Quiet
<1> QED
  BY Invariant, <1>1, PTL

\* A settled row is never unsettled, but for an interrupted one that the journal proves silent.
THEOREM SettledForGood == Spec => SettledStays
<1>1. ReplyInv /\ [Next]_vars =>
        [(dstate \in Terminal /\ dstate' # dstate) => (dstate = "interrupted" /\ dstate' = "failed")]_vars
  BY RowMoves DEF ReplyInv, RowMove, OwnerCancelsRow, ReconcileReopens, Terminal, Result, Ambiguous, Retryable
<1> QED
  BY Invariant, <1>1, PTL DEF Spec, SettledStays

-----------------------------------------------------------------------------
(* The workflow tells what became of the message.                          *)

LEMMA ClosedTells == ASSUME TypeOK, Observed(dstate) \in ClosedStates PROVE dstate \in Terminal
BY DEF TypeOK, Observed, ClosedStates, Terminal, Result, Ambiguous

\* A row that settled changes by a reconciliation only.
LEMMA SettledRow ==
  ASSUME TypeOK, RowInv, [Next]_vars, Observed(dstate) \in ClosedStates, dstate' # dstate
  PROVE  ReconcileReopens
BY ClosedTells, RowMoves DEF RowMove, OwnerCancelsRow, Terminal, Result, Ambiguous, Retryable

LEMMA ToldStep ==
  ASSUME TypeOK, RowInv, ToldTruly, [Next]_vars
  PROVE  ToldTruly'
<1> SUFFICES ASSUME NEW t \in Step, pc'[t] \in {"mirror", "record"}, output'[t] \in ClosedStates, holder' = t
             PROVE  output'[t] = Observed(dstate')
  BY DEF ToldTruly
<1>n. NoStep \notin Step
  BY StepAssumption
<1>k. ASSUME holder = t, pc[t] = pc'[t] \/ pc[t] \in {"mirror", "record"}, output'[t] = output[t], UNCHANGED dstate
      PROVE output'[t] = Observed(dstate')
  BY <1>k DEF ToldTruly
<1>1. ASSUME NEW s \in Step, StepAction(s) PROVE output'[t] = Observed(dstate')
  <2>r. RowMove
    BY <1>1, StepRowMoves
  <2>1. CASE t # s
    <3>1. pc'[t] = pc[t] /\ output'[t] = output[t]
      BY <1>1, <2>1, OwnerOnly
    <3>2. holder = t
      <4>1. CASE Claim(s)
        BY <4>1, <2>1 DEF Claim
      <4>2. CASE Record(s)
        BY <4>2, <1>n DEF Record
      <4>3. CASE Busy(s) \/ Enter(s) \/ Settled(s) \/ CancelUnstarted(s) \/ Build(s) \/ Suppress(s)
                 \/ StartAttempt(s) \/ Reuse(s) \/ LaunchDenied(s)
        BY <4>3 DEF Busy, Enter, Settled, CancelUnstarted, Build, Suppress, StartAttempt, Reuse, LaunchDenied
      <4>4. CASE Observe(s) \/ Judge(s) \/ Launch(s) \/ CallLost(s)
        BY <4>4 DEF Observe, Judge, Launch, CallLost, Receive, StillRunning
      <4>5. CASE Store(s) \/ Finish(s) \/ Mirror(s) \/ MirrorThrows(s) \/ Wait(s) \/ Crash(s)
        BY <4>5 DEF Store, Finish, Mirror, MirrorThrows, Wait, Crash
      <4> QED
        BY <1>1, <4>1, <4>2, <4>3, <4>4, <4>5 DEF StepAction, Advance
    <3>3. Observed(dstate) = output[t]
      BY <3>1, <3>2 DEF ToldTruly
    <3>4. dstate \in Terminal
      BY <3>1, <3>3, ClosedTells
    <3>5. UNCHANGED dstate
      BY <2>r, <3>4 DEF RowMove, Terminal, Result, Ambiguous, Retryable
    <3> QED
      BY <3>1, <3>2, <3>5, <1>k
  <2>2. CASE t = s
    <3> USE <2>2 DEF Goto, TypeOK
    <3>l. ASSUME NEW d, Leave(s, d), Observed(d) \in ClosedStates => d = dstate' PROVE output'[t] = Observed(dstate')
      BY <3>l DEF Leave
    <3>o. Owned(s)
      BY DEF RowInv, RowOwned
    <3>1. CASE Busy(s) \/ LaunchDenied(s) \/ StillRunning(s)
      <4>1. \A d \in {"none", "failed", "running"} : Observed(d) \notin ClosedStates
        BY DEF Observed, Ambiguous, ClosedStates
      <4> QED
        BY <3>1, <3>l, <4>1 DEF Busy, LaunchDenied, StillRunning
    <3>2. CASE Settled(s)
      BY <3>2, <3>l, <3>o DEF Settled, Owned
    <3>3. CASE Wait(s)
      <4>1. saw[s] \in Retryable \cup {"running"}
        BY <3>3, <3>o DEF Wait, NotReady, MustObserve, Owned
      <4> QED
        BY <3>3, <3>l, <4>1 DEF Wait, Observed, Ambiguous, Retryable, ClosedStates
    <3>4. CASE CancelUnstarted(s) \/ Suppress(s) \/ Finish(s)
      BY <3>4, <3>l DEF CancelUnstarted, Suppress, Finish
    <3>5. CASE Mirror(s)
      BY <3>5, <1>k DEF Mirror
    <3>6. CASE Claim(s) \/ Enter(s) \/ Build(s) \/ StartAttempt(s) \/ Reuse(s) \/ Store(s)
      BY <3>6 DEF Claim, Enter, Build, StartAttempt, Reuse, Store
    <3>7. CASE Observe(s) \/ Judge(s) \/ Launch(s) \/ CallLost(s)
      <4>1. ASSUME ~StillRunning(s) PROVE pc'[s] \in {"observed", "launch", "store"}
        BY <3>7, <4>1 DEF Observe, Judge, Launch, CallLost, Receive
      <4> QED
        BY <3>1, <4>1
    <3>8. CASE MirrorThrows(s) \/ Crash(s) \/ Record(s)
      BY <3>8 DEF MirrorThrows, Crash, Record, EndStep
    <3> QED
      BY <1>1, <3>1, <3>2, <3>3, <3>4, <3>5, <3>6, <3>7, <3>8 DEF StepAction, Advance
  <2> QED
    BY <2>1, <2>2
<1>2. CASE ~ \E s \in Step : StepAction(s)
  <2>1. UNCHANGED stepVars
    BY <1>2, EnvironmentKeepsSteps
  <2>2. CASE holder' = NoStep
    BY <2>2, <1>n
  <2>3. CASE ReopenInterrupted \/ OwnerCancel \/ OwnerRetry
    BY <2>3, <2>2 DEF ReopenInterrupted, OwnerCancel, OwnerRetry
  <2>4. CASE UNCHANGED <<holder, dstate>>
    BY <2>1, <2>4, <1>k
  <2>5. CASE \E a \in Attempt : RuntimeAction(a)
    BY <2>4, <2>5 DEF RuntimeAction, LateStart, LostStart, Progress, Send, WriteReceipt, EndThread, Elsewhere
  <2>6. CASE RuntimeRestart \/ CancelRetired \/ ExpireLease \/ KeepAmbiguous \/ RetireSource \/ GuardChange
    BY <2>4, <2>6 DEF RuntimeRestart, CancelRetired, ExpireLease, KeepAmbiguous, RetireSource, GuardChange, Elsewhere
  <2> QED
    BY <1>2, <2>3, <2>4, <2>5, <2>6 DEF Next, vars
<1> QED
  BY <1>1, <1>2

LEMMA ClosedStep ==
  ASSUME TypeOK, RowInv, ToldTruly, ClosedAgrees, [Next]_vars
  PROVE  ClosedAgrees'
<1> SUFFICES ASSUME wf' \in ClosedStates PROVE wf' = Observed(dstate')
  BY DEF ClosedAgrees
<1> USE DEF OpenStates, ClosedStates
<1>k. CASE UNCHANGED wf
  <2>1. Observed(dstate) \in ClosedStates /\ wf = Observed(dstate)
    BY <1>k DEF ClosedAgrees
  <2>2. CASE ReconcileReopens
    <3>1. ~ \E s \in Step : StepAction(s)
      BY <2>2, StepRowMoves DEF ReconcileReopens, RowMove, Retryable
    <3>2. ReopenInterrupted
      <4>1. CASE \E a \in Attempt : RuntimeAction(a)
        BY <2>2, <4>1 DEF ReconcileReopens, RuntimeAction, LateStart, LostStart, Progress, Send, WriteReceipt, EndThread, Elsewhere
      <4>2. CASE RuntimeRestart \/ CancelRetired \/ ExpireLease \/ KeepAmbiguous \/ RetireSource \/ OwnerRetry \/ GuardChange
                 \/ OwnerCancel
        BY <2>2, <4>2 DEF ReconcileReopens, RuntimeRestart, CancelRetired, ExpireLease, KeepAmbiguous, RetireSource,
           OwnerRetry, GuardChange, OwnerCancel, Elsewhere
      <4> QED
        BY <2>2, <3>1, <4>1, <4>2 DEF Next, vars, ReconcileReopens
    <3> QED
      BY <1>k, <3>2 DEF ReopenInterrupted
  <2> QED
    BY <1>k, <2>1, <2>2, SettledRow
<1>1. ASSUME NEW s \in Step, Record(s) PROVE wf' = Observed(dstate')
  BY <1>1, <1>k DEF Record, ToldTruly
<1>2. ASSUME NEW s \in Step, StepAction(s), ~Record(s) PROVE UNCHANGED wf
  <2>1. CASE Claim(s) \/ Busy(s) \/ Enter(s) \/ Settled(s) \/ CancelUnstarted(s) \/ Build(s) \/ Suppress(s)
             \/ StartAttempt(s) \/ Reuse(s) \/ LaunchDenied(s)
    BY <2>1 DEF Claim, Busy, Enter, Settled, CancelUnstarted, Build, Suppress, StartAttempt, Reuse, LaunchDenied
  <2>2. CASE Observe(s) \/ Judge(s) \/ Launch(s) \/ CallLost(s)
    BY <2>2 DEF Observe, Judge, Launch, CallLost, Receive, StillRunning
  <2>3. CASE Store(s) \/ Finish(s) \/ Mirror(s) \/ MirrorThrows(s) \/ Wait(s) \/ Crash(s)
    BY <2>3 DEF Store, Finish, Mirror, MirrorThrows, Wait, Crash
  <2> QED
    BY <1>2, <2>1, <2>2, <2>3 DEF StepAction, Advance
<1>3. CASE \E a \in Attempt : RuntimeAction(a)
  BY <1>3, <1>k DEF RuntimeAction, LateStart, LostStart, Progress, Send, WriteReceipt, EndThread, Elsewhere
<1>4. CASE RuntimeRestart \/ CancelRetired \/ ExpireLease \/ KeepAmbiguous \/ RetireSource \/ GuardChange
  BY <1>4, <1>k DEF RuntimeRestart, CancelRetired, ExpireLease, KeepAmbiguous, RetireSource, GuardChange, Elsewhere
<1>5. CASE ReopenInterrupted \/ OwnerRetry
  BY <1>5 DEF ReopenInterrupted, OwnerRetry
<1>6. CASE OwnerCancel
  BY <1>6 DEF OwnerCancel, Observed, Ambiguous
<1> QED
  BY <1>k, <1>1, <1>2, <1>3, <1>4, <1>5, <1>6 DEF Next, vars

\* A closed workflow tells what became of its message, also after a reopening that overtakes a
\* step still recording an older observation.
THEOREM ClosedTellsTheRow == Spec => []ClosedAgrees
<1>1. Init => ToldTruly /\ ClosedAgrees
  BY DEF Init, ToldTruly, ClosedAgrees, ClosedStates
<1>2. ReplyInv /\ ToldTruly /\ ClosedAgrees /\ [Next]_vars => (ToldTruly /\ ClosedAgrees)'
  BY ToldStep, ClosedStep DEF ReplyInv
<1> QED
  BY Invariant, <1>1, <1>2, PTL DEF Spec
=============================================================================
