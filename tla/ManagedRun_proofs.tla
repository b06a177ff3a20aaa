-------------------------- MODULE ManagedRun_proofs --------------------------
(***************************************************************************)
(* Proofs that ManagedRun keeps its types, that row and receipt agree, that *)
(* a closed run stays closed, that a cancelled run never counts as done,    *)
(* and that the run implements DurableEffect, for both channels and every   *)
(* bound of the epoch.                                                      *)
(***************************************************************************)
EXTENDS ManagedRun, TLAPS

(* The inductive invariant.                                                *)

\* A claim is what separates a captured row from one that was executed.
ClaimAgrees ==
  /\ ~claimed => state \notin {"running", "done", "failed"}
  /\ claimed => state \notin {"absent", "captured"}
  /\ claimed /\ ~recorded => state \in {"running", "interrupted"}

\* Only a row that was still open can have been asked to cancel.
CancelAgrees == cancelRequested => state \notin {"absent", "captured", "done"}

RowInv == ReceiptAgrees /\ ClaimAgrees /\ CancelAgrees

\* The runtime has no result of a run it did not claim.
ResultWasClaimed == file # "none" \/ thread \in {"claimed", "assistant"} => claimed

RunInv == TypeOK /\ RowInv /\ ResultWasClaimed

-----------------------------------------------------------------------------
(* What a step can do to the row, its receipt and their owner, whoever      *)
(* takes it.                                                                *)

USE DEF rowVars, receiptVars, ownerVars, stepVars, runtimeVars

RowUpdate == \/ CancelRow \/ InterruptRow \/ ClaimRow \/ CompleteRow
             \/ Admit \/ RecordResult \/ Bind \/ OwnerCancel \/ GuardChange \/ ExpireLease

RowMove == \/ RowUpdate /\ UNCHANGED ownerVars
           \/ UNCHANGED <<rowVars, receiptVars>> /\ (UNCHANGED ownerVars \/ Pause \/ Switch)

\* The engine's step touches the row by these transactions only.
LEMMA StepMoves == Step => RowMove
<1> SUFFICES ASSUME Step PROVE RowMove
  OBVIOUS
<1> USE DEF RowMove, RowUpdate
<1>1. CASE Enter
  BY <1>1 DEF Enter
<1>2. CASE Bind
  BY <1>2 DEF Bind
<1>3. CASE Check
  BY <1>3 DEF Check
<1>4. CASE Cancel
  BY <1>4 DEF Cancel
<1>5. CASE Resume
  BY <1>5 DEF Resume
<1>6. CASE Start
  BY <1>6 DEF Start
<1>7. CASE Interrupt
  BY <1>7 DEF Interrupt
<1>8. CASE Final
  BY <1>8 DEF Final
<1>9. CASE BindDenied
  BY <1>9 DEF BindDenied
<1>10. CASE Wait
  BY <1>10 DEF Wait
<1>11. CASE CallLost
  BY <1>11 DEF CallLost
<1>12. CASE Crash
  BY <1>12 DEF Crash
<1>13. CASE StartRefused
  BY <1>13 DEF StartRefused
<1> QED
  BY <1>1, <1>2, <1>3, <1>4, <1>5, <1>6, <1>7, <1>8, <1>9, <1>10, <1>11, <1>12, <1>13
  DEF Step, StepAdvance

\* The native runtime touches the row by its claim only.
LEMMA RuntimeMoves == Runtime => RowMove
<1> SUFFICES ASSUME Runtime PROVE RowMove
  OBVIOUS
<1> USE DEF RowMove, RowUpdate, Elsewhere, RowUnchanged
<1>1. CASE MarkStarted
  BY <1>1 DEF MarkStarted
<1>3. CASE ThreadClaim
  BY <1>3 DEF ThreadClaim
<1>4. CASE ThreadGivesUp
  BY <1>4 DEF ThreadGivesUp
<1>5. CASE Execute
  BY <1>5 DEF Execute
<1>6. CASE WriteReceipt
  BY <1>6 DEF WriteReceipt
<1>7. CASE ThreadEnds
  BY <1>7 DEF ThreadEnds
<1>8. CASE LateStart
  BY <1>8 DEF LateStart
<1>9. CASE LostStart
  BY <1>9 DEF LostStart
<1>10. CASE LateClaim
  BY <1>10 DEF LateClaim
<1>11. CASE Heartbeat
  BY <1>11 DEF Heartbeat
<1>12. CASE RuntimeRestart
  BY <1>12 DEF RuntimeRestart
<1> QED
  BY <1>1, <1>3, <1>4, <1>5, <1>6, <1>7, <1>8, <1>9, <1>10, <1>11, <1>12
  DEF Runtime, ThreadAdvance

LEMMA RowMoves == [Next]_vars => RowMove
<1> SUFFICES ASSUME [Next]_vars PROVE RowMove
  OBVIOUS
<1> USE DEF RowMove, RowUpdate
<1>1. CASE Admit
  BY <1>1 DEF Admit
<1>2. CASE RecordResult
  BY <1>2 DEF RecordResult
<1>3. CASE CompleteRun
  BY <1>3 DEF CompleteRun
<1>4. CASE UserCancel
  BY <1>4 DEF UserCancel
<1>5. CASE OwnerCancel
  BY <1>5 DEF OwnerCancel
<1>6. CASE GuardChange
  BY <1>6 DEF GuardChange
<1>7. CASE ExpireLease
  BY <1>7 DEF ExpireLease
<1>8. CASE RecoverExpired
  BY <1>8 DEF RecoverExpired
<1>9. CASE Pause
  BY <1>9 DEF Pause
<1>10. CASE Switch
  BY <1>10 DEF Switch
<1>11. CASE UNCHANGED vars
  BY <1>11 DEF vars
<1> QED
  BY StepMoves, RuntimeMoves, <1>1, <1>2, <1>3, <1>4, <1>5, <1>6, <1>7, <1>8, <1>9, <1>10, <1>11
  DEF Next

-----------------------------------------------------------------------------
(* The row and its receipt.                                                 *)

\* A result is only ever published by the claimant.
LEMMA ClaimedResult == ResultWasClaimed /\ CompleteRow => claimed
BY DEF ResultWasClaimed, CompleteRow, Completable

\* The receipt written with a state is the one that agrees with it.
LEMMA CompleteKeeps ==
  ASSUME TypeOK, RowInv, ResultWasClaimed, CompleteRow PROVE RowInv'
<1>1. claimed /\ claimed'
  BY ClaimedResult DEF CompleteRow
<1>2. state \in {"running", "interrupted"} /\ receipt \in {"started", "ambiguous"}
  BY <1>1 DEF RowInv, ClaimAgrees, ReceiptAgrees, CompleteRow, Completable
<1>3. /\ state' = Settlement /\ receipt' = ReceiptOf(Settlement)
      /\ Settlement \in {"done", "failed", "cancelled", "interrupted"}
      /\ cancelRequested' = cancelRequested /\ recorded'
      /\ cancelRequested => Settlement # "done"
  BY <1>2 DEF CompleteRow, Completable, Settlement, TypeOK, RuntimeTypes, ClosedStates
<1>4. ReceiptAgrees'
  BY <1>1, <1>3 DEF ReceiptAgrees, ReceiptOf
<1>5. ClaimAgrees' /\ CancelAgrees'
  BY <1>1, <1>3 DEF ClaimAgrees, CancelAgrees
<1> QED
  BY <1>4, <1>5 DEF RowInv

LEMMA RowStep == RunInv /\ [Next]_vars => RowInv'
<1> SUFFICES ASSUME RunInv, [Next]_vars PROVE RowInv'
  OBVIOUS
<1>0. RowMove /\ TypeOK /\ RowInv /\ ResultWasClaimed
  BY RowMoves DEF RunInv
<1> USE DEF RowInv, ReceiptAgrees, ClaimAgrees, CancelAgrees
<1>1. CASE UNCHANGED <<rowVars, receiptVars>>
  BY <1>0, <1>1
<1>2. CASE CancelRow
  BY <1>0, <1>2 DEF CancelRow
<1>3. CASE InterruptRow
  <2>1. CASE state = "captured"
    <3>1. ~claimed /\ receipt = "none" /\ state' = "interrupted" /\ receipt' = "none" /\ ~claimed'
      BY <1>0, <1>3, <2>1 DEF InterruptRow
    <3> QED BY <3>1
  <2>2. CASE state = "running"
    <3>1. claimed /\ state' = "interrupted" /\ receipt' = "ambiguous" /\ claimed'
      BY <1>0, <1>3, <2>2 DEF InterruptRow
    <3> QED BY <3>1
  <2>3. CASE state \notin {"captured", "running"}
    <3>1. receipt # "started"
      BY <1>0, <2>3
    <3>2. UNCHANGED <<state, claimed, recorded, cancelRequested, receipt>>
      BY <1>3, <2>3, <3>1 DEF InterruptRow
    <3> QED BY <1>0, <3>2
  <2> QED BY <2>1, <2>2, <2>3
<1>4. CASE ClaimRow
  BY <1>0, <1>4 DEF ClaimRow, Claimable
<1>5. CASE CompleteRow
  BY <1>0, <1>5, CompleteKeeps
<1>6. CASE Admit
  BY <1>0, <1>6 DEF Admit
<1>7. CASE RecordResult
  BY <1>0, <1>7 DEF RecordResult
<1>8. CASE Bind
  BY <1>0, <1>8 DEF Bind
<1>9. CASE OwnerCancel
  BY <1>0, <1>9 DEF OwnerCancel
<1>10. CASE GuardChange \/ ExpireLease
  BY <1>0, <1>10 DEF GuardChange, ExpireLease
<1> QED
  BY <1>0, <1>1, <1>2, <1>3, <1>4, <1>5, <1>6, <1>7, <1>8, <1>9, <1>10
  DEF RowMove, RowUpdate

\* A claim is never given back.
LEMMA ClaimLasts == claimed /\ [Next]_vars => claimed'
<1> SUFFICES ASSUME claimed, [Next]_vars PROVE claimed'
  OBVIOUS
<1>1. RowMove
  BY RowMoves
<1> QED
  BY <1>1 DEF RowMove, RowUpdate, CancelRow, InterruptRow, ClaimRow, CompleteRow, Admit,
     RecordResult, Bind, OwnerCancel, GuardChange, ExpireLease

\* Only a claim makes a thread a claimant, and only a claimant writes a result.
LEMMA ClaimStep == ResultWasClaimed /\ [Next]_vars => ResultWasClaimed'
<1> SUFFICES ASSUME ResultWasClaimed, [Next]_vars PROVE ResultWasClaimed'
  OBVIOUS
<1> USE DEF ResultWasClaimed
<1>1. CASE UNCHANGED <<thread, file>>
  BY <1>1, ClaimLasts
<1>2. CASE thread' \in {"none", "launched", "started"} /\ UNCHANGED file
  BY <1>2, ClaimLasts
<1>3. CASE ThreadClaim
  BY <1>3 DEF ThreadClaim, ClaimRow
<1>4. CASE Execute \/ WriteReceipt
  BY <1>4, ClaimLasts DEF Execute, WriteReceipt
<1>5. CASE Step
  <2>1. UNCHANGED <<thread, file>> \/ (thread' = "launched" /\ UNCHANGED file)
    BY <1>5 DEF Step, StepAdvance, Enter, Bind, Check, Cancel, Resume, Start, RunStart, Interrupt,
       Final, BindDenied, Wait, StartRefused, CallLost, Crash
  <2> QED BY <2>1, <1>1, <1>2
<1>6. CASE Runtime
  <2>1. \/ ThreadClaim \/ Execute \/ WriteReceipt \/ UNCHANGED <<thread, file>>
        \/ thread' \in {"none", "launched", "started"} /\ UNCHANGED file
    BY <1>6 DEF Runtime, ThreadAdvance, MarkStarted, ThreadGivesUp, ThreadEnds,
       EndThread, LateStart, RunStart, LostStart, LateClaim, Heartbeat, RuntimeRestart
  <2> QED BY <2>1, <1>1, <1>2, <1>3, <1>4
<1>7. CASE ~Step /\ ~Runtime
  <2>1. UNCHANGED <<thread, file>>
    BY <1>7 DEF Next, vars, Admit, RecordResult, CompleteRun, UserCancel, OwnerCancel, GuardChange,
       ExpireLease, RecoverExpired, Pause, Switch
  <2> QED BY <2>1, <1>1
<1> QED
  BY <1>5, <1>6, <1>7

-----------------------------------------------------------------------------
(* Types.                                                                   *)

LEMMA TypeInit == Init => TypeOK
<1> SUFFICES ASSUME Init PROVE TypeOK
  OBVIOUS
<1> USE EpochAssumption DEF Init
<1>1. RowTypes
  <2>1. rowEpoch \in 0..MaxEpoch /\ heldEpoch \in 0..MaxEpoch
    OBVIOUS
  <2>2. /\ bound \in BOOLEAN /\ cancelRequested \in BOOLEAN /\ claimed \in BOOLEAN
        /\ leased \in BOOLEAN /\ stale \in BOOLEAN /\ saved \in BOOLEAN /\ recorded \in BOOLEAN
    OBVIOUS
  <2> QED BY <2>1, <2>2 DEF RowTypes, RowStates
<1>2. OwnerTypes
  <2>1. epoch \in 1..MaxEpoch
    OBVIOUS
  <2>2. admission \in BOOLEAN
    OBVIOUS
  <2> QED BY <2>1, <2>2 DEF OwnerTypes
<1>3. StepTypes
  BY DEF StepTypes, PC, RowStates
<1>4. RuntimeTypes
  BY DEF RuntimeTypes, Thread
<1> QED BY <1>1, <1>2, <1>3, <1>4 DEF TypeOK

\* The transactions on the row keep its types.
LEMMA RowKeepsTypes == TypeOK /\ RowMove => RowTypes'
<1> SUFFICES ASSUME RowTypes, OwnerTypes, RuntimeTypes, RowMove PROVE RowTypes'
  BY DEF TypeOK
<1> USE DEF RowTypes
<1>1. CASE CancelRow
  BY <1>1 DEF CancelRow, RowStates, ClosedStates
<1>2. CASE InterruptRow
  BY <1>2 DEF InterruptRow, RowStates, ClosedStates
<1>3. CASE ClaimRow
  BY <1>3 DEF ClaimRow, RowStates
<1>4. CASE CompleteRow
  <2>1. Settlement \in ClosedStates
    BY <1>4 DEF Settlement, CompleteRow, Completable, ClosedStates, RuntimeTypes
  <2>2. ReceiptOf(Settlement) \in {"done", "failed", "ambiguous"}
    BY DEF ReceiptOf
  <2> QED BY <1>4, <2>1, <2>2 DEF CompleteRow, RowStates
<1>5. CASE UNCHANGED <<rowVars, receiptVars>>
  BY <1>5
<1>6. CASE Admit
  BY <1>6, EpochAssumption DEF Admit, RowStates, ClosedStates, OwnerTypes
<1>7. CASE Bind \/ RecordResult
  BY <1>7 DEF Bind, RecordResult
<1>8. CASE OwnerCancel
  BY <1>8 DEF OwnerCancel, RowStates, ClosedStates
<1>9. CASE GuardChange \/ ExpireLease
  BY <1>9 DEF GuardChange, ExpireLease
<1> QED BY <1>1, <1>2, <1>3, <1>4, <1>5, <1>6, <1>7, <1>8, <1>9 DEF RowMove, RowUpdate

LEMMA OwnerKeepsTypes == TypeOK /\ RowMove => OwnerTypes'
<1> SUFFICES ASSUME OwnerTypes, RowMove PROVE OwnerTypes'
  BY DEF TypeOK
<1>1. epoch' \in 1..MaxEpoch
  BY EpochAssumption DEF OwnerTypes, RowMove, Pause, Switch
<1>2. admission' \in BOOLEAN
  BY DEF OwnerTypes, RowMove, Pause, Switch
<1> QED BY <1>1, <1>2 DEF OwnerTypes

\* A step that ends leaves a well-typed step behind.
LEMMA ReportTypes ==
  ASSUME StepTypes, NEW seen \in RowStates, Report(seen) PROVE StepTypes'
BY DEF Report, Goto, Observe, StepTypes, PC, RowStates

LEMMA StepKeepsTypes == TypeOK /\ Step => StepTypes' /\ RuntimeTypes'
<1> SUFFICES ASSUME TypeOK, Step PROVE StepTypes' /\ RuntimeTypes'
  OBVIOUS
<1>0. /\ RowTypes /\ StepTypes /\ RuntimeTypes /\ state' \in RowStates
      /\ "captured" \in RowStates /\ state \in RowStates /\ NativeClosed \in BOOLEAN
  BY StepMoves, RowKeepsTypes DEF TypeOK, RowTypes, RowStates, RuntimeTypes, NativeClosed, Dead
<1>1. CASE Enter
  <2>1. RuntimeTypes'
    BY <1>0, <1>1 DEF Enter, RuntimeTypes
  <2>2. CASE state' \in ClosedStates
    BY <1>0, <1>1, <2>1, <2>2, ReportTypes DEF Enter
  <2>3. CASE state' \notin ClosedStates
    BY <1>0, <1>1, <2>1, <2>3 DEF Enter, StepTypes, Goto, Observe, PC, RowTypes
  <2> QED BY <2>2, <2>3
<1>2. CASE Bind
  BY <1>0, <1>2 DEF Bind, StepTypes, RuntimeTypes, Goto, Observe, PC, RowTypes
<1>3. CASE Check
  BY <1>0, <1>3 DEF Check, StepTypes, RuntimeTypes, Goto, PC
<1>4. CASE Cancel
  <2>1. RuntimeTypes'
    BY <1>0, <1>4 DEF Cancel, RuntimeTypes, Reconcilable
  <2>2. CASE state \in {"captured", "cancelled"}
    BY <1>0, <1>4, <2>1, <2>2, ReportTypes DEF Cancel
  <2>3. CASE state \notin {"captured", "cancelled"}
    BY <1>0, <1>4, <2>1, <2>3 DEF Cancel, StepTypes, Goto, Observe, PC, RowTypes
  <2> QED BY <2>2, <2>3
<1>5. CASE Resume
  <2>1. pc' \in {"start", "interrupt", "final"}
    BY <1>5 DEF Resume, Goto
  <2> QED BY <1>0, <1>5, <2>1 DEF Resume, StepTypes, RuntimeTypes, PC
<1>6. CASE Start
  BY <1>0, <1>6 DEF Start, RunStart, StepTypes, RuntimeTypes, Goto, PC, Thread
<1>7. CASE Interrupt
  BY <1>0, <1>7 DEF Interrupt, StepTypes, RuntimeTypes, Goto, PC
<1>8. CASE Final
  BY <1>0, <1>8, ReportTypes DEF Final, RuntimeTypes
<1>9. CASE BindDenied
  BY <1>0, <1>9, ReportTypes DEF BindDenied, RuntimeTypes
<1>10. CASE Wait
  BY <1>0, <1>10, ReportTypes DEF Wait, RuntimeTypes
<1>11. CASE CallLost
  <2>1. closed' \in BOOLEAN /\ startLate' \in BOOLEAN
    BY <1>0, <1>11 DEF CallLost, RuntimeTypes
  <2> QED BY <1>0, <1>11, <2>1, ReportTypes DEF CallLost, RuntimeTypes
<1>12. CASE Crash
  BY <1>0, <1>12, ReportTypes DEF Crash, RuntimeTypes
<1>13. CASE StartRefused
  BY <1>0, <1>13 DEF StartRefused, StepTypes, RuntimeTypes, Goto, PC
<1> QED
  BY <1>1, <1>2, <1>3, <1>4, <1>5, <1>6, <1>7, <1>8, <1>9, <1>10, <1>11, <1>12, <1>13
  DEF Step, StepAdvance

LEMMA RuntimeKeepsTypes == TypeOK /\ Runtime => StepTypes' /\ RuntimeTypes'
<1> SUFFICES ASSUME TypeOK, Runtime PROVE StepTypes' /\ RuntimeTypes'
  OBVIOUS
<1> USE DEF TypeOK, StepTypes, RuntimeTypes, Thread, Elsewhere
<1>1. CASE MarkStarted
  BY <1>1 DEF MarkStarted, EndThread
<1>2. CASE ThreadClaim
  BY <1>2 DEF ThreadClaim
<1>3. CASE ThreadGivesUp
  BY <1>3 DEF ThreadGivesUp, EndThread
<1>4. CASE Execute \/ ThreadEnds
  BY <1>4 DEF Execute, ThreadEnds, EndThread
<1>5. CASE WriteReceipt
  BY <1>5 DEF WriteReceipt, ClosedStates
<1>6. CASE LateStart \/ LostStart
  BY ZenonT(60), <1>6 DEF LateStart, LostStart, RunStart
<1>7. CASE LateClaim
  BY ZenonT(60), <1>7 DEF LateClaim
<1>8. CASE Heartbeat \/ RuntimeRestart
  BY <1>8 DEF Heartbeat, RuntimeRestart
<1> QED
  BY <1>1, <1>2, <1>3, <1>4, <1>5, <1>6, <1>7, <1>8 DEF Runtime, ThreadAdvance

LEMMA TypeStep == TypeOK /\ [Next]_vars => TypeOK'
<1> SUFFICES ASSUME TypeOK, [Next]_vars PROVE TypeOK'
  OBVIOUS
<1>1. RowTypes' /\ OwnerTypes'
  BY RowMoves, RowKeepsTypes, OwnerKeepsTypes
<1>2. StepTypes' /\ RuntimeTypes'
  <2>1. CASE Step
    BY <2>1, StepKeepsTypes
  <2>2. CASE Runtime
    BY <2>2, RuntimeKeepsTypes
  <2>3. CASE OwnerCancel
    BY <2>3 DEF OwnerCancel, TypeOK, StepTypes, RuntimeTypes, ClosedStates
  <2>4. CASE ~Step /\ ~Runtime /\ ~OwnerCancel
    <3>1. UNCHANGED <<stepVars, runtimeVars>>
      BY <2>4 DEF Next, vars, Admit, RecordResult, CompleteRun, UserCancel, GuardChange,
         ExpireLease, RecoverExpired, Pause, Switch
    <3> QED BY <3>1 DEF TypeOK, StepTypes, RuntimeTypes
  <2> QED BY <2>1, <2>2, <2>3, <2>4
<1> QED BY <1>1, <1>2 DEF TypeOK

-----------------------------------------------------------------------------
(* The theorems.                                                            *)

LEMMA InvInit == Init => RunInv
<1> SUFFICES ASSUME Init PROVE RunInv
  OBVIOUS
<1>1. RowInv
  BY DEF Init, RowInv, ReceiptAgrees, ClaimAgrees, CancelAgrees
<1>2. ResultWasClaimed
  BY DEF Init, ResultWasClaimed
<1> QED BY TypeInit, <1>1, <1>2 DEF RunInv

LEMMA InvStep == RunInv /\ [Next]_vars => RunInv'
BY TypeStep, RowStep, ClaimStep DEF RunInv

LEMMA Invariant == Spec => []RunInv
<1>1. Init => RunInv
  BY InvInit
<1>2. RunInv /\ [Next]_vars => RunInv'
  BY InvStep
<1> QED BY <1>1, <1>2, PTL DEF Spec

\* Every reachable state of a managed run is well typed.
THEOREM TypeCorrect == Spec => []TypeOK
<1>1. RunInv => TypeOK
  BY DEF RunInv
<1> QED BY <1>1, Invariant, PTL

\* The registry's receipt always tells what became of the run, whoever
\* claimed, completed or interrupted it (claim, complete, interrupt).
THEOREM ReceiptKept == Spec => []ReceiptAgrees
<1>1. RunInv => ReceiptAgrees
  BY DEF RunInv, RowInv
<1> QED BY <1>1, Invariant, PTL

\* A run somebody asked to cancel never counts as done (cancelRow, complete).
THEOREM CancellationHolds == Spec => []CancelledNeverDone
<1>1. RunInv => CancelledNeverDone
  BY DEF RunInv, RowInv, CancelAgrees, CancelledNeverDone
<1> QED BY <1>1, Invariant, PTL

\* Late results remain separate evidence: no step changes the state of a
\* closed run (complete, interrupt, cancelRow).
THEOREM ClosedForGood == Spec => ClosedStays
<1>1. RunInv /\ [Next]_vars => [(state \in ClosedStates) => state' = state]_vars
  <2> SUFFICES ASSUME RunInv, [Next]_vars, state \in ClosedStates PROVE state' = state
    OBVIOUS
  <2> USE DEF ClosedStates
  <2>1. RowMove /\ RowInv /\ ResultWasClaimed
    BY RowMoves DEF RunInv
  <2>2. CASE CompleteRow
    <3>1. state = "interrupted"
      BY <2>1, <2>2, ClaimedResult DEF RowInv, ClaimAgrees, CompleteRow, Completable
    <3> QED BY <2>2, <3>1 DEF CompleteRow, Settlement, Supervised
  <2>3. CASE ~CompleteRow
    BY <2>1, <2>3 DEF RowMove, RowUpdate, CancelRow, InterruptRow, ClaimRow, Claimable, Admit,
       RecordResult, Bind, OwnerCancel, GuardChange, ExpireLease
  <2> QED BY <2>2, <2>3
<1> QED BY <1>1, Invariant, PTL DEF Spec, ClosedStays

\* The run executes its one effect as the receipts of the registry promise:
\* it implements DurableEffect (claim, complete, interrupt, switchFamily).
THEOREM EffectImplemented == Spec => EffectKept
<1>1. Init => Effect!EffectInit
  BY DEF Init, Effect!EffectInit
<1>2. RunInv /\ [Next]_vars => [Effect!EffectNext]_(Effect!effectVars)
  <2> SUFFICES ASSUME RunInv, [Next]_vars PROVE Effect!EffectNext \/ UNCHANGED Effect!effectVars
    OBVIOUS
  <2> USE DEF Effect!EffectNext, Effect!effectVars
  <2>1. RowMove /\ TypeOK /\ RowInv /\ ResultWasClaimed
    BY RowMoves DEF RunInv
  <2>2. CASE UNCHANGED <<rowVars, receiptVars>> /\ (UNCHANGED ownerVars \/ Pause \/ Switch)
    <3>1. CASE UNCHANGED ownerVars
      BY <2>2, <3>1
    <3>2. CASE Pause
      BY <3>2 DEF Pause, Effect!CloseAdmission
    <3>3. CASE Switch
      BY <3>3 DEF Switch, Effect!HandOver
    <3> QED BY <2>2, <3>1, <3>2, <3>3
  <2>3. CASE ClaimRow /\ UNCHANGED ownerVars
    <3>1. ~claimed /\ admission /\ rowEpoch = epoch
      BY <2>1, <2>3 DEF ClaimRow, Claimable, RowInv, ClaimAgrees
    <3>2. receipt = "none"
      BY <2>1, <3>1 DEF RowInv, ReceiptAgrees
    <3> QED BY <2>3, <3>1, <3>2 DEF ClaimRow, Effect!Begin, Effect!Free
  <2>4. CASE InterruptRow /\ UNCHANGED ownerVars
    BY <2>4 DEF InterruptRow, Effect!Settle, Effect!Unsettled
  <2>5. CASE CompleteRow /\ UNCHANGED ownerVars
    <3>1. ReceiptOf(Settlement) \in {"done", "failed", "ambiguous"}
      BY DEF ReceiptOf
    <3> QED BY <2>5, <3>1 DEF CompleteRow, Effect!Settle, Effect!Unsettled
  <2>6. CASE /\ CancelRow \/ Admit \/ RecordResult \/ Bind \/ OwnerCancel \/ GuardChange \/ ExpireLease
             /\ UNCHANGED ownerVars
    BY <2>6 DEF CancelRow, Admit, RecordResult, Bind, OwnerCancel, GuardChange, ExpireLease
  <2> QED BY <2>1, <2>2, <2>3, <2>4, <2>5, <2>6 DEF RowMove, RowUpdate
<1> QED BY <1>1, <1>2, Invariant, PTL DEF Spec, EffectKept, Effect!EffectSpec

=============================================================================
