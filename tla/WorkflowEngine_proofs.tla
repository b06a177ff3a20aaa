----------------------- MODULE WorkflowEngine_proofs -----------------------
(***************************************************************************)
(* Proofs that WorkflowEngine keeps its types and its safety properties    *)
(* for every set of workflows and runs and every value of the bounds.      *)
(***************************************************************************)
EXTENDS WorkflowEngine, TLAPS

(* The inductive invariant.                                                *)

\* What has never been requested has no history.
AbsentIsFresh == \A w \in Workflow : state[w] = "absent" => dispatch[w] = 1 /\ lastClaim[w] = NoRun

\* Nothing refers to a dispatch that does not exist yet.
NoFutureDispatch ==
  /\ \A x \in events \cup received : x[2] <= dispatch[x[1]]
  /\ \A r \in Run : pc[r] # "free" => runDispatch[r] <= dispatch[Target[r]]

\* A dispatch is recorded as received only after a run claimed it.
ReceivedWasClaimed ==
  /\ \A w \in Workflow : Current(w) \in received => lastClaim[w] # NoRun
  /\ \A r \in Run : pc[r] = "claimed" /\ runDispatch[r] = dispatch[Target[r]]
                      => lastClaim[Target[r]] # NoRun

\* The places at which a run holds, or believes it holds, its lease.
Holding == {"claimed", "operating", "inside", "returned", "record"}

\* The last run to claim the current dispatch of an open workflow is alive,
\* and as long as it is between its claim and its record the lease is its own.
LastClaimantLives ==
  \A w \in Workflow : Open(w) /\ lastClaim[w] # NoRun /\ Current(w) \notin abandoned =>
    LET q == lastClaim[w] IN
    /\ Serves(q, w) /\ pc[q] # "free"
    /\ pc[q] \in Holding => lease[w] = q

DriverInv == AbsentIsFresh /\ NoFutureDispatch /\ ReceivedWasClaimed /\ LastClaimantLives

-----------------------------------------------------------------------------
(* Types.                                                                  *)

USE DEF registry, outboxVars, runVars, effectVars, ownerVars

LEMMA TypeInit == Init => TypeOK
<1> USE TargetAssumption, NoRunAssumption, BoundAssumption
<1> QED BY DEF Init, TypeOK, PC, Row, OpenStates, ClosedStates, ReceiptStates

\* Every step keeps the types.
LEMMA TypeStep == TypeOK /\ [Next]_vars => TypeOK'
<1> SUFFICES ASSUME TypeOK, [Next]_vars PROVE TypeOK'
  OBVIOUS
<1> USE TargetAssumption, NoRunAssumption, BoundAssumption, ResultAssumption
<1> USE DEF TypeOK, PC, Row, OpenStates, ClosedStates, ReceiptStates
<1>1. ASSUME NEW w \in Workflow, Request(w) PROVE TypeOK'
  BY <1>1 DEF Request
<1>2. ASSUME NEW w \in Workflow, PublishAccepted(w) PROVE TypeOK'
  BY <1>2 DEF PublishAccepted, Current, Due, Open
<1>3. ASSUME NEW w \in Workflow, AnswerLost(w) PROVE TypeOK'
  BY <1>3 DEF AnswerLost, Current, Due, Open
<1>4. ASSUME NEW w \in Workflow, ExpireLease(w) PROVE TypeOK'
  BY <1>4 DEF ExpireLease
<1>5. ASSUME NEW w \in Workflow, NativeClaim(w) PROVE TypeOK'
  BY <1>5 DEF NativeClaim
<1>6. ASSUME NEW w \in Workflow, NativeSettle(w) PROVE TypeOK'
  BY <1>6 DEF NativeSettle
<1>7. ASSUME NEW w \in Workflow, Retry(w) PROVE TypeOK'
  BY <1>7 DEF Retry, Redispatch, ClearLease
<1>8. ASSUME NEW w \in Workflow, Cancel(w) PROVE TypeOK'
  BY <1>8 DEF Cancel, ClearLease
<1>9. ASSUME NEW w \in Workflow, Retire(w) PROVE TypeOK'
  BY <1>9 DEF Retire
<1>10. ASSUME NEW w \in Workflow, Reopen(w) PROVE TypeOK'
  BY <1>10 DEF Reopen, Redispatch, ClearLease
<1>11. ASSUME NEW r \in Run, ReadEnds(r) PROVE TypeOK'
  BY <1>11 DEF ReadEnds, EndRun, Goto
<1>12. ASSUME NEW r \in Run, Read(r) PROVE TypeOK'
  BY <1>12 DEF Read, Goto
<1>13. ASSUME NEW r \in Run, SupersedeBefore(r) PROVE TypeOK'
  <2>1. CASE Serves(r, Target[r]) /\ StepsAside(Target[r])
    BY <1>13, <2>1 DEF SupersedeBefore, EndRun, Goto
  <2>2. CASE ~(Serves(r, Target[r]) /\ StepsAside(Target[r]))
    BY <1>13, <2>2 DEF SupersedeBefore, Goto
  <2> QED BY <2>1, <2>2
<1>14. ASSUME NEW r \in Run, Claim(r) PROVE TypeOK'
  BY <1>14 DEF Claim, Goto
<1>15. ASSUME NEW r \in Run, ClaimRefused(r) PROVE TypeOK'
  BY <1>15 DEF ClaimRefused, NextStep, Goto
<1>16. ASSUME NEW r \in Run, RecordRun(r) PROVE TypeOK'
  BY <1>16 DEF RecordRun, Goto
<1>17. ASSUME NEW r \in Run, EnterFamily(r) PROVE TypeOK'
  BY <1>17 DEF EnterFamily, Goto
<1>18. ASSUME NEW r \in Run, EnterRefused(r) PROVE TypeOK'
  BY <1>18 DEF EnterRefused, Return, Goto
<1>19. ASSUME NEW r \in Run, LeaveFamily(r) PROVE TypeOK'
  BY <1>19 DEF LeaveFamily, Return, Goto
<1>20. ASSUME NEW r \in Run, SupersedeAfter(r) PROVE TypeOK'
  BY <1>20 DEF SupersedeAfter, Goto
<1>21. ASSUME NEW r \in Run, Record(r) PROVE TypeOK'
  <2>1. result[r] # "none"
    BY <1>21 DEF Record
  <2>2. /\ state' \in [Workflow -> OpenStates \cup ClosedStates \cup {"absent"}]
        /\ lease' \in [Workflow -> Run \cup {NoRun}]
        /\ leaseLive' \in [Workflow -> BOOLEAN]
    <3> DEFINE w == Target[r]
    <3>1. CASE lease[w] = r /\ Open(w)
      <4>1. state' = [state EXCEPT ![w] = result[r]] /\ ClearLease(w)
        BY <1>21, <3>1 DEF Record
      <4> QED BY <2>1, <4>1 DEF ClearLease
    <3>2. CASE ~(lease[w] = r /\ Open(w))
      BY <1>21, <3>2 DEF Record
    <3> QED BY <3>1, <3>2
  <2>3. /\ pc' \in [Run -> PC]
        /\ runDispatch' \in [Run -> 0..MaxDispatch]
        /\ \A q \in Run : pc'[q] # "free" => runDispatch'[q] # 0
        /\ runEpoch' \in [Run -> 0..MaxEpoch]
        /\ result' \in [Run -> OpenStates \cup ClosedStates \cup {"none"}]
        /\ \A q \in Run : pc'[q] \in {"returned", "record"} => result'[q] # "none"
    <3>1. CASE result[r] \in ClosedStates
      BY <1>21, <3>1 DEF Record, EndRun, Goto
    <3>2. CASE result[r] \notin ClosedStates
      BY <1>21, <3>2 DEF Record, NextStep, Goto
    <3> QED BY <3>1, <3>2
  <2> QED BY <1>21, <2>2, <2>3 DEF Record
<1>22. ASSUME NEW r \in Run, Launch(r) PROVE TypeOK'
  BY <1>22 DEF Launch
<1>23. ASSUME NEW r \in Run, Continue(r) PROVE TypeOK'
  <2>1. dispatch' \in [Workflow -> 1..MaxDispatch] /\ outbox' \subseteq Row
        /\ lastClaim' \in [Workflow -> Run \cup {NoRun}]
    <3>1. CASE Relevant(r)
      BY <1>23, <3>1 DEF Continue, Redispatch
    <3>2. CASE ~Relevant(r)
      BY <1>23, <3>2 DEF Continue
    <3> QED BY <3>1, <3>2
  <2> QED BY <1>23, <2>1 DEF Continue, EndRun, Goto
<1>24. ASSUME NEW r \in Run, Crash(r) PROVE TypeOK'
  BY <1>24 DEF Crash, NextStep, Goto
<1>25. ASSUME NEW r \in Run, Abandon(r) PROVE TypeOK'
  BY <1>25 DEF Abandon, EndRun, Goto
<1>26. ASSUME NEW r \in Run, Renew(r) PROVE TypeOK'
  BY <1>26 DEF Renew
<1>27. ASSUME NEW r \in Run, NEW x \in Row, StartRun(r, x) PROVE TypeOK'
  BY <1>27 DEF StartRun, Goto
<1>28. ASSUME NEW x \in Row, MarkPublished(x) PROVE TypeOK'
  BY <1>28 DEF MarkPublished
<1>29. ASSUME NEW x \in Row, PublisherCrash(x) PROVE TypeOK'
  BY <1>29 DEF PublisherCrash
<1>30. ASSUME NEW x \in Row, LoseEvent(x) PROVE TypeOK'
  BY <1>30 DEF LoseEvent
<1>31. ASSUME NEW x \in Row, PruneOutbox(x) PROVE TypeOK'
  BY <1>31 DEF PruneOutbox
<1>32. ASSUME NEW x \in Row, PruneRuns(x) PROVE TypeOK'
  BY <1>32 DEF PruneRuns
<1>33. CASE Pause
  BY <1>33 DEF Pause
<1>34. CASE Switch
  BY <1>34 DEF Switch
<1>35. CASE UNCHANGED vars
  BY <1>35 DEF vars
<1> QED
  BY <1>1, <1>2, <1>3, <1>4, <1>5, <1>6, <1>7, <1>8, <1>9, <1>10, <1>11,
     <1>12, <1>13, <1>14, <1>15, <1>16, <1>17, <1>18, <1>19, <1>20, <1>21,
     <1>22, <1>23, <1>24, <1>25, <1>26, <1>27, <1>28, <1>29, <1>30, <1>31,
     <1>32, <1>33, <1>34, <1>35 DEF Next, JobStep, RunStep, Advance, RowStep

\* Every variable keeps its type.
THEOREM TypeCorrect == Spec => []TypeOK
<1> QED BY TypeInit, TypeStep, PTL DEF Spec

-----------------------------------------------------------------------------
(* The owner fence.                                                        *)

\* Nobody enters or leaves the family, and no epoch changes, in a step of
\* the job, publication and retention actions.
LEMMA JobStepKeepsRuns ==
  ASSUME NEW w \in Workflow, JobStep(w)
  PROVE UNCHANGED <<pc, runDispatch, runEpoch, result, epoch, admission>>
BY DEF JobStep, Request, PublishAccepted, AnswerLost, ExpireLease, NativeClaim, NativeSettle,
       Retry, Cancel, Retire, Reopen

LEMMA RowStepKeepsRuns ==
  ASSUME NEW x \in Row, RowStep(x)
  PROVE UNCHANGED <<registry, runVars, effectVars, ownerVars, abandoned>>
BY DEF RowStep, MarkPublished, PublisherCrash, LoseEvent, PruneOutbox, PruneRuns

LEMMA EpochFenceStep == TypeOK /\ EpochFence /\ [Next]_vars => EpochFence'
<1> SUFFICES ASSUME TypeOK, EpochFence, [Next]_vars PROVE EpochFence'
  OBVIOUS
<1> USE DEF EpochFence
<1>1. ASSUME NEW w \in Workflow, JobStep(w) PROVE EpochFence'
  BY <1>1, JobStepKeepsRuns
<1>2. ASSUME NEW x \in Row, RowStep(x) PROVE EpochFence'
  BY <1>2, RowStepKeepsRuns
<1>3. ASSUME NEW r \in Run, RunStep(r) PROVE EpochFence'
  <2>1. CASE EnterFamily(r)
    BY <2>1 DEF EnterFamily, MayEnter, Goto, TypeOK
  <2>2. CASE Read(r)
    BY <2>2 DEF Read, Goto, TypeOK
  <2>3. CASE ClaimRefused(r) \/ Crash(r)
    BY <2>3 DEF ClaimRefused, Crash, NextStep, Goto, TypeOK
  <2>4. CASE ReadEnds(r) \/ SupersedeBefore(r) \/ Continue(r) \/ Abandon(r)
    BY <2>4 DEF ReadEnds, SupersedeBefore, Continue, Abandon, EndRun, Goto, TypeOK
  <2>5. CASE Claim(r) \/ RecordRun(r) \/ SupersedeAfter(r)
    BY <2>5 DEF Claim, RecordRun, SupersedeAfter, Goto, TypeOK
  <2>6. CASE EnterRefused(r) \/ LeaveFamily(r)
    BY <2>6 DEF EnterRefused, LeaveFamily, Return, Goto, TypeOK
  <2>7. CASE Record(r)
    BY <2>7 DEF Record, EndRun, NextStep, Goto, TypeOK
  <2>8. CASE Launch(r) \/ Renew(r)
    BY <2>8 DEF Launch, Renew
  <2> QED
    BY <1>3, <2>1, <2>2, <2>3, <2>4, <2>5, <2>6, <2>7, <2>8 DEF RunStep, Advance
<1>4. ASSUME NEW r \in Run, NEW x \in Row, StartRun(r, x) PROVE EpochFence'
  BY <1>4 DEF StartRun, Goto, TypeOK
<1>5. CASE Pause \/ Switch
  BY <1>5 DEF Pause, Switch, Drained
<1>6. CASE UNCHANGED vars
  BY <1>6 DEF vars
<1> QED
  BY <1>1, <1>2, <1>3, <1>4, <1>5, <1>6 DEF Next

\* Whoever is inside the family acts under its present epoch.
THEOREM FenceHolds == Spec => []EpochFence
<1>1. Init => EpochFence
  BY DEF Init, EpochFence
<1> QED BY <1>1, TypeCorrect, EpochFenceStep, PTL DEF Spec

\* A run's steps leave the receipts and the owner row alone.
LEMMA RunStepKeepsOwner ==
  ASSUME NEW r \in Run, RunStep(r)
  PROVE UNCHANGED <<receipt, receiptEpoch, epoch, admission, sending, published>>
BY DEF RunStep, Advance, ReadEnds, Read, SupersedeBefore, Claim, ClaimRefused, RecordRun, EnterFamily,
       EnterRefused, LeaveFamily, Return, SupersedeAfter, Record, Launch, Continue, Crash, Abandon, Renew

LEMMA StartedUnderEpochStep == TypeOK /\ StartedUnderEpoch /\ [Next]_vars => StartedUnderEpoch'
<1> SUFFICES ASSUME TypeOK, StartedUnderEpoch, [Next]_vars PROVE StartedUnderEpoch'
  OBVIOUS
<1> USE DEF StartedUnderEpoch
<1>1. ASSUME NEW w \in Workflow, JobStep(w) PROVE StartedUnderEpoch'
  <2>1. CASE NativeClaim(w)
    BY <2>1 DEF NativeClaim, TypeOK
  <2>2. CASE NativeSettle(w)
    BY <2>2 DEF NativeSettle, TypeOK
  <2>3. CASE Reopen(w)
    BY <2>3 DEF Reopen, TypeOK
  <2>4. CASE Request(w) \/ PublishAccepted(w) \/ AnswerLost(w) \/ ExpireLease(w)
    BY <2>4 DEF Request, PublishAccepted, AnswerLost, ExpireLease
  <2>5. CASE Retry(w) \/ Cancel(w) \/ Retire(w)
    BY <2>5 DEF Retry, Cancel, Retire
  <2> QED BY <1>1, <2>1, <2>2, <2>3, <2>4, <2>5 DEF JobStep
<1>2. ASSUME NEW x \in Row, RowStep(x) PROVE StartedUnderEpoch'
  BY <1>2, RowStepKeepsRuns
<1>3. ASSUME NEW r \in Run, RunStep(r) PROVE StartedUnderEpoch'
  BY <1>3, RunStepKeepsOwner
<1>4. ASSUME NEW r \in Run, NEW x \in Row, StartRun(r, x) PROVE StartedUnderEpoch'
  BY <1>4 DEF StartRun
<1>5. CASE Pause \/ Switch
  BY <1>5 DEF Pause, Switch, Unreconciled
<1>6. CASE UNCHANGED vars
  BY <1>6 DEF vars
<1> QED
  BY <1>1, <1>2, <1>3, <1>4, <1>5, <1>6 DEF Next

\* A switch of ownership leaves no unsettled effect of an earlier epoch.
THEOREM SwitchReconciles == Spec => []StartedUnderEpoch
<1>1. Init => StartedUnderEpoch
  BY DEF Init, StartedUnderEpoch
<1> QED BY <1>1, TypeCorrect, StartedUnderEpochStep, PTL DEF Spec

\* Every step maps to a step of the abstract effect, or to none.
LEMMA EffectStep ==
  ASSUME TypeOK, [Next]_vars, NEW v \in Workflow
  PROVE  EffectOf(v)!EffectNext \/ UNCHANGED EffectOf(v)!effectVars
<1> USE DEF EffectOf!EffectNext, EffectOf!effectVars, EffectOf!Settle, EffectOf!Unsettled
<1>1. ASSUME NEW w \in Workflow, JobStep(w) PROVE EffectOf(v)!EffectNext \/ UNCHANGED EffectOf(v)!effectVars
  <2>1. CASE NativeClaim(w)
    BY <2>1 DEF NativeClaim, ReceiptFree, TypeOK, EffectOf!Begin, EffectOf!Free
  <2>2. CASE NativeSettle(w)
    BY <2>2 DEF NativeSettle, TypeOK
  <2>3. CASE Retire(w) \/ Reopen(w)
    BY <2>3 DEF Retire, Reopen, TypeOK
  <2>4. CASE Request(w) \/ PublishAccepted(w) \/ AnswerLost(w) \/ ExpireLease(w)
    BY <2>4 DEF Request, PublishAccepted, AnswerLost, ExpireLease
  <2>5. CASE Retry(w) \/ Cancel(w)
    BY <2>5 DEF Retry, Cancel
  <2> QED BY <1>1, <2>1, <2>2, <2>3, <2>4, <2>5 DEF JobStep
<1>2. ASSUME NEW x \in Row, RowStep(x) PROVE UNCHANGED EffectOf(v)!effectVars
  BY <1>2, RowStepKeepsRuns
<1>3. ASSUME NEW r \in Run, RunStep(r) PROVE UNCHANGED EffectOf(v)!effectVars
  BY <1>3, RunStepKeepsOwner
<1>4. ASSUME NEW r \in Run, NEW x \in Row, StartRun(r, x) PROVE UNCHANGED EffectOf(v)!effectVars
  BY <1>4 DEF StartRun
<1>5. CASE Pause
  BY <1>5 DEF Pause, EffectOf!CloseAdmission
<1>6. CASE Switch
  BY <1>6 DEF Switch, Unreconciled, EffectOf!HandOver
<1>7. CASE UNCHANGED vars
  BY <1>7 DEF vars
<1> QED
  BY <1>1, <1>2, <1>3, <1>4, <1>5, <1>6, <1>7 DEF Next

\* The engine and its native runtime execute every effect as the receipts of
\* the registry promise: each one implements DurableEffect.
THEOREM EffectsImplemented == Spec => EffectsKept
<1>1. Init => EffectsBegin
  BY DEF Init, EffectsBegin, EffectOf!EffectInit
<1>2. TypeOK /\ [Next]_vars => [EffectsStep]_vars
  BY EffectStep DEF EffectsStep
<1> QED BY <1>1, <1>2, TypeCorrect, PTL DEF Spec, EffectsKept

-----------------------------------------------------------------------------
(* Leases, outbox rows and reopening.                                      *)

LEMMA LeaseStep == TypeOK /\ ClosedHoldsNoLease /\ [Next]_vars => ClosedHoldsNoLease'
<1> SUFFICES ASSUME TypeOK, ClosedHoldsNoLease, [Next]_vars PROVE ClosedHoldsNoLease'
  OBVIOUS
<1> USE DEF ClosedHoldsNoLease, Open, OpenStates
<1>1. ASSUME NEW w \in Workflow, JobStep(w) PROVE ClosedHoldsNoLease'
  <2>1. CASE Request(w) \/ PublishAccepted(w) \/ AnswerLost(w) \/ ExpireLease(w)
    BY <2>1 DEF Request, PublishAccepted, AnswerLost, ExpireLease, TypeOK
  <2>2. CASE NativeClaim(w) \/ NativeSettle(w)
    BY <2>2 DEF NativeClaim, NativeSettle
  <2>3. CASE Retry(w) \/ Cancel(w)
    BY <2>3 DEF Retry, Cancel, ClearLease, TypeOK
  <2>4. CASE Retire(w) \/ Reopen(w)
    BY <2>4 DEF Retire, StepsAside, Reopen, ClearLease, TypeOK
  <2> QED BY <1>1, <2>1, <2>2, <2>3, <2>4 DEF JobStep
<1>2. ASSUME NEW x \in Row, RowStep(x) PROVE ClosedHoldsNoLease'
  BY <1>2, RowStepKeepsRuns
<1>3. ASSUME NEW r \in Run, RunStep(r) PROVE ClosedHoldsNoLease'
  <2>1. CASE SupersedeBefore(r)
    BY <2>1 DEF SupersedeBefore, StepsAside, TypeOK
  <2>2. CASE Claim(r)
    BY <2>2 DEF Claim, Claimable, Relevant, TypeOK
  <2>3. CASE Record(r)
    BY <2>3, NoRunAssumption, TargetAssumption DEF Record, ClearLease, TypeOK
  <2>4. CASE ReadEnds(r) \/ Read(r) \/ ClaimRefused(r) \/ RecordRun(r) \/ EnterFamily(r)
    BY <2>4 DEF ReadEnds, Read, ClaimRefused, RecordRun, EnterFamily
  <2>5. CASE EnterRefused(r) \/ LeaveFamily(r) \/ SupersedeAfter(r) \/ Launch(r)
    BY <2>5 DEF EnterRefused, LeaveFamily, Return, SupersedeAfter, Launch
  <2>6. CASE Continue(r) \/ Crash(r) \/ Abandon(r) \/ Renew(r)
    BY <2>6 DEF Continue, Crash, Abandon, Renew
  <2> QED BY <1>3, <2>1, <2>2, <2>3, <2>4, <2>5, <2>6 DEF RunStep, Advance
<1>4. ASSUME NEW r \in Run, NEW x \in Row, StartRun(r, x) PROVE ClosedHoldsNoLease'
  BY <1>4 DEF StartRun
<1>5. CASE Pause \/ Switch
  BY <1>5 DEF Pause, Switch
<1>6. CASE UNCHANGED vars
  BY <1>6 DEF vars
<1> QED
  BY <1>1, <1>2, <1>3, <1>4, <1>5, <1>6 DEF Next

\* A closed workflow is out of reach of every lease.
THEOREM ClosedWithoutLease == Spec => []ClosedHoldsNoLease
<1>1. Init => ClosedHoldsNoLease
  BY DEF Init, ClosedHoldsNoLease
<1> QED BY <1>1, TypeCorrect, LeaseStep, PTL DEF Spec

\* What one step may do to a workflow's state: a closed one opens only by
\* being reopened.
LEMMA ReopenStep ==
  TypeOK /\ [Next]_vars =>
    \A w \in Workflow : Closed(w) /\ Open(w)' =>
       dispatch'[w] = dispatch[w] + 1 /\ ReceiptFree(w)'
<1> SUFFICES ASSUME TypeOK, [Next]_vars, NEW v \in Workflow, Closed(v), Open(v)'
             PROVE dispatch'[v] = dispatch[v] + 1 /\ ReceiptFree(v)'
  OBVIOUS
<1> USE DEF Open, Closed, OpenStates, ClosedStates
<1>1. ASSUME NEW w \in Workflow, JobStep(w) PROVE dispatch'[v] = dispatch[v] + 1 /\ ReceiptFree(v)'
  <2>1. CASE Reopen(w)
    BY <2>1 DEF Reopen, Redispatch, ReceiptFree, TypeOK
  <2>2. CASE Request(w) \/ PublishAccepted(w) \/ AnswerLost(w) \/ ExpireLease(w)
    BY <2>2 DEF Request, PublishAccepted, AnswerLost, ExpireLease, TypeOK
  <2>3. CASE NativeClaim(w) \/ NativeSettle(w) \/ Retry(w) \/ Cancel(w) \/ Retire(w)
    BY <2>3 DEF NativeClaim, NativeSettle, Retry, Cancel, Retire, TypeOK
  <2> QED BY <1>1, <2>1, <2>2, <2>3 DEF JobStep
<1>2. ASSUME NEW x \in Row, RowStep(x) PROVE FALSE
  BY <1>2, RowStepKeepsRuns
<1>3. ASSUME NEW r \in Run, RunStep(r) PROVE FALSE
  <2>1. CASE SupersedeBefore(r)
    BY <2>1 DEF SupersedeBefore, TypeOK
  <2>2. CASE Record(r)
    BY <2>2 DEF Record, TypeOK
  <2>3. CASE Claim(r) \/ ReadEnds(r) \/ Read(r) \/ ClaimRefused(r) \/ RecordRun(r) \/ EnterFamily(r)
    BY <2>3 DEF Claim, ReadEnds, Read, ClaimRefused, RecordRun, EnterFamily
  <2>4. CASE EnterRefused(r) \/ LeaveFamily(r) \/ SupersedeAfter(r) \/ Launch(r)
    BY <2>4 DEF EnterRefused, LeaveFamily, Return, SupersedeAfter, Launch
  <2>5. CASE Continue(r) \/ Crash(r) \/ Abandon(r) \/ Renew(r)
    BY <2>5 DEF Continue, Crash, Abandon, Renew
  <2> QED BY <1>3, <2>1, <2>2, <2>3, <2>4, <2>5 DEF RunStep, Advance
<1>4. ASSUME NEW r \in Run, NEW x \in Row, StartRun(r, x) PROVE FALSE
  BY <1>4 DEF StartRun
<1>5. CASE Pause \/ Switch
  BY <1>5 DEF Pause, Switch
<1>6. CASE UNCHANGED vars
  BY <1>6 DEF vars
<1> QED
  BY <1>1, <1>2, <1>3, <1>4, <1>5, <1>6 DEF Next

\* Every reopening is a new dispatch with a free receipt.
THEOREM ReopeningIsFresh == Spec => ReopensFresh
<1>1. TypeOK /\ [Next]_vars => [\A w \in Workflow : Closed(w) /\ Open(w)' =>
                      dispatch'[w] = dispatch[w] + 1 /\ ReceiptFree(w)']_vars
  BY ReopenStep
<1> QED BY <1>1, TypeCorrect, PTL DEF Spec, ReopensFresh

-----------------------------------------------------------------------------
(* Every open workflow keeps a driver.                                     *)

\* The steps of a run that end or pause it, and leave the registry alone.
RunMoves(r) == ReadEnds(r) \/ Read(r) \/ ClaimRefused(r) \/ EnterFamily(r) \/ EnterRefused(r)
               \/ LeaveFamily(r) \/ SupersedeAfter(r) \/ Launch(r) \/ Crash(r) \/ Renew(r)

LEMMA RunStepCases ==
  ASSUME NEW r \in Run, RunStep(r)
  PROVE RunMoves(r) \/ SupersedeBefore(r) \/ Claim(r) \/ RecordRun(r) \/ Record(r) \/ Continue(r)
        \/ Abandon(r)
BY DEF RunStep, Advance, RunMoves

LEMMA RunMovesKeep ==
  ASSUME NEW r \in Run, RunMoves(r)
  PROVE UNCHANGED <<state, dispatch, lease, lastClaim, outbox, received, events, abandoned>>
BY DEF RunMoves, ReadEnds, Read, ClaimRefused, EnterFamily, EnterRefused, LeaveFamily, Return,
       SupersedeAfter, Launch, Crash, Renew

\* Publishing, lease expiry and receipts do not touch what drives a workflow.
QuietJob(w) == PublishAccepted(w) \/ AnswerLost(w) \/ ExpireLease(w) \/ NativeClaim(w) \/ NativeSettle(w)

LEMMA JobStepCases ==
  ASSUME NEW w \in Workflow, JobStep(w)
  PROVE QuietJob(w) \/ Request(w) \/ Retry(w) \/ Cancel(w) \/ Retire(w) \/ Reopen(w)
BY DEF JobStep, QuietJob

LEMMA QuietJobKeeps ==
  ASSUME NEW w \in Workflow, QuietJob(w)
  PROVE /\ UNCHANGED <<state, dispatch, lease, lastClaim, outbox, received, abandoned>>
        /\ events' \subseteq events \cup {Current(w)}
BY DEF QuietJob, PublishAccepted, AnswerLost, ExpireLease, NativeClaim, NativeSettle

LEMMA AbsentStep == TypeOK /\ AbsentIsFresh /\ [Next]_vars => AbsentIsFresh'
<1> SUFFICES ASSUME TypeOK, AbsentIsFresh, [Next]_vars PROVE AbsentIsFresh'
  OBVIOUS
<1> USE DEF AbsentIsFresh
<1>1. ASSUME NEW w \in Workflow, JobStep(w) PROVE AbsentIsFresh'
  <2>1. CASE QuietJob(w)
    BY <2>1, QuietJobKeeps
  <2>2. CASE Request(w) \/ Cancel(w) \/ Retire(w)
    BY <2>2 DEF Request, Cancel, Retire, TypeOK
  <2>3. CASE Retry(w) \/ Reopen(w)
    BY <2>3 DEF Retry, Reopen, Redispatch, TypeOK
  <2> QED BY <1>1, <2>1, <2>2, <2>3, JobStepCases
<1>2. ASSUME NEW x \in Row, RowStep(x) PROVE AbsentIsFresh'
  BY <1>2, RowStepKeepsRuns
<1>3. ASSUME NEW r \in Run, RunStep(r) PROVE AbsentIsFresh'
  <2> USE TargetAssumption DEF TypeOK
  <2>1. CASE RunMoves(r)
    BY <2>1, RunMovesKeep
  <2>2. CASE SupersedeBefore(r)
    BY <2>2 DEF SupersedeBefore
  <2>3. CASE Claim(r)
    BY <2>3 DEF Claim, Claimable, Relevant, Open, OpenStates
  <2>4. CASE Record(r)
    BY <2>4 DEF Record, Open, OpenStates, ClosedStates
  <2>5. CASE Continue(r)
    <3>1. CASE Relevant(r)
      BY <2>5, <3>1 DEF Continue, Relevant, Redispatch, Open, OpenStates
    <3>2. CASE ~Relevant(r)
      BY <2>5, <3>2 DEF Continue
    <3> QED BY <3>1, <3>2
  <2>6. CASE RecordRun(r) \/ Abandon(r)
    BY <2>6 DEF RecordRun, Abandon
  <2> QED BY <1>3, <2>1, <2>2, <2>3, <2>4, <2>5, <2>6, RunStepCases
<1>4. ASSUME NEW r \in Run, NEW x \in Row, StartRun(r, x) PROVE AbsentIsFresh'
  BY <1>4 DEF StartRun
<1>5. CASE Pause \/ Switch
  BY <1>5 DEF Pause, Switch
<1>6. CASE UNCHANGED vars
  BY <1>6 DEF vars
<1> QED
  BY <1>1, <1>2, <1>3, <1>4, <1>5, <1>6 DEF Next

LEMMA OutboxStep ==
  TypeOK /\ AbsentIsFresh /\ OpenHasOutbox /\ [Next]_vars => OpenHasOutbox'
<1> SUFFICES ASSUME TypeOK, AbsentIsFresh, OpenHasOutbox, [Next]_vars PROVE OpenHasOutbox'
  OBVIOUS
<1> USE DEF OpenHasOutbox, Open, OpenStates, Current
<1>1. ASSUME NEW w \in Workflow, JobStep(w) PROVE OpenHasOutbox'
  <2>1. CASE QuietJob(w)
    BY <2>1, QuietJobKeeps
  <2>2. CASE Request(w)
    BY <2>2 DEF Request, AbsentIsFresh, TypeOK
  <2>3. CASE Retry(w) \/ Reopen(w)
    BY <2>3 DEF Retry, Reopen, Redispatch, TypeOK
  <2>4. CASE Cancel(w) \/ Retire(w)
    BY <2>4 DEF Cancel, Retire, TypeOK
  <2> QED BY <1>1, <2>1, <2>2, <2>3, <2>4, JobStepCases
<1>2. ASSUME NEW x \in Row, RowStep(x) PROVE OpenHasOutbox'
  <2>1. CASE PruneOutbox(x)
    BY <2>1 DEF PruneOutbox, Disposable, Closed, ClosedStates, Row, TypeOK
  <2>2. CASE ~PruneOutbox(x)
    BY <1>2, <2>2 DEF RowStep, MarkPublished, PublisherCrash, LoseEvent, PruneRuns
  <2> QED BY <2>1, <2>2
<1>3. ASSUME NEW r \in Run, RunStep(r) PROVE OpenHasOutbox'
  <2> USE TargetAssumption DEF TypeOK
  <2>1. CASE RunMoves(r)
    BY <2>1, RunMovesKeep
  <2>2. CASE SupersedeBefore(r)
    BY <2>2 DEF SupersedeBefore
  <2>3. CASE Claim(r) \/ RecordRun(r) \/ Abandon(r)
    BY <2>3 DEF Claim, RecordRun, Abandon
  <2>4. CASE Record(r)
    BY <2>4 DEF Record
  <2>5. CASE Continue(r)
    <3>1. CASE Relevant(r)
      BY <2>5, <3>1 DEF Continue, Redispatch
    <3>2. CASE ~Relevant(r)
      BY <2>5, <3>2 DEF Continue
    <3> QED BY <3>1, <3>2
  <2> QED BY <1>3, <2>1, <2>2, <2>3, <2>4, <2>5, RunStepCases
<1>4. ASSUME NEW r \in Run, NEW x \in Row, StartRun(r, x) PROVE OpenHasOutbox'
  BY <1>4 DEF StartRun
<1>5. CASE Pause \/ Switch
  BY <1>5 DEF Pause, Switch
<1>6. CASE UNCHANGED vars
  BY <1>6 DEF vars
<1> QED
  BY <1>1, <1>2, <1>3, <1>4, <1>5, <1>6 DEF Next

\* An open workflow always has the outbox row of its current dispatch.
THEOREM OutboxKept == Spec => []OpenHasOutbox
<1>1. Init => AbsentIsFresh /\ OpenHasOutbox
  BY DEF Init, AbsentIsFresh, OpenHasOutbox, Open, OpenStates
<1> QED BY <1>1, TypeCorrect, AbsentStep, OutboxStep, PTL DEF Spec

\* Dispatch numbers only grow, and new rows and events carry current ones.
LEMMA FutureStep == TypeOK /\ NoFutureDispatch /\ [Next]_vars => NoFutureDispatch'
<1> SUFFICES ASSUME TypeOK, NoFutureDispatch, [Next]_vars PROVE NoFutureDispatch'
  OBVIOUS
<1> USE TargetAssumption DEF NoFutureDispatch, TypeOK, Row
<1>1. ASSUME NEW w \in Workflow, JobStep(w) PROVE NoFutureDispatch'
  <2>1. CASE QuietJob(w)
    BY <1>1, <2>1, QuietJobKeeps, JobStepKeepsRuns DEF Current
  <2>2. CASE Request(w) \/ Cancel(w) \/ Retire(w)
    BY <2>2 DEF Request, Cancel, Retire
  <2>3. CASE Retry(w) \/ Reopen(w)
    <3>1. /\ dispatch' = [dispatch EXCEPT ![w] = @ + 1]
          /\ UNCHANGED <<events, received, pc, runDispatch>>
      BY <2>3 DEF Retry, Reopen, Redispatch
    <3>2. \A u \in Workflow : dispatch[u] <= dispatch'[u]
      BY <3>1
    <3> QED BY <3>1, <3>2
  <2> QED BY <1>1, <2>1, <2>2, <2>3, JobStepCases
<1>2. ASSUME NEW x \in Row, RowStep(x) PROVE NoFutureDispatch'
  BY <1>2 DEF RowStep, MarkPublished, PublisherCrash, LoseEvent, PruneOutbox, PruneRuns
<1>3. ASSUME NEW r \in Run, RunStep(r) PROVE NoFutureDispatch'
  <2>1. CASE RunMoves(r)
    <3>1. UNCHANGED <<dispatch, events, received>>
      BY <2>1, RunMovesKeep
    <3>2. \A q \in Run : pc'[q] # "free" => pc[q] # "free" /\ runDispatch'[q] = runDispatch[q]
      BY <2>1 DEF RunMoves, ReadEnds, Read, ClaimRefused, EnterFamily, EnterRefused, LeaveFamily,
         Return, SupersedeAfter, Launch, Crash, Renew, EndRun, NextStep, Goto
    <3> QED BY <3>1, <3>2
  <2>2. CASE SupersedeBefore(r)
    BY <2>2 DEF SupersedeBefore, EndRun, Goto
  <2>3. CASE Claim(r) \/ RecordRun(r)
    BY <2>3 DEF Claim, RecordRun, Goto
  <2>4. CASE Record(r)
    BY <2>4 DEF Record, EndRun, NextStep, Goto
  <2>5. CASE Continue(r)
    <3>1. \A u \in Workflow : dispatch[u] <= dispatch'[u]
      <4>1. CASE Relevant(r)
        BY <2>5, <4>1 DEF Continue, Redispatch
      <4>2. CASE ~Relevant(r)
        BY <2>5, <4>2 DEF Continue
      <4> QED BY <4>1, <4>2
    <3>2. \A u \in Workflow : dispatch'[u] \in Int
      <4>1. CASE Relevant(r)
        BY <2>5, <4>1 DEF Continue, Redispatch
      <4>2. CASE ~Relevant(r)
        BY <2>5, <4>2 DEF Continue
      <4> QED BY <4>1, <4>2
    <3>3. /\ UNCHANGED <<events, received>>
          /\ \A q \in Run : pc'[q] # "free" => pc[q] # "free" /\ runDispatch'[q] = runDispatch[q]
      BY <2>5 DEF Continue, EndRun, Goto
    <3> QED BY <3>1, <3>2, <3>3
  <2>6. CASE Abandon(r)
    BY <2>6 DEF Abandon, EndRun, Goto
  <2> QED BY <1>3, <2>1, <2>2, <2>3, <2>4, <2>5, <2>6, RunStepCases
<1>4. ASSUME NEW r \in Run, NEW x \in Row, StartRun(r, x) PROVE NoFutureDispatch'
  BY <1>4 DEF StartRun, Goto
<1>5. CASE Pause \/ Switch
  BY <1>5 DEF Pause, Switch
<1>6. CASE UNCHANGED vars
  BY <1>6 DEF vars
<1> QED
  BY <1>1, <1>2, <1>3, <1>4, <1>5, <1>6 DEF Next

LEMMA ReceivedStep ==
  TypeOK /\ NoFutureDispatch /\ AbsentIsFresh /\ ReceivedWasClaimed /\ [Next]_vars
    => ReceivedWasClaimed'
<1> SUFFICES ASSUME TypeOK, NoFutureDispatch, AbsentIsFresh, ReceivedWasClaimed, [Next]_vars
             PROVE ReceivedWasClaimed'
  OBVIOUS
<1> USE TargetAssumption DEF ReceivedWasClaimed, Current, TypeOK
\* After a redispatch nothing carries the new number yet.
<1>0. ASSUME NEW w \in Workflow, Redispatch(w), UNCHANGED received,
             \A q \in Run : pc'[q] = "claimed" => pc[q] = "claimed" /\ runDispatch'[q] = runDispatch[q]
      PROVE ReceivedWasClaimed'
  <2>1. /\ dispatch' = [dispatch EXCEPT ![w] = @ + 1]
        /\ lastClaim' = [lastClaim EXCEPT ![w] = NoRun]
    BY <1>0 DEF Redispatch
  <2>2. <<w, dispatch[w] + 1>> \notin received
    BY DEF NoFutureDispatch, Row
  <2>3. \A u \in Workflow : Current(u)' \in received' => lastClaim'[u] # NoRun
    BY <1>0, <2>1, <2>2
  <2>4. ASSUME NEW q \in Run, pc'[q] = "claimed", runDispatch'[q] = dispatch'[Target[q]]
        PROVE lastClaim'[Target[q]] # NoRun
    <3>1. pc[q] = "claimed" /\ runDispatch'[q] = runDispatch[q] /\ runDispatch[q] <= dispatch[Target[q]]
      BY <1>0, <2>4 DEF NoFutureDispatch
    <3>2. Target[q] # w
      BY <2>1, <2>4, <3>1
    <3> QED BY <2>1, <2>4, <3>1, <3>2
  <2> QED BY <2>3, <2>4
<1>1. ASSUME NEW w \in Workflow, JobStep(w) PROVE ReceivedWasClaimed'
  <2>1. CASE QuietJob(w)
    BY <1>1, <2>1, QuietJobKeeps, JobStepKeepsRuns
  <2>2. CASE Request(w) \/ Cancel(w) \/ Retire(w)
    BY <2>2 DEF Request, Cancel, Retire
  <2>3. CASE Retry(w) \/ Reopen(w)
    BY <1>0, <2>3 DEF Retry, Reopen
  <2> QED BY <1>1, <2>1, <2>2, <2>3, JobStepCases
<1>2. ASSUME NEW x \in Row, RowStep(x) PROVE ReceivedWasClaimed'
  BY <1>2 DEF RowStep, MarkPublished, PublisherCrash, LoseEvent, PruneOutbox, PruneRuns
<1>3. ASSUME NEW r \in Run, RunStep(r) PROVE ReceivedWasClaimed'
  <2>1. CASE RunMoves(r)
    <3>1. UNCHANGED <<dispatch, lastClaim, received>>
      BY <2>1, RunMovesKeep
    <3>2. \A q \in Run : pc'[q] = "claimed" => pc[q] = "claimed" /\ runDispatch'[q] = runDispatch[q]
      BY <2>1 DEF RunMoves, ReadEnds, Read, ClaimRefused, EnterFamily, EnterRefused, LeaveFamily,
         Return, SupersedeAfter, Launch, Crash, Renew, EndRun, NextStep, Goto
    <3> QED BY <3>1, <3>2
  <2>2. CASE SupersedeBefore(r)
    BY <2>2 DEF SupersedeBefore, EndRun, Goto
  <2>3. CASE Claim(r)
    BY <2>3, NoRunAssumption DEF Claim, Goto
  <2>4. CASE RecordRun(r)
    BY <2>4 DEF RecordRun, Goto
  <2>5. CASE Record(r)
    BY <2>5 DEF Record, EndRun, NextStep, Goto
  <2>6. CASE Continue(r)
    <3>1. \A q \in Run : pc'[q] = "claimed" => pc[q] = "claimed" /\ runDispatch'[q] = runDispatch[q]
      BY <2>6 DEF Continue, EndRun, Goto
    <3>2. CASE Relevant(r)
      BY <1>0, <2>6, <3>1, <3>2 DEF Continue
    <3>3. CASE ~Relevant(r)
      BY <2>6, <3>1, <3>3 DEF Continue
    <3> QED BY <3>2, <3>3
  <2>7. CASE Abandon(r)
    BY <2>7 DEF Abandon, EndRun, Goto
  <2> QED BY <1>3, <2>1, <2>2, <2>3, <2>4, <2>5, <2>6, <2>7, RunStepCases
<1>4. ASSUME NEW r \in Run, NEW x \in Row, StartRun(r, x) PROVE ReceivedWasClaimed'
  BY <1>4 DEF StartRun, Goto
<1>5. CASE Pause \/ Switch
  BY <1>5 DEF Pause, Switch
<1>6. CASE UNCHANGED vars
  BY <1>6 DEF vars
<1> QED
  BY <1>1, <1>2, <1>3, <1>4, <1>5, <1>6 DEF Next

LEMMA LastClaimantStep == TypeOK /\ DriverInv /\ [Next]_vars => LastClaimantLives'
<1> SUFFICES ASSUME TypeOK, DriverInv, [Next]_vars,
                    NEW v \in Workflow, NEW q \in Run, lastClaim'[v] = q,
                    Open(v)', Current(v)' \notin abandoned'
             PROVE /\ Serves(q, v)' /\ pc'[q] # "free"
                   /\ pc'[q] \in Holding => lease'[v] = q
  BY TypeStep DEF LastClaimantLives, TypeOK
<1> DEFINE Goal == Serves(q, v)' /\ pc'[q] # "free" /\ (pc'[q] \in Holding => lease'[v] = q)
<1>a. AbsentIsFresh /\ LastClaimantLives
  BY DEF DriverInv
<1> USE TargetAssumption, NoRunAssumption DEF Current, Open, OpenStates, Serves, TypeOK
\* The common case: the last claimant and its dispatch are as they were, and
\* the step leaves the claimant alive and its lease alone.
<1>0. ASSUME UNCHANGED <<dispatch, lastClaim>>, Open(v), abandoned \subseteq abandoned',
             runDispatch'[q] = runDispatch[q], pc[q] # "free" => pc'[q] # "free",
             pc'[q] \in Holding => pc[q] \in Holding /\ (lease[v] = q => lease'[v] = q)
      PROVE Goal
  BY <1>0, <1>a DEF LastClaimantLives
<1>1. ASSUME NEW w \in Workflow, JobStep(w) PROVE Goal
  <2>0. UNCHANGED <<pc, runDispatch>>
    BY <1>1, JobStepKeepsRuns
  <2>1. CASE QuietJob(w)
    BY <1>0, <2>0, <2>1, QuietJobKeeps
  <2>2. CASE Request(w)
    <3>1. state[v] # "absent"
      BY <1>a, <2>2 DEF Request, AbsentIsFresh
    <3> QED BY <1>0, <2>0, <2>2, <3>1 DEF Request
  <2>3. CASE Cancel(w) \/ Retire(w)
    <3>1. v # w /\ UNCHANGED <<dispatch, lastClaim, abandoned>> /\ state'[v] = state[v]
          /\ lease'[v] = lease[v]
      BY <2>3 DEF Cancel, Retire, ClearLease
    <3> QED BY <1>0, <2>0, <3>1
  <2>4. CASE Retry(w) \/ Reopen(w)
    <3>1. v # w /\ dispatch'[v] = dispatch[v] /\ lastClaim'[v] = lastClaim[v] /\ UNCHANGED abandoned
          /\ state'[v] = state[v] /\ lease'[v] = lease[v]
      BY <2>4 DEF Retry, Reopen, Redispatch, ClearLease
    <3> QED BY <1>a, <2>0, <3>1 DEF LastClaimantLives
  <2> QED BY <1>1, <2>1, <2>2, <2>3, <2>4, JobStepCases
<1>2. ASSUME NEW x \in Row, RowStep(x) PROVE Goal
  BY <1>0, <1>2, RowStepKeepsRuns
<1>3. ASSUME NEW r \in Run, RunStep(r) PROVE Goal
  <2>1. CASE RunMoves(r)
    <3>0. UNCHANGED <<state, dispatch, lease, lastClaim, abandoned>>
      BY <2>1, RunMovesKeep
    <3>1. q \in Run /\ Serves(q, v) /\ pc[q] # "free" /\ (pc[q] \in Holding => lease[v] = q)
      BY <1>a, <3>0 DEF LastClaimantLives
    <3>2. CASE ReadEnds(r)
      BY <3>0, <3>1, <3>2 DEF ReadEnds, Relevant, EndRun, Goto
    <3>3. CASE Read(r)
      BY <3>0, <3>1, <3>3 DEF Read, Goto, Holding
    <3>4. CASE ClaimRefused(r) \/ Crash(r)
      BY <3>0, <3>1, <3>4 DEF ClaimRefused, Crash, NextStep, Goto, Holding
    <3>5. CASE EnterFamily(r) \/ SupersedeAfter(r)
      BY <3>0, <3>1, <3>5 DEF EnterFamily, SupersedeAfter, Goto, Holding
    <3>6. CASE EnterRefused(r) \/ LeaveFamily(r)
      BY <3>0, <3>1, <3>6 DEF EnterRefused, LeaveFamily, Return, Goto, Holding
    <3>7. CASE Launch(r) \/ Renew(r)
      BY <3>0, <3>1, <3>7 DEF Launch, Renew
    <3> QED BY <2>1, <3>2, <3>3, <3>4, <3>5, <3>6, <3>7 DEF RunMoves
  <2>2. CASE SupersedeBefore(r)
    <3>1. CASE Serves(r, Target[r]) /\ StepsAside(Target[r])
      <4>1. Target[r] # v /\ state'[v] = state[v] /\ UNCHANGED <<dispatch, lease, lastClaim, abandoned>>
        BY <2>2, <3>1 DEF SupersedeBefore
      <4>2. Serves(q, v) /\ pc[q] # "free" /\ (pc[q] \in Holding => lease[v] = q)
        BY <1>a, <4>1 DEF LastClaimantLives
      <4> QED BY <2>2, <3>1, <4>1, <4>2 DEF SupersedeBefore, EndRun, Goto
    <3>2. CASE ~(Serves(r, Target[r]) /\ StepsAside(Target[r]))
      <4>1. UNCHANGED <<state, dispatch, lease, lastClaim, abandoned>>
        BY <2>2, <3>2 DEF SupersedeBefore
      <4>2. Serves(q, v) /\ pc[q] # "free" /\ (pc[q] \in Holding => lease[v] = q)
        BY <1>a, <4>1 DEF LastClaimantLives
      <4> QED BY <2>2, <3>2, <4>1, <4>2 DEF SupersedeBefore, Goto, Holding
    <3> QED BY <3>1, <3>2
  <2>3. CASE Claim(r)
    <3>1. CASE Target[r] = v
      BY <2>3, <3>1 DEF Claim, Claimable, Relevant, Goto
    <3>2. CASE Target[r] # v
      <4>1. lastClaim'[v] = lastClaim[v] /\ lease'[v] = lease[v] /\ UNCHANGED <<state, dispatch, abandoned>>
        BY <2>3, <3>2 DEF Claim
      <4>2. Serves(q, v) /\ pc[q] # "free" /\ (pc[q] \in Holding => lease[v] = q)
        BY <1>a, <4>1 DEF LastClaimantLives
      <4>3. q # r
        BY <3>2, <4>2
      <4> QED BY <2>3, <4>1, <4>2, <4>3 DEF Claim, Goto
    <3> QED BY <3>1, <3>2
  <2>4. CASE RecordRun(r)
    BY <1>0, <2>4 DEF RecordRun, Goto, Holding
  <2>5. CASE Record(r)
    <3>0. UNCHANGED <<dispatch, lastClaim, abandoned>> /\ pc[r] = "record"
      BY <2>5 DEF Record
    <3>1. Open(v)
      BY <2>5 DEF Record
    <3>2. q \in Run /\ Serves(q, v) /\ pc[q] # "free" /\ (pc[q] \in Holding => lease[v] = q)
      BY <1>a, <3>0, <3>1 DEF LastClaimantLives
    <3>3. CASE q = r
      <4>1. Target[r] = v /\ lease[v] = r
        BY <3>0, <3>2, <3>3 DEF Holding
      <4>2. result[r] \notin ClosedStates
        BY <2>5, <3>1, <4>1 DEF Record, ClosedStates
      <4>3. pc'[q] = "step" /\ runDispatch'[q] = runDispatch[q]
        BY <2>5, <3>3, <4>2 DEF Record, NextStep, Goto
      <4> QED BY <3>0, <3>2, <4>3 DEF Holding
    <3>4. CASE q # r
      <4>1. pc'[q] = pc[q] /\ runDispatch'[q] = runDispatch[q]
        BY <2>5, <3>2, <3>4 DEF Record, EndRun, NextStep, Goto
      <4>2. lease[v] = q => lease'[v] = q
        BY <2>5, <3>4 DEF Record, ClearLease
      <4> QED BY <3>0, <3>2, <4>1, <4>2
    <3> QED BY <3>3, <3>4
  <2>6. CASE Continue(r)
    <3>1. CASE Relevant(r)
      <4>1. Target[r] # v /\ dispatch'[v] = dispatch[v] /\ lastClaim'[v] = lastClaim[v]
            /\ UNCHANGED <<state, lease, abandoned>>
        BY <2>6, <3>1 DEF Continue, Redispatch
      <4>2. Serves(q, v) /\ pc[q] # "free" /\ (pc[q] \in Holding => lease[v] = q)
        BY <1>a, <4>1 DEF LastClaimantLives
      <4> QED BY <2>6, <4>1, <4>2 DEF Continue, EndRun, Goto
    <3>2. CASE ~Relevant(r)
      <4>1. UNCHANGED <<dispatch, lastClaim, state, lease, abandoned>>
        BY <2>6, <3>2 DEF Continue
      <4>2. Serves(q, v) /\ pc[q] # "free" /\ (pc[q] \in Holding => lease[v] = q)
        BY <1>a, <4>1 DEF LastClaimantLives
      <4>3. q # r
        BY <3>2, <4>1, <4>2 DEF Relevant
      <4> QED BY <2>6, <4>1, <4>2, <4>3 DEF Continue, EndRun, Goto
    <3> QED BY <3>1, <3>2
  <2>7. CASE Abandon(r)
    <3>1. UNCHANGED <<dispatch, lastClaim, state, lease>> /\ abandoned \subseteq abandoned'
          /\ <<Target[r], runDispatch[r]>> \in abandoned'
      BY <2>7 DEF Abandon
    <3>2. Serves(q, v) /\ pc[q] # "free" /\ (pc[q] \in Holding => lease[v] = q)
      BY <1>a, <3>1 DEF LastClaimantLives
    <3>3. q # r
      BY <3>1, <3>2
    <3> QED BY <2>7, <3>1, <3>2, <3>3 DEF Abandon, EndRun, Goto
  <2> QED BY <1>3, <2>1, <2>2, <2>3, <2>4, <2>5, <2>6, <2>7, RunStepCases
<1>4. ASSUME NEW r \in Run, NEW x \in Row, StartRun(r, x) PROVE Goal
  <2>1. UNCHANGED <<state, dispatch, lease, lastClaim, abandoned>>
    BY <1>4 DEF StartRun
  <2>2. Serves(q, v) /\ pc[q] # "free" /\ (pc[q] \in Holding => lease[v] = q)
    BY <1>a, <2>1 DEF LastClaimantLives
  <2> QED BY <1>4, <2>1, <2>2 DEF StartRun, Goto
<1>5. CASE Pause \/ Switch
  BY <1>0, <1>5 DEF Pause, Switch
<1>6. CASE UNCHANGED vars
  BY <1>0, <1>6 DEF vars
<1> QED
  BY <1>1, <1>2, <1>3, <1>4, <1>5, <1>6 DEF Next

\* No open workflow is ever stranded, except by a run that used up its retries.
THEOREM DriverKept == Spec => []NoLostDriver
<1>1. Init => OpenHasOutbox /\ DriverInv
  BY DEF Init, OpenHasOutbox, DriverInv, AbsentIsFresh, NoFutureDispatch, ReceivedWasClaimed,
         LastClaimantLives, Open, OpenStates
<1>2. TypeOK /\ OpenHasOutbox /\ DriverInv /\ [Next]_vars => OpenHasOutbox' /\ DriverInv'
  BY AbsentStep, OutboxStep, FutureStep, ReceivedStep, LastClaimantStep DEF DriverInv
<1>3. TypeOK /\ OpenHasOutbox /\ DriverInv => NoLostDriver
  BY DEF OpenHasOutbox, DriverInv, ReceivedWasClaimed, LastClaimantLives, NoLostDriver, Due, TypeOK
<1> QED BY <1>1, <1>2, <1>3, TypeCorrect, PTL DEF Spec
=============================================================================
