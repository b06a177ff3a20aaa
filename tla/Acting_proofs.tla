---------------------------- MODULE Acting_proofs ----------------------------
(***************************************************************************)
(* Proofs about the two components that change something outside of their  *)
(* stores: the controlled actions and the imports of MCGovernance.         *)
(***************************************************************************)
EXTENDS ControlledExecution, HostImports, FiniteSetTheorems, TLAPS

----------------------------------------------------------------------------
(***************************************************************************)
(* Proofs that a controlled operation is carried out at most once and only *)
(* with authority, that the uses of a permission are counted exactly, and  *)
(* that a settled result stays, for any number of actions and uses.        *)
(*                                                                         *)
(* The argument follows one outcome from the child to the row.  Until a    *)
(* row is claimed nothing of it exists (Untouched).  A child that has not  *)
(* executed has left no effect and no receipt, and the one that publishes  *)
(* still finds its file and no result (ChildAlone).  An outcome `done'     *)
(* comes, wherever it stands, from an effect (Carried), and row, result    *)
(* and receipt name one outcome (OutcomeAgrees).                         *)
(***************************************************************************)

Undecided == {"none", "proposed", "approved", "rejected"}
Before == {"start", "execute"}

Untouched(a) ==
  action[a].state \in Undecided =>
    /\ At(a, "none") /\ effects[a] = 0 /\ ~action[a].granted
    /\ derivedResult[a] = "none" /\ receiptFile[a] = "none"

ChildAlone(a) ==
  /\ child[a].at \in Before => effects[a] = 0 /\ child[a].saw = "none"
  /\ child[a].at \in {"save", "finish"} => child[a].saw \in Outcome
  /\ child[a].at # "none" => derivedResult[a] = "none"
  /\ child[a].at \in Before \cup {"save"} => receiptFile[a] = "none"
  /\ At(a, "finish") => receiptFile[a] = child[a].saw

Carried(a) ==
  /\ effects[a] <= 1
  /\ "done" \in {child[a].saw, receiptFile[a], derivedResult[a]} => effects[a] = 1

OutcomeAgrees(a) ==
  /\ derivedResult[a] # "none" => action[a].state = derivedResult[a]
  /\ action[a].state \in {"done", "failed"} => derivedResult[a] = action[a].state
  /\ receiptFile[a] # "none" /\ derivedResult[a] # "none" => receiptFile[a] = derivedResult[a]

Coherent(a) == Untouched(a) /\ ChildAlone(a) /\ Carried(a) /\ OutcomeAgrees(a)

Holders == {a \in Action : action[a].granted}
UsesCounted ==
  IF permission.state = "none" THEN Holders = {}
  ELSE Cardinality(Holders) + permission.left = Uses

EffectInv == ActionTypeOK /\ (\A a \in Action : Coherent(a)) /\ UsesCounted

USE DEF authority, records, At, Become, Working, NoChild

-----------------------------------------------------------------------------
(* The steps of one action: what it does to that action, and nothing else. *)

Visit(a) ==
  \/ ProposeAction(a) \/ DecideAction(a) \/ GrantPermission(a)
  \/ FlushReceipt(a) \/ ClaimAction(a) \/ RefuseClaim(a) \/ ReportJob(a)
  \/ StartAction(a) \/ RefuseStart(a) \/ ExecuteAction(a) \/ SaveReceipt(a)
  \/ FinishAction(a) \/ LoseChild(a) \/ LoseJobLease(a) \/ EndClaim(a)

\* A row is changed in its state and its marks, a child in its lease.
LEMMA ActionRowUpdates ==
  ASSUME action \in [Action -> ActionRow], NEW a \in Action,
         NEW s \in {"none", "proposed", "approved", "rejected", "running"} \cup Outcome,
         NEW g \in BOOLEAN, NEW l \in BOOLEAN, NEW b \in 0..MaxGuard
  PROVE  /\ [action EXCEPT ![a].bound = b, ![a].state = s] \in [Action -> ActionRow]
         /\ [action EXCEPT ![a].state = s, ![a].granted = g] \in [Action -> ActionRow]
         /\ [action EXCEPT ![a].state = s, ![a].granted = g, ![a].live = l] \in [Action -> ActionRow]
         /\ [action EXCEPT ![a].state = s, ![a].live = l] \in [Action -> ActionRow]
         /\ [action EXCEPT ![a].live = l] \in [Action -> ActionRow]
BY DEF ActionRow

LEMMA ChildUpdates ==
  ASSUME child \in [Action -> ChildState], NEW a \in Action,
         NEW at \in {"none", "start", "execute", "save", "finish"}, NEW saw \in Outcome \cup {"none"}
  PROVE  /\ [child EXCEPT ![a].leased = FALSE] \in [Action -> ChildState]
         /\ [child EXCEPT ![a] = [child[a] EXCEPT !.leased = FALSE]] \in [Action -> ChildState]
         /\ [child EXCEPT ![a] = [at |-> at, saw |-> saw, leased |-> FALSE]] \in [Action -> ChildState]
         /\ [child EXCEPT ![a] = [at |-> at, saw |-> saw, leased |-> TRUE]] \in [Action -> ChildState]
         /\ child[a].saw \in Outcome \cup {"none"}
BY DEF ChildState

LEMMA InitiallyCoherent == ActionInit => EffectInv
<1> SUFFICES ASSUME ActionInit PROVE EffectInv
  OBVIOUS
<1>1. ActionTypeOK
  <2>1. 0 \in 0..MaxGuard /\ 0 \in 0..Uses
    BY ActionAssumption
  <2>2. action \in [Action -> ActionRow] /\ permission \in PermissionRow /\ child \in [Action -> ChildState]
    BY <2>1 DEF ActionInit, ActionRow, PermissionRow, ChildState
  <2>3. /\ guardNow \in 0..MaxGuard /\ denyRule \in BOOLEAN /\ effects \in [Action -> Nat]
        /\ toolJob \in [Action -> ToolJobState]
        /\ derivedResult \in [Action -> Outcome \cup {"none"}]
        /\ receiptFile \in [Action -> Outcome \cup {"none"}]
    BY <2>1 DEF ActionInit, ToolJobState
  <2> QED
    BY <2>2, <2>3 DEF ActionTypeOK
<1>2. \A a \in Action : Coherent(a)
  BY DEF ActionInit, Coherent, Untouched, ChildAlone, Carried, OutcomeAgrees, Undecided, Before
<1>3. UsesCounted
  BY DEF ActionInit, UsesCounted, Holders
<1> QED
  BY <1>1, <1>2, <1>3 DEF EffectInv

\* A receipt that is published is an outcome, of a row that may have it.
LEMMA PublishTypes ==
  ASSUME ActionTypeOK, NEW a \in Action, NEW result \in Outcome, PublishReceipt(a, result)
  PROVE  /\ derivedResult' \in [Action -> Outcome \cup {"none"}]
         /\ action' \in [Action -> ActionRow]
         /\ toolJob' \in [Action -> ToolJobState]
<1>1. derivedResult' \in [Action -> Outcome \cup {"none"}]
  BY DEF ActionTypeOK, PublishReceipt
<1>2. action' \in [Action -> ActionRow]
  BY ActionRowUpdates DEF ActionTypeOK, PublishReceipt, Recovered
<1>3. toolJob' \in [Action -> ToolJobState]
  BY DEF ActionTypeOK, PublishReceipt, Settled, ToolJobState
<1> QED
  BY <1>1, <1>2, <1>3

LEMMA TypeStep ==
  ASSUME EffectInv, [ActionNext]_ActionVars
  PROVE  ActionTypeOK'
<1>t. ActionTypeOK /\ \A a \in Action : Coherent(a)
  BY DEF EffectInv
<1>o. "done" \in Outcome /\ "failed" \in Outcome /\ "ambiguous" \in Outcome
  BY DEF Outcome
<1> USE <1>t, <1>o DEF ActionTypeOK
<1>1. CASE SavePolicy \/ UNCHANGED ActionVars
  BY <1>1 DEF SavePolicy, ActionVars
<1>4. CASE ReviseGuard
  BY <1>4, ActionAssumption DEF ReviseGuard
<1>3. CASE EndPermission
  <2>1. permission' \in PermissionRow
    BY <1>3 DEF EndPermission, PermissionRow
  <2> QED
    BY <1>3, <2>1 DEF EndPermission
<1>2. ASSUME NEW a \in Action, Visit(a) PROVE ActionTypeOK'
  <2> USE <1>2
  <2>1. CASE ProposeAction(a)
    <3>1. action' \in [Action -> ActionRow]
      <4> PICK s \in {"approved", "proposed"} : action' = [action EXCEPT ![a].bound = guardNow, ![a].state = s]
        BY <2>1 DEF ProposeAction
      <4> QED
        BY ZenonT(60) DEF ActionRow
    <3> QED
      BY <2>1, <3>1 DEF ProposeAction, ToolJobState
  <2>2. CASE DecideAction(a)
    <3>1. action' \in [Action -> ActionRow]
      <4> PICK s \in {"approved", "rejected"} : action' = [action EXCEPT ![a].state = s, ![a].granted = FALSE]
        BY <2>2 DEF DecideAction
      <4> QED
        BY ZenonT(60) DEF ActionRow
    <3> QED
      BY <2>2, <3>1 DEF DecideAction
  <2>3. CASE GrantPermission(a)
    <3>1. permission' \in PermissionRow
      BY <2>3, ActionAssumption DEF GrantPermission, PermissionRow, ActionRow
    <3> QED
      BY <2>3, <3>1 DEF GrantPermission
  <2>4. CASE ReportJob(a)
    <3>1. Observed(a) \in ToolJobState
      BY DEF Observed, ToolJobState
    <3>2. child' \in [Action -> ChildState]
      BY <2>4, ChildUpdates DEF ReportJob
    <3> QED
      BY <2>4, <3>1, <3>2 DEF ReportJob
  <2>5. CASE EndClaim(a)
    <3>1. action' \in [Action -> ActionRow]
      BY <2>5, ActionRowUpdates DEF EndClaim
    <3> QED
      BY <2>5, <3>1 DEF EndClaim
  <2>6. CASE LoseJobLease(a) \/ LoseChild(a)
    <3>1. child' \in [Action -> ChildState]
      <4>1. CASE LoseChild(a)
        BY <4>1 DEF LoseChild, ChildState
      <4>2. CASE LoseJobLease(a)
        BY ZenonT(60), <4>2 DEF LoseJobLease, ChildState
      <4> QED
        BY <2>6, <4>1, <4>2
    <3> QED
      BY <2>6, <3>1 DEF LoseJobLease, LoseChild
  <2>7. CASE FlushReceipt(a)
    BY <2>7, PublishTypes DEF FlushReceipt
  <2>8. CASE ClaimAction(a)
    <3>1. action' \in [Action -> ActionRow]
      BY <2>8, ActionRowUpdates DEF ClaimAction
    <3>2. permission' \in PermissionRow
      <4>1. CASE action[a].state = "proposed"
        <5>1. permission.left > 0 /\ permission' = [permission EXCEPT !.left = @ - 1]
          BY <2>8, <4>1 DEF ClaimAction, Claimable, HasAuthority, UsablePermission
        <5> QED
          BY <5>1, ActionAssumption DEF PermissionRow
      <4>2. CASE action[a].state # "proposed"
        BY <2>8, <4>2 DEF ClaimAction
      <4> QED
        BY <4>1, <4>2
    <3>3. child' \in [Action -> ChildState]
      BY <2>8, ChildUpdates DEF ClaimAction
    <3> QED
      BY <2>8, <3>1, <3>2, <3>3 DEF ClaimAction
  <2>9. CASE RefuseClaim(a)
    <3>1. AfterRefusal(a) \in {"none", "proposed", "approved", "rejected", "running"} \cup Outcome
      BY DEF AfterRefusal, ActionRow
    <3>2. action' \in [Action -> ActionRow]
      BY <2>9, <3>1, ActionRowUpdates DEF RefuseClaim
    <3> QED
      BY <2>9, <3>2 DEF RefuseClaim
  <2>10. CASE StartAction(a) \/ RefuseStart(a)
    <3>1. child' \in [Action -> ChildState]
      <4>1. \A c \in ChildState : [child EXCEPT ![a] = c] \in [Action -> ChildState]
        OBVIOUS
      <4>2. \A saw \in Outcome \cup {"none"} : Working("execute", saw) \in ChildState /\ Working("save", saw) \in ChildState
        BY DEF ChildState
      <4>3. CASE StartAction(a)
        <5>1. Working("execute", "none") \in ChildState /\ Working("save", "ambiguous") \in ChildState
          BY <4>2
        <5> HIDE DEF Working
        <5>2. \/ child' = [child EXCEPT ![a] = Working("execute", "none")]
              \/ child' = [child EXCEPT ![a] = Working("save", "ambiguous")]
          BY <4>3 DEF StartAction
        <5> QED
          BY <4>1, <5>1, <5>2
      <4>4. CASE RefuseStart(a)
        BY <4>1, <4>2, <4>4 DEF RefuseStart
      <4> QED
        BY <2>10, <4>3, <4>4
    <3> QED
      BY <2>10, <3>1 DEF StartAction, RefuseStart
  <2>11. CASE ExecuteAction(a)
    <3>1. child' \in [Action -> ChildState]
      BY <2>11 DEF ExecuteAction, ChildState
    <3>2. effects' \in [Action -> Nat]
      BY <2>11 DEF ExecuteAction
    <3> QED
      BY <2>11, <3>1, <3>2 DEF ExecuteAction
  <2>12. CASE SaveReceipt(a)
    <3>1. child' \in [Action -> ChildState] /\ child[a].saw \in Outcome \cup {"none"}
      BY <2>12, ChildUpdates DEF SaveReceipt
    <3> QED
      BY <2>12, <3>1 DEF SaveReceipt
  <2>13. CASE FinishAction(a)
    <3>1. child[a].saw \in Outcome
      BY <2>13 DEF FinishAction, Coherent, ChildAlone
    <3>2. receiptFile' \in [Action -> Outcome \cup {"none"}]
      BY <2>13, <3>1 DEF FinishAction
    <3>3. child' \in [Action -> ChildState]
      BY <2>13, ChildUpdates DEF FinishAction
    <3> QED
      BY <2>13, <3>1, <3>2, <3>3, PublishTypes DEF FinishAction
  <2> QED
    BY <2>1, <2>2, <2>3, <2>4, <2>5, <2>6, <2>7, <2>8, <2>9, <2>10, <2>11, <2>12, <2>13 DEF Visit
<1> QED
  BY <1>1, <1>2, <1>3, <1>4 DEF ActionNext, Visit

\* The other actions are left as they are.
LEMMA OthersKept ==
  ASSUME ActionTypeOK, NEW a \in Action, Visit(a), NEW b \in Action, b # a
  PROVE  /\ action'[b] = action[b] /\ child'[b] = child[b] /\ effects'[b] = effects[b]
         /\ derivedResult'[b] = derivedResult[b] /\ receiptFile'[b] = receiptFile[b]
<1> USE DEF ActionTypeOK
<1>1. CASE ProposeAction(a) \/ DecideAction(a) \/ GrantPermission(a) \/ ClaimAction(a) \/ RefuseClaim(a)
  BY <1>1 DEF ProposeAction, DecideAction, GrantPermission, ClaimAction, RefuseClaim
<1>2. CASE FlushReceipt(a) \/ FinishAction(a)
  BY <1>2 DEF FlushReceipt, FinishAction, PublishReceipt, Recovered
<1>3. CASE ReportJob(a) \/ StartAction(a) \/ RefuseStart(a) \/ ExecuteAction(a) \/ SaveReceipt(a)
  BY <1>3 DEF ReportJob, StartAction, RefuseStart, ExecuteAction, SaveReceipt
<1>4. CASE LoseChild(a) \/ LoseJobLease(a) \/ EndClaim(a)
  BY <1>4 DEF LoseChild, LoseJobLease, EndClaim
<1> QED
  BY <1>1, <1>2, <1>3, <1>4 DEF Visit

\* One outcome reaches the row, and leaves it there.
LEMMA PublishCoherent ==
  ASSUME ActionTypeOK, NEW a \in Action, Coherent(a), NEW result \in Outcome, PublishReceipt(a, result)
  PROVE  /\ derivedResult'[a] = result /\ action'[a].state = result
         /\ action[a].state \in {"done", "failed"} => action'[a].state = action[a].state
<1>1. derivedResult'[a] = result
  BY DEF PublishReceipt, ActionTypeOK
<1>2. CASE action[a].state \in {"running", "ambiguous"}
  BY <1>1, <1>2 DEF PublishReceipt, Recovered, ActionTypeOK
<1>3. CASE action[a].state \in {"done", "failed"}
  BY <1>1, <1>3 DEF PublishReceipt, Recovered, Coherent, OutcomeAgrees
<1> QED
  BY <1>2, <1>3 DEF PublishReceipt

LEMMA VisitCoherent ==
  ASSUME ActionTypeOK, NEW a \in Action, Coherent(a), Visit(a)
  PROVE  Coherent(a)'
<1> USE DEF ActionTypeOK, ActionRow, ChildState, Coherent, Untouched, ChildAlone, Carried, OutcomeAgrees, Undecided, Before, Outcome
<1>1. CASE ProposeAction(a)
  BY <1>1 DEF ProposeAction
<1>2. CASE DecideAction(a) \/ GrantPermission(a)
  BY <1>2 DEF DecideAction, GrantPermission
<1>3. CASE FlushReceipt(a)
  <2>1. receiptFile[a] \in Outcome /\ PublishReceipt(a, receiptFile[a])
    BY <1>3 DEF FlushReceipt
  <2>2. derivedResult'[a] = receiptFile[a] /\ action'[a].state = receiptFile[a]
    BY <2>1, PublishCoherent
  <2>3. receiptFile'[a] = "none" /\ child' = child /\ effects' = effects /\ ~At(a, "finish")
    BY <1>3 DEF FlushReceipt, SomeoneFinishes
  <2> QED
    BY <2>1, <2>2, <2>3
<1>4. CASE ClaimAction(a)
  <2>1. action[a].state \in Undecided
    BY <1>4 DEF ClaimAction, Claimable, HasAuthority
  <2> QED
    BY <1>4, <2>1 DEF ClaimAction
<1>5. CASE RefuseClaim(a)
  <2>1. /\ action'[a].state = AfterRefusal(a) /\ action'[a].granted = action[a].granted
        /\ UNCHANGED <<child, effects, derivedResult, receiptFile>>
    BY <1>5 DEF RefuseClaim
  <2> QED
    BY <2>1 DEF AfterRefusal
<1>6. CASE ReportJob(a) \/ LoseChild(a) \/ LoseJobLease(a) \/ EndClaim(a)
  BY <1>6 DEF ReportJob, LoseChild, LoseJobLease, EndClaim
<1>7. CASE StartAction(a)
  BY <1>7 DEF StartAction
<1>8. CASE RefuseStart(a)
  BY <1>8 DEF RefuseStart
<1>9. CASE ExecuteAction(a)
  <2> PICK carried \in {0, 1}, result \in Outcome :
        /\ result = "done" => carried = 1
        /\ effects' = [effects EXCEPT ![a] = @ + carried]
        /\ Become(a, Working("save", result))
    BY <1>9 DEF ExecuteAction
  <2>1. /\ effects'[a] = carried /\ child'[a] = Working("save", result)
        /\ UNCHANGED <<action, derivedResult, receiptFile>>
    BY <1>9 DEF ExecuteAction
  <2>2. At(a, "execute") /\ derivedResult[a] = "none" /\ receiptFile[a] = "none"
    BY <1>9 DEF ExecuteAction
  <2> QED
    BY <2>1, <2>2
<1>10. CASE SaveReceipt(a)
  BY <1>10 DEF SaveReceipt
<1>11. CASE FinishAction(a)
  <2>1. child[a].saw \in Outcome /\ PublishReceipt(a, child[a].saw)
    BY <1>11 DEF FinishAction
  <2>2. derivedResult'[a] = child[a].saw /\ action'[a].state = child[a].saw
    BY <2>1, PublishCoherent
  <2>3. receiptFile'[a] \in {"none", child[a].saw} /\ child'[a] = NoChild /\ effects' = effects
    BY <1>11 DEF FinishAction
  <2> QED
    BY <2>1, <2>2, <2>3
<1> QED
  BY <1>1, <1>2, <1>3, <1>4, <1>5, <1>6, <1>7, <1>8, <1>9, <1>10, <1>11 DEF Visit

LEMMA CoherentStep ==
  ASSUME EffectInv, [ActionNext]_ActionVars
  PROVE  \A b \in Action : Coherent(b)'
<1> SUFFICES ASSUME NEW b \in Action PROVE Coherent(b)'
  OBVIOUS
<1>0. ActionTypeOK /\ Coherent(b)
  BY DEF EffectInv
<1> USE DEF Coherent, Untouched, ChildAlone, Carried, OutcomeAgrees
<1>1. CASE EndPermission \/ SavePolicy \/ ReviseGuard \/ UNCHANGED ActionVars
  BY <1>0, <1>1 DEF EndPermission, SavePolicy, ReviseGuard, ActionVars
<1>2. ASSUME NEW a \in Action, Visit(a) PROVE Coherent(b)'
  <2>1. CASE a = b
    BY <1>0, <1>2, <2>1, VisitCoherent
  <2>2. CASE a # b
    BY <1>0, <1>2, <2>2, OthersKept
  <2> QED
    BY <2>1, <2>2
<1> QED
  BY <1>1, <1>2 DEF ActionNext, Visit

-----------------------------------------------------------------------------
(* The uses of the permission.                                             *)

\* Only a claim under the permission makes a holder, and it takes a use.
LEMMA HoldersStep ==
  ASSUME ActionTypeOK, NEW a \in Action, Coherent(a), Visit(a)
  PROVE  \/ Holders' = Holders /\ UNCHANGED permission
         \/ permission.state = "none" /\ permission'.state = "live" /\ permission'.left = Uses /\ Holders' = Holders
         \/ /\ a \notin Holders /\ Holders' = Holders \cup {a} /\ permission.state = "live"
            /\ permission' = [permission EXCEPT !.left = @ - 1]
<1> USE DEF ActionTypeOK, ActionRow, PermissionRow, Holders
<1>1. CASE ClaimAction(a)
  <2>1. action[a].state \in Undecided /\ ~action[a].granted
    BY <1>1 DEF ClaimAction, Claimable, HasAuthority, Coherent, Untouched, Undecided
  <2>2. CASE action[a].state = "proposed"
    BY <1>1, <2>1, <2>2 DEF ClaimAction, Claimable, HasAuthority, UsablePermission, PermissionValid
  <2>3. CASE action[a].state # "proposed"
    BY <1>1, <2>1, <2>3 DEF ClaimAction
  <2> QED
    BY <2>2, <2>3
<1>2. CASE DecideAction(a)
  <2>1. ~action[a].granted
    BY <1>2 DEF DecideAction, Coherent, Untouched, Undecided
  <2> QED
    BY <1>2, <2>1 DEF DecideAction
<1>3. CASE ProposeAction(a) \/ RefuseClaim(a) \/ EndClaim(a)
  <2>1. \A b \in Action : action'[b].granted = action[b].granted
    <3>1. CASE ProposeAction(a)
      BY <3>1 DEF ProposeAction
    <3>2. CASE RefuseClaim(a) \/ EndClaim(a)
      BY <3>2 DEF RefuseClaim, EndClaim
    <3> QED
      BY <1>3, <3>1, <3>2
  <2> QED
    BY <1>3, <2>1 DEF ProposeAction, RefuseClaim, EndClaim
<1>4. CASE FlushReceipt(a) \/ FinishAction(a)
  <2>1. \A b \in Action : action'[b].granted = action[b].granted
    BY <1>4 DEF FlushReceipt, FinishAction, PublishReceipt, Recovered
  <2> QED
    BY <1>4, <2>1 DEF FlushReceipt, FinishAction
<1>5. CASE ReportJob(a) \/ StartAction(a) \/ RefuseStart(a) \/ ExecuteAction(a) \/ SaveReceipt(a) \/ LoseChild(a) \/ LoseJobLease(a)
  BY <1>5 DEF ReportJob, StartAction, RefuseStart, ExecuteAction, SaveReceipt, LoseChild, LoseJobLease
<1>6. CASE GrantPermission(a)
  BY <1>6 DEF GrantPermission
<1> QED
  BY <1>1, <1>2, <1>3, <1>4, <1>5, <1>6 DEF Visit

LEMMA UsesStep ==
  ASSUME EffectInv, [ActionNext]_ActionVars
  PROVE  UsesCounted'
<1>0. ActionTypeOK /\ UsesCounted /\ \A a \in Action : Coherent(a)
  BY DEF EffectInv
<1>f. IsFiniteSet(Holders) /\ Cardinality(Holders) \in Nat /\ Uses \in Nat
  BY ActionAssumption, FS_Subset, FS_CardinalityType DEF Holders
<1>1. CASE EndPermission \/ SavePolicy \/ ReviseGuard \/ UNCHANGED ActionVars
  BY <1>0, <1>1 DEF EndPermission, SavePolicy, ReviseGuard, ActionVars, UsesCounted, Holders, ActionTypeOK, PermissionRow
<1>2. ASSUME NEW a \in Action, Visit(a) PROVE UsesCounted'
  <2>1. CASE Holders' = Holders /\ UNCHANGED permission
    BY <1>0, <2>1 DEF UsesCounted
  <2>2. CASE permission.state = "none" /\ permission'.state = "live" /\ permission'.left = Uses /\ Holders' = Holders
    <3>1. Holders' = {}
      BY <1>0, <2>2 DEF UsesCounted
    <3> QED
      BY <2>2, <3>1, <1>f, FS_EmptySet DEF UsesCounted
  <2>3. CASE /\ a \notin Holders /\ Holders' = Holders \cup {a} /\ permission.state = "live"
             /\ permission' = [permission EXCEPT !.left = @ - 1]
    <3>1. Cardinality(Holders') = Cardinality(Holders) + 1
      BY <2>3, <1>f, FS_AddElement
    <3>2. permission'.left = permission.left - 1 /\ permission'.state = "live" /\ permission.left \in Nat
      BY <2>3, <1>0, <1>f DEF ActionTypeOK, PermissionRow
    <3> QED
      BY <1>0, <1>f, <2>3, <3>1, <3>2 DEF UsesCounted
  <2> QED
    BY <1>0, <1>2, <2>1, <2>2, <2>3, HoldersStep
<1> QED
  BY <1>1, <1>2 DEF ActionNext, Visit

-----------------------------------------------------------------------------
(* The theorems.                                                           *)

LEMMA EffectInvariant == ActionSpec => []EffectInv
<1>1. EffectInv /\ [ActionNext]_ActionVars => EffectInv'
  BY TypeStep, CoherentStep, UsesStep DEF EffectInv
<1> QED
  BY InitiallyCoherent, <1>1, PTL DEF ActionSpec

\* Every reachable state of the controlled actions is well typed: in particular no
\* permission is used more often than it was granted for.
THEOREM ActionsTyped == ActionSpec => []ActionTypeOK
<1>1. EffectInv => ActionTypeOK
  BY DEF EffectInv
<1> QED
  BY EffectInvariant, <1>1, PTL

\* Each operation is carried out at most once, after its row was claimed, and what a row
\* calls done was carried out; holders and remaining uses of a permission add up to it.
THEOREM EffectsAuthorized == ActionSpec => []EffectHasAuthority
<1>1. EffectInv => EffectHasAuthority
  <2> SUFFICES ASSUME EffectInv PROVE EffectHasAuthority
    OBVIOUS
  <2>1. ASSUME NEW a \in Action
        PROVE /\ effects[a] <= 1
              /\ effects[a] = 1 => action[a].state \in {"running"} \cup Outcome
              /\ action[a].state = "done" => effects[a] = 1
    <3>1. Coherent(a) /\ ActionTypeOK
      BY DEF EffectInv
    <3> QED
      BY <3>1 DEF Coherent, Untouched, Carried, OutcomeAgrees, ActionTypeOK, ActionRow, Undecided
  <2>2. permission.state # "none" => Cardinality({a \in Action : action[a].granted}) + permission.left = Uses
    BY DEF EffectInv, UsesCounted, Holders
  <2> QED
    BY <2>1, <2>2 DEF EffectHasAuthority
<1> QED
  BY EffectInvariant, <1>1, PTL

\* A settled result is final, whatever is recovered, flushed or published later.
THEOREM ResultsFinal == ActionSpec => [][SettlementIsFinal]_ActionVars
<1>1. EffectInv /\ [ActionNext]_ActionVars => [SettlementIsFinal]_ActionVars
  <2> SUFFICES ASSUME EffectInv, ActionNext, NEW b \in Action, action[b].state \in {"done", "failed"}
               PROVE  action'[b].state = action[b].state /\ derivedResult'[b] = action[b].state
    BY DEF SettlementIsFinal
  <2>0. ActionTypeOK /\ Coherent(b) /\ derivedResult[b] = action[b].state
    BY DEF EffectInv, Coherent, OutcomeAgrees
  <2>1. CASE EndPermission \/ SavePolicy \/ ReviseGuard
    BY <2>0, <2>1 DEF EndPermission, SavePolicy, ReviseGuard
  <2>2. ASSUME NEW a \in Action, Visit(a), a # b
        PROVE action'[b].state = action[b].state /\ derivedResult'[b] = action[b].state
    BY <2>0, <2>2, OthersKept
  <2>3. ASSUME Visit(b)
        PROVE action'[b].state = action[b].state /\ derivedResult'[b] = action[b].state
    <3> USE DEF ActionTypeOK
    <3>1. CASE FlushReceipt(b)
      <4>1. receiptFile[b] \in Outcome /\ PublishReceipt(b, receiptFile[b])
        BY <2>0, <3>1 DEF FlushReceipt
      <4> QED
        BY <2>0, <4>1, PublishCoherent
    <3>2. CASE FinishAction(b)
      <4>1. child[b].saw \in Outcome /\ PublishReceipt(b, child[b].saw)
        BY <2>0, <3>2 DEF FinishAction, Coherent, ChildAlone
      <4> QED
        BY <2>0, <4>1, PublishCoherent
    <3>3. CASE RefuseClaim(b)
      BY <2>0, <3>3 DEF RefuseClaim, AfterRefusal
    <3>4. CASE ProposeAction(b) \/ DecideAction(b) \/ ClaimAction(b) \/ EndClaim(b)
      BY <2>0, <3>4 DEF ProposeAction, DecideAction, ClaimAction, Claimable, HasAuthority, EndClaim
    <3>5. CASE GrantPermission(b) \/ ReportJob(b) \/ StartAction(b) \/ RefuseStart(b) \/ ExecuteAction(b)
               \/ SaveReceipt(b) \/ LoseChild(b) \/ LoseJobLease(b)
      BY <2>0, <3>5 DEF GrantPermission, ReportJob, StartAction, RefuseStart, ExecuteAction, SaveReceipt, LoseChild, LoseJobLease
    <3> QED
      BY <2>3, <3>1, <3>2, <3>3, <3>4, <3>5 DEF Visit
  <2> QED
    BY <2>1, <2>2, <2>3 DEF ActionNext, Visit
<1> QED
  BY EffectInvariant, <1>1, PTL DEF ActionSpec

----------------------------------------------------------------------------
(***************************************************************************)
(* Proof that the row of an import, its workflows, its archive and the     *)
(* file of the dashboard tell one story, for any number of workers,        *)
(* messages and generations.                                               *)
(*                                                                         *)
(* Only the workflow of the present generation can be open (FlowsBegun and *)
(* RowAndFlowAgree), and whoever holds its lease holds the row's as well   *)
(* (LeasesTogether): a worker that settles one settles the other.  What a  *)
(* worker counts is in the archive already (BatchIsReal), so that the      *)
(* checkpoint it commits is.                                               *)
(***************************************************************************)

SavedJob == [state : {"uploading", "ready", "running", "failed", "cancelled"},
             mapping : Mapping \cup {NoMapping}, workflow : {"none", "pending", "inngest"}]
Confirmation == [mapping : Mapping, resume : BOOLEAN]
Lease == [holder : Worker \cup {NoWorker}, live : BOOLEAN]
RowState == {"none", "queued", "running"} \cup ImportClosed
Row == [state : RowState, mapping : Mapping \cup {NoMapping}, completed : 0..Total,
        learned : 0..Total, generation : 0..MaxGeneration, lease : Lease]
Flow == [state : RowState \cup {"waiting", "retryable_failed"}, lease : Lease]
Batch == [at : {"idle", "running", "writing", "wrote"}, generation : 0..MaxGeneration,
          completed : 0..Total, learned : 0..Total]

ImportTypeOK ==
  /\ saved \in SavedJob /\ starting \in {"no", "asking", "confirmed", "refused"}
  /\ confirming \subseteq Confirmation
  /\ importRow \in Row /\ importFlow \in [Generation -> Flow]
  /\ hostBatch \in [Worker -> Batch]
  /\ archived \subseteq ImportMessage /\ learnable \subseteq ImportMessage

\* A row, its generation and its choice begin together.
RowBegun ==
  IF Exists THEN importRow.generation > 0 /\ importRow.mapping \in Mapping
  ELSE importRow.generation = 0 /\ importRow.completed = 0 /\ importRow.learned = 0

\* Exactly the generations up to the present one have a workflow.
FlowsBegun ==
  \A g \in Generation :
    IF g <= importRow.generation THEN importFlow[g].state # "none" ELSE importFlow[g] = NoFlow

\* Whoever runs the present workflow runs the row.
LeasesTogether ==
  \A g \in Generation, w \in Worker :
    importFlow[g].state = "running" /\ importFlow[g].lease.holder = w => HoldsRow(w)

\* What a worker has counted was written, and what it is about to write is due.
BatchIsReal ==
  \A w \in Worker :
    LET b == hostBatch[w] IN
    b.at # "idle" =>
      /\ b.generation \in 1..importRow.generation
      /\ 1..b.completed \subseteq archived /\ 1..b.learned \subseteq learnable
      /\ b.at = "writing" /\ b.completed = Total =>
           importRow.mapping \in Consented /\ b.learned < Total

ImportInv ==
  /\ ImportTypeOK /\ RowBegun /\ FlowsBegun /\ RowAndFlowAgree /\ LeasesTogether
  /\ ConfirmedAsSaved /\ BatchIsReal /\ CheckpointIsReal

USE DEF dashboardVars, archiveVars

LEMMA Constants ==
  /\ Total \in Nat \ {0} /\ MaxGeneration \in Nat \ {0} /\ NoWorker \notin Worker
  /\ NoMapping \notin Mapping /\ Consented \subseteq Mapping /\ 0 \in 0..Total /\ 0 \in 0..MaxGeneration
  /\ NoLease \in Lease /\ NoFlow \in Flow /\ NoBatch \in Batch
<1>1. /\ Total \in Nat \ {0} /\ MaxGeneration \in Nat \ {0} /\ NoWorker \notin Worker
      /\ NoMapping \notin Mapping /\ Consented \subseteq Mapping /\ 0 \in 0..Total /\ 0 \in 0..MaxGeneration
  BY ImportAssumption
<1>2. NoLease \in Lease
  BY DEF NoLease, Lease
<1> QED
  BY <1>1, <1>2 DEF NoFlow, Flow, NoBatch, Batch, RowState

LEMMA InitiallyTold == ImportInit => ImportInv
<1> SUFFICES ASSUME ImportInit PROVE ImportInv
  OBVIOUS
<1> USE Constants DEF ImportInit
<1>1. importRow = NoImportRow /\ ~Exists /\ NoImportRow \in Row
  BY DEF NoImportRow, Row, RowState, Exists
<1>2. ImportTypeOK
  BY <1>1 DEF ImportTypeOK, SavedJob
<1>3. RowBegun /\ FlowsBegun /\ RowAndFlowAgree
  BY <1>1 DEF RowBegun, FlowsBegun, RowAndFlowAgree, NoImportRow, Generation
<1>4. LeasesTogether /\ BatchIsReal
  BY DEF LeasesTogether, BatchIsReal, NoFlow, NoBatch
<1>5. ConfirmedAsSaved /\ CheckpointIsReal
  BY <1>1 DEF ConfirmedAsSaved, CheckpointIsReal, NoImportRow
<1> QED
  BY <1>2, <1>3, <1>4, <1>5 DEF ImportInv

-----------------------------------------------------------------------------
(* Open workflows.                                                         *)

\* The only open workflow is the present one, and then the import is open too.
LEMMA OpenIsPresent ==
  ASSUME ImportInv, NEW g \in Generation, FlowOpen(g)
  PROVE  g = importRow.generation /\ Exists /\ importRow.state \in {"queued", "running"}
<1>1. g <= importRow.generation
  BY DEF ImportInv, FlowsBegun, FlowOpen, NoFlow
<1>2. Exists /\ importRow.generation \in Nat
  BY <1>1, Constants DEF ImportInv, RowBegun, ImportTypeOK, Row, Generation
<1>3. g = importRow.generation
  BY <1>1, <1>2, Constants DEF ImportInv, RowAndFlowAgree, FlowOpen, ImportClosed, Generation
<1>4. importRow.state \notin ImportClosed
  BY <1>2, <1>3 DEF ImportInv, RowAndFlowAgree, FlowOpen
<1> QED
  BY <1>2, <1>3, <1>4 DEF ImportInv, ImportTypeOK, Row, RowState, Exists

\* Who holds the lease of a running workflow holds the present one, and the row.
LEMMA HolderIsPresent ==
  ASSUME ImportInv, NEW w \in Worker, hostBatch[w].at # "idle", HoldsFlow(w)
  PROVE  /\ hostBatch[w].generation \in Generation /\ hostBatch[w].generation = importRow.generation
         /\ HoldsRow(w) /\ Exists /\ importRow.state = "running"
<1>1. hostBatch[w].generation \in Generation
  BY Constants DEF ImportInv, BatchIsReal, ImportTypeOK, Row, Generation
<1>2. FlowOpen(hostBatch[w].generation)
  BY DEF HoldsFlow, FlowOpen, ImportClosed
<1>3. HoldsRow(w)
  BY <1>1 DEF ImportInv, LeasesTogether, HoldsFlow
<1> QED
  BY <1>1, <1>2, <1>3, OpenIsPresent DEF HoldsRow

-----------------------------------------------------------------------------
(* The types.                                                              *)

LEMMA RowSettles ==
  ASSUME importRow \in Row, NEW st \in RowState, NEW l \in Lease
  PROVE  [importRow EXCEPT !.state = st, !.lease = l] \in Row
BY DEF Row

LEMMA RowUpdates ==
  ASSUME importRow \in Row, NEW st \in RowState, NEW l \in Lease, NEW live \in BOOLEAN,
         NEW g \in 0..MaxGeneration, NEW c \in 0..Total, NEW n \in 0..Total
  PROVE  /\ [importRow EXCEPT !.state = st, !.generation = g, !.lease = l] \in Row
         /\ [importRow EXCEPT !.completed = c, !.learned = n, !.state = st, !.lease = l] \in Row
         /\ [importRow EXCEPT !.lease.live = live] \in Row
BY DEF Row, Lease

LEMMA FlowUpdates ==
  ASSUME importFlow \in [Generation -> Flow], NEW g \in Generation, NEW f \in Flow,
         NEW live \in BOOLEAN
  PROVE  /\ [importFlow EXCEPT ![g] = f] \in [Generation -> Flow]
         /\ [importFlow EXCEPT ![g].state = "queued"] \in [Generation -> Flow]
         /\ [importFlow EXCEPT ![g].lease = NoLease] \in [Generation -> Flow]
         /\ [importFlow EXCEPT ![g].lease.live = live] \in [Generation -> Flow]
<1>1. NoLease \in Lease
  BY Constants
<1> QED
  BY <1>1 DEF Flow, Lease, RowState

\* The leases and settlements that a worker or the owner writes.
LEMMA FlowWords ==
  ASSUME NEW w \in Worker, NEW st \in RowState \cup {"waiting", "retryable_failed"}
  PROVE  /\ LeaseOf(w) \in Lease /\ [state |-> st, lease |-> NoLease] \in Flow
         /\ [state |-> "running", lease |-> LeaseOf(w)] \in Flow
<1>1. NoLease \in Lease
  BY Constants
<1> QED
  BY <1>1 DEF LeaseOf, Lease, Flow, RowState

LEMMA DashboardTypes ==
  ASSUME ImportTypeOK,
         \/ Preview \/ StartGivesUp \/ StartEnds \/ \E m \in Mapping : StartImport(m)
         \/ \E c \in confirming : RefuseImport(c)
  PROVE  ImportTypeOK'
<1>1. CASE Preview
  BY <1>1 DEF Preview, ImportTypeOK, SavedJob
<1>2. CASE StartGivesUp
  BY <1>2 DEF StartGivesUp, ImportTypeOK
<1>3. CASE StartEnds
  BY <1>3 DEF StartEnds, ImportTypeOK, SavedJob
<1>4. ASSUME NEW m \in Mapping, StartImport(m) PROVE ImportTypeOK'
  <2>1. saved' \in SavedJob
    BY <1>4 DEF StartImport, SavedJob
  <2>2. confirming' \subseteq Confirmation
    <3>1. \A resume \in BOOLEAN : [mapping |-> m, resume |-> resume] \in Confirmation
      BY DEF Confirmation
    <3>2. confirming' = confirming \cup {[mapping |-> m, resume |-> View # "ready"]}
      BY <1>4 DEF StartImport
    <3> QED
      BY <3>1, <3>2 DEF ImportTypeOK
  <2> QED
    BY <1>4, <2>1, <2>2 DEF StartImport, ImportTypeOK
<1>5. ASSUME NEW c \in confirming, RefuseImport(c) PROVE ImportTypeOK'
  BY <1>5 DEF RefuseImport, Answered, ImportTypeOK
<1> QED
  BY <1>1, <1>2, <1>3, <1>4, <1>5

\* Any action that leaves the dashboard alone needs only its rows typed.
LEMMA ConfirmTypes ==
  ASSUME ImportInv, NEW c \in confirming, ConfirmImport(c)
  PROVE  ImportTypeOK'
<1>t. ImportTypeOK /\ c \in Confirmation
  BY DEF ImportInv, ImportTypeOK
<1>1. importRow' \in Row
  <2>1. importRow.generation + 1 <= MaxGeneration => importRow.generation + 1 \in 0..MaxGeneration
    BY <1>t, Constants DEF ImportTypeOK, Row
  <2>2. CASE ~Exists
    <3>1. importRow' = [NoImportRow EXCEPT !.state = "queued", !.mapping = c.mapping, !.generation = 1]
      BY <2>2 DEF ConfirmImport
    <3>2. c.mapping \in Mapping /\ 1 \in 0..MaxGeneration /\ "queued" \in RowState
      BY <1>t, Constants DEF Confirmation, RowState
    <3> QED
      BY <3>1, <3>2, Constants DEF NoImportRow, Row
  <2>3. CASE Exists /\ importRow.state \in {"cancelled", "failed"}
    <3>1. importRow' = [importRow EXCEPT !.state = "queued", !.generation = importRow.generation + 1, !.lease = NoLease]
          /\ importRow.generation + 1 <= MaxGeneration
      BY <2>3 DEF ConfirmImport, NextGeneration
    <3> QED
      BY <1>t, <2>1, <3>1, Constants, RowUpdates DEF ImportTypeOK, RowState
  <2>4. CASE Exists /\ importRow.state \notin {"cancelled", "failed"}
    BY <1>t, <2>4 DEF ConfirmImport, ImportTypeOK
  <2> QED
    BY <2>2, <2>3, <2>4
<1>2. importFlow' \in [Generation -> Flow]
  <2>1. NextGeneration \in Nat /\ NextGeneration > 0 /\ importRow.generation \in Nat /\ (Exists => importRow.generation > 0)
    BY <1>t DEF ImportTypeOK, Row, NextGeneration, ImportInv, RowBegun
  <2>2. \/ UNCHANGED importFlow
        \/ \E g \in Generation : importFlow' = [importFlow EXCEPT ![g].state = "queued"]
    BY <2>1 DEF ConfirmImport, RequestWorkflow, Generation
  <2>3. ASSUME NEW g \in Generation, importFlow' = [importFlow EXCEPT ![g].state = "queued"]
        PROVE  importFlow' \in [Generation -> Flow]
    BY <1>t, <2>3, FlowUpdates, Constants DEF ImportTypeOK
  <2> QED
    BY <1>t, <2>2, <2>3 DEF ImportTypeOK
<1>3. confirming' \subseteq Confirmation /\ starting' \in {"no", "asking", "confirmed", "refused"}
  BY <1>t DEF ConfirmImport, Answered, ImportTypeOK
<1> QED
  BY <1>t, <1>1, <1>2, <1>3 DEF ConfirmImport, ImportTypeOK

LEMMA OwnerTypes ==
  ASSUME ImportInv, CancelImport \/ LeaseRunsOut \/ \E g \in Generation : OwnerCancels(g) \/ OwnerRetries(g)
  PROVE  ImportTypeOK'
<1>t. ImportTypeOK /\ NoLease \in Lease
  BY Constants DEF ImportInv
<1>c. "cancelled" \in RowState /\ "queued" \in RowState
  BY DEF RowState, ImportClosed
<1>f. [state |-> "cancelled", lease |-> NoLease] \in Flow /\ [state |-> "queued", lease |-> NoLease] \in Flow
  BY <1>t, <1>c DEF Flow
<1>1. CASE CancelImport
  <2>1. importRow' \in Row
    BY <1>1, <1>t, <1>c, RowSettles DEF CancelImport, ImportTypeOK
  <2>2. importFlow' \in [Generation -> Flow]
    BY <1>1, <1>t, <1>f DEF CancelImport, ImportTypeOK
  <2> QED
    BY <1>1, <1>t, <2>1, <2>2 DEF CancelImport, ImportTypeOK
<1>2. CASE LeaseRunsOut
  <2>1. importRow' \in Row
    BY <1>2, <1>t, <1>c, Constants, RowUpdates DEF LeaseRunsOut, ImportTypeOK
  <2>2. importFlow' \in [Generation -> Flow]
    BY <1>2, <1>t, <1>f, FlowUpdates DEF LeaseRunsOut, ImportTypeOK
  <2> QED
    BY <1>2, <1>t, <2>1, <2>2 DEF LeaseRunsOut, ImportTypeOK
<1>3. ASSUME NEW g \in Generation, OwnerCancels(g) \/ OwnerRetries(g) PROVE ImportTypeOK'
  <2>1. importRow' \in Row
    <3>1. importRow' \in {importRow, [importRow EXCEPT !.state = "cancelled", !.lease = NoLease]}
      BY <1>3 DEF OwnerCancels, OwnerRetries
    <3> QED
      BY <1>t, <1>c, <3>1 DEF ImportTypeOK, Row
  <2>2. importFlow' \in [Generation -> Flow]
    BY <1>3, <1>t, <1>f, FlowUpdates DEF OwnerCancels, OwnerRetries, ImportTypeOK
  <2> QED
    BY <1>3, <1>t, <2>1, <2>2 DEF OwnerCancels, OwnerRetries, ImportTypeOK
<1> QED
  BY <1>1, <1>2, <1>3

WorkerStep(w) ==
  \/ \E g \in Generation : ClaimHostWorkflow(w, g)
  \/ RenewHostWorkflow(w) \/ EnterImportWrite(w) \/ WriteOne(w) \/ WorkerStops(w)
  \/ FinishBatch(w) \/ FailBatch(w)

LEMMA WorkerTypes ==
  ASSUME ImportInv, NEW w \in Worker, WorkerStep(w)
  PROVE  ImportTypeOK'
<1>t. ImportTypeOK /\ NoLease \in Lease /\ NoBatch \in Batch
  BY Constants DEF ImportInv
<1>c. {"failed", "queued", "running", "completed"} \subseteq RowState
  BY DEF RowState, ImportClosed
<1>b. hostBatch[w] \in Batch
  BY <1>t DEF ImportTypeOK
<1>1. ASSUME NEW g \in Generation, ClaimHostWorkflow(w, g) PROVE ImportTypeOK'
  <2>1. importRow' \in Row
    <3>1. LeaseOf(w) \in Lease
      BY DEF LeaseOf, Lease
    <3> QED
      <4>1. importRow' \in {importRow, [importRow EXCEPT !.state = "running", !.lease = LeaseOf(w)]}
        BY <1>1 DEF ClaimHostWorkflow
      <4> QED
        BY <1>t, <1>c, <3>1, <4>1 DEF ImportTypeOK, Row
  <2>2. importFlow' \in [Generation -> Flow]
    BY <1>1, <1>t, <1>c, FlowUpdates, FlowWords DEF ClaimHostWorkflow, ImportTypeOK
  <2>3. hostBatch' \in [Worker -> Batch]
    <3>1. [at |-> "running", generation |-> g, completed |-> importRow.completed, learned |-> importRow.learned] \in Batch
      BY <1>t, Constants DEF ImportTypeOK, Row, Batch, Generation
    <3> QED
      BY <1>1, <1>t, <3>1 DEF ClaimHostWorkflow, ImportTypeOK
  <2> QED
    BY <1>1, <1>t, <2>1, <2>2, <2>3 DEF ClaimHostWorkflow, ImportTypeOK
<1>2. CASE RenewHostWorkflow(w)
  <2>1. importRow' \in Row
    BY <1>2, <1>t, <1>c, Constants, RowUpdates DEF RenewHostWorkflow, ImportTypeOK
  <2>2. hostBatch[w].generation \in Generation
    BY <1>2, Constants DEF RenewHostWorkflow, ImportInv, BatchIsReal, ImportTypeOK, Row, Generation
  <2>3. importFlow' \in [Generation -> Flow]
    BY <1>2, <1>t, <2>2, FlowUpdates, Constants DEF RenewHostWorkflow, ImportTypeOK
  <2> QED
    BY <1>2, <1>t, <2>1, <2>3 DEF RenewHostWorkflow, ImportTypeOK
<1>3. CASE EnterImportWrite(w) \/ WorkerStops(w)
  <2>1. hostBatch' \in [Worker -> Batch]
    BY <1>3, <1>t DEF EnterImportWrite, WorkerStops, ImportTypeOK, Batch
  <2> QED
    BY <1>3, <1>t, <2>1 DEF EnterImportWrite, WorkerStops, ImportTypeOK
<1>4. CASE WriteOne(w)
  <2>1. CASE hostBatch[w].completed < Total
    <3>1. hostBatch[w].completed + 1 \in 0..Total /\ hostBatch[w].completed + 1 \in ImportMessage
      BY <1>b, <2>1, Constants DEF Batch, ImportMessage
    <3>2. hostBatch' = [hostBatch EXCEPT ![w].at = "wrote", ![w].completed = @ + 1]
      BY <1>4, <2>1 DEF WriteOne
    <3>3. hostBatch' \in [Worker -> Batch]
      BY <1>t, <3>1, <3>2 DEF ImportTypeOK, Batch
    <3> QED
      BY <1>4, <1>t, <2>1, <3>1, <3>3 DEF WriteOne, ImportTypeOK
  <2>2. CASE ~(hostBatch[w].completed < Total)
    <3>0. hostBatch[w].learned < Total
      BY <1>4, <1>b, <2>2, Constants DEF WriteOne, ImportInv, BatchIsReal, Batch
    <3>1. hostBatch[w].learned + 1 \in 0..Total /\ hostBatch[w].learned + 1 \in ImportMessage
      BY <1>b, <3>0, Constants DEF Batch, ImportMessage
    <3>2. hostBatch' = [hostBatch EXCEPT ![w].at = "wrote", ![w].learned = @ + 1]
      BY <1>4, <2>2 DEF WriteOne
    <3>3. hostBatch' \in [Worker -> Batch]
      BY <1>t, <3>1, <3>2 DEF ImportTypeOK, Batch
    <3> QED
      BY <1>4, <1>t, <2>2, <3>1, <3>3 DEF WriteOne, ImportTypeOK
  <2> QED
    BY <2>1, <2>2
<1>5. CASE FinishBatch(w)
  <2>1. hostBatch[w].generation \in Generation
    BY <1>5, HolderIsPresent DEF FinishBatch
  <2>2. importRow' \in Row
    BY <1>5, <1>t, <1>c, <1>b, Constants, RowUpdates DEF FinishBatch, ImportTypeOK, Batch
  <2>3. [state |-> IF Done(hostBatch[w]) THEN "completed" ELSE "waiting", lease |-> NoLease] \in Flow
    BY <1>t, <1>c DEF Flow
  <2>4. importFlow' \in [Generation -> Flow]
    BY <1>5, <1>t, <2>1, <2>3, FlowUpdates DEF FinishBatch, ImportTypeOK
  <2> QED
    BY <1>5, <1>t, <2>2, <2>4 DEF FinishBatch, ImportTypeOK
<1>6. CASE FailBatch(w)
  <2>1. hostBatch[w].generation \in Generation
    BY <1>6, HolderIsPresent DEF FailBatch
  <2>2. importRow' \in Row
    <3>1. importRow' \in {importRow, [importRow EXCEPT !.state = "failed", !.lease = NoLease],
                         [importRow EXCEPT !.state = "queued", !.lease = NoLease]}
      BY <1>6 DEF FailBatch, SettleBatch
    <3> QED
      BY <1>t, <1>c, <3>1 DEF ImportTypeOK, Row
  <2>3. importFlow' \in [Generation -> Flow]
    <3>1. [state |-> "failed", lease |-> NoLease] \in Flow /\ [state |-> "retryable_failed", lease |-> NoLease] \in Flow
      BY <1>t DEF Flow, RowState, ImportClosed
    <3> QED
      BY <1>6, <1>t, <2>1, <3>1, FlowUpdates DEF FailBatch, SettleBatch, ImportTypeOK
  <2> QED
    BY <1>6, <1>t, <2>2, <2>3 DEF FailBatch, ImportTypeOK
<1> QED
  BY <1>1, <1>2, <1>3, <1>4, <1>5, <1>6 DEF WorkerStep

LEMMA TypesStep ==
  ASSUME ImportInv, [ImportNext]_ImportVars
  PROVE  ImportTypeOK'
<1>1. CASE UNCHANGED ImportVars
  BY <1>1 DEF ImportVars, ImportInv, ImportTypeOK
<1>2. ImportTypeOK
  BY DEF ImportInv
<1> QED
  BY <1>1, <1>2, DashboardTypes, ConfirmTypes, OwnerTypes, WorkerTypes DEF ImportNext, WorkerStep

-----------------------------------------------------------------------------
(* The row and its workflows.                                              *)

RowPart == RowBegun /\ FlowsBegun /\ RowAndFlowAgree /\ LeasesTogether

LEMMA RowPartKept ==
  ASSUME RowPart, UNCHANGED <<importRow, importFlow>>
  PROVE  RowPart'
BY DEF RowPart, RowBegun, FlowsBegun, RowAndFlowAgree, LeasesTogether, Exists, FlowOpen, HoldsRow

\* The present workflow is settled together with its row.
LEMMA SettledTogether ==
  ASSUME ImportInv, NEW g \in Generation, FlowOpen(g), NEW rowState, NEW flowState,
         importRow'.state = rowState, importRow'.generation = importRow.generation,
         importRow'.mapping = importRow.mapping,
         importFlow' = [importFlow EXCEPT ![g] = [state |-> flowState, lease |-> NoLease]],
         flowState \in {"queued", "waiting", "retryable_failed", "completed", "failed", "cancelled"},
         IF flowState \in ImportClosed THEN rowState = flowState ELSE rowState = "queued"
  PROVE  RowPart'
<1>1. g = importRow.generation /\ Exists
  BY OpenIsPresent
<1>2. importRow.generation \in Nat /\ importFlow \in [Generation -> Flow]
  BY DEF ImportInv, ImportTypeOK, Row
<1>3. Exists' /\ RowBegun'
  BY <1>1 DEF ImportInv, RowBegun, Exists, ImportClosed
<1>4. FlowsBegun'
  BY <1>1, <1>2 DEF ImportInv, FlowsBegun, Generation
<1>5. RowAndFlowAgree'
  BY <1>1, <1>2, Constants DEF ImportInv, RowAndFlowAgree, FlowOpen, ImportClosed, Generation
<1>6. LeasesTogether'
  <2> SUFFICES ASSUME NEW h \in Generation, NEW v \in Worker,
                      importFlow'[h].state = "running", importFlow'[h].lease.holder = v
               PROVE  FALSE
    BY DEF LeasesTogether
  <2>1. h # g /\ importFlow[h].state = "running"
    BY <1>2
  <2> QED
    BY <1>1, <2>1, OpenIsPresent DEF FlowOpen, ImportClosed
<1> QED
  BY <1>3, <1>4, <1>5, <1>6 DEF RowPart

\* The present workflow keeps its state, and the leases agree.
LEMMA LeasesMove ==
  ASSUME ImportInv, NEW g \in Generation, FlowOpen(g), NEW f \in Flow,
         importRow'.generation = importRow.generation, importRow'.mapping = importRow.mapping,
         importFlow' = [importFlow EXCEPT ![g] = f],
         \/ importRow'.state = importRow.state /\ f.state = importFlow[g].state
         \/ importRow'.state = "running" /\ f.state = "running",
         \A w \in Worker : f.state = "running" /\ f.lease.holder = w => HoldsRow(w)'
  PROVE  RowPart'
<1>1. g = importRow.generation /\ Exists /\ importRow.state \in {"queued", "running"}
  BY OpenIsPresent
<1>2. importRow.generation \in Nat /\ importFlow \in [Generation -> Flow]
  BY DEF ImportInv, ImportTypeOK, Row
<1>3. Exists' /\ RowBegun'
  BY <1>1 DEF ImportInv, RowBegun, Exists, ImportClosed
<1>4. FlowsBegun'
  BY <1>1, <1>2 DEF ImportInv, FlowsBegun, Generation
<1>5. RowAndFlowAgree'
  <2>1. \A h \in 1..(importRow.generation - 1) : importFlow'[h].state \in {"cancelled", "failed"}
    BY <1>1, <1>2, Constants DEF ImportInv, RowAndFlowAgree, Generation
  <2>2. importFlow'[g].state = f.state
    BY <1>2
  <2>3. f.state \notin ImportClosed \cup {"none"} /\ (importRow'.state = "running" => f.state = "running")
    BY <1>1 DEF ImportInv, RowAndFlowAgree, FlowOpen, ImportClosed
  <2>4. importRow'.state \notin ImportClosed
    BY <1>1 DEF ImportClosed
  <2> QED
    BY <1>1, <2>1, <2>2, <2>3, <2>4 DEF RowAndFlowAgree, FlowOpen
<1>6. LeasesTogether'
  <2> SUFFICES ASSUME NEW h \in Generation, NEW v \in Worker,
                      importFlow'[h].state = "running", importFlow'[h].lease.holder = v
               PROVE  HoldsRow(v)'
    BY DEF LeasesTogether
  <2>1. CASE h = g
    BY <1>2, <2>1
  <2>2. CASE h # g
    <3>1. importFlow[h].state = "running"
      BY <1>2, <2>2
    <3> QED
      BY <1>1, <2>2, <3>1, OpenIsPresent DEF FlowOpen, ImportClosed
  <2> QED
    BY <2>1, <2>2
<1> QED
  BY <1>3, <1>4, <1>5, <1>6 DEF RowPart

\* A confirmation makes the first generation, or the next one after a closed one.
LEMMA ConfirmRow ==
  ASSUME ImportInv, NEW c \in confirming, ConfirmImport(c)
  PROVE  RowPart'
<1>t. ImportTypeOK /\ importRow.generation \in Nat /\ importFlow \in [Generation -> Flow] /\ c.mapping \in Mapping
  BY DEF ImportInv, ImportTypeOK, Row, Confirmation
<1>1. ASSUME importRow'.generation = importRow.generation + 1, importRow'.state = "queued",
             importRow'.mapping \in Mapping, importRow.generation + 1 \in Generation,
             importFlow' = [importFlow EXCEPT ![importRow.generation + 1].state = "queued"],
             \A h \in Generation : h <= importRow.generation => importFlow[h].state \in {"cancelled", "failed"}
      PROVE  RowPart'
  <2>1. \A h \in Generation : h > importRow.generation => importFlow[h] = NoFlow
    BY <1>t DEF ImportInv, FlowsBegun, Generation
  <2>2. importFlow'[importRow.generation + 1] = [state |-> "queued", lease |-> NoLease]
    BY <1>t, <1>1, <2>1 DEF NoFlow
  <2>3. \A h \in Generation : h # importRow.generation + 1 => importFlow'[h] = importFlow[h]
    BY <1>t, <1>1
  <2>4. RowBegun' /\ Exists'
    BY <1>t, <1>1 DEF RowBegun, Exists
  <2>5. FlowsBegun'
    BY <1>t, <1>1, <2>1, <2>2, <2>3 DEF FlowsBegun, Generation
  <2>6. RowAndFlowAgree'
    <3>1. \A h \in 1..(importRow'.generation - 1) : h \in Generation /\ h <= importRow.generation /\ h # importRow.generation + 1
      BY <1>t, <1>1, Constants DEF Generation
    <3>2. \A h \in 1..(importRow'.generation - 1) : importFlow'[h].state \in {"cancelled", "failed"}
      BY <1>1, <2>3, <3>1
    <3>3. importFlow'[importRow'.generation].state = "queued" /\ importRow'.state = "queued"
      BY <1>1, <2>2
    <3> QED
      BY <3>2, <3>3 DEF RowAndFlowAgree, FlowOpen, ImportClosed
  <2>7. LeasesTogether'
    BY <1>t, <1>1, <2>1, <2>2, <2>3 DEF LeasesTogether, NoFlow, Generation
  <2> QED
    BY <2>4, <2>5, <2>6, <2>7 DEF RowPart
<1>2. CASE ~Exists
  <2>1. importRow.generation = 0 /\ importRow.state \notin {"cancelled", "failed", "completed"}
    BY <1>2 DEF ImportInv, RowBegun, Exists
  <2>2. importRow' = [NoImportRow EXCEPT !.state = "queued", !.mapping = c.mapping, !.generation = 1] /\ 1 \in Generation
    BY <1>2, <2>1, Constants DEF ConfirmImport, NextGeneration, Generation
  <2>3. importRow'.generation = 1 /\ importRow'.state = "queued" /\ importRow'.mapping = c.mapping
    BY <2>2 DEF NoImportRow
  <2>4. importFlow[1] = NoFlow
    BY <2>1, <2>2 DEF ImportInv, FlowsBegun
  <2>5. importFlow' = [importFlow EXCEPT ![1].state = "queued"]
    BY <1>2, <2>1, <2>4 DEF ConfirmImport, RequestWorkflow, NextGeneration
  <2> QED
    BY <1>t, <1>1, <2>1, <2>2, <2>3, <2>5 DEF Generation
<1>3. CASE Exists /\ importRow.state \in {"cancelled", "failed"}
  <2>1. importRow' = [importRow EXCEPT !.state = "queued", !.generation = importRow.generation + 1, !.lease = NoLease]
        /\ importRow.generation + 1 \in Generation
    BY <1>t, <1>3 DEF ConfirmImport, NextGeneration, Generation
  <2>2. importRow'.generation = importRow.generation + 1 /\ importRow'.state = "queued" /\ importRow'.mapping = importRow.mapping
    BY <1>t, <2>1 DEF ImportTypeOK, Row
  <2>3. importFlow[importRow.generation + 1] = NoFlow
    BY <1>t, <2>1 DEF ImportInv, FlowsBegun
  <2>4. importFlow' = [importFlow EXCEPT ![importRow.generation + 1].state = "queued"]
    BY <1>3, <2>3 DEF ConfirmImport, RequestWorkflow, NextGeneration
  <2>5. \A h \in Generation : h <= importRow.generation => importFlow[h].state \in {"cancelled", "failed"}
    BY <1>t, <1>3, Constants DEF ImportInv, RowAndFlowAgree, ImportClosed, Generation
  <2>6. importRow.mapping \in Mapping
    BY <1>3 DEF ImportInv, RowBegun
  <2> QED
    BY <1>1, <2>1, <2>2, <2>4, <2>5, <2>6
<1>4. CASE Exists /\ importRow.state \notin {"cancelled", "failed"}
  <2>1. importRow' = importRow
    BY <1>4 DEF ConfirmImport
  <2>2. importFlow[importRow.generation] # NoFlow
    BY <1>4, <1>t, Constants DEF ImportInv, FlowsBegun, RowBegun, Generation, ImportTypeOK, Row, NoFlow
  <2>3. importFlow' = importFlow
    BY <1>4, <2>2 DEF ConfirmImport, RequestWorkflow
  <2> QED
    BY <2>1, <2>3, RowPartKept DEF ImportInv, RowPart
<1> QED
  BY <1>2, <1>3, <1>4

LEMMA CancelRow == ASSUME ImportInv, CancelImport PROVE RowPart'
<1>t. importRow \in Row /\ importRow.generation \in Nat /\ importFlow \in [Generation -> Flow]
  BY DEF ImportInv, ImportTypeOK, Row
<1>1. Exists /\ importRow.state \in {"queued", "running"} /\ importRow.generation \in Generation
  BY <1>t, Constants DEF CancelImport, Exists, ImportInv, RowBegun, Row, Generation
<1>2. importRow'.state = "cancelled" /\ importRow'.generation = importRow.generation /\ importRow'.mapping = importRow.mapping
  BY <1>t DEF CancelImport, Row
<1>3. FlowOpen(importRow.generation)
  BY <1>1 DEF ImportInv, RowAndFlowAgree, ImportClosed
<1>4. \A g \in Generation : FlowOpen(g) => g = importRow.generation
  BY OpenIsPresent
<1>5. importFlow' = [importFlow EXCEPT ![importRow.generation] = [state |-> "cancelled", lease |-> NoLease]]
  BY <1>t, <1>1, <1>3, <1>4 DEF CancelImport
<1> QED
  BY <1>1, <1>2, <1>3, <1>5, SettledTogether DEF ImportClosed

LEMMA OwnerRow ==
  ASSUME ImportInv, NEW g \in Generation, OwnerCancels(g) \/ OwnerRetries(g)
  PROVE  RowPart'
<1>t. importRow \in Row
  BY DEF ImportInv, ImportTypeOK
<1>1. FlowOpen(g) /\ importFlow[g].state # "running"
  BY DEF OwnerCancels, OwnerRetries, FlowControllable
<1>2. g = importRow.generation /\ importRow.state = "queued"
  BY <1>1, OpenIsPresent DEF ImportInv, RowAndFlowAgree, ImportClosed
<1>3. CASE OwnerCancels(g)
  <2>1. importRow'.state = "cancelled" /\ importRow'.generation = importRow.generation /\ importRow'.mapping = importRow.mapping
    BY <1>t, <1>3 DEF OwnerCancels, Row
  <2>2. importFlow' = [importFlow EXCEPT ![g] = [state |-> "cancelled", lease |-> NoLease]]
    BY <1>3 DEF OwnerCancels
  <2> QED
    BY <1>1, <2>1, <2>2, SettledTogether DEF ImportClosed
<1>4. CASE OwnerRetries(g)
  <2>1. importRow' = importRow /\ importFlow' = [importFlow EXCEPT ![g] = [state |-> "queued", lease |-> NoLease]]
    BY <1>4 DEF OwnerRetries
  <2> QED
    BY <1>1, <1>2, <2>1, SettledTogether DEF ImportClosed
<1> QED
  BY <1>3, <1>4

LEMMA LeaseRow == ASSUME ImportInv, LeaseRunsOut PROVE RowPart'
<1>t. importRow \in Row /\ importFlow \in [Generation -> Flow] /\ RowPart
  BY DEF ImportInv, ImportTypeOK, RowPart
<1>1. ASSUME NEW g \in Generation, importFlow[g].lease.live,
             importFlow' = [importFlow EXCEPT ![g].lease.live = FALSE], importRow' = importRow
      PROVE  RowPart'
  <2>1. \A h \in Generation : importFlow'[h].state = importFlow[h].state /\ importFlow'[h].lease.holder = importFlow[h].lease.holder
    BY <1>t, <1>1 DEF Flow, Lease
  <2>2. \A h \in Generation : importFlow[h] = NoFlow => importFlow'[h] = NoFlow
    <3>1. importFlow[g] # NoFlow
      BY <1>1 DEF NoFlow, NoLease
    <3>3. \A h \in Generation : h # g => importFlow'[h] = importFlow[h]
      BY <1>t, <1>1
    <3> QED
      BY <3>1, <3>3
  <2>3. RowBegun' /\ LeasesTogether'
    BY <1>t, <1>1, <2>1 DEF RowPart, RowBegun, LeasesTogether, Exists, HoldsRow
  <2>4. FlowsBegun'
    BY <1>t, <1>1, <2>1, <2>2 DEF RowPart, FlowsBegun
  <2>5. RowAndFlowAgree'
    <3>1. importRow.generation \in 0..MaxGeneration /\ (Exists => importRow.generation > 0)
      BY <1>t DEF Row, RowPart, RowBegun
    <3> QED
      BY <1>t, <1>1, <2>1, <3>1, Constants DEF RowPart, RowAndFlowAgree, Exists, FlowOpen, Generation
  <2> QED
    BY <2>3, <2>4, <2>5 DEF RowPart
<1>2. CASE importRow' = [importRow EXCEPT !.lease.live = FALSE] /\ importFlow' = importFlow
  <2>1. /\ importRow'.state = importRow.state /\ importRow'.generation = importRow.generation
        /\ importRow'.mapping = importRow.mapping /\ importRow'.lease.holder = importRow.lease.holder
        /\ importRow'.completed = importRow.completed /\ importRow'.learned = importRow.learned
    BY <1>t, <1>2 DEF Row, Lease
  <2> QED
    BY <1>t, <1>2, <2>1 DEF RowPart, RowBegun, FlowsBegun, RowAndFlowAgree, LeasesTogether, Exists, FlowOpen, HoldsRow
<1> QED
  BY <1>1, <1>2 DEF LeaseRunsOut

LEMMA WorkerRow ==
  ASSUME ImportInv, NEW w \in Worker, WorkerStep(w)
  PROVE  RowPart'
<1>t. importRow \in Row /\ importFlow \in [Generation -> Flow] /\ hostBatch[w] \in Batch
  BY DEF ImportInv, ImportTypeOK
<1>1. ASSUME NEW g \in Generation, ClaimHostWorkflow(w, g) PROVE RowPart'
  <2>1. FlowOpen(g)
    BY <1>1 DEF ClaimHostWorkflow, FlowClaimable
  <2>2. CASE RowClaimable(g)
    <3>1. importFlow' = [importFlow EXCEPT ![g] = [state |-> "running", lease |-> LeaseOf(w)]]
          /\ importRow' = [importRow EXCEPT !.state = "running", !.lease = LeaseOf(w)]
      BY <1>1, <2>2 DEF ClaimHostWorkflow
    <3>2. /\ importRow'.generation = importRow.generation /\ importRow'.mapping = importRow.mapping
          /\ importRow'.state = "running" /\ importRow'.lease.holder = w
      BY <1>t, <3>1 DEF Row, LeaseOf
    <3>3. [state |-> "running", lease |-> LeaseOf(w)] \in Flow
      BY FlowWords DEF RowState
    <3>4. \A v \in Worker : LeaseOf(w).holder = v => HoldsRow(v)'
      BY <3>2 DEF LeaseOf, HoldsRow
    <3> QED
      BY <2>1, <3>1, <3>2, <3>3, <3>4, LeasesMove
  <2>3. CASE ~RowClaimable(g)
    <3>1. importFlow' = [importFlow EXCEPT ![g] = [importFlow[g] EXCEPT !.lease = NoLease]] /\ importRow' = importRow
      BY <1>1, <2>3 DEF ClaimHostWorkflow
    <3>2. [importFlow[g] EXCEPT !.lease = NoLease] \in Flow
      BY <1>t, Constants DEF Flow
    <3>3. /\ [importFlow[g] EXCEPT !.lease = NoLease].state = importFlow[g].state
          /\ [importFlow[g] EXCEPT !.lease = NoLease].lease.holder = NoWorker
      BY <1>t DEF Flow, NoLease
    <3> QED
      BY <2>1, <3>1, <3>2, <3>3, LeasesMove, Constants
  <2> QED
    BY <2>2, <2>3
<1>2. CASE RenewHostWorkflow(w)
  <2> DEFINE g == hostBatch[w].generation
             f == [importFlow[g] EXCEPT !.lease.live = TRUE]
  <2>1. hostBatch[w].at # "idle" /\ HoldsFlow(w)
    BY <1>2 DEF RenewHostWorkflow, HoldsFlow
  <2>2. g \in Generation /\ HoldsRow(w) /\ FlowOpen(g) /\ importRow.state = "running"
    BY <2>1, HolderIsPresent DEF HoldsFlow, FlowOpen, ImportClosed
  <2>3. f \in Flow /\ f.state = "running" /\ f.lease.holder = w
    BY <1>t, <2>1, <2>2 DEF Flow, Lease, HoldsFlow
  <2>4. importFlow' = [importFlow EXCEPT ![g] = f]
    BY <1>2 DEF RenewHostWorkflow
  <2>5. importRow' = importRow \/ importRow' = [importRow EXCEPT !.lease.live = TRUE]
    BY <1>2 DEF RenewHostWorkflow
  <2>6. /\ importRow'.generation = importRow.generation /\ importRow'.mapping = importRow.mapping
        /\ importRow'.state = "running" /\ importRow'.lease.holder = w
    BY <1>t, <2>2, <2>5 DEF Row, Lease, HoldsRow
  <2> HIDE DEF f, g
  <2> QED
    BY <2>2, <2>3, <2>4, <2>6, LeasesMove DEF HoldsRow
<1>3. CASE EnterImportWrite(w) \/ WriteOne(w) \/ WorkerStops(w)
  <2>1. UNCHANGED <<importRow, importFlow>>
    BY <1>3 DEF EnterImportWrite, WriteOne, WorkerStops
  <2> QED
    BY <2>1, RowPartKept DEF ImportInv, RowPart
<1>4. CASE FinishBatch(w)
  <2>1. hostBatch[w].generation \in Generation /\ FlowOpen(hostBatch[w].generation)
    BY <1>4, HolderIsPresent DEF FinishBatch, HoldsFlow, FlowOpen, ImportClosed
  <2>2. /\ importRow'.generation = importRow.generation /\ importRow'.mapping = importRow.mapping
        /\ importRow'.state = IF Done(hostBatch[w]) THEN "completed" ELSE "queued"
    BY <1>4, <1>t DEF FinishBatch, Row
  <2>3. importFlow' = [importFlow EXCEPT ![hostBatch[w].generation] =
          [state |-> IF Done(hostBatch[w]) THEN "completed" ELSE "waiting", lease |-> NoLease]]
    BY <1>4 DEF FinishBatch
  <2> QED
    BY <2>1, <2>2, <2>3, SettledTogether DEF ImportClosed
<1>5. CASE FailBatch(w)
  <2>1. /\ hostBatch[w].generation \in Generation /\ FlowOpen(hostBatch[w].generation) /\ HoldsRow(w)
    BY <1>5, HolderIsPresent DEF FailBatch, HoldsFlow, FlowOpen, ImportClosed
  <2>2. ASSUME NEW rs, NEW fs, SettleBatch(w, rs, fs)
        PROVE  /\ importRow'.generation = importRow.generation /\ importRow'.mapping = importRow.mapping
               /\ importRow'.state = rs
               /\ importFlow' = [importFlow EXCEPT ![hostBatch[w].generation] = [state |-> fs, lease |-> NoLease]]
    BY <1>t, <2>1, <2>2 DEF SettleBatch, Row
  <2>3. CASE SettleBatch(w, "failed", "failed")
    BY <2>1, <2>2, <2>3, SettledTogether DEF ImportClosed
  <2>4. CASE SettleBatch(w, "queued", "retryable_failed")
    BY <2>1, <2>2, <2>4, SettledTogether DEF ImportClosed
  <2> QED
    BY <1>5, <2>3, <2>4 DEF FailBatch
<1> QED
  BY <1>1, <1>2, <1>3, <1>4, <1>5 DEF WorkerStep

LEMMA RowStep ==
  ASSUME ImportInv, [ImportNext]_ImportVars
  PROVE  RowPart'
<1>1. RowPart
  BY DEF ImportInv, RowPart
<1>2. CASE Preview \/ StartGivesUp \/ StartEnds \/ UNCHANGED ImportVars
  BY <1>1, <1>2, RowPartKept DEF Preview, StartGivesUp, StartEnds, ImportVars
<1>3. ASSUME NEW m \in Mapping, StartImport(m) PROVE RowPart'
  BY <1>1, <1>3, RowPartKept DEF StartImport
<1>4. ASSUME NEW c \in confirming, RefuseImport(c) PROVE RowPart'
  BY <1>1, <1>4, RowPartKept DEF RefuseImport
<1> QED
  BY <1>2, <1>3, <1>4, ConfirmRow, CancelRow, OwnerRow, LeaseRow, WorkerRow DEF ImportNext, WorkerStep

-----------------------------------------------------------------------------
(* The archive and the choice of the owner.                                *)

ArchivePart == BatchIsReal /\ ConfirmedAsSaved /\ CheckpointIsReal

\* The choice of an import that exists is fixed; so is the one of a confirmation that waits.
LEMMA ChoiceIsFixed ==
  ASSUME ImportInv, NEW m \in Mapping, StartImport(m)
  PROVE  saved'.mapping = m /\ (Exists \/ confirming # {} \/ learnable # {} => saved.mapping = m)
<1>1. saved'.mapping = m /\ saved.mapping \in {NoMapping, m}
  BY DEF StartImport
<1>2. Exists \/ confirming # {} \/ learnable # {} => saved.mapping # NoMapping
  BY Constants DEF ImportInv, ImportTypeOK, Confirmation, RowBegun, ConfirmedAsSaved, CheckpointIsReal
<1> QED
  BY <1>1, <1>2

LEMMA DashboardArchive ==
  ASSUME ImportInv,
         \/ Preview \/ StartGivesUp \/ StartEnds \/ \E m \in Mapping : StartImport(m)
         \/ \E c \in confirming : RefuseImport(c)
  PROVE  ArchivePart'
<1>0. UNCHANGED <<importRow, importFlow, hostBatch, archived, learnable>>
  BY DEF Preview, StartGivesUp, StartEnds, StartImport, RefuseImport
<1>1. BatchIsReal'
  BY <1>0 DEF ImportInv, BatchIsReal
<1>2. CASE UNCHANGED saved /\ confirming' \subseteq confirming
  BY <1>0, <1>1, <1>2 DEF ImportInv, ArchivePart, ConfirmedAsSaved, CheckpointIsReal, Exists
<1>3. CASE saved'.mapping = saved.mapping /\ UNCHANGED confirming
  BY <1>0, <1>1, <1>3 DEF ImportInv, ArchivePart, ConfirmedAsSaved, CheckpointIsReal, Exists
<1>4. ASSUME NEW m \in Mapping, StartImport(m) PROVE ArchivePart'
  <2>1. saved'.mapping = m /\ (Exists \/ confirming # {} \/ learnable # {} => saved.mapping = m)
    BY <1>4, ChoiceIsFixed
  <2>2. \A c \in confirming' : c \in confirming \/ c.mapping = m
    BY <1>4 DEF StartImport
  <2>3. ConfirmedAsSaved'
    BY <1>0, <2>1, <2>2 DEF ImportInv, ConfirmedAsSaved, Exists
  <2>4. importRow.state = "completed" => saved.mapping = m
    BY <2>1 DEF Exists
  <2>5. CheckpointIsReal'
    BY <1>0, <2>1, <2>4 DEF ImportInv, CheckpointIsReal
  <2> QED
    BY <1>1, <2>3, <2>5 DEF ArchivePart
<1> QED
  <2>1. CASE Preview
    BY <2>1, <1>3 DEF Preview, ImportInv, ImportTypeOK, SavedJob
  <2>2. CASE StartGivesUp
    BY <2>2, <1>2 DEF StartGivesUp
  <2>3. CASE StartEnds
    BY <2>3, <1>3 DEF StartEnds, ImportInv, ImportTypeOK, SavedJob
  <2>4. ASSUME NEW c \in confirming, RefuseImport(c) PROVE ArchivePart'
    BY <2>4, <1>2 DEF RefuseImport
  <2> QED
    BY <1>4, <2>1, <2>2, <2>3, <2>4

\* The control service and the owner move no message; the checkpoint and the choice stay.
LEMMA RowKeepsArchive ==
  ASSUME ImportInv, UNCHANGED <<saved, hostBatch, archived, learnable>>, confirming' \subseteq confirming,
         Exists, importRow'.state \in {"queued", "running", "failed", "cancelled", importRow.state},
         importRow'.mapping = importRow.mapping, importRow'.completed = importRow.completed,
         importRow'.learned = importRow.learned,
         importRow'.generation \in {importRow.generation, importRow.generation + 1}
  PROVE  ArchivePart'
<1>1. importRow.generation \in Nat
  BY DEF ImportInv, ImportTypeOK, Row
<1>2. BatchIsReal'
  BY <1>1 DEF ImportInv, BatchIsReal
<1>3. ConfirmedAsSaved'
  BY DEF ImportInv, ConfirmedAsSaved, Exists
<1>4. CheckpointIsReal'
  BY DEF ImportInv, CheckpointIsReal
<1> QED
  BY <1>2, <1>3, <1>4 DEF ArchivePart

LEMMA ConfirmArchive ==
  ASSUME ImportInv, NEW c \in confirming, ConfirmImport(c)
  PROVE  ArchivePart'
<1>t. importRow \in Row /\ c.mapping = saved.mapping
  BY DEF ImportInv, ImportTypeOK, ConfirmedAsSaved
<1>1. CASE ~Exists
  <2>1. importRow.generation = 0 /\ \A w \in Worker : hostBatch[w].at = "idle"
    BY <1>1 DEF ImportInv, RowBegun, BatchIsReal
  <2>2. importRow' = [NoImportRow EXCEPT !.state = "queued", !.mapping = c.mapping, !.generation = 1]
    BY <1>1 DEF ConfirmImport
  <2>3. importRow'.state = "queued" /\ importRow'.mapping = saved.mapping /\ importRow'.completed = 0 /\ importRow'.learned = 0
    BY <1>t, <2>2 DEF NoImportRow
  <2>4. BatchIsReal'
    BY <2>1 DEF ConfirmImport, BatchIsReal
  <2>5. ConfirmedAsSaved' /\ CheckpointIsReal'
    BY <2>3 DEF ConfirmImport, ImportInv, ConfirmedAsSaved, CheckpointIsReal
  <2> QED
    BY <2>4, <2>5 DEF ArchivePart
<1>2. CASE Exists
  <2>1. importRow' = importRow
        \/ importRow' = [importRow EXCEPT !.state = "queued", !.generation = NextGeneration, !.lease = NoLease]
    BY <1>2 DEF ConfirmImport
  <2>2. /\ importRow'.state \in {"queued", importRow.state} /\ importRow'.mapping = importRow.mapping
        /\ importRow'.completed = importRow.completed /\ importRow'.learned = importRow.learned
        /\ importRow'.generation \in {importRow.generation, importRow.generation + 1}
    BY <1>t, <2>1 DEF Row, NextGeneration
  <2> QED
    BY <1>2, <2>2, RowKeepsArchive DEF ConfirmImport
<1> QED
  BY <1>1, <1>2

LEMMA OwnerArchive ==
  ASSUME ImportInv, CancelImport \/ LeaseRunsOut \/ \E g \in Generation : OwnerCancels(g) \/ OwnerRetries(g)
  PROVE  ArchivePart'
<1>t. importRow \in Row
  BY DEF ImportInv, ImportTypeOK
<1>1. /\ importRow'.state \in {"cancelled", importRow.state} /\ importRow'.mapping = importRow.mapping
      /\ importRow'.completed = importRow.completed /\ importRow'.learned = importRow.learned
      /\ importRow'.generation = importRow.generation
  BY <1>t DEF Row, Lease, CancelImport, LeaseRunsOut, OwnerCancels, OwnerRetries
<1>2. UNCHANGED <<saved, confirming, hostBatch, archived, learnable>>
  BY DEF CancelImport, LeaseRunsOut, OwnerCancels, OwnerRetries
<1>3. CASE Exists
  BY <1>1, <1>2, <1>3, RowKeepsArchive
<1>4. CASE ~Exists
  <2>1. LeaseRunsOut /\ importRow'.state = "none"
    <3>1. LeaseRunsOut
      BY <1>4, OpenIsPresent DEF CancelImport, OwnerCancels, OwnerRetries, FlowControllable, Exists
    <3> QED
      BY <1>t, <1>4, <3>1 DEF LeaseRunsOut, Exists, Row, Lease
  <2> QED
    BY <1>1, <1>2, <2>1 DEF ArchivePart, ImportInv, BatchIsReal, ConfirmedAsSaved, CheckpointIsReal, Exists
<1> QED
  BY <1>3, <1>4

LEMMA WorkerArchive ==
  ASSUME ImportInv, NEW w \in Worker, WorkerStep(w)
  PROVE  ArchivePart'
<1>t. importRow \in Row /\ hostBatch \in [Worker -> Batch] /\ hostBatch[w] \in Batch /\ Total \in Nat \ {0}
  BY Constants DEF ImportInv, ImportTypeOK
<1>c. UNCHANGED <<saved, confirming>>
  BY DEF WorkerStep, ClaimHostWorkflow, RenewHostWorkflow, EnterImportWrite, WriteOne, WorkerStops, FinishBatch, FailBatch
\* The row of a batch exists, and its choice is the one on file.
<1>e. hostBatch[w].at # "idle" => Exists /\ importRow.mapping = saved.mapping
  BY <1>t DEF ImportInv, BatchIsReal, RowBegun, ConfirmedAsSaved, Row
<1>1. ASSUME NEW g \in Generation, ClaimHostWorkflow(w, g) PROVE ArchivePart'
  <2>1. Exists /\ g = importRow.generation /\ importRow.generation \in Nat /\ g > 0
    BY <1>t, <1>1, OpenIsPresent DEF ClaimHostWorkflow, FlowClaimable, Row, Generation
  <2>2. /\ importRow'.state \in {"running", importRow.state} /\ importRow'.mapping = importRow.mapping
        /\ importRow'.completed = importRow.completed /\ importRow'.learned = importRow.learned
        /\ importRow'.generation = importRow.generation /\ UNCHANGED <<archived, learnable>>
    BY <1>t, <1>1 DEF ClaimHostWorkflow, Row
  <2>3. BatchIsReal'
    <3> SUFFICES ASSUME NEW v \in Worker, hostBatch'[v].at # "idle"
                 PROVE  /\ hostBatch'[v].generation \in 1..importRow'.generation
                        /\ 1..hostBatch'[v].completed \subseteq archived /\ 1..hostBatch'[v].learned \subseteq learnable
                        /\ hostBatch'[v].at = "writing" /\ hostBatch'[v].completed = Total =>
                             importRow'.mapping \in Consented /\ hostBatch'[v].learned < Total
      BY <2>2 DEF BatchIsReal
    <3>1. CASE hostBatch'[v] = hostBatch[v]
      BY <2>2, <3>1 DEF ImportInv, BatchIsReal
    <3>2. CASE hostBatch'[v] = [at |-> "running", generation |-> g, completed |-> importRow.completed, learned |-> importRow.learned]
      BY <2>1, <2>2, <3>2 DEF ImportInv, CheckpointIsReal
    <3> QED
      BY <1>t, <1>1, <3>1, <3>2 DEF ClaimHostWorkflow
  <2>4. ConfirmedAsSaved' /\ CheckpointIsReal'
    BY <1>c, <2>1, <2>2 DEF ImportInv, ConfirmedAsSaved, CheckpointIsReal
  <2> QED
    BY <2>3, <2>4 DEF ArchivePart
<1>2. CASE RenewHostWorkflow(w)
  <2>1. Exists /\ UNCHANGED <<hostBatch, archived, learnable>>
    BY <1>2, <1>e DEF RenewHostWorkflow
  <2>2. /\ importRow'.state = importRow.state /\ importRow'.mapping = importRow.mapping
        /\ importRow'.completed = importRow.completed /\ importRow'.learned = importRow.learned
        /\ importRow'.generation = importRow.generation
    BY <1>t, <1>2 DEF RenewHostWorkflow, Row, Lease
  <2> QED
    BY <1>c, <2>1, <2>2, RowKeepsArchive
\* A batch that ends leaves the others as they were.
<1>s. ASSUME hostBatch' = [hostBatch EXCEPT ![w] = NoBatch], UNCHANGED <<archived, learnable>>,
             importRow'.mapping = importRow.mapping, importRow'.generation = importRow.generation
      PROVE  BatchIsReal'
  <2>1. \A v \in Worker : hostBatch'[v] = hostBatch[v] \/ hostBatch'[v].at = "idle"
    BY <1>t, <1>s DEF NoBatch
  <2> QED
    BY <1>s, <2>1 DEF ImportInv, BatchIsReal
<1>3. CASE WorkerStops(w)
  BY <1>3, <1>s, <1>c DEF WorkerStops, ArchivePart, ImportInv, ConfirmedAsSaved, CheckpointIsReal, Exists
<1>4. CASE EnterImportWrite(w)
  <2>1. UNCHANGED <<importRow, archived, learnable>> /\ hostBatch' = [hostBatch EXCEPT ![w].at = "writing"]
    BY <1>4 DEF EnterImportWrite
  <2>2. \A v \in Worker : /\ hostBatch'[v].generation = hostBatch[v].generation
                          /\ hostBatch'[v].completed = hostBatch[v].completed /\ hostBatch'[v].learned = hostBatch[v].learned
                          /\ v # w => hostBatch'[v].at = hostBatch[v].at
    BY <1>t, <2>1 DEF Batch
  <2>3. hostBatch[w].at = "running"
        /\ (hostBatch[w].completed = Total => importRow.mapping \in Consented /\ hostBatch[w].learned < Total)
    BY <1>4, <1>t DEF EnterImportWrite, Batch
  <2>4. BatchIsReal'
    BY <2>1, <2>2, <2>3 DEF ImportInv, BatchIsReal
  <2> QED
    BY <1>c, <2>1, <2>4 DEF ArchivePart, ImportInv, ConfirmedAsSaved, CheckpointIsReal, Exists
<1>5. CASE WriteOne(w)
  <2>0. /\ hostBatch[w].completed \in 0..Total /\ hostBatch[w].learned \in 0..Total
        /\ 1..hostBatch[w].completed \subseteq archived /\ 1..hostBatch[w].learned \subseteq learnable
        /\ hostBatch[w].generation \in 1..importRow.generation
        /\ hostBatch[w].completed = Total => importRow.mapping \in Consented /\ hostBatch[w].learned < Total
    BY <1>5, <1>t DEF WriteOne, Batch, ImportInv, BatchIsReal
  <2>1. /\ archived \subseteq archived' /\ learnable \subseteq learnable' /\ UNCHANGED importRow
        /\ \A v \in Worker : v # w => hostBatch'[v] = hostBatch[v]
        /\ hostBatch'[w].at = "wrote" /\ hostBatch'[w].generation = hostBatch[w].generation
        /\ 1..hostBatch'[w].completed \subseteq archived' /\ 1..hostBatch'[w].learned \subseteq learnable'
        /\ learnable' \subseteq archived' /\ (learnable' # {} => saved.mapping \in Consented)
    <3>l. learnable \subseteq archived /\ (learnable # {} => saved.mapping \in Consented)
      BY DEF ImportInv, CheckpointIsReal
    <3>1. CASE hostBatch[w].completed < Total
      <4>1. /\ archived' = archived \cup {hostBatch[w].completed + 1} /\ UNCHANGED <<learnable, importRow>>
            /\ hostBatch' = [hostBatch EXCEPT ![w].at = "wrote", ![w].completed = @ + 1]
        BY <1>5, <3>1 DEF WriteOne
      <4>2. /\ \A v \in Worker : v # w => hostBatch'[v] = hostBatch[v]
            /\ hostBatch'[w].at = "wrote" /\ hostBatch'[w].generation = hostBatch[w].generation
            /\ hostBatch'[w].completed = hostBatch[w].completed + 1 /\ hostBatch'[w].learned = hostBatch[w].learned
        BY <1>t, <4>1 DEF Batch
      <4>3. 1..(hostBatch[w].completed + 1) \subseteq archived'
        BY <2>0, <4>1
      <4> QED
        BY <2>0, <3>l, <4>1, <4>2, <4>3
    <3>2. CASE ~(hostBatch[w].completed < Total)
      <4>0. hostBatch[w].completed = Total /\ importRow.mapping \in Consented /\ hostBatch[w].learned < Total
        BY <1>t, <2>0, <3>2
      <4>1. /\ learnable' = learnable \cup {hostBatch[w].learned + 1} /\ UNCHANGED <<archived, importRow>>
            /\ hostBatch' = [hostBatch EXCEPT ![w].at = "wrote", ![w].learned = @ + 1]
        BY <1>5, <3>2 DEF WriteOne
      <4>2. /\ \A v \in Worker : v # w => hostBatch'[v] = hostBatch[v]
            /\ hostBatch'[w].at = "wrote" /\ hostBatch'[w].generation = hostBatch[w].generation
            /\ hostBatch'[w].completed = hostBatch[w].completed /\ hostBatch'[w].learned = hostBatch[w].learned + 1
        BY <1>t, <4>1 DEF Batch
      <4>3. 1..(hostBatch[w].learned + 1) \subseteq learnable'
        BY <2>0, <4>1
      <4>4. hostBatch[w].learned + 1 \in 1..Total /\ 1..Total \subseteq archived
        BY <1>t, <2>0, <4>0
      <4>5. saved.mapping \in Consented
        BY <1>5, <1>e, <4>0 DEF WriteOne
      <4> QED
        BY <2>0, <3>l, <4>1, <4>2, <4>3, <4>4, <4>5
    <3> QED
      BY <3>1, <3>2
  <2>2. BatchIsReal'
    <3>1. \A v \in Worker : v # w => hostBatch'[v] = hostBatch[v]
      BY <2>1
    <3> QED
      BY <2>0, <2>1, <3>1 DEF ImportInv, BatchIsReal
  <2>3. ConfirmedAsSaved'
    BY <1>c, <2>1 DEF ImportInv, ConfirmedAsSaved, Exists
  <2>4. archived' \subseteq ImportMessage /\ learnable' \subseteq ImportMessage
    BY WorkerTypes DEF ImportTypeOK
  <2>5. CheckpointIsReal'
    BY <1>c, <2>1, <2>4 DEF ImportInv, CheckpointIsReal
  <2> QED
    BY <2>2, <2>3, <2>5 DEF ArchivePart
<1>6. CASE FinishBatch(w)
  <2> DEFINE b == hostBatch[w]
  <2>0. /\ b.at # "idle" /\ Exists /\ importRow.mapping = saved.mapping
        /\ 1..b.completed \subseteq archived /\ 1..b.learned \subseteq learnable
    BY <1>6, <1>e DEF FinishBatch, ImportInv, BatchIsReal
  <2>1. /\ importRow'.mapping = importRow.mapping /\ importRow'.generation = importRow.generation
        /\ importRow'.completed = b.completed /\ importRow'.learned = b.learned
        /\ importRow'.state = IF Done(b) THEN "completed" ELSE "queued"
    BY <1>t, <1>6 DEF FinishBatch, Row
  <2>2. BatchIsReal'
    BY <1>6, <1>s, <2>1 DEF FinishBatch
  <2>3. ConfirmedAsSaved'
    BY <1>c, <2>0, <2>1 DEF ImportInv, ConfirmedAsSaved
  <2>4. Done(b) => archived = ImportMessage /\ (saved.mapping \in Consented => learnable = ImportMessage)
    BY <2>0 DEF Done, ImportMessage, ImportInv, ImportTypeOK
  <2>5. UNCHANGED <<archived, learnable>>
    BY <1>6 DEF FinishBatch
  <2> HIDE DEF b
  <2>6. CheckpointIsReal'
    BY <1>c, <2>0, <2>1, <2>4, <2>5 DEF ImportInv, CheckpointIsReal
  <2> QED
    BY <2>2, <2>3, <2>6 DEF ArchivePart
<1>7. CASE FailBatch(w)
  <2>1. HoldsRow(w) /\ Exists
    BY <1>7, HolderIsPresent DEF FailBatch
  <2>2. /\ importRow'.mapping = importRow.mapping /\ importRow'.generation = importRow.generation
        /\ importRow'.completed = importRow.completed /\ importRow'.learned = importRow.learned
        /\ importRow'.state \in {"failed", "queued"}
    BY <1>t, <1>7, <2>1 DEF FailBatch, SettleBatch, Row
  <2>3. BatchIsReal'
    BY <1>7, <1>s, <2>2 DEF FailBatch
  <2>4. ConfirmedAsSaved' /\ CheckpointIsReal'
    BY <1>7, <1>c, <2>1, <2>2 DEF FailBatch, ImportInv, ConfirmedAsSaved, CheckpointIsReal
  <2> QED
    BY <2>3, <2>4 DEF ArchivePart
<1> QED
  BY <1>1, <1>2, <1>3, <1>4, <1>5, <1>6, <1>7 DEF WorkerStep

LEMMA ArchiveStep ==
  ASSUME ImportInv, [ImportNext]_ImportVars
  PROVE  ArchivePart'
<1>1. CASE UNCHANGED ImportVars
  BY <1>1 DEF ImportVars, ImportInv, ArchivePart, BatchIsReal, ConfirmedAsSaved, CheckpointIsReal, Exists
<1> QED
  BY <1>1, DashboardArchive, ConfirmArchive, OwnerArchive, WorkerArchive DEF ImportNext, WorkerStep

-----------------------------------------------------------------------------
(* The theorem.                                                            *)

LEMMA ImportInvariant == ImportSpec => []ImportInv
<1>1. ImportInv /\ [ImportNext]_ImportVars => ImportInv'
  BY TypesStep, RowStep, ArchiveStep DEF ImportInv, RowPart, ArchivePart
<1> QED
  BY InitiallyTold, <1>1, PTL DEF ImportSpec

\* However often it is cancelled, resumed and claimed again, and whatever leases run out, an
\* import's row, workflow, archive and file tell one story, and its checkpoint is real.
THEOREM ImportsTold == ImportSpec => []ImportsAgree
<1>1. ImportInv => ImportsAgree
  BY DEF ImportInv, ImportsAgree
<1> QED
  BY ImportInvariant, <1>1, PTL

============================================================================
