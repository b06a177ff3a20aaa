------------------------ MODULE ControlledExecution ------------------------
(***************************************************************************)
(* A controlled tool action from its proposal to its settled result: the   *)
(* owner's decision or a bounded permission, the claim and the start under *)
(* the host's workflow lease, the effect itself, the receipt file the host *)
(* keeps, the immutable derived result and the completion of the row.      *)
(* (src/src/stores/controlled-actions.ts, controlled-execution.ts,         *)
(*  owner-autonomy.ts, src/src/security, src/src/workflows/host*.ts,       *)
(*  src/tools/operations/security/tool_receipts.py)                        *)
(*                                                                         *)
(* Every proposal carries the same fingerprint, so that all of them may    *)
(* use the one permission.  Time is abstract: a lease or the permission    *)
(* may run out at any moment.  A child process of the host worker survives *)
(* the worker and goes on after its lease is lost; later visits of the     *)
(* workflow find the row claimed, so one child per action is enough.       *)
(***************************************************************************)
EXTENDS Integers, FiniteSets

CONSTANTS
  Action,        \* proposals of one exact operation
  Uses,          \* `uses' of the permission
  MaxGuard       \* bound: publications that make a binding stale

ASSUME ActionAssumption == /\ IsFiniteSet(Action) /\ Uses \in Nat \ {0} /\ MaxGuard \in Nat

VARIABLES
  action,        \* controlled_actions: state, binding, permission, claim
  permission,    \* action_permissions
  guardNow,      \* the guard binding of the installation
  denyRule,      \* a policy rule that denies the operation
  derivedResult, \* the immutable `controlled-result:' checkpoint
  receiptFile,   \* receipts/<id>.json of the host
  toolJob,       \* workflow_registry.state of the action's workflow
  child,         \* the child that claimed the action: where it is, the outcome it
                 \* saw, whether the visit that started it still holds the lease
  effects        \* history: how often the operation was carried out

ActionVars == <<action, permission, guardNow, denyRule, derivedResult, receiptFile,
                toolJob, child, effects>>
authority == <<permission, guardNow, denyRule>>
records == <<derivedResult, receiptFile>>

Outcome == {"done", "failed", "ambiguous"}
NoChild == [at |-> "none", saw |-> "none", leased |-> FALSE]

ActionInit ==
  /\ action = [a \in Action |-> [state |-> "none", bound |-> 0, granted |-> FALSE,
                                 live |-> FALSE]]
  /\ permission = [state |-> "none", bound |-> 0, left |-> 0]
  /\ guardNow = 0 /\ denyRule = FALSE
  /\ derivedResult = [a \in Action |-> "none"]
  /\ receiptFile = [a \in Action |-> "none"]
  /\ toolJob = [a \in Action |-> "none"]
  /\ child = [a \in Action |-> NoChild]
  /\ effects = [a \in Action |-> 0]

----------------------------------------------------------------------------
(* Authority: what the owner and the guard decide.                         *)

\* grants(): the permission counts while it is live and bound to the row's context.
PermissionValid(a) == permission.state = "live" /\ permission.bound = action[a].bound
UsablePermission(a) == PermissionValid(a) /\ permission.left > 0

\* fence() and arguments(): the binding of the row is the installation's.
Fenced(a) == action[a].bound = guardNow

\* propose: the row is made under the current binding; under the freedom setting the
\* owner's own request approves itself when nothing denies it and no permission covers it.
ProposeAction(a) ==
  /\ action[a].state = "none"
  /\ LET usable ==
           permission.state = "live" /\ permission.bound = guardNow /\ permission.left > 0
     IN \E autonomy \in BOOLEAN :
          action' = [action EXCEPT ![a].bound = guardNow,
                                   ![a].state = IF autonomy /\ ~denyRule /\ ~usable
                                                THEN "approved" ELSE "proposed"]
  /\ toolJob' = [toolJob EXCEPT ![a] = "open"]
  /\ UNCHANGED <<authority, records, child, effects>>

\* decide: nothing that has been claimed can be decided; approval needs the fence.
DecideAction(a) ==
  /\ action[a].state \in {"proposed", "approved"}
  /\ \E verdict \in {"approved", "rejected"} :
       /\ verdict = "approved" => Fenced(a)
       /\ action' = [action EXCEPT ![a].state = verdict, ![a].granted = FALSE]
  /\ UNCHANGED <<authority, records, toolJob, child, effects>>

\* grant: a bounded permission for the fingerprint of a current proposal.
GrantPermission(a) ==
  /\ action[a].state # "none" /\ Fenced(a) /\ permission.state = "none"
  /\ permission' = [state |-> "live", bound |-> action[a].bound, left |-> Uses]
  /\ UNCHANGED <<action, guardNow, denyRule, records, toolJob, child, effects>>

\* revoke, or expires_at passing.
EndPermission ==
  /\ permission.state = "live"
  /\ permission' = [permission EXCEPT !.state = "ended"]
  /\ UNCHANGED <<action, guardNow, denyRule, records, toolJob, child, effects>>

\* savePolicy: a deny rule comes or goes; a publication makes bindings stale.
SavePolicy ==
  /\ denyRule' = ~denyRule
  /\ UNCHANGED <<action, permission, guardNow, records, toolJob, child, effects>>
ReviseGuard ==
  /\ guardNow < MaxGuard
  /\ guardNow' = guardNow + 1
  /\ UNCHANGED <<action, permission, denyRule, records, toolJob, child, effects>>

----------------------------------------------------------------------------
(* Settlement: a receipt becomes the derived result and completes the row. *)

\* recover and complete: the immutable result settles a running or uncertain row.
Recovered(a, result) ==
  IF action[a].state \in {"running", "ambiguous"}
  THEN [action EXCEPT ![a].state = result, ![a].live = FALSE] ELSE action

\* complete: a late result also settles a workflow that was closed as uncertain.
Settled(a, result) ==
  IF toolJob[a] = "ambiguous" /\ result # "ambiguous"
  THEN [toolJob EXCEPT ![a] = IF result = "done" THEN "completed" ELSE "failed"]
  ELSE toolJob

\* finish: the derived result is written once; another content is refused.
PublishReceipt(a, result) ==
  /\ action[a].state \in {"running", "ambiguous", "done", "failed"}
  /\ derivedResult[a] \in {"none", result}
  /\ derivedResult' = [derivedResult EXCEPT ![a] = result]
  /\ action' = Recovered(a, result)
  /\ toolJob' = Settled(a, result)

----------------------------------------------------------------------------
(* The host: visits of its worker, child processes and receipt files.      *)

Become(a, c) == child' = [child EXCEPT ![a] = c]
At(a, at) == child[a].at = at
\* start asks for the lease, nothing later does.
Working(at, saw) == [at |-> at, saw |-> saw, leased |-> FALSE]
SomeoneFinishes == \E a \in Action : At(a, "finish")

\* flush_receipts, at the start of every visit: a kept receipt is published and
\* removed; the receipt lock keeps out a child between its save and its finish.
FlushReceipt(a) ==
  /\ receiptFile[a] # "none" /\ ~SomeoneFinishes
  /\ PublishReceipt(a, receiptFile[a])
  /\ receiptFile' = [receiptFile EXCEPT ![a] = "none"]
  /\ UNCHANGED <<authority, child, effects>>

\* claim, of a visit that holds the lease of the open job: at most one operation
\* runs, and a use of the permission is taken.
Visited(a) == toolJob[a] = "open" /\ \A b \in Action : receiptFile[b] = "none"
NothingRuns == \A b \in Action : action[b].state # "running"
HasAuthority(a) ==
  \/ action[a].state = "approved"
  \/ action[a].state = "proposed" /\ UsablePermission(a)
Claimable(a) == Fenced(a) /\ ~denyRule /\ NothingRuns /\ HasAuthority(a)
ClaimAction(a) ==
  LET byPermission == action[a].state = "proposed" IN
  /\ Visited(a) /\ Claimable(a)
  /\ action' = [action EXCEPT ![a].state = "running", ![a].granted = byPermission,
                              ![a].live = TRUE]
  /\ permission' = IF byPermission THEN [permission EXCEPT !.left = @ - 1] ELSE permission
  /\ Become(a, [at |-> "start", saw |-> "none", leased |-> TRUE])
  /\ UNCHANGED <<guardNow, denyRule, records, toolJob, effects>>

\* A fault: a claim that ran out is called failed, although its receipt may still come.
AfterRefusalFails(a) ==
  LET was == action[a].state IN
  CASE was = "running" /\ ~action[a].live -> "failed"
    [] was \in {"proposed", "approved"} /\ ~Fenced(a) -> "rejected"
    [] OTHER -> was

\* claim without an admission: a result is recovered, a claim that ran out becomes
\* uncertain, a stale or denied proposal is rejected; otherwise nothing changes.
AfterRefusal(a) ==
  LET was == action[a].state IN
  CASE was \in {"running", "ambiguous"} /\ derivedResult[a] # "none" -> derivedResult[a]
    [] was = "running" /\ derivedResult[a] = "none" /\ ~action[a].live -> "ambiguous"
    [] was \in {"proposed", "approved"}
       /\ (~Fenced(a) \/ (NothingRuns /\ HasAuthority(a) /\ denyRule)) -> "rejected"
    [] OTHER -> was
RefuseClaim(a) ==
  /\ Visited(a) /\ AfterRefusal(a) # action[a].state
  /\ action' = [action EXCEPT ![a].state = AfterRefusal(a), ![a].live = FALSE]
  /\ UNCHANGED <<authority, records, toolJob, child, effects>>

\* finishHostWorkflow with observeHostTool: the visit reports what the row says.
Observed(a) ==
  CASE action[a].state = "done" -> "completed" [] action[a].state = "rejected" -> "denied"
    [] action[a].state \in {"failed", "ambiguous"} -> action[a].state [] OTHER -> "open"
ReportJob(a) ==
  /\ toolJob[a] = "open"
  /\ toolJob' = [toolJob EXCEPT ![a] = Observed(a)]
  /\ child' = [child EXCEPT ![a].leased = FALSE]
  /\ UNCHANGED <<action, authority, records, effects>>

\* start: authority is checked again, immediately before the operation.  (A row is claimed
\* once and its child asks once: started_at, which refuses another start, is left out.)
StillAuthorized(a) ==
  /\ Fenced(a) /\ action[a].live /\ ~denyRule
  /\ action[a].granted => PermissionValid(a)
MayAnswer(a) == child[a].leased /\ action[a].state = "running"
StartAction(a) ==
  /\ At(a, "start") /\ MayAnswer(a) /\ StillAuthorized(a)
  /\ \/ Become(a, Working("execute", "none"))
     \/ Become(a, Working("save", "ambiguous"))  \* the answer is lost
  /\ UNCHANGED <<action, authority, records, toolJob, effects>>
RefuseStart(a) ==
  /\ At(a, "start") /\ ~(MayAnswer(a) /\ StillAuthorized(a))
  /\ Become(a, Working("save", IF MayAnswer(a) THEN "failed" ELSE "ambiguous"))
  /\ UNCHANGED <<action, authority, records, toolJob, effects>>

\* permitted_execute: the operation is carried out or not, and the child may not learn
\* which; a failed exit says nothing about what was done before it.
ExecuteAction(a) ==
  /\ At(a, "execute")
  /\ \E carried \in {0, 1}, result \in Outcome :
       /\ result = "done" => carried = 1
       /\ effects' = [effects EXCEPT ![a] = @ + carried]
       /\ Become(a, Working("save", result))
  /\ UNCHANGED <<action, authority, records, toolJob>>

\* The receipt file is durable before the result is published, under one lock.
SaveReceipt(a) ==
  /\ At(a, "save") /\ ~SomeoneFinishes
  /\ receiptFile' = [receiptFile EXCEPT ![a] = child[a].saw]
  /\ Become(a, Working("finish", child[a].saw))
  /\ UNCHANGED <<action, authority, derivedResult, toolJob, effects>>
\* The child publishes it; the file stays when the child dies before it removes it.
FinishAction(a) ==
  /\ At(a, "finish") /\ PublishReceipt(a, child[a].saw)
  /\ \E kept \in {"none", child[a].saw} : receiptFile' = [receiptFile EXCEPT ![a] = kept]
  /\ Become(a, NoChild)
  /\ UNCHANGED <<authority, effects>>

\* The child dies; lease_until of the workflow, or of the row's claim, passes.
LoseChild(a) ==
  /\ ~At(a, "none") /\ Become(a, NoChild)
  /\ UNCHANGED <<action, authority, records, toolJob, effects>>
LoseJobLease(a) ==
  /\ child[a].leased /\ Become(a, [child[a] EXCEPT !.leased = FALSE])
  /\ UNCHANGED <<action, authority, records, toolJob, effects>>
EndClaim(a) ==
  /\ action[a].state = "running" /\ action[a].live
  /\ action' = [action EXCEPT ![a].live = FALSE]
  /\ UNCHANGED <<authority, records, toolJob, child, effects>>

ActionNext ==
  \/ EndPermission \/ SavePolicy \/ ReviseGuard
  \/ \E a \in Action :
       \/ ProposeAction(a) \/ DecideAction(a) \/ GrantPermission(a)
       \/ FlushReceipt(a) \/ ClaimAction(a) \/ RefuseClaim(a) \/ ReportJob(a)
       \/ StartAction(a) \/ RefuseStart(a) \/ ExecuteAction(a) \/ SaveReceipt(a)
       \/ FinishAction(a) \/ LoseChild(a) \/ LoseJobLease(a) \/ EndClaim(a)

ActionSpec == ActionInit /\ [][ActionNext]_ActionVars

----------------------------------------------------------------------------
ActionRow ==
  [state : {"none", "proposed", "approved", "rejected", "running"} \cup Outcome,
   bound : 0..MaxGuard, granted : BOOLEAN, live : BOOLEAN]
PermissionRow == [state : {"none", "live", "ended"}, bound : 0..MaxGuard, left : 0..Uses]
ToolJobState == {"none", "open", "completed", "denied", "failed", "ambiguous"}
ChildState ==
  [at : {"none", "start", "execute", "save", "finish"}, saw : Outcome \cup {"none"},
   leased : BOOLEAN]

ActionTypeOK ==
  /\ action \in [Action -> ActionRow] /\ permission \in PermissionRow
  /\ guardNow \in 0..MaxGuard /\ denyRule \in BOOLEAN
  /\ derivedResult \in [Action -> Outcome \cup {"none"}]
  /\ receiptFile \in [Action -> Outcome \cup {"none"}]
  /\ toolJob \in [Action -> ToolJobState]
  /\ child \in [Action -> ChildState]
  /\ effects \in [Action -> Nat]

\* An operation is carried out at most once, only after a start that holds an
\* approval or its own use of the permission, and a row says `done' only of an
\* operation that was carried out; whatever children outlive their leases.
EffectHasAuthority ==
  /\ \A a \in Action : /\ effects[a] <= 1
                       /\ effects[a] = 1 => action[a].state \in {"running"} \cup Outcome
                       /\ action[a].state = "done" => effects[a] = 1
  /\ permission.state # "none" =>
       Cardinality({a \in Action : action[a].granted}) + permission.left = Uses

\* A settled result is final, and it is the one the derived receipt keeps.
SettlementIsFinal ==
  \A a \in Action : action[a].state \in {"done", "failed"}
    => action'[a].state = action[a].state /\ derivedResult'[a] = action[a].state
=============================================================================
