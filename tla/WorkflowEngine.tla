--------------------------- MODULE WorkflowEngine ---------------------------
(***************************************************************************)
(* The durable job registry of one workflow family and everything that     *)
(* moves a job through it: the transactional outbox and its publisher, the *)
(* Inngest runs that advance a job step by step, the execution lease, the  *)
(* family lock with its owner epoch, owner controls, supersession, the     *)
(* effect receipts of the native runtime, and retention.                   *)
(* (src/src/workflows/store.ts, engine.ts, retention.ts,                   *)
(*  src/src/stores/workflow-owner.ts)                                      *)
(*                                                                         *)
(* One action is one database transaction or one awaited call of the code. *)
(* Time is abstract: a lease may expire at any moment, a back-off or the   *)
(* thirty seconds before a row is sent again may be over at any moment.    *)
(***************************************************************************)
EXTENDS Integers, FiniteSets

CONSTANTS
  Workflow,      \* rows of workflow_registry that may exist
  Run,           \* concurrent executions of an Inngest function
  Target,        \* the workflow a run's event names
  Newer,         \* newer generations of the same `source:' job; {} for other jobs
  Controllable,  \* workflows whose domain record the owner may still cancel
  Effectful,     \* workflows whose operation launches a native request
  OpResult,      \* states an operation may report
  NoRun,         \* SQL NULL in lease_token
  MaxDispatch, MaxEpoch, MaxAbandoned   \* bounds of the counters

OpenStates == {"queued", "waiting", "running", "retryable_failed"}
ClosedStates == {"completed", "failed", "skipped", "cancelled", "ambiguous", "denied"}
IdleStates == OpenStates \ {"running"}
ReceiptStates == {"none", "started", "done", "failed", "ambiguous"}

ASSUME TargetAssumption == Target \in [Run -> Workflow]
ASSUME NewerAssumption == Newer \in [Workflow -> SUBSET Workflow]
ASSUME ControlAssumption == Controllable \subseteq Workflow /\ Effectful \subseteq Workflow
ASSUME ResultAssumption == OpResult \subseteq (OpenStates \cup ClosedStates) \ {"queued"}
ASSUME NoRunAssumption == NoRun \notin Run
ASSUME BoundAssumption == {MaxDispatch, MaxEpoch} \subseteq Nat \ {0} /\ MaxAbandoned \in Nat

VARIABLES
  state, dispatch,          \* workflow_registry
  lease, leaseLive,         \* lease_token; whether lease_until is in the future
  receipt,                  \* the workflow's effect receipt
  outbox, published,        \* workflow_outbox rows; those with published_at set
  sending,                  \* rows the publisher has leased and the engine accepted
  received,                 \* workflow_runs: dispatches a fenced run has claimed
  events,                   \* accepted events the engine has not started yet
  pc, runDispatch,          \* where each run is, and the dispatch of its event
  runEpoch, result,         \* locals of its step: the epoch it read, what the operation said
  native,                   \* epoch of a launched native request that has not claimed
  epoch, admission,         \* workflow_owners
  \* History, read by no guard:
  lastClaim,                \* the last run to claim the workflow's current dispatch
  receiptEpoch,             \* the epoch under which the receipt was started
  abandoned                 \* dispatches whose run used up its retries

registry == <<state, dispatch, lease, leaseLive, lastClaim>>
outboxVars == <<outbox, published, sending>>
runVars == <<pc, runDispatch, runEpoch, result>>
effectVars == <<receipt, native, receiptEpoch>>
ownerVars == <<epoch, admission>>
vars == <<registry, outboxVars, received, events, runVars, effectVars, ownerVars, abandoned>>

PC == {"free", "step", "supersede", "claim", "claimed", "operating", "inside",
       "returned", "record"}
Row == Workflow \X (1..MaxDispatch)

TypeOK ==
  /\ state \in [Workflow -> OpenStates \cup ClosedStates \cup {"absent"}]
  /\ dispatch \in [Workflow -> 1..MaxDispatch]
  /\ lease \in [Workflow -> Run \cup {NoRun}]
  /\ leaseLive \in [Workflow -> BOOLEAN]
  /\ receipt \in [Workflow -> ReceiptStates]
  /\ outbox \subseteq Row /\ published \subseteq Row
  /\ sending \subseteq Row
  /\ received \subseteq Row /\ events \subseteq Row /\ abandoned \subseteq Row
  /\ pc \in [Run -> PC]
  /\ runDispatch \in [Run -> 0..MaxDispatch]
  /\ \A r \in Run : pc[r] # "free" => runDispatch[r] # 0
  /\ runEpoch \in [Run -> 0..MaxEpoch]
  /\ result \in [Run -> OpenStates \cup ClosedStates \cup {"none"}]
  /\ \A r \in Run : pc[r] \in {"returned", "record"} => result[r] # "none"
  /\ native \in [Workflow -> 0..MaxEpoch]
  /\ epoch \in 1..MaxEpoch /\ admission \in BOOLEAN
  /\ lastClaim \in [Workflow -> Run \cup {NoRun}]
  /\ receiptEpoch \in [Workflow -> 0..MaxEpoch]

Open(w) == state[w] \in OpenStates
Closed(w) == state[w] \in ClosedStates
Current(w) == <<w, dispatch[w]>>
ReceiptFree(w) == receipt[w] \in {"none", "failed"}
Drained == \A r \in Run : pc[r] # "inside"     \* the exclusive family lock is free
HasNewer(w) == \E n \in Newer[w] : state[n] # "absent"
Superseded(w) == HasNewer(w) /\ ReceiptFree(w)

Init ==
  /\ state = [w \in Workflow |-> "absent"] /\ dispatch = [w \in Workflow |-> 1]
  /\ lease = [w \in Workflow |-> NoRun] /\ leaseLive = [w \in Workflow |-> FALSE]
  /\ lastClaim = [w \in Workflow |-> NoRun]
  /\ receipt = [w \in Workflow |-> "none"] /\ receiptEpoch = [w \in Workflow |-> 0]
  /\ native = [w \in Workflow |-> 0]
  /\ outbox = {} /\ published = {} /\ sending = {}
  /\ received = {} /\ events = {} /\ abandoned = {}
  /\ pc = [r \in Run |-> "free"] /\ runDispatch = [r \in Run |-> 0]
  /\ runEpoch = [r \in Run |-> 0] /\ result = [r \in Run |-> "none"]
  /\ epoch = 1 /\ admission = TRUE

-----------------------------------------------------------------------------
(* The registry and its outbox.                                            *)

\* The job and its first outbox row are inserted in the transaction of the
\* domain change; asking again inserts only what is missing.
Request(w) ==
  /\ state' = [state EXCEPT ![w] = IF @ = "absent" THEN "queued" ELSE @]
  /\ outbox' = outbox \cup {<<w, 1>>}
  /\ UNCHANGED <<dispatch, lease, leaseLive, lastClaim, published, sending, received, events,
                 runVars, effectVars, ownerVars, abandoned>>

\* Mutant: the next dispatch gets no outbox row.
RedispatchWithoutRow(w) ==
  /\ dispatch[w] < MaxDispatch
  /\ dispatch' = [dispatch EXCEPT ![w] = @ + 1]
  /\ outbox' = outbox
  /\ lastClaim' = [lastClaim EXCEPT ![w] = NoRun]

\* A workflow moves to its next dispatch: the number, its outbox row, and no
\* claimant yet.
Redispatch(w) ==
  /\ dispatch[w] < MaxDispatch
  /\ dispatch' = [dispatch EXCEPT ![w] = @ + 1]
  /\ outbox' = outbox \cup {<<w, dispatch[w] + 1>>}
  /\ lastClaim' = [lastClaim EXCEPT ![w] = NoRun]

ClearLease(w) ==
  /\ lease' = [lease EXCEPT ![w] = NoRun]
  /\ leaseLive' = [leaseLive EXCEPT ![w] = FALSE]

\* Mutant: a published row is never sent again.
DueOnce(w) == Open(w) /\ Current(w) \in outbox /\ Current(w) \notin published

\* The current row of an open workflow is due when it was never published or
\* no claimed run has recorded it.
Due(w) == /\ Open(w) /\ Current(w) \in outbox
          /\ Current(w) \notin published \/ Current(w) \notin received

\* The publisher leases a due row and sends it. Refused, or accepted with
\* the answer lost, the row is released and due again later.
PublishAccepted(w) ==
  /\ Due(w) /\ admission /\ Current(w) \notin sending
  /\ sending' = sending \cup {Current(w)}
  /\ events' = events \cup {Current(w)}
  /\ UNCHANGED <<registry, outbox, published, received, runVars, effectVars, ownerVars, abandoned>>

AnswerLost(w) ==
  /\ Due(w) /\ admission /\ Current(w) \notin sending
  /\ events' = events \cup {Current(w)}
  /\ UNCHANGED <<registry, outboxVars, received, runVars, effectVars, ownerVars, abandoned>>

MarkPublished(x) ==
  /\ x \in sending
  /\ sending' = sending \ {x}
  /\ published' = published \cup ({x} \cap outbox)
  /\ UNCHANGED <<registry, outbox, received, events, runVars, effectVars, ownerVars, abandoned>>

\* The publisher dies before it marks the row; the row's lease expires.
PublisherCrash(x) ==
  /\ x \in sending
  /\ sending' = sending \ {x}
  /\ UNCHANGED <<registry, outbox, published, received, events, runVars, effectVars, ownerVars,
                 abandoned>>

\* Accepted before the engine's event consumer was there, and dropped.
LoseEvent(x) ==
  /\ x \in events
  /\ events' = events \ {x}
  /\ UNCHANGED <<registry, outboxVars, received, runVars, effectVars, ownerVars, abandoned>>

-----------------------------------------------------------------------------
(* One run: coordinatedFunctions and advanceWorkflow.                      *)

Goto(r, place) == pc' = [pc EXCEPT ![r] = place]

\* The step is over and its locals are gone: the run sleeps before the next.
NextStep(r) ==
  /\ Goto(r, "step") /\ UNCHANGED runDispatch
  /\ runEpoch' = [runEpoch EXCEPT ![r] = 0] /\ result' = [result EXCEPT ![r] = "none"]

EndRun(r) ==
  /\ Goto(r, "free") /\ runDispatch' = [runDispatch EXCEPT ![r] = 0]
  /\ runEpoch' = [runEpoch EXCEPT ![r] = 0] /\ result' = [result EXCEPT ![r] = "none"]

StartRun(r, x) ==
  /\ pc[r] = "free" /\ x \in events /\ x[1] = Target[r]
  /\ events' = events \ {x}
  /\ Goto(r, "step") /\ runDispatch' = [runDispatch EXCEPT ![r] = x[2]]
  /\ UNCHANGED <<registry, outboxVars, received, runEpoch, result, effectVars, ownerVars, abandoned>>

Serves(r, w) == Target[r] = w /\ runDispatch[r] = dispatch[w]
Relevant(r) == Serves(r, Target[r]) /\ Open(Target[r])
IsSourceJob(w) == Newer[w] # {}

\* The first query of a step: a row of another dispatch or a closed one ends
\* the run; otherwise the epoch read here is the step's authority. Without
\* admission the step reports `waiting' and changes nothing.
ReadEnds(r) ==
  /\ pc[r] = "step" /\ ~Relevant(r)
  /\ EndRun(r)
  /\ UNCHANGED <<registry, outboxVars, received, events, effectVars, ownerVars, abandoned>>

Read(r) ==
  /\ pc[r] = "step" /\ Relevant(r) /\ admission
  /\ Goto(r, IF IsSourceJob(Target[r]) THEN "supersede" ELSE "claim")
  /\ runEpoch' = [runEpoch EXCEPT ![r] = epoch]
  /\ UNCHANGED <<registry, outboxVars, received, events, runDispatch, result, effectVars,
                 ownerVars, abandoned>>

\* An idle older generation of a source job steps aside for a newer one.
StepsAside(w) == state[w] \in IdleStates /\ lease[w] = NoRun /\ Superseded(w)

SupersedeBefore(r) ==
  LET w == Target[r] IN
  /\ pc[r] = "supersede"
  /\ \/ /\ Serves(r, w) /\ StepsAside(w)
        /\ state' = [state EXCEPT ![w] = "skipped"]
        /\ EndRun(r)
     \/ /\ ~(Serves(r, w) /\ StepsAside(w))
        /\ Goto(r, "claim")
        /\ UNCHANGED <<state, runDispatch, runEpoch, result>>
  /\ UNCHANGED <<dispatch, lease, leaseLive, lastClaim, outboxVars, received, events, effectVars,
                 ownerVars, abandoned>>

Claimable(r) ==
  LET w == Target[r] IN
  /\ Relevant(r)
  /\ lease[w] = NoRun \/ ~leaseLive[w]
  /\ admission /\ runEpoch[r] = epoch

Claim(r) ==
  LET w == Target[r] IN
  /\ pc[r] = "claim" /\ Claimable(r)
  /\ lease' = [lease EXCEPT ![w] = r] /\ leaseLive' = [leaseLive EXCEPT ![w] = TRUE]
  /\ lastClaim' = [lastClaim EXCEPT ![w] = r]
  /\ Goto(r, "claimed")
  /\ UNCHANGED <<state, dispatch, outboxVars, received, events, runDispatch, runEpoch, result,
                 effectVars, ownerVars, abandoned>>

\* Mutant: a refused claim ends the run, as a closed result would.
ClaimRefusedEnds(r) ==
  /\ pc[r] = "claim" /\ ~Claimable(r)
  /\ EndRun(r)
  /\ UNCHANGED <<registry, outboxVars, received, events, effectVars, ownerVars, abandoned>>

\* A refused claim reports `waiting': the run sleeps and takes its next step.
ClaimRefused(r) ==
  /\ pc[r] = "claim" /\ ~Claimable(r)
  /\ NextStep(r)
  /\ UNCHANGED <<registry, outboxVars, received, events, effectVars, ownerVars, abandoned>>

\* The second statement of claimWorkflow, outside the claim's transaction.
RecordRun(r) ==
  /\ pc[r] = "claimed"
  /\ received' = received \cup {<<Target[r], runDispatch[r]>>}
  /\ Goto(r, "operating")
  /\ UNCHANGED <<registry, outboxVars, events, runDispatch, runEpoch, result, effectVars, ownerVars,
                 abandoned>>

\* Mutant: the lock is taken without comparing the epoch.
MayEnterAnyEpoch(r) == admission

\* The operation takes the shared family lock and checks the owner row under
\* it; without both it reports `waiting'.
MayEnter(r) == admission /\ runEpoch[r] = epoch

EnterFamily(r) ==
  /\ pc[r] = "operating" /\ MayEnter(r)
  /\ Goto(r, "inside")
  /\ UNCHANGED <<registry, outboxVars, received, events, runDispatch, runEpoch, result, effectVars,
                 ownerVars, abandoned>>

\* Mutant: the answer is not kept for the record.
ReturnForgets(r, answer) ==
  /\ Goto(r, IF IsSourceJob(Target[r]) THEN "returned" ELSE "record")
  /\ UNCHANGED <<registry, outboxVars, received, events, runDispatch, runEpoch, result, effectVars,
                 ownerVars, abandoned>>

Return(r, answer) ==
  /\ result' = [result EXCEPT ![r] = answer]
  /\ Goto(r, IF IsSourceJob(Target[r]) THEN "returned" ELSE "record")
  /\ UNCHANGED <<registry, outboxVars, received, events, runDispatch, runEpoch, effectVars,
                 ownerVars, abandoned>>

EnterRefused(r) == pc[r] = "operating" /\ ~MayEnter(r) /\ Return(r, "waiting")

\* The operation returns or throws (executionFailure turns that into a
\* state) and gives the lock back.
LeaveFamily(r) == pc[r] = "inside" /\ \E answer \in OpResult : Return(r, answer)

\* The operation hands its request to the native runtime with its epoch.
Launch(r) ==
  /\ pc[r] = "inside" /\ Target[r] \in Effectful
  /\ native' = [native EXCEPT ![Target[r]] = runEpoch[r]]
  /\ UNCHANGED <<registry, outboxVars, received, events, runVars, receipt, receiptEpoch, ownerVars,
                 abandoned>>

\* A newer generation appeared while the operation ran.
SupersedeAfter(r) ==
  /\ pc[r] = "returned"
  /\ result' = [result EXCEPT ![r] =
                  IF @ \in OpenStates /\ Superseded(Target[r]) THEN "skipped" ELSE @]
  /\ Goto(r, "record")
  /\ UNCHANGED <<registry, outboxVars, received, events, runDispatch, runEpoch, effectVars,
                 ownerVars, abandoned>>

\* The fenced UPDATE: only the token it claimed with, only an open row. The
\* run ends on a closed result whether or not the row was written.
Record(r) ==
  LET w == Target[r] IN
  /\ pc[r] = "record"
  /\ IF lease[w] = r /\ Open(w)
     THEN state' = [state EXCEPT ![w] = result[r]] /\ ClearLease(w)
     ELSE UNCHANGED <<state, lease, leaseLive>>
  /\ IF result[r] \in ClosedStates THEN EndRun(r) ELSE NextStep(r)
  /\ UNCHANGED <<dispatch, lastClaim, outboxVars, received, events, effectVars, ownerVars, abandoned>>

\* The four hundredth step: a fresh run takes over under the next dispatch.
Continue(r) ==
  LET w == Target[r] IN
  /\ pc[r] = "step"
  /\ IF Relevant(r) THEN Redispatch(w) ELSE UNCHANGED <<dispatch, outbox, lastClaim>>
  /\ EndRun(r)
  /\ UNCHANGED <<state, lease, leaseLive, published, sending, received, events, effectVars,
                 ownerVars, abandoned>>

-----------------------------------------------------------------------------
(* Crashes, retries and leases.                                            *)

\* The step's process dies or a statement fails: the session's locks go, the
\* lease stays, and the engine runs the same step again ...
Crash(r) ==
  /\ pc[r] \notin {"free", "step"}
  /\ NextStep(r)
  /\ UNCHANGED <<registry, outboxVars, received, events, effectVars, ownerVars, abandoned>>

\* ... unless the step has used its twenty retries: then the run has failed.
Abandon(r) ==
  /\ pc[r] # "free" /\ Cardinality(abandoned) < MaxAbandoned
  /\ abandoned' = abandoned \cup {<<Target[r], runDispatch[r]>>}
  /\ EndRun(r)
  /\ UNCHANGED <<registry, outboxVars, received, events, effectVars, ownerVars>>

ExpireLease(w) ==
  /\ leaseLive[w]
  /\ leaseLive' = [leaseLive EXCEPT ![w] = FALSE]
  /\ UNCHANGED <<state, dispatch, lease, lastClaim, outboxVars, received, events, runVars,
                 effectVars, ownerVars, abandoned>>

\* The fifteen-second timer asks for the token only: it also revives a lease
\* that has run out.
Renew(r) ==
  LET w == Target[r] IN
  /\ pc[r] \in {"operating", "inside", "returned", "record"}
  /\ lease[w] = r /\ ~leaseLive[w]
  /\ leaseLive' = [leaseLive EXCEPT ![w] = TRUE]
  /\ UNCHANGED <<state, dispatch, lease, lastClaim, outboxVars, received, events, runVars,
                 effectVars, ownerVars, abandoned>>

-----------------------------------------------------------------------------
(* The native runtime's receipts (managed execution).                      *)

\* Mutant: a claim replaces the receipt of an earlier one.
NativeClaimAgain(w) ==
  /\ native[w] = epoch /\ admission
  /\ receipt' = [receipt EXCEPT ![w] = "started"]
  /\ receiptEpoch' = [receiptEpoch EXCEPT ![w] = epoch]
  /\ native' = [native EXCEPT ![w] = 0]
  /\ UNCHANGED <<registry, outboxVars, received, events, runVars, ownerVars, abandoned>>

\* The claim of a launched request checks epoch and admission under the
\* family lock and inserts the started receipt in the same transaction.
NativeClaim(w) ==
  /\ native[w] = epoch /\ admission
  /\ ReceiptFree(w)
  /\ receipt' = [receipt EXCEPT ![w] = "started"]
  /\ receiptEpoch' = [receiptEpoch EXCEPT ![w] = epoch]
  /\ native' = [native EXCEPT ![w] = 0]
  /\ UNCHANGED <<registry, outboxVars, received, events, runVars, ownerVars, abandoned>>

\* Completion, or an interruption that leaves the outcome unknown; late
\* evidence still settles an ambiguous receipt. Neither asks for admission.
NativeSettle(w) ==
  /\ receipt[w] \in {"started", "ambiguous"}
  /\ \E s \in {"done", "failed", "ambiguous"} : receipt' = [receipt EXCEPT ![w] = s]
  /\ UNCHANGED <<registry, outboxVars, received, events, runVars, native, receiptEpoch, ownerVars,
                 abandoned>>

-----------------------------------------------------------------------------
(* Owner, operator and maintenance.                                        *)

Pause ==
  /\ admission /\ admission' = FALSE
  /\ UNCHANGED <<registry, outboxVars, received, events, runVars, effectVars, epoch, abandoned>>

\* Mutant: the switch looks at registry states only.
UnreconciledStateOnly(w) == state[w] = "running"

Unreconciled(w) == state[w] = "running" \/ receipt[w] = "started"

Switch ==
  /\ ~admission /\ epoch < MaxEpoch
  /\ Drained /\ \A w \in Workflow : ~Unreconciled(w)
  /\ epoch' = epoch + 1 /\ admission' = TRUE
  /\ UNCHANGED <<registry, outboxVars, received, events, runVars, effectVars, abandoned>>

\* What both controls ask for: the exclusive family lock, admission, no
\* active step and no receipt that may stand for an effect.
Controls(w) == Drained /\ admission /\ ~leaseLive[w] /\ ReceiptFree(w)

Retry(w) ==
  /\ Controls(w) /\ state[w] = "retryable_failed"
  /\ state' = [state EXCEPT ![w] = "queued"]
  /\ Redispatch(w) /\ ClearLease(w)
  /\ UNCHANGED <<published, sending, received, events, runVars, effectVars, ownerVars, abandoned>>

\* Mutant: a cancelled workflow keeps the token of a dead run.
CancelKeepsLease(w) ==
  /\ Controls(w) /\ state[w] \in IdleStates /\ w \in Controllable
  /\ state' = [state EXCEPT ![w] = "cancelled"]
  /\ UNCHANGED <<dispatch, lease, leaseLive, lastClaim, outboxVars, received, events, runVars,
                 effectVars, ownerVars, abandoned>>

Cancel(w) ==
  /\ Controls(w) /\ state[w] \in IdleStates /\ w \in Controllable
  /\ state' = [state EXCEPT ![w] = "cancelled"]
  /\ ClearLease(w)
  /\ UNCHANGED <<dispatch, lastClaim, outboxVars, received, events, runVars, effectVars, ownerVars,
                 abandoned>>

\* The maintenance sweep over superseded source workflows.
Retire(w) ==
  /\ StepsAside(w)
  /\ state' = [state EXCEPT ![w] = "skipped"]
  /\ UNCHANGED <<dispatch, lease, leaseLive, lastClaim, outboxVars, received, events, runVars,
                 effectVars, ownerVars, abandoned>>

\* Mutant: the reopened workflow keeps its dispatch.
ReopenSameDispatch(w) ==
  /\ Drained /\ state[w] = "ambiguous" /\ receipt[w] = "ambiguous"
  /\ state' = [state EXCEPT ![w] = "retryable_failed"]
  /\ receipt' = [receipt EXCEPT ![w] = "failed"]
  /\ ClearLease(w)
  /\ UNCHANGED <<dispatch, outbox, lastClaim, published, sending, received, events, runVars, native,
                 receiptEpoch, ownerVars, abandoned>>

\* An interrupted turn whose native journal proves that nothing was
\* delivered: receipt and registry are reopened together.
Reopen(w) ==
  /\ Drained /\ state[w] = "ambiguous" /\ receipt[w] = "ambiguous"
  /\ state' = [state EXCEPT ![w] = "retryable_failed"]
  /\ receipt' = [receipt EXCEPT ![w] = "failed"]
  /\ Redispatch(w) /\ ClearLease(w)
  /\ UNCHANGED <<published, sending, received, events, runVars, native, receiptEpoch, ownerVars,
                 abandoned>>

\* Retention removes the rows of an older dispatch or of a closed workflow.
Disposable(x) == x[2] < dispatch[x[1]] \/ Closed(x[1])

PruneOutbox(x) ==
  /\ x \in outbox \ sending /\ Disposable(x)
  /\ outbox' = outbox \ {x} /\ published' = published \ {x}
  /\ UNCHANGED <<registry, sending, received, events, runVars, effectVars, ownerVars, abandoned>>

PruneRuns(x) ==
  /\ x \in received /\ Disposable(x)
  /\ received' = received \ {x}
  /\ UNCHANGED <<registry, outboxVars, events, runVars, effectVars, ownerVars, abandoned>>

-----------------------------------------------------------------------------
Advance(r) == \/ ReadEnds(r) \/ Read(r) \/ SupersedeBefore(r) \/ Claim(r) \/ ClaimRefused(r)
              \/ RecordRun(r) \/ EnterFamily(r) \/ EnterRefused(r) \/ LeaveFamily(r)
              \/ SupersedeAfter(r) \/ Record(r)

RunStep(r) == Advance(r) \/ Launch(r) \/ Continue(r) \/ Crash(r) \/ Abandon(r) \/ Renew(r)

JobStep(w) == \/ Request(w) \/ PublishAccepted(w) \/ AnswerLost(w) \/ ExpireLease(w)
              \/ NativeClaim(w) \/ NativeSettle(w)
              \/ Retry(w) \/ Cancel(w) \/ Retire(w) \/ Reopen(w)

RowStep(x) == \/ MarkPublished(x) \/ PublisherCrash(x) \/ LoseEvent(x)
              \/ PruneOutbox(x) \/ PruneRuns(x)

Next == \/ \E w \in Workflow : JobStep(w)
        \/ \E r \in Run : RunStep(r)
        \/ \E r \in Run, x \in Row : StartRun(r, x)
        \/ \E x \in Row : RowStep(x)
        \/ Pause \/ Switch

Spec == Init /\ [][Next]_vars

\* Scheduling: the publisher's loop goes on, the engine takes its steps, dead
\* leases run out, and an event sent again and again is eventually started.
\* The sweep over superseded workflows is not relied on: it stops once it has
\* found little to do. Steps may crash any number of times but not for ever
\* (the engine gives up after twenty: see Abandon; a refused claim leaves
\* the same state as a crash and may happen for ever). What an operation
\* answers, the operator and the owner are not assumed.
Fairness ==
  /\ \A w \in Workflow : SF_vars(PublishAccepted(w)) /\ WF_vars(ExpireLease(w))
  /\ \A x \in Row : WF_vars(MarkPublished(x))
  /\ \A r \in Run : /\ WF_vars(Advance(r)) /\ <>[][Crash(r) => Advance(r)]_vars
                    /\ \A x \in Row : SF_vars(StartRun(r, x))

FairSpec == Spec /\ Fairness

-----------------------------------------------------------------------------
(* Properties.                                                             *)

\* An open workflow always keeps the outbox row of its current dispatch:
\* no continuation, control, reopening or retention leaves it without one.
OpenHasOutbox == \A w \in Workflow : Open(w) => Current(w) \in outbox

\* An open workflow is never stranded: the publisher will still send its
\* current dispatch, or a run of that dispatch is alive in the engine. The
\* one exception is a run that used up its retries (coordinatedFunctions).
NoLostDriver ==
  \A w \in Workflow : Open(w) =>
    \/ Due(w)
    \/ \E r \in Run : Serves(r, w) /\ pc[r] # "free"
    \/ Current(w) \in abandoned

\* A closed workflow holds no lease, so no renewal or late result of a run
\* can reach it (claimWorkflow, controlStorageWorkflow, advanceWorkflow).
ClosedHoldsNoLease == \A w \in Workflow : lease[w] # NoRun => Open(w)

\* Whoever acts for the family acts under the present owner epoch, however
\* old its snapshot of the owner row is (enterFamily, switchFamilyTransaction).
EpochFence == \A r \in Run : pc[r] = "inside" => runEpoch[r] = epoch

\* An ownership switch never leaves an unsettled effect of an earlier epoch.
StartedUnderEpoch == \A w \in Workflow : receipt[w] = "started" => receiptEpoch[w] = epoch

\* Every effect keeps the promise of the registry's receipts, through owner
\* switches, late settlements and reopenings (beginEffect, finishEffect).
EffectOf(w) == INSTANCE DurableEffect WITH receipt <- receipt[w], heldEpoch <- receiptEpoch[w]
EffectsBegin == \A w \in Workflow : EffectOf(w)!EffectInit
EffectsStep == \A w \in Workflow : EffectOf(w)!EffectNext \/ UNCHANGED EffectOf(w)!effectVars
EffectsKept == EffectsBegin /\ [][EffectsStep]_vars

\* A closed workflow opens again only as a new dispatch whose effect receipt
\* is free: what the retention of old outbox and run rows relies on.
ReopensFresh == [][\A w \in Workflow : Closed(w) /\ Open(w)' =>
                      dispatch'[w] = dispatch[w] + 1 /\ ReceiptFree(w)']_vars

\* While the family admits work, every open workflow is worked on again and
\* again until it closes: no lost event, dead run or dead lease stops it.
Working(w) == \E r \in Run : Serves(r, w) /\ pc[r] = "inside"
OpenIsWorkedOn == (<>[]admission) => \A w \in Workflow : []<>(~Open(w) \/ Working(w))

\* Once a newer generation exists, the older one closes unless it has an
\* effect: a waiting predecessor is not worked on for ever, whatever order
\* the request, the runs and the maintenance sweep come in.
SupersededCloses ==
  (<>[]admission) => \A w \in Workflow : (Open(w) /\ Superseded(w)) ~> (Closed(w) \/ ~ReceiptFree(w))
=============================================================================
