------------------------------ MODULE MCProgress ------------------------------
(***************************************************************************)
(* Progress under fairness, of three instances in one run: a workflow and  *)
(* the two dispatches that drive it, an older and a newer generation of a  *)
(* source job, and a running message.  `shape' chooses one of them in the  *)
(* initial state and never changes; only that one moves.  Each property    *)
(* asks for the fairness of its own shape.                                 *)
(***************************************************************************)
EXTENDS Integers, TLC

CONSTANTS w1, w2, r1, NoRun, s1, NoStep

VARIABLES
  shape,
  state, dispatch, lease, leaseLive, receipt, outbox, published, sending, received, events,
  pc, runDispatch, runEpoch, result, native, epoch, admission, lastClaim, receiptEpoch,
  abandoned,
  state2, dispatch2, lease2, leaseLive2, receipt2, outbox2, published2, sending2, received2,
  events2, pc2, runDispatch2, runEpoch2, result2, native2, epoch2, admission2, lastClaim2,
  receiptEpoch2, abandoned2,
  dstate, attempts, checked, saved, retired, stale, wf, holder, live, receipts,
  place, saw, at, val, output, phase, active, cancelling, outcome, closed, inflight, delivered

\* One workflow of which two dispatches and every answer may come.
Driven == INSTANCE WorkflowEngine WITH
  Workflow <- {w1}, Run <- {r1}, Target <- (r1 :> w1), Newer <- (w1 :> {}),
  Controllable <- {w1}, Effectful <- {},
  OpResult <- {"waiting", "retryable_failed", "completed"},
  MaxDispatch <- 2, MaxEpoch <- 1, MaxAbandoned <- 0

\* An older and a newer generation of one source job.
Source == INSTANCE WorkflowEngine WITH
  Workflow <- {w1, w2}, Run <- {r1}, Target <- (r1 :> w1),
  Newer <- (w1 :> {w2}) @@ (w2 :> {}),
  Controllable <- {}, Effectful <- {}, OpResult <- {"waiting", "completed"},
  MaxDispatch <- 1, MaxEpoch <- 1, MaxAbandoned <- 0,
  state <- state2, dispatch <- dispatch2, lease <- lease2, leaseLive <- leaseLive2,
  receipt <- receipt2, outbox <- outbox2, published <- published2, sending <- sending2,
  received <- received2, events <- events2, pc <- pc2, runDispatch <- runDispatch2,
  runEpoch <- runEpoch2, result <- result2, native <- native2, epoch <- epoch2,
  admission <- admission2, lastClaim <- lastClaim2, receiptEpoch <- receiptEpoch2,
  abandoned <- abandoned2

\* One attempt of one message.
Reply == INSTANCE TelegramDispatch WITH Step <- {s1}, MaxAttempts <- 1, pc <- place

engine == <<state, dispatch, lease, leaseLive, receipt, outbox, published, sending,
            received, events, pc, runDispatch, runEpoch, result, native, epoch, admission,
            lastClaim, receiptEpoch, abandoned>>
engine2 == <<state2, dispatch2, lease2, leaseLive2, receipt2, outbox2, published2, sending2,
             received2, events2, pc2, runDispatch2, runEpoch2, result2, native2, epoch2,
             admission2, lastClaim2, receiptEpoch2, abandoned2>>
telegram == <<dstate, attempts, checked, saved, retired, stale, wf, holder, live, receipts,
              place, saw, at, val, output, phase, active, cancelling, outcome, closed, inflight,
              delivered>>
progress == <<shape, engine, engine2, telegram>>

Init == shape \in {"driven", "source", "reply"} /\ Driven!Init /\ Source!Init /\ Reply!Init

Next ==
  /\ UNCHANGED shape
  /\ \/ shape = "driven" /\ Driven!Next /\ UNCHANGED <<engine2, telegram>>
     \/ shape = "source" /\ Source!Next /\ UNCHANGED <<engine, telegram>>
     \/ shape = "reply" /\ Reply!Next /\ UNCHANGED <<engine, engine2>>

Spec == Init /\ [][Next]_progress

----------------------------------------------------------------------------
(* The fairness of the two modules, of the steps of one shape.             *)

DrivenFairness ==
  /\ \A w \in {w1} : /\ SF_engine(shape = "driven" /\ Driven!PublishAccepted(w))
                   /\ WF_engine(shape = "driven" /\ Driven!ExpireLease(w))
  /\ \A x \in Driven!Row : /\ WF_engine(shape = "driven" /\ Driven!MarkPublished(x))
                         /\ SF_engine(shape = "driven" /\ Driven!StartRun(r1, x))
  /\ WF_engine(shape = "driven" /\ Driven!Advance(r1))
  /\ <>[][shape = "driven" /\ Driven!Crash(r1) => Driven!Advance(r1)]_engine
SourceFairness ==
  /\ \A w \in {w1, w2} : /\ SF_engine2(shape = "source" /\ Source!PublishAccepted(w))
                   /\ WF_engine2(shape = "source" /\ Source!ExpireLease(w))
  /\ \A x \in Source!Row : /\ WF_engine2(shape = "source" /\ Source!MarkPublished(x))
                         /\ SF_engine2(shape = "source" /\ Source!StartRun(r1, x))
  /\ WF_engine2(shape = "source" /\ Source!Advance(r1))
  /\ <>[][shape = "source" /\ Source!Crash(r1) => Source!Advance(r1)]_engine2
ReplyFairness ==
  /\ WF_telegram(shape = "reply" /\ Reply!Advance(s1))
  /\ SF_telegram(shape = "reply" /\ Reply!Observe(s1))
  /\ SF_telegram(shape = "reply" /\ Reply!Build(s1))
  /\ WF_telegram(shape = "reply" /\ Reply!Progress(1))
  /\ WF_telegram(shape = "reply" /\ Reply!EndThread(1))
  /\ WF_telegram(shape = "reply" /\ Reply!ExpireLease)
  /\ <>[][shape = "reply" /\ Reply!Faults => Reply!Advance(s1)]_telegram

----------------------------------------------------------------------------
\* WorkflowEngine's OpenIsWorkedOn, of the driven workflow: while its family is admitted,
\* an open workflow is worked on again and again, whatever crashes and gets lost.
OpenIsWorkedOn ==
  DrivenFairness /\ <>[]admission =>
    []<>(shape = "driven" => ~Driven!Open(w1) \/ Driven!Working(w1))
\* WorkflowEngine's SupersededCloses, of the older generation: it closes unless it has an
\* effect, whatever order the request, the runs and the sweep come in.
SupersededCloses ==
  SourceFairness /\ <>[]admission2 =>
    ((Source!Open(w1) /\ Source!Superseded(w1)) ~> (Source!Closed(w1) \/ ~Source!ReceiptFree(w1)))
\* TelegramDispatch's RunningSettles: a running message is observed until it has a result,
\* whatever restarts meanwhile.
RunningSettles == ReplyFairness => Reply!RunningSettles
=============================================================================
