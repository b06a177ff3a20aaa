---------------------------- MODULE BackgroundWork ----------------------------
(***************************************************************************)
(* Background work of the storage families: admission to the two operation *)
(* slots, with one callback at most waiting for the background slot, and   *)
(* the native memory reviews that may hold it for minutes.  A review is a  *)
(* call to Hermes which is made once: what became of it is only observed.  *)
(* (src/src/stores/workflow-operations.ts, native-review.ts)               *)
(***************************************************************************)
EXTENDS Integers, FiniteSets

CONSTANTS
  Callback,           \* concurrent callbacks of background families
  NoCallback,
  MaximumSlots,       \* boundStorageOperations: 1 or 2
  ReconcileLimit,     \* nativeReconcileLimit
  MaxReviewEpoch,     \* bound: guard epochs; a source has one job for each
  MaxReviewRevision   \* bound: owner commands on one job

ASSUME BackgroundAssumption ==
  /\ NoCallback \notin Callback /\ MaximumSlots \in 1..2
  /\ ReconcileLimit \in Nat \ {0} /\ MaxReviewEpoch \in Nat /\ MaxReviewRevision \in Nat

VARIABLES
  replies,      \* foreground operations running
  callback,     \* what each background callback does
  slotWaiter,   \* backgroundWaiter
  reviewEpoch,  \* guard_state.epoch
  consent,      \* learning_consent of the source
  review,       \* native_review_jobs of one source, by the epoch of their binding
  reviewLock,   \* advisory lock 803359
  asked,        \* memory.review calls under way to Hermes
  hermes,       \* what Hermes holds of each review
  begun,        \* ghost: how often Hermes began each review
  result        \* reviews with a saved runtime_result

BackgroundVars == <<replies, callback, slotWaiter, reviewEpoch, consent, review, reviewLock, asked,
                    hermes, begun, result>>
slots == <<replies, slotWaiter>>
reviewed == <<reviewEpoch, consent, review, reviewLock, asked, hermes, begun, result>>

ReviewJob == 0..MaxReviewEpoch
Out == [at |-> "out", job |-> 0, revision |-> 0, uncertain |-> FALSE]
NoReview == [state |-> "none", paused |-> FALSE, attempts |-> 0, revision |-> 0, checks |-> 0]

BackgroundInit ==
  /\ replies = 0 /\ callback = [c \in Callback |-> Out] /\ slotWaiter = NoCallback
  /\ reviewEpoch = 0 /\ consent \in BOOLEAN /\ review = [j \in ReviewJob |-> NoReview]
  /\ reviewLock = NoCallback
  /\ asked = {} /\ hermes = [j \in ReviewJob |-> "none"] /\ begun = [j \in ReviewJob |-> 0]
  /\ result = {}

----------------------------------------------------------------------------
(* boundStorageOperations.                                                 *)

Inside(cs) == {c \in Callback : cs[c].at \notin {"out", "waiting"}}
SlotsTaken == replies + Cardinality(Inside(callback))
\* A fault: the waiter is started as soon as any slot is free.
RoomForAny == MaximumSlots
RoomForBackground == IF MaximumSlots = 1 THEN 1 ELSE MaximumSlots - 1

AdmitReply ==
  /\ SlotsTaken < MaximumSlots /\ replies' = replies + 1
  /\ UNCHANGED <<callback, slotWaiter, reviewed>>
\* A callback that finds neither room nor the waiting place answers receipt_pending.
AdmitBackground(c) ==
  /\ callback[c].at = "out" /\ slotWaiter = NoCallback
  /\ \E j \in ReviewJob :
       IF SlotsTaken < MaximumSlots /\ SlotsTaken < RoomForBackground
       THEN callback' = [callback EXCEPT ![c] = [Out EXCEPT !.at = "in", !.job = j]]
            /\ UNCHANGED slotWaiter
       ELSE /\ callback' = [callback EXCEPT ![c] = [Out EXCEPT !.at = "waiting", !.job = j]]
            /\ slotWaiter' = c
  /\ UNCHANGED <<replies, reviewed>>
WaitingTimesOut ==
  /\ slotWaiter # NoCallback
  /\ callback' = [callback EXCEPT ![slotWaiter] = Out] /\ slotWaiter' = NoCallback
  /\ UNCHANGED <<replies, reviewed>>

\* finally: the place is handed over while nobody else can take it.
HandOver(cs, n) ==
  IF slotWaiter # NoCallback /\ n + Cardinality(Inside(cs)) < RoomForBackground
  THEN callback' = [cs EXCEPT ![slotWaiter].at = "in"] /\ slotWaiter' = NoCallback
  ELSE callback' = cs /\ UNCHANGED slotWaiter
EndReply ==
  /\ replies > 0 /\ replies' = replies - 1 /\ HandOver(callback, replies - 1)
  /\ UNCHANGED reviewed
Ends(c) == HandOver([callback EXCEPT ![c] = Out], replies) /\ UNCHANGED replies
\* Any other background operation, and one that has nothing to do or must wait.
EndBackground(c) == callback[c].at = "in" /\ Ends(c) /\ UNCHANGED reviewed

----------------------------------------------------------------------------
(* queue: the source's review under this epoch, unless one was started.    *)

ReviewStep(c, at) == callback' = [callback EXCEPT ![c].at = at] /\ UNCHANGED slots

Reviewed(e) ==
  \E j \in ReviewJob : /\ review[j].state # "none"
                 /\ \/ review[j].state # "pending" \/ review[j].paused
                    \/ review[j].attempts > 0 \/ j = e
\* sourceReady, and what a new review needs: canLearn, asked whenever it matters.
MayLearn == consent
QueueReview(c) ==
  /\ callback[c].at = "in" /\ MayLearn /\ ~Reviewed(reviewEpoch)
  /\ callback' = [callback EXCEPT ![c] = [Out EXCEPT !.at = "queue", !.job = reviewEpoch]]
  /\ UNCHANGED <<slots, reviewed>>
AssertQueued(c) ==
  /\ callback[c].at = "queue"
  /\ IF callback[c].job = reviewEpoch THEN ReviewStep(c, "insert") ELSE Ends(c)
  /\ UNCHANGED reviewed
InsertReview(c) ==
  /\ callback[c].at = "insert" /\ Ends(c)
  /\ review' = [review EXCEPT ![callback[c].job] =
       IF @.state = "none" THEN [NoReview EXCEPT !.state = "pending", !.revision = 1] ELSE @]
  /\ UNCHANGED <<reviewEpoch, consent, reviewLock, asked, hermes, begun, result>>

----------------------------------------------------------------------------
(* run: under the lock, which a lost connection gives away.                *)

Started == {"running", "ambiguous"}
Askable(row) == row.state = "pending"
Observable(row) == row.state \in Started /\ (row.state = "ambiguous" => row.checks < ReconcileLimit)

\* A saved result completes the job; a new review needs everything it was prepared from.
EnterReview(c) ==
  LET j == callback[c].job
      row == review[j]
  IN
  /\ callback[c].at = "in" /\ reviewLock = NoCallback
  /\ row.state # "none" /\ ~row.paused /\ row.state # "done"
  /\ \/ j \in result \/ Observable(row) \/ (Askable(row) /\ j = reviewEpoch /\ MayLearn)
  /\ reviewLock' = c
  /\ callback' = [callback EXCEPT ![c] =
       [at |-> IF j \in result THEN "save" ELSE IF Askable(row) THEN "claim" ELSE "call",
        job |-> j, revision |-> row.revision, uncertain |-> ~Askable(row)]]
  /\ UNCHANGED <<slots, reviewEpoch, consent, review, asked, hermes, begun, result>>

Leaves(c) == Ends(c) /\ reviewLock' = IF reviewLock = c THEN NoCallback ELSE reviewLock
\* The claim is one statement: the revision that was read, not paused, not started.
ClaimReview(c) ==
  LET j == callback[c].job
      row == review[j]
  IN
  /\ callback[c].at = "claim"
  /\ IF reviewLock = c /\ Askable(row) /\ ~row.paused /\ row.revision = callback[c].revision
     THEN /\ review' = [review EXCEPT ![j].state = "running", ![j].attempts = @ + 1]
          /\ asked' = asked \cup {j} /\ ReviewStep(c, "call") /\ UNCHANGED reviewLock
     ELSE Leaves(c) /\ UNCHANGED <<review, asked>>
  /\ UNCHANGED <<reviewEpoch, consent, hermes, begun, result>>

\* Hermes begins what it is asked for, at any time, or answers that the profile is busy.
HermesBegins(j) ==
  /\ j \in asked /\ asked' = asked \ {j} /\ hermes' = [hermes EXCEPT ![j] = "running"]
  /\ begun' = [begun EXCEPT ![j] = @ + 1]
  /\ UNCHANGED <<slots, callback, reviewEpoch, consent, review, reviewLock, result>>
HermesEnds(j) ==
  /\ hermes[j] = "running" /\ \E state \in {"done", "lost"} : hermes' = [hermes EXCEPT ![j] = state]
  /\ UNCHANGED <<slots, callback, reviewEpoch, consent, review, reviewLock, asked, begun, result>>

\* Every change of the row goes through the connection that held the lock.
Marks(c, row) == IF reviewLock = c THEN review' = [review EXCEPT ![callback[c].job] = row]
                 ELSE UNCHANGED review
ProfileBusy(c) ==
  LET j == callback[c].job IN
  /\ callback[c].at = "call" /\ ~callback[c].uncertain /\ j \in asked /\ asked' = asked \ {j}
  /\ Marks(c, [review[j] EXCEPT !.state = "pending", !.attempts = @ - 1]) /\ Leaves(c)
  /\ UNCHANGED <<reviewEpoch, consent, hermes, begun, result>>
\* The call fails, times out, or the answer says neither running nor done.
Unconfirmed(c) ==
  /\ callback[c].at = "call"
  /\ Marks(c, [review[callback[c].job] EXCEPT !.state = "ambiguous",
                 !.checks = @ + (IF callback[c].uncertain THEN 1 ELSE 0)]) /\ Leaves(c)
  /\ UNCHANGED <<reviewEpoch, consent, asked, hermes, begun, result>>
StillRunning(c) ==
  LET j == callback[c].job IN
  /\ callback[c].at = "call" /\ hermes[j] = "running"
  /\ Marks(c, [review[j] EXCEPT !.state = "running"]) /\ Leaves(c)
  /\ UNCHANGED <<reviewEpoch, consent, asked, hermes, begun, result>>
\* The result is saved through the pool of the derived store, the job completed like any
\* other change.
SaveResult(c) ==
  LET j == callback[c].job IN
  /\ callback[c].at = "call" /\ hermes[j] = "done"
  /\ result' = result \cup {j} /\ ReviewStep(c, "save")
  /\ UNCHANGED <<reviewEpoch, consent, review, reviewLock, asked, hermes, begun>>
CompleteReview(c) ==
  /\ callback[c].at = "save" /\ Leaves(c)
  /\ Marks(c, [review[callback[c].job] EXCEPT !.state = "done"])
  /\ UNCHANGED <<reviewEpoch, consent, asked, hermes, begun, result>>

----------------------------------------------------------------------------
(* controlJob, a later epoch, and faults.                                  *)

ReviewControllable(row) ==
  row.state \in {"pending", "paused", "ambiguous"} /\ row.revision < MaxReviewRevision
PauseReview(j) ==
  /\ ReviewControllable(review[j])
  /\ review' = [review EXCEPT ![j].state = IF @ = "ambiguous" THEN @ ELSE "paused",
                              ![j].paused = TRUE, ![j].revision = @ + 1]
  /\ UNCHANGED <<slots, callback, reviewEpoch, consent, reviewLock, asked, hermes, begun, result>>
\* An uncertain review stays uncertain, with a fresh number of observations.
ResumeReview(j) ==
  /\ ReviewControllable(review[j])
  /\ review' = [review EXCEPT ![j].state = IF @ = "ambiguous" THEN @ ELSE "pending",
                              ![j].paused = FALSE, ![j].revision = @ + 1, ![j].checks = 0]
  /\ UNCHANGED <<slots, callback, reviewEpoch, consent, reviewLock, asked, hermes, begun, result>>
MoveEpoch ==
  /\ reviewEpoch < MaxReviewEpoch /\ reviewEpoch' = reviewEpoch + 1
  /\ UNCHANGED <<slots, callback, consent, review, reviewLock, asked, hermes, begun, result>>
SetConsent ==
  /\ consent' = ~consent
  /\ UNCHANGED <<slots, callback, reviewEpoch, review, reviewLock, asked, hermes, begun, result>>
LoseReviewLock ==
  /\ reviewLock # NoCallback /\ reviewLock' = NoCallback
  /\ UNCHANGED <<slots, callback, reviewEpoch, consent, review, asked, hermes, begun, result>>
RestartCore ==
  /\ callback' = [c \in Callback |-> Out] /\ replies' = 0 /\ slotWaiter' = NoCallback
  /\ reviewLock' = NoCallback
  /\ UNCHANGED <<reviewEpoch, consent, review, asked, hermes, begun, result>>

BackgroundNext ==
  \/ AdmitReply \/ EndReply \/ WaitingTimesOut
  \/ MoveEpoch \/ SetConsent \/ LoseReviewLock \/ RestartCore
  \/ \E c \in Callback :
       \/ AdmitBackground(c) \/ EndBackground(c) \/ QueueReview(c) \/ AssertQueued(c)
       \/ InsertReview(c) \/ EnterReview(c) \/ ClaimReview(c) \/ ProfileBusy(c) \/ Unconfirmed(c)
       \/ StillRunning(c) \/ SaveResult(c) \/ CompleteReview(c)
  \/ \E j \in ReviewJob : HermesBegins(j) \/ HermesEnds(j) \/ PauseReview(j) \/ ResumeReview(j)

BackgroundSpec == BackgroundInit /\ [][BackgroundNext]_BackgroundVars

----------------------------------------------------------------------------
\* A reply can always be admitted beside background work, of which one callback runs at a
\* time, and nobody waits for a slot that no one will hand over.
AdmissionHolds ==
  /\ SlotsTaken <= MaximumSlots /\ Cardinality(Inside(callback)) <= 1
  /\ slotWaiter # NoCallback => SlotsTaken > 0

\* A source is reviewed once, whatever was lost, restarted, paused or resumed, and also when
\* the epoch moves between a review that is about to start and the next one that is queued: it
\* is done only with the result of what was begun, and observed a bounded number of times.
ReviewedOnce ==
  /\ Cardinality({j \in ReviewJob : begun[j] > 0 \/ j \in asked}) <= 1
  /\ \A j \in ReviewJob :
       /\ begun[j] + (IF j \in asked THEN 1 ELSE 0) <= 1
       /\ review[j].state = "done" => j \in result /\ begun[j] = 1
       /\ review[j].checks <= ReconcileLimit

\* Both: the slots bound what runs, and what runs is begun once.
BackgroundAgrees == AdmissionHolds /\ ReviewedOnce
=============================================================================
