-------------------------- MODULE MemoryCorrection --------------------------
(***************************************************************************)
(* What the owner's decisions do to long-term memory: a message is retired *)
(* or restored, the guard epoch advances, and two refreshes bring Honcho   *)
(* back in line a page at a time, while messages are queued and written.   *)
(* (src/src/stores/source-retirement.ts, workflow-operations.ts,           *)
(* native-memory.ts)                                                       *)
(*                                                                         *)
(* NativeMemory has the calls that write and delete, their faults and the  *)
(* lock; here a call succeeds.  The ids of receipts are hashes: a new one  *)
(* may sort before or after the cursor of a sweep that is under way.       *)
(***************************************************************************)
EXTENDS Integers, FiniteSets

CONSTANTS
  Message,            \* captured messages of one conversation
  Meaning,            \* learned interpretations
  EvidenceOf,         \* the message an interpretation was learned from
  Conversation,       \* the session key of the messages; an interpretation has its own
  MaxDecision,        \* bound: owner decisions, each a guard epoch
  MaxSessionRevision, \* bound: revisions of a session
  PageSize            \* receipts of a page of the sweep

ASSUME CorrectionAssumption ==
  /\ IsFiniteSet(Message) /\ IsFiniteSet(Meaning)
  /\ EvidenceOf \in [Meaning -> Message] /\ Conversation \notin Meaning
  /\ MaxDecision \in Nat /\ MaxSessionRevision \in Nat \ {0} /\ PageSize \in Nat \ {0}

Memo == Message \cup Meaning
SessionKey == {Conversation} \cup Meaning
SessionRevision == 1..MaxSessionRevision
KeyOf(d) == IF d \in Message THEN Conversation ELSE d

VARIABLES
  decisions,        \* guard_state.epoch
  retiredMessages,  \* source_retirements
  sessionAt,        \* memory_sessions.revision
  memoReceipt,      \* memory_ingestion_receipts, and whether the workflow of each is open
  asked,            \* open requests to queue a memo, by guard epoch
  sweep,            \* learning_refresh_sweeps of Honcho, of the current epoch
  reviewed,         \* ... of native review: done?
  sweeper,          \* a page between its reads and its save
  queueing,         \* a memo between its preparation and its insert
  writing           \* the receipt being written, under the lock

CorrectionVars == <<decisions, retiredMessages, sessionAt, memoReceipt, asked, sweep, reviewed,
                    sweeper, queueing, writing>>

Unwritten == [state |-> "none", live |-> FALSE, open |-> FALSE]
Requested == [state |-> "pending", live |-> TRUE, open |-> TRUE]
NoPage == [on |-> FALSE, under |-> 0, page |-> {}, last |-> FALSE, checked |-> FALSE]
NoMemo == [on |-> FALSE, doc |-> Conversation, asked |-> 0, under |-> 0, revision |-> 1]
NoWrite == [on |-> FALSE, doc |-> Conversation, revision |-> 1]
FirstPage == [stage |-> "sources", passed |-> {}]

CorrectionInit ==
  /\ decisions = 0 /\ retiredMessages = {} /\ sessionAt = [k \in SessionKey |-> 1]
  /\ memoReceipt = [x \in Memo \X SessionRevision |-> Unwritten]
  /\ asked = Memo \X {0} /\ sweep = [FirstPage EXCEPT !.stage = "done"] /\ reviewed = TRUE
  /\ sweeper = NoPage /\ queueing = NoMemo /\ writing = NoWrite

\* validate: the evidence of a memo may still be learned and read.
Stands(d) == IF d \in Message THEN d \notin retiredMessages ELSE EvidenceOf[d] \notin retiredMessages
LiveIn(d, r) == memoReceipt[<<d, r>>].live
HasLive(d) == \E r \in SessionRevision : LiveIn(d, r)
LiveReceipts == {x \in Memo \X SessionRevision : LiveIn(x[1], x[2])}

----------------------------------------------------------------------------
(* Decisions and the refreshes they request.                               *)

\* learning_refresh_sweeps has one row for each guard epoch.
NewSweep == FirstPage

\* OwnerCommands: the change, the next guard epoch and both refreshes, in one commit.
Command ==
  /\ decisions < MaxDecision /\ decisions' = decisions + 1
  /\ sweep' = NewSweep /\ reviewed' = FALSE
  /\ UNCHANGED <<sessionAt, memoReceipt, asked, sweeper, queueing, writing>>
\* set: the owner retires a message, or takes it back.
DecideRetirement(m) ==
  /\ retiredMessages' = IF m \in retiredMessages THEN retiredMessages \ {m}
                                                 ELSE retiredMessages \cup {m}
  /\ Command
OtherCommand == Command /\ UNCHANGED retiredMessages

\* refresh of native review asks for every message; a review asks Honcho only for those that
\* have no live receipt.  (The bounds keep the messages within one page.)
RefreshReview ==
  /\ ~reviewed /\ reviewed' = TRUE
  /\ asked' = asked \cup {m \in Message : ~HasLive(m)} \X {decisions}
  /\ UNCHANGED <<decisions, retiredMessages, sessionAt, memoReceipt, sweep, sweeper, queueing,
                 writing>>

----------------------------------------------------------------------------
(* Queueing and writing memos.                                             *)

\* New receipts, each of which sorts behind or ahead of a sweep's cursor.
Inserted(new) ==
  \E behind \in SUBSET new :
    sweep' = IF sweep.stage = "sources" THEN [sweep EXCEPT !.passed = @ \cup behind] ELSE sweep

Queues == UNCHANGED <<decisions, retiredMessages, sessionAt, reviewed, sweeper, writing>>
\* sourceReady and queueSource, queueProjection: the last look at the evidence and the epoch.
BeginQueueing(d, e) ==
  /\ <<d, e>> \in asked /\ ~queueing.on /\ Stands(d)
  /\ queueing' = [on |-> TRUE, doc |-> d, asked |-> e, under |-> decisions,
                  revision |-> sessionAt[KeyOf(d)]]
  /\ Queues /\ UNCHANGED <<memoReceipt, asked, sweep>>
\* Evidence that may not be learned closes the request.
RefuseQueueing(d, e) ==
  /\ <<d, e>> \in asked /\ ~Stands(d) /\ asked' = asked \ {<<d, e>>}
  /\ Queues /\ UNCHANGED <<memoReceipt, sweep, queueing>>
\* queueDocument inserts only into the session it was prepared for, without another look at
\* the epoch; a session that was rebuilt meanwhile leaves the request open.
InsertReceipt ==
  LET d == queueing.doc  r == queueing.revision IN
  /\ queueing.on /\ queueing' = NoMemo
  /\ IF sessionAt[KeyOf(d)] # r THEN UNCHANGED <<memoReceipt, asked, sweep>>
     ELSE /\ asked' = asked \ {<<d, queueing.asked>>}
          /\ IF memoReceipt[<<d, r>>] # Unwritten THEN UNCHANGED <<memoReceipt, sweep>>
             ELSE memoReceipt' = [memoReceipt EXCEPT ![<<d, r>>] = Requested] /\ Inserted({<<d, r>>})
  /\ Queues
\* An epoch that is seen to have changed closes the request as superseded.
SupersedeQueueing ==
  /\ queueing.on /\ queueing.under # decisions /\ queueing' = NoMemo
  /\ asked' = asked \ {<<queueing.doc, queueing.asked>>}
  /\ Queues /\ UNCHANGED <<memoReceipt, sweep>>

\* A fault: a receipt is written once it is live, whatever became of its evidence.
MayWriteLive(d, r) == LiveIn(d, r)
\* authorizedReceipt.
MayWrite(d, r) == LiveIn(d, r) /\ Stands(d)

Writes == UNCHANGED <<decisions, retiredMessages, sessionAt, asked, sweep, reviewed, sweeper,
                      queueing>>
\* The honcho operation of a receipt: one that may not be written ends its workflow, as denied
\* or superseded, and stays as it is.
BeginWrite(d, r) ==
  /\ ~writing.on /\ memoReceipt[<<d, r>>].open /\ memoReceipt[<<d, r>>].state = "pending"
  /\ IF MayWrite(d, r)
     THEN /\ writing' = [on |-> TRUE, doc |-> d, revision |-> r]
          /\ memoReceipt' = [memoReceipt EXCEPT ![<<d, r>>].state = "uncertain"]
     ELSE memoReceipt' = [memoReceipt EXCEPT ![<<d, r>>].open = FALSE] /\ UNCHANGED writing
  /\ Writes
FinishWrite ==
  LET d == writing.doc  r == writing.revision IN
  /\ writing.on /\ writing' = NoWrite
  /\ memoReceipt' = [memoReceipt EXCEPT ![<<d, r>>] = [@ EXCEPT !.state = "done", !.open = FALSE]]
  /\ Writes

----------------------------------------------------------------------------
(* The refresh of Honcho.                                                  *)

\* sweep reads a page of live receipts behind the cursor.
ReadSweepPage ==
  LET ahead == LiveReceipts \ sweep.passed IN
  /\ sweep.stage = "sources" /\ ~sweeper.on
  /\ \E page \in SUBSET ahead :
       /\ Cardinality(page) = IF Cardinality(ahead) < PageSize THEN Cardinality(ahead) ELSE PageSize
       /\ sweeper' = [on |-> TRUE, under |-> decisions, page |-> page,
                      last |-> Cardinality(page) < PageSize, checked |-> FALSE]
  /\ UNCHANGED <<decisions, retiredMessages, sessionAt, memoReceipt, asked, sweep, reviewed,
                 queueing, writing>>

\* rebuild: the live receipts of a session are retired, those that stand are carried into its
\* next revision, the messages among the others are asked for again.  (NativeMemory deletes the
\* old session.)
Rebuild(keys) ==
  LET Old(d) == KeyOf(d) \in keys /\ LiveIn(d, sessionAt[KeyOf(d)])
      carried == {<<d, sessionAt[KeyOf(d)] + 1>> : d \in {x \in Memo : Old(x) /\ Stands(x)}} IN
  /\ \A k \in keys : sessionAt[k] < MaxSessionRevision
  /\ sessionAt' = [k \in SessionKey |-> IF k \in keys THEN sessionAt[k] + 1 ELSE sessionAt[k]]
  /\ memoReceipt' = [x \in Memo \X SessionRevision |->
       IF x \in carried THEN Requested
       ELSE IF Old(x[1]) /\ x[2] = sessionAt[KeyOf(x[1])] THEN [memoReceipt[x] EXCEPT !.live = FALSE]
       ELSE memoReceipt[x]]
  /\ asked' = asked \cup {m \in Message : Old(m) /\ ~Stands(m)} \X {decisions}
  /\ Inserted(carried)

\* Only the sessions that hold an invalid receipt are rebuilt.
CheckPage ==
  /\ sweeper.on /\ ~sweeper.checked
  /\ IF sweeper.under # decisions
     THEN sweeper' = NoPage /\ UNCHANGED <<sessionAt, memoReceipt, asked, sweep>>
     ELSE /\ sweeper' = [sweeper EXCEPT !.checked = TRUE]
          /\ Rebuild({KeyOf(x[1]) : x \in {y \in sweeper.page : ~Stands(y[1])}})
  /\ UNCHANGED <<decisions, retiredMessages, reviewed, queueing, writing>>
\* validate saves the cursor if the epoch is still the one of the page.
SavePage ==
  /\ sweeper.on /\ sweeper.checked /\ sweeper' = NoPage
  /\ sweep' = IF sweeper.under # decisions THEN sweep
              ELSE [stage |-> IF sweeper.last THEN "learned" ELSE "sources",
                    passed |-> IF sweeper.last THEN {} ELSE sweep.passed \cup sweeper.page]
  /\ UNCHANGED <<decisions, retiredMessages, sessionAt, memoReceipt, asked, reviewed, queueing,
                 writing>>
\* ... then asks for the interpretations that have no live receipt.
RefreshLearned ==
  /\ sweep.stage = "learned" /\ sweep' = [sweep EXCEPT !.stage = "done"]
  /\ asked' = asked \cup {m \in Meaning : ~HasLive(m)} \X {decisions}
  /\ UNCHANGED <<decisions, retiredMessages, sessionAt, memoReceipt, reviewed, sweeper, queueing,
                 writing>>

CorrectionNext ==
  \/ OtherCommand \/ RefreshReview \/ InsertReceipt \/ SupersedeQueueing \/ FinishWrite
  \/ ReadSweepPage \/ CheckPage \/ SavePage \/ RefreshLearned
  \/ \E m \in Message : DecideRetirement(m)
  \/ \E d \in Memo, e \in 0..MaxDecision : BeginQueueing(d, e) \/ RefuseQueueing(d, e)
  \/ \E d \in Memo, r \in SessionRevision : BeginWrite(d, r)

CorrectionSpec == CorrectionInit /\ [][CorrectionNext]_CorrectionVars

----------------------------------------------------------------------------
CorrectionTypeOK ==
  /\ decisions \in 0..MaxDecision /\ retiredMessages \subseteq Message
  /\ sessionAt \in [SessionKey -> SessionRevision]
  /\ memoReceipt \in [Memo \X SessionRevision ->
       [state : {"none", "pending", "uncertain", "done"}, live : BOOLEAN, open : BOOLEAN]]
  /\ asked \subseteq Memo \X (0..MaxDecision)
  /\ sweep.stage \in {"sources", "learned", "done"} /\ reviewed \in BOOLEAN

\* Once the sweep of an epoch has passed the receipts, nothing that Honcho was given and that
\* is still live rests on a message the owner retired: not what was written while the decision
\* was taken, nor what was queued behind the cursor.
SweptIsClean ==
  sweep.stage # "sources" =>
    \A x \in LiveReceipts : memoReceipt[x].state \in {"uncertain", "done"} => Stands(x[1])

\* Once both refreshes of an epoch are done, every memo that stands has a live receipt in its
\* current session or is still to be queued: no memo is without a receipt for good.  The
\* workflow of that receipt may have been closed as denied before the message was restored,
\* and then it is not written again (RestoredIsWritten).
NothingForgotten ==
  sweep.stage = "done" /\ reviewed =>
    \A d \in Memo : Stands(d) =>
      \/ LiveIn(d, sessionAt[KeyOf(d)])
      \/ \E e \in 0..MaxDecision : <<d, e>> \in asked
      \/ queueing.on /\ queueing.doc = d

CorrectionAgrees == CorrectionTypeOK /\ SweptIsClean /\ NothingForgotten

\* SPECS.md:49: "Restoring a message permits future use without rewriting history."  Once both
\* refreshes of an epoch are done, a workflow writes every live receipt whose memo stands.
\* (Not so in the code: see README.md.)
RestoredIsWritten ==
  sweep.stage = "done" /\ reviewed =>
    \A x \in LiveReceipts :
      Stands(x[1]) => memoReceipt[x].state = "done" \/ memoReceipt[x].open
=============================================================================
