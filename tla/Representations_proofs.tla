----------------------- MODULE Representations_proofs -----------------------
(***************************************************************************)
(* Proofs about what Nocheh knows: publications over two stores and their  *)
(* readers, entities and claims, capture, preparation, long-term memory    *)
(* with its corrections, what a turn reads of it, and the walk to whom it  *)
(* is read about.  Each run of MCRepresentations is a run of every         *)
(* component: the one that moves takes its own steps, the others stutter,  *)
(* so that what is proved of a component holds of the union.               *)
(***************************************************************************)
EXTENDS MCRepresentations, FiniteSetTheorems, TLAPS

----------------------------------------------------------------------------
(* Publications.                                                           *)
(*                                                                         *)
(* A revision is activated once, over the one it was staged against: once  *)
(* that one has been replaced it never comes back, so a conflict is final, *)
(* and what the owner wrote can only be expected by the owner.             *)

StagedRow == [entry : Entry \cup {"none"}, expected : Revision \cup {NoRevision},
              author : {"none", "automatic", "owner"}, bound : NoEpoch..MaxEpoch]
JobRow == [state : {"none", "pending", "running", "publishing", "done", "failed"},
           bound : NoEpoch..MaxEpoch, todo : SUBSET Learned, batch : SUBSET Revision]
ReaderRow == [at : {"idle", "open", "look", "check"}, bound : NoEpoch..MaxEpoch,
              seen : [Entry -> {"unread", NoRevision} \cup Revision]]

\* What a revision was staged against is gone for good.
Missed(o) == o \notin activated /\ IsStaged(o) /\ active[staged[o].entry] # staged[o].expected
\* What a revision replaces, and whose.
StageStands(o) ==
  IsStaged(o) =>
    /\ staged[o].entry \in Entry /\ staged[o].author \in {"automatic", "owner"}
    /\ staged[o].expected \in activated \cup {NoRevision}
    /\ staged[o].author = "automatic" /\ staged[o].expected # NoRevision =>
         staged[staged[o].expected].author # "owner"
\* What the stores and the finishers know of it.
OutcomeStands(o) ==
  /\ o \in activated \/ publication[o] # "none" \/ o \in learningJob.batch => IsStaged(o)
  /\ publication[o] = "done" \/ <<o, "done">> \in finishing => o \in activated
  /\ publication[o] = "conflict" \/ <<o, "conflict">> \in finishing => Missed(o)

PublicationInv ==
  /\ PublicationTypeOK
  /\ \A e \in Entry : active[e] \in activated \cup {NoRevision}
  /\ \A o \in Revision : StageStands(o) /\ OutcomeStands(o)

LEMMA PublicationTyped ==
  PublicationTypeOK <=>
    /\ staged \in [Revision -> StagedRow] /\ active \in [Entry -> Revision \cup {NoRevision}]
    /\ activated \subseteq Revision
    /\ publication \in [Revision -> {"none", "pending", "done", "conflict"}]
    /\ finishing \subseteq Revision \X {"done", "conflict"} /\ guardEpoch \in 0..MaxEpoch
    /\ learningJob \in JobRow /\ contextReader \in ReaderRow
BY DEF PublicationTypeOK, StagedRow, JobRow, ReaderRow

LEMMA PublicationStarts == PublicationInit => PublicationInv
<1> SUFFICES ASSUME PublicationInit PROVE PublicationInv
  OBVIOUS
<1>1. -1 \in NoEpoch..MaxEpoch /\ 0 \in 0..MaxEpoch
  BY PublicationAssumption DEF NoEpoch
<1>2. Unstaged \in StagedRow
  BY <1>1 DEF Unstaged, StagedRow, NoEpoch
<1>3. NoJob \in JobRow /\ NoJob.batch = {}
  BY <1>1 DEF NoJob, JobRow, NoEpoch
<1>4. NoReader \in ReaderRow
  BY <1>1 DEF NoReader, ReaderRow, NoEpoch
<1>5. /\ staged = [o \in Revision |-> Unstaged] /\ active = [e \in Entry |-> NoRevision]
      /\ activated = {} /\ publication = [o \in Revision |-> "none"] /\ finishing = {}
      /\ guardEpoch = 0 /\ learningJob = NoJob /\ contextReader = NoReader
  BY DEF PublicationInit
<1>6. PublicationTypeOK
  BY <1>1, <1>2, <1>3, <1>4, <1>5, PublicationTyped
<1>7. ASSUME NEW o \in Revision PROVE StageStands(o) /\ OutcomeStands(o)
  BY <1>3, <1>5 DEF StageStands, OutcomeStands, IsStaged
<1> QED
  BY <1>5, <1>6, <1>7 DEF PublicationInv

\* Steps that leave the derived store: bindings, readers, finishers that are lost, jobs.
LEMMA ControlMoves ==
  ASSUME PublicationInv, UNCHANGED derivedRows, finishing' \subseteq finishing,
         \A o \in Revision : publication'[o] = publication[o] \/ (publication'[o] = "pending" /\ IsStaged(o)),
         publication' \in [Revision -> {"none", "pending", "done", "conflict"}],
         guardEpoch' \in 0..MaxEpoch, learningJob' \in JobRow, contextReader' \in ReaderRow,
         learningJob'.batch \subseteq learningJob.batch
  PROVE  PublicationInv'
<1>f. PublicationTypeOK /\ UNCHANGED <<staged, active, activated>>
  BY DEF PublicationInv, derivedRows
<1>1. PublicationTypeOK'
  BY <1>f, PublicationTyped DEF PublicationTypeOK, StagedRow, JobRow, ReaderRow
<1>2. ASSUME NEW o \in Revision PROVE StageStands(o)' /\ OutcomeStands(o)'
  <2>1. StageStands(o) /\ OutcomeStands(o)
    BY DEF PublicationInv
  <2> QED
    BY <1>f, <2>1 DEF StageStands, OutcomeStands, Missed, IsStaged
<1> QED
  BY <1>f, <1>1, <1>2 DEF PublicationInv

\* A revision is staged against the active one.
LEMMA Staging ==
  ASSUME PublicationInv, NEW o \in Revision, NEW e \in Entry, NEW author \in {"automatic", "owner"},
         NEW bound \in NoEpoch..MaxEpoch, ~IsStaged(o), StageOf(o, e, author, bound),
         author = "automatic" => AuthorOf(e) # "owner",
         UNCHANGED <<active, activated, publication, finishing, guardEpoch, contextReader>>,
         learningJob' \in JobRow, learningJob'.batch \subseteq learningJob.batch \cup {o}
  PROVE  PublicationInv'
<1>f. /\ PublicationTypeOK /\ staged \in [Revision -> StagedRow] /\ active[e] \in activated \cup {NoRevision}
      /\ activated \subseteq Revision /\ NoRevision \notin Revision /\ StageStands(o) /\ OutcomeStands(o)
  BY PublicationTyped, PublicationAssumption DEF PublicationInv
<1>1. PICK row \in StagedRow :
        /\ staged' = [staged EXCEPT ![o] = row] /\ row.entry = e /\ row.expected = active[e]
        /\ row.author = author /\ row # Unstaged
  <2>1. PICK was \in Revision \cup {NoRevision} : was = active[e]
    BY <1>f
  <2>2. PICK row : row = [entry |-> e, expected |-> was, author |-> author, bound |-> bound]
    OBVIOUS
  <2>3. row \in StagedRow /\ row.entry = e /\ row.expected = was /\ row.author = author
    BY <2>2 DEF StagedRow
  <2>4. row # Unstaged
    BY <2>3 DEF Unstaged
  <2>5. staged' = [staged EXCEPT ![o] = row]
    BY <2>1, <2>2 DEF StageOf
  <2> QED
    BY <2>1, <2>3, <2>4, <2>5
<1>2. /\ staged'[o] = row /\ IsStaged(o)' /\ o \notin activated /\ active' = active /\ activated' = activated
      /\ \A q \in Revision : q # o => staged'[q] = staged[q]
      /\ \A q \in Revision : IsStaged(q) => q # o
  BY <1>f, <1>1 DEF IsStaged, OutcomeStands
<1>3. PublicationTypeOK'
  <2>1. staged' \in [Revision -> StagedRow]
    BY <1>f, <1>1
  <2> QED
    BY <1>f, <2>1, PublicationTyped DEF PublicationTypeOK, StagedRow, JobRow, ReaderRow
<1>4. StageStands(o)'
  <2>1. author = "automatic" /\ active[e] # NoRevision => staged[active[e]].author # "owner"
    BY DEF AuthorOf
  <2>2. active[e] # NoRevision => staged'[active[e]] = staged[active[e]]
    BY <1>f, <1>2
  <2> QED
    BY <1>f, <1>1, <1>2, <2>1, <2>2 DEF StageStands
<1>5. ASSUME NEW q \in Revision, q # o PROVE StageStands(q)'
  <2>1. StageStands(q) /\ staged'[q] = staged[q] /\ (IsStaged(q)' <=> IsStaged(q))
    BY <1>2, <1>5 DEF PublicationInv, IsStaged
  <2>2. \A r \in activated : staged'[r] = staged[r]
    BY <1>f, <1>2
  <2> QED
    BY <1>2, <2>1, <2>2 DEF StageStands
<1>6. ASSUME NEW q \in Revision PROVE OutcomeStands(q)'
  <2>1. OutcomeStands(q) /\ (IsStaged(q) => IsStaged(q)' /\ staged'[q] = staged[q])
    BY <1>2 DEF PublicationInv, IsStaged
  <2> QED
    BY <1>2, <2>1 DEF OutcomeStands, Missed
<1> QED
  BY <1>2, <1>3, <1>4, <1>5, <1>6 DEF PublicationInv

\* The derived half of finishing: the only step that makes a revision active.
LEMMA Activating ==
  ASSUME PublicationInv, NEW o \in Revision, Activate(o)
  PROVE  PublicationInv' /\ OwnerStays
<1>f. /\ PublicationTypeOK /\ staged \in [Revision -> StagedRow] /\ active \in [Entry -> Revision \cup {NoRevision}]
      /\ activated \subseteq Revision /\ finishing \subseteq Revision \X {"done", "conflict"}
      /\ NoRevision \notin Revision /\ StageStands(o) /\ OutcomeStands(o)
      /\ UNCHANGED <<staged, publication, guardEpoch, learningJob, contextReader>>
  BY PublicationTyped, PublicationAssumption DEF PublicationInv, Activate
<1>1. IsStaged(o) /\ staged[o].entry \in Entry
  BY <1>f DEF Activate, MayFinish, OutcomeStands, StageStands
<1>2. PICK e \in Entry : e = staged[o].entry
  BY <1>1
<1>3. \/ (o \in activated \/ Conflicts(o)) /\ UNCHANGED <<active, activated>>
      \/ /\ o \notin activated /\ active[e] = staged[o].expected
         /\ active' = [active EXCEPT ![e] = o] /\ activated' = activated \cup {o}
  BY <1>2 DEF Activate, Conflicts
<1>4. /\ <<o, "done">> \in finishing' => o \in activated'
      /\ <<o, "conflict">> \in finishing' => <<o, "conflict">> \in finishing \/ (o \notin activated' /\ active'[e] # staged[o].expected)
      /\ \A q \in Revision, v \in {"done", "conflict"} : q # o /\ <<q, v>> \in finishing' => <<q, v>> \in finishing
      /\ finishing' \subseteq Revision \X {"done", "conflict"}
  <2>1. \/ finishing' = finishing
        \/ \E v \in {"done", "conflict"} :
             finishing' = finishing \cup {<<o, v>>} /\ v = (IF Conflicts(o) THEN "conflict" ELSE "done")
    BY DEF Activate
  <2>2. finishing' \subseteq Revision \X {"done", "conflict"}
    BY <1>f, <2>1
  <2>3. ASSUME NEW q \in Revision, NEW v \in {"done", "conflict"}, q # o, <<q, v>> \in finishing'
        PROVE  <<q, v>> \in finishing
    BY <2>1, <2>3
  <2>4. ASSUME <<o, "done">> \in finishing' PROVE o \in activated'
    <3>1. <<o, "done">> \in finishing \/ ~Conflicts(o)
      BY <2>1, <2>4
    <3>2. Conflicts(o) <=> o \notin activated /\ active[e] # staged[o].expected
      BY <1>2 DEF Conflicts
    <3> QED
      BY <1>f, <1>3, <3>1, <3>2 DEF OutcomeStands
  <2>5. ASSUME <<o, "conflict">> \in finishing'
        PROVE  <<o, "conflict">> \in finishing \/ (o \notin activated' /\ active'[e] # staged[o].expected)
    <3>1. <<o, "conflict">> \in finishing \/ Conflicts(o)
      BY <2>1, <2>5
    <3>2. Conflicts(o) <=> o \notin activated /\ active[e] # staged[o].expected
      BY <1>2 DEF Conflicts
    <3> QED
      BY <1>3, <3>1, <3>2
  <2> QED
    BY <2>2, <2>3, <2>4, <2>5
<1>5. PublicationTypeOK'
  <2>1. active' \in [Entry -> Revision \cup {NoRevision}] /\ activated' \subseteq Revision
    BY <1>f, <1>3
  <2> QED
    BY <1>f, <1>4, <2>1 DEF PublicationTypeOK
<1>6. \A d \in Entry : active'[d] \in activated' \cup {NoRevision}
  BY <1>f, <1>3 DEF PublicationInv
<1>7. activated \subseteq activated' /\ activated' \subseteq activated \cup {o}
  BY <1>3
<1>8. ASSUME NEW q \in Revision PROVE StageStands(q)'
  BY <1>f, <1>7 DEF PublicationInv, StageStands, IsStaged
<1>9. ASSUME NEW q \in Revision, Missed(q) PROVE Missed(q)'
  <2>1. /\ q \notin activated /\ IsStaged(q) /\ active[staged[q].entry] # staged[q].expected
        /\ staged[q].entry \in Entry /\ staged[q].expected \in activated \cup {NoRevision}
    BY <1>9 DEF Missed, PublicationInv, StageStands
  <2>2. PICK d \in Entry : d = staged[q].entry
    BY <2>1
  <2>3. q \notin activated' /\ active'[d] # staged[q].expected
    <3>1. CASE UNCHANGED <<active, activated>>
      BY <2>1, <2>2, <3>1
    <3>2. CASE /\ o \notin activated /\ active[e] = staged[o].expected
               /\ active' = [active EXCEPT ![e] = o] /\ activated' = activated \cup {o}
      <4>1. q # o
        BY <1>2, <2>1, <3>2
      <4>2. active'[d] \in {o, active[d]} /\ o \notin activated \cup {NoRevision}
        BY <1>f, <3>2
      <4> QED
        BY <2>1, <2>2, <3>2, <4>1, <4>2
    <3> QED
      BY <1>3, <3>1, <3>2
  <2> QED
    BY <1>f, <2>1, <2>2, <2>3 DEF Missed, IsStaged
<1>10. ASSUME NEW q \in Revision PROVE OutcomeStands(q)'
  <2>1. OutcomeStands(q) /\ (IsStaged(q)' <=> IsStaged(q)) /\ publication'[q] = publication[q]
    BY <1>f DEF PublicationInv, IsStaged
  <2>2. <<q, "done">> \in finishing' => q \in activated'
    BY <1>4, <1>7, <2>1 DEF OutcomeStands
  <2>3. <<q, "conflict">> \in finishing' => Missed(q)'
    <3>1. CASE <<q, "conflict">> \in finishing
      BY <1>9, <2>1, <3>1 DEF OutcomeStands
    <3>2. CASE q = o /\ o \notin activated' /\ active'[e] # staged[o].expected
      BY <1>f, <1>1, <1>2, <2>1, <3>2 DEF Missed
    <3> QED
      BY <1>4, <3>1, <3>2
  <2> QED
    BY <1>f, <1>1, <1>7, <1>9, <2>1, <2>2, <2>3 DEF OutcomeStands
<1>11. OwnerStays
  <2> SUFFICES ASSUME NEW d \in Entry, AuthorOf(d) = "owner", active'[d] # active[d]
               PROVE  staged[active'[d]].author = "owner"
    BY DEF OwnerStays
  <2>1. d = e /\ active[e] = staged[o].expected /\ active'[e] = o
    BY <1>f, <1>3
  <2>2. active[e] # NoRevision /\ staged[active[e]].author = "owner"
    BY <2>1 DEF AuthorOf
  <2> QED
    BY <1>f, <1>1, <2>1, <2>2 DEF StageStands
<1> QED
  BY <1>5, <1>6, <1>8, <1>10, <1>11 DEF PublicationInv

\* The control half settles what the finisher found.
LEMMA Settling ==
  ASSUME PublicationInv, NEW o \in Revision, NEW verdict \in {"done", "conflict"}, SettlePublication(o, verdict)
  PROVE  PublicationInv'
<1>f. /\ PublicationTypeOK /\ OutcomeStands(o) /\ publication \in [Revision -> {"none", "pending", "done", "conflict"}]
      /\ UNCHANGED <<staged, active, activated, guardEpoch, learningJob, contextReader>>
  BY DEF PublicationInv, PublicationTypeOK, SettlePublication, derivedRows
<1>1. /\ <<o, verdict>> \in finishing /\ finishing' \subseteq finishing
      /\ publication' \in [Revision -> {"none", "pending", "done", "conflict"}]
      /\ publication'[o] \in {publication[o], verdict}
      /\ \A q \in Revision : q # o => publication'[q] = publication[q]
  BY <1>f DEF SettlePublication
<1>2. PublicationTypeOK'
  BY <1>f, <1>1 DEF PublicationTypeOK
<1>3. ASSUME NEW q \in Revision PROVE StageStands(q)' /\ OutcomeStands(q)'
  <2>1. StageStands(q) /\ OutcomeStands(q)
    BY DEF PublicationInv
  <2>2. \A v \in {"done", "conflict"} : <<q, v>> \in finishing' => <<q, v>> \in finishing
    BY <1>1
  <2>3. Missed(q)' <=> Missed(q)
    BY <1>f DEF Missed, IsStaged
  <2>4. StageStands(q)'
    BY <1>f, <2>1 DEF StageStands, IsStaged
  <2>5. (IsStaged(q)' <=> IsStaged(q)) /\ (q \in activated => IsStaged(q)) /\ (Missed(q) => IsStaged(q))
    BY <1>f, <2>1 DEF IsStaged, OutcomeStands, Missed
  <2>6. OutcomeStands(q)'
    <3>1. CASE q = o
      BY <1>f, <1>1, <2>1, <2>2, <2>3, <2>5, <3>1 DEF OutcomeStands
    <3>2. CASE q # o
      BY <1>f, <1>1, <2>1, <2>2, <2>3, <2>5, <3>2 DEF OutcomeStands
    <3> QED
      BY <3>1, <3>2
  <2> QED
    BY <2>4, <2>6
<1> QED
  BY <1>f, <1>2, <1>3 DEF PublicationInv

\* The job, the reader and the binding.
LEMMA JobStep ==
  ASSUME PublicationInv, RequestLearning \/ RunLearning \/ CompleteLearning \/ FailLearning
  PROVE  PublicationInv'
<1>f. /\ learningJob \in JobRow /\ guardEpoch \in 0..MaxEpoch /\ contextReader \in ReaderRow
      /\ publication \in [Revision -> {"none", "pending", "done", "conflict"}]
      /\ UNCHANGED <<derivedRows, publication, finishing, guardEpoch, contextReader>>
  BY PublicationTyped DEF PublicationInv, RequestLearning, RunLearning, CompleteLearning, FailLearning
<1>1. guardEpoch \in NoEpoch..MaxEpoch /\ -1 \in NoEpoch..MaxEpoch
  BY <1>f, PublicationAssumption DEF NoEpoch
<1>2. learningJob' \in JobRow /\ learningJob'.batch \subseteq learningJob.batch
  <2>1. CASE RequestLearning
    <3>0. NoJob \in JobRow /\ NoJob.batch = {}
      BY <1>1 DEF NoJob, JobRow, NoEpoch
    <3>1. PICK n \in JobRow : n = NoJob /\ n.batch = {}
      BY <3>0
    <3>2. learningJob' = [n EXCEPT !.state = "pending", !.bound = guardEpoch]
      BY <2>1, <3>1 DEF RequestLearning
    <3> QED
      BY <1>1, <3>1, <3>2, Zenon DEF JobRow
  <2>2. CASE RunLearning
    BY <1>f, <2>2, Zenon DEF RunLearning, JobRow
  <2>3. CASE CompleteLearning
    BY <1>f, <2>3 DEF CompleteLearning, JobRow
  <2>4. CASE FailLearning
    <3>1. PICK same \in {"failed", "pending"} :
            learningJob' = [learningJob EXCEPT !.state = same, !.todo = {}, !.batch = {}]
      BY <2>4 DEF FailLearning
    <3> QED
      BY <1>f, <3>1, Zenon DEF JobRow
  <2> QED
    BY <2>1, <2>2, <2>3, <2>4
<1> QED
  BY <1>f, <1>2, ControlMoves

LEMMA ReaderStep ==
  ASSUME PublicationInv, Admit \/ AssertCurrent \/ (\E e \in Entry : LookAt(e))
  PROVE  PublicationInv'
<1>f. /\ learningJob \in JobRow /\ guardEpoch \in 0..MaxEpoch /\ contextReader \in ReaderRow
      /\ active \in [Entry -> Revision \cup {NoRevision}]
      /\ publication \in [Revision -> {"none", "pending", "done", "conflict"}]
      /\ UNCHANGED <<derivedRows, publication, finishing, guardEpoch, learningJob>>
  BY PublicationTyped DEF PublicationInv, Admit, AssertCurrent, LookAt
<1>1. guardEpoch \in NoEpoch..MaxEpoch /\ -1 \in NoEpoch..MaxEpoch
  BY <1>f, PublicationAssumption DEF NoEpoch
<1>2. PICK n \in ReaderRow : n = NoReader
  BY <1>1 DEF NoReader, ReaderRow, NoEpoch
<1>3. contextReader' \in ReaderRow
  <2>1. CASE Admit
    <3>1. contextReader' = [n EXCEPT !.at = "open", !.bound = guardEpoch]
      BY <1>2, <2>1 DEF Admit
    <3> QED
      BY <1>1, <1>2, <3>1, Zenon DEF ReaderRow
  <2>2. CASE AssertCurrent
    <3>1. \/ contextReader' = n
          \/ \E at \in {"look", "open"} : contextReader' = [contextReader EXCEPT !.at = at]
      BY <1>2, <2>2 DEF AssertCurrent
    <3> QED
      BY <1>f, <1>2, <3>1 DEF ReaderRow
  <2>3. ASSUME NEW e \in Entry, LookAt(e) PROVE contextReader' \in ReaderRow
    <3>1. PICK seen : seen = [contextReader.seen EXCEPT ![e] = active[e]]
      OBVIOUS
    <3>2. seen \in [Entry -> {"unread", NoRevision} \cup Revision]
      BY <1>f, <2>3, <3>1 DEF ReaderRow
    <3>3. contextReader' = [contextReader EXCEPT !.at = "check", !.seen = seen]
      BY <2>3, <3>1 DEF LookAt
    <3> QED
      BY <1>f, <3>2, <3>3, Zenon DEF ReaderRow
  <2> QED
    BY <2>1, <2>2, <2>3
<1> QED
  BY <1>f, <1>3, ControlMoves

\* The revocation: what is begun is staged.
LEMMA Revoking ==
  ASSUME PublicationInv, NEW ops \in SUBSET Revision, \A o \in ops : IsStaged(o), Revoke(ops),
         UNCHANGED <<derivedRows, finishing, contextReader>>, learningJob' \in JobRow,
         learningJob'.batch \subseteq learningJob.batch
  PROVE  PublicationInv' /\ guardEpoch <= guardEpoch'
<1>f. /\ guardEpoch \in 0..MaxEpoch /\ contextReader \in ReaderRow /\ guardEpoch' <= MaxEpoch
      /\ publication \in [Revision -> {"none", "pending", "done", "conflict"}] /\ guardEpoch' = EpochAfter(ops)
      /\ publication' = [o \in Revision |-> IF o \in ops THEN "pending" ELSE publication[o]]
  BY PublicationTyped DEF PublicationInv, Revoke
<1>1. guardEpoch' \in {guardEpoch, guardEpoch + 1}
  BY <1>f DEF EpochAfter
<1>2. guardEpoch' \in 0..MaxEpoch /\ guardEpoch <= guardEpoch'
  BY <1>f, <1>1, PublicationAssumption
<1>3. publication' \in [Revision -> {"none", "pending", "done", "conflict"}]
  BY <1>f
<1>4. \A o \in Revision : publication'[o] = publication[o] \/ (publication'[o] = "pending" /\ IsStaged(o))
  BY <1>f
<1> QED
  BY <1>f, <1>2, <1>3, <1>4, ControlMoves

LEMMA PublicationBegins ==
  ASSUME PublicationInv, ActivateBatch \/ \E o \in Revision : BeginPublication(o)
  PROVE  PublicationInv'
<1>f. learningJob \in JobRow
  BY PublicationTyped DEF PublicationInv
<1>1. CASE ActivateBatch
  <2>1. learningJob.batch \in SUBSET Revision /\ \A o \in learningJob.batch : IsStaged(o)
    BY <1>f DEF PublicationInv, OutcomeStands, JobRow
  <2>2. learningJob' \in JobRow /\ learningJob'.batch \subseteq learningJob.batch
    BY <1>f, <1>1 DEF ActivateBatch, JobRow
  <2>3. PICK ops \in SUBSET Revision : ops = learningJob.batch
    BY <2>1
  <2> QED
    BY <1>1, <2>1, <2>2, <2>3, Revoking DEF ActivateBatch
<1>2. ASSUME NEW o \in Revision, BeginPublication(o) PROVE PublicationInv'
  <2>1. {o} \in SUBSET Revision /\ \A q \in {o} : IsStaged(q)
    BY <1>2 DEF BeginPublication
  <2> QED
    BY <1>2, <1>f, <2>1, Revoking DEF BeginPublication
<1> QED
  BY <1>1, <1>2

\* What is staged: a copy, a correction, an entry of a batch.
LEMMA StageStep ==
  ASSUME PublicationInv, NEW o \in Revision,
         \/ \E e \in Copy : StageCopy(o, e)
         \/ \E e \in Learned : CorrectLearned(o, e) \/ StageForBatch(o, e)
  PROVE  PublicationInv'
<1>f. learningJob \in JobRow /\ guardEpoch \in 0..MaxEpoch /\ ~IsStaged(o)
  BY PublicationTyped DEF PublicationInv, StageCopy, CorrectLearned, StageForBatch
<1>1. PICK now \in NoEpoch..MaxEpoch, never \in NoEpoch..MaxEpoch, for \in NoEpoch..MaxEpoch :
        now = guardEpoch /\ never = NoEpoch /\ for = learningJob.bound
  BY <1>f, PublicationAssumption DEF NoEpoch, JobRow
<1>2. ASSUME NEW e \in Copy, StageCopy(o, e) PROVE PublicationInv'
  <2>1. /\ UNCHANGED <<active, activated, publication, finishing, guardEpoch, learningJob, contextReader>>
        /\ \/ StageOf(o, e, "owner", never)
           \/ AuthorOf(e) = "none" /\ StageOf(o, e, "automatic", now)
    BY <1>1, <1>2 DEF StageCopy, AuthorOf
  <2> QED
    BY <1>f, <2>1, Staging DEF Entry
<1>3. ASSUME NEW e \in Learned, CorrectLearned(o, e) PROVE PublicationInv'
  <2>1. /\ UNCHANGED <<active, activated, publication, finishing, guardEpoch, learningJob, contextReader>>
        /\ StageOf(o, e, "owner", now)
    BY <1>1, <1>3 DEF CorrectLearned
  <2> QED
    BY <1>f, <2>1, Staging DEF Entry
<1>4. ASSUME NEW e \in Learned, StageForBatch(o, e) PROVE PublicationInv'
  <2>1. /\ UNCHANGED <<active, activated, publication, finishing, guardEpoch, contextReader>>
        /\ StageOf(o, e, "automatic", for) /\ AuthorOf(e) # "owner"
        /\ learningJob' = [learningJob EXCEPT !.todo = @ \ {e}, !.batch = @ \cup {o}]
    BY <1>1, <1>4 DEF StageForBatch
  <2>2. PICK todo \in SUBSET Learned, batch \in SUBSET Revision :
          todo = learningJob.todo \ {e} /\ batch = learningJob.batch \cup {o}
    BY <1>f DEF JobRow
  <2>3. learningJob' = [learningJob EXCEPT !.todo = todo, !.batch = batch]
    BY <2>1, <2>2
  <2>4. learningJob' \in JobRow /\ learningJob'.batch = learningJob.batch \cup {o}
    BY <1>f, <2>2, <2>3, Zenon DEF JobRow
  <2> QED
    BY <1>f, <2>1, <2>4, Staging DEF Entry
<1> QED
  BY <1>2, <1>3, <1>4

LEMMA PublicationStep ==
  ASSUME PublicationInv, [PublicationNext]_PublicationVars
  PROVE  PublicationInv' /\ [OwnerStays]_PublicationVars
<1>f. /\ learningJob \in JobRow /\ guardEpoch \in 0..MaxEpoch /\ contextReader \in ReaderRow
      /\ publication \in [Revision -> {"none", "pending", "done", "conflict"}]
  BY PublicationTyped DEF PublicationInv
<1>k. UNCHANGED active => OwnerStays
  BY DEF OwnerStays
<1>1. CASE \E o \in Revision : Activate(o)
  BY <1>1, Activating
<1>2. CASE ~\E o \in Revision : Activate(o)
  <2>1. UNCHANGED active
    BY <1>2 DEF PublicationNext, PublicationVars, derivedRows, ChangeBinding, LoseFinisher, RequestLearning,
       RunLearning, ActivateBatch, CompleteLearning, FailLearning, Admit, AssertCurrent, LookAt, SkipEntry,
       BeginPublication, StageCopy, CorrectLearned, StageForBatch, SettlePublication
  <2>2. ASSUME ChangeBinding \/ LoseFinisher \/ UNCHANGED PublicationVars PROVE PublicationInv'
    <3>1. /\ UNCHANGED <<derivedRows, publication, learningJob, contextReader>>
          /\ finishing' \subseteq finishing /\ guardEpoch' \in 0..MaxEpoch
      BY <1>f, <2>2, PublicationAssumption DEF ChangeBinding, LoseFinisher, PublicationVars, derivedRows
    <3> QED
      BY <1>f, <3>1, ControlMoves
  <2>3. ASSUME NEW e \in Learned, SkipEntry(e) PROVE PublicationInv'
    <3>1. /\ UNCHANGED <<derivedRows, publication, finishing, guardEpoch, contextReader>>
          /\ learningJob' \in JobRow /\ learningJob'.batch = learningJob.batch
      BY <1>f, <2>3 DEF SkipEntry, JobRow
    <3> QED
      BY <1>f, <3>1, ControlMoves
  <2>4. PublicationInv'
    BY <1>2, <2>2, <2>3, JobStep, ReaderStep, PublicationBegins, StageStep, Settling DEF PublicationNext
  <2> QED
    BY <1>k, <2>1, <2>4
<1> QED
  BY <1>1, <1>2

LEMMA PublicationInvariant == PublicationSpec => []PublicationInv
BY PublicationStarts, PublicationStep, PTL DEF PublicationSpec

LEMMA PublicationKeeps == PublicationInv => StoresAgree
BY DEF PublicationInv, OutcomeStands, StoresAgree, Missed

THEOREM PublicationsAgree == PublicationSpec => []StoresAgree /\ [][OwnerStays]_PublicationVars
<1>1. PublicationInv /\ [PublicationNext]_PublicationVars => [OwnerStays]_PublicationVars
  BY PublicationStep
<1> QED
  BY <1>1, PublicationInvariant, PublicationKeeps, PTL DEF PublicationSpec

\* What a reader has seen under the present epoch is still active: no replacement has begun
\* since it was admitted, and what was first published meanwhile it has not seen.
ReaderStands ==
  /\ contextReader.bound <= guardEpoch
  /\ contextReader.at # "idle" /\ contextReader.bound = guardEpoch =>
       /\ \A o \in Revision : publication[o] = "pending" => staged[o].expected = NoRevision
       /\ \A e \in Entry : contextReader.seen[e] \in Revision => contextReader.seen[e] = active[e]

LEMMA ReaderStarts == PublicationInit => ReaderStands
BY DEF PublicationInit, ReaderStands, NoReader, NoEpoch

LEMMA ReaderKept ==
  ASSUME PublicationInv, ReaderStands, [PublicationNext]_PublicationVars
  PROVE  ReaderStands'
<1>f. /\ staged \in [Revision -> StagedRow] /\ active \in [Entry -> Revision \cup {NoRevision}]
      /\ guardEpoch \in 0..MaxEpoch /\ contextReader \in ReaderRow /\ MaxEpoch \in Nat /\ NoRevision \notin Revision
      /\ publication \in [Revision -> {"none", "pending", "done", "conflict"}]
      /\ contextReader.bound \in NoEpoch..MaxEpoch
  BY PublicationTyped, PublicationAssumption DEF PublicationInv, ReaderRow
<1>b. contextReader.bound \in Int /\ guardEpoch \in Int
  BY <1>f DEF NoEpoch
<1>1. ASSUME UNCHANGED <<derivedRows, guardEpoch, contextReader>>,
             \A o \in Revision : publication'[o] = "pending" => publication[o] = "pending"
      PROVE  ReaderStands'
  BY <1>f, <1>1 DEF ReaderStands, derivedRows
<1>2. CASE LoseFinisher \/ RequestLearning \/ RunLearning \/ CompleteLearning \/ FailLearning
           \/ (\E e \in Learned : SkipEntry(e)) \/ UNCHANGED PublicationVars
  <2>1. UNCHANGED <<derivedRows, guardEpoch, contextReader, publication>>
    BY <1>2 DEF LoseFinisher, RequestLearning, RunLearning, CompleteLearning, FailLearning, SkipEntry,
       PublicationVars, derivedRows
  <2> QED
    BY <1>1, <2>1
<1>3. ASSUME NEW o \in Revision, NEW verdict \in {"done", "conflict"}, SettlePublication(o, verdict)
      PROVE  ReaderStands'
  <2>1. /\ UNCHANGED <<derivedRows, guardEpoch, contextReader>>
        /\ \A q \in Revision : publication'[q] = "pending" => publication[q] = "pending"
    BY <1>f, <1>3 DEF SettlePublication
  <2> QED
    BY <1>1, <2>1
<1>4. CASE ChangeBinding
  BY <1>b, <1>4 DEF ChangeBinding, ReaderStands
<1>5. ASSUME NEW ops \in SUBSET Revision, Revoke(ops), UNCHANGED <<derivedRows, contextReader>>
      PROVE  ReaderStands'
  <2>1. CASE \E o \in ops : staged[o].expected # NoRevision
    <3>1. guardEpoch' = guardEpoch + 1
      BY <1>5, <2>1 DEF Revoke, EpochAfter
    <3> QED
      BY <1>b, <1>5, <3>1 DEF ReaderStands
  <2>2. CASE ~\E o \in ops : staged[o].expected # NoRevision
    <3>1. guardEpoch' = guardEpoch
      BY <1>b, <1>5, <2>2 DEF Revoke, EpochAfter
    <3>2. \A o \in Revision : publication'[o] = "pending" => publication[o] = "pending" \/ staged[o].expected = NoRevision
      BY <1>5, <2>2 DEF Revoke
    <3> QED
      BY <1>5, <3>1, <3>2 DEF ReaderStands, derivedRows
  <2> QED
    BY <2>1, <2>2
<1>6. CASE ActivateBatch
  <2>1. PICK ops \in SUBSET Revision : ops = learningJob.batch
    BY PublicationTyped DEF PublicationInv, JobRow
  <2> QED
    BY <1>5, <1>6, <2>1 DEF ActivateBatch
<1>7. ASSUME NEW o \in Revision, BeginPublication(o) PROVE ReaderStands'
  BY <1>5, <1>7 DEF BeginPublication
<1>8. ASSUME NEW o \in Revision, ~IsStaged(o), UNCHANGED <<active, publication, guardEpoch, contextReader>>,
             \A q \in Revision : q # o => staged'[q] = staged[q]
      PROVE  ReaderStands'
  <2>1. publication[o] # "pending"
    BY <1>8 DEF PublicationInv, OutcomeStands
  <2> QED
    BY <1>8, <2>1 DEF ReaderStands
<1>9. ASSUME NEW o \in Revision,
             \/ \E e \in Copy : StageCopy(o, e)
             \/ \E e \in Learned : CorrectLearned(o, e) \/ StageForBatch(o, e)
      PROVE  ReaderStands'
  <2>1. /\ ~IsStaged(o) /\ UNCHANGED <<active, publication, guardEpoch, contextReader>>
        /\ \A q \in Revision : q # o => staged'[q] = staged[q]
    BY <1>f, <1>9 DEF StageCopy, CorrectLearned, StageForBatch, StageOf
  <2> QED
    BY <1>8, <2>1
<1>10. ASSUME NEW o \in Revision, Activate(o) PROVE ReaderStands'
  <2>1. UNCHANGED <<staged, publication, guardEpoch, contextReader>>
    BY <1>10 DEF Activate
  <2>2. CASE UNCHANGED active
    BY <2>1, <2>2 DEF ReaderStands
  <2>3. CASE active' # active
    <3>1. /\ o \notin activated /\ ~Conflicts(o) /\ publication[o] # "none"
          /\ active' = [active EXCEPT ![staged[o].entry] = o]
      BY <1>10, <2>3 DEF Activate, MayFinish
    <3>2. publication[o] = "pending" /\ staged[o].entry \in Entry /\ active[staged[o].entry] = staged[o].expected
      BY <1>f, <3>1 DEF PublicationInv, OutcomeStands, StageStands, Missed, Conflicts
    <3>3. PICK e \in Entry : e = staged[o].entry
      BY <3>2
    <3>4. staged[o].expected = NoRevision =>
            \A d \in Entry : active[d] \in Revision => active'[d] = active[d]
      BY <1>f, <3>1, <3>2, <3>3
    <3> QED
      BY <2>1, <3>2, <3>4 DEF ReaderStands
  <2> QED
    BY <2>2, <2>3
<1>11. CASE Admit
  <2>1. PICK n : n = NoReader
    OBVIOUS
  <2>2. n \in ReaderRow /\ \A e \in Entry : n.seen[e] = "unread"
    BY <1>f, <2>1 DEF NoReader, ReaderRow, NoEpoch
  <2>3. contextReader' = [n EXCEPT !.at = "open", !.bound = guardEpoch] /\ UNCHANGED <<active, guardEpoch, staged, publication>>
    BY <1>11, <2>1 DEF Admit, derivedRows
  <2>4. contextReader'.bound = guardEpoch /\ contextReader'.seen = n.seen
    BY <2>2, <2>3 DEF ReaderRow
  <2>5. ASSUME NEW o \in Revision, publication[o] = "pending" PROVE staged[o].expected = NoRevision
    BY <1>11, <2>5 DEF Admit, NothingPending, Blocks
  <2>6. "unread" \notin Revision
    BY PublicationAssumption
  <2> QED
    BY <1>b, <2>2, <2>3, <2>4, <2>5, <2>6 DEF ReaderStands
<1>12. CASE AssertCurrent
  <2>1. PICK n : n = NoReader
    OBVIOUS
  <2>2. n.bound = -1 /\ n.at = "idle"
    BY <2>1 DEF NoReader, NoEpoch
  <2>3. /\ UNCHANGED <<derivedRows, publication, guardEpoch>>
        /\ \/ contextReader' = n
           \/ /\ contextReader.at # "idle"
              /\ \E at \in {"look", "open"} : contextReader' = [contextReader EXCEPT !.at = at]
    BY <1>12, <2>1 DEF AssertCurrent
  <2>4. CASE contextReader' = n
    BY <1>f, <2>2, <2>3, <2>4 DEF ReaderStands
  <2>5. CASE /\ contextReader.at # "idle"
             /\ \E at \in {"look", "open"} : contextReader' = [contextReader EXCEPT !.at = at]
    <3>1. contextReader'.bound = contextReader.bound /\ contextReader'.seen = contextReader.seen
      BY <1>f, <2>5 DEF ReaderRow
    <3> QED
      BY <2>3, <2>5, <3>1 DEF ReaderStands, derivedRows
  <2> QED
    BY <2>3, <2>4, <2>5
<1>13. ASSUME NEW e \in Entry, LookAt(e) PROVE ReaderStands'
  <2>1. PICK seen : seen = [contextReader.seen EXCEPT ![e] = active[e]]
    OBVIOUS
  <2>2. /\ contextReader' = [contextReader EXCEPT !.at = "check", !.seen = seen] /\ contextReader.at # "idle"
        /\ UNCHANGED <<derivedRows, publication, guardEpoch>>
    BY <1>13, <2>1 DEF LookAt
  <2>3. contextReader'.bound = contextReader.bound /\ contextReader'.seen = seen
    BY <1>f, <2>2, Zenon DEF ReaderRow
  <2>4. contextReader.seen \in [Entry -> {"unread", NoRevision} \cup Revision]
    BY <1>f DEF ReaderRow
  <2>5. \A d \in Entry : seen[d] \in {contextReader.seen[d], active[d]}
    BY <2>1, <2>4
  <2>6. ASSUME NEW d \in Entry, seen[d] \in Revision, contextReader.seen[d] \in Revision => contextReader.seen[d] = active[d]
        PROVE  seen[d] = active[d]
    BY <2>5, <2>6
  <2> QED
    BY <2>2, <2>3, <2>6 DEF ReaderStands, derivedRows
<1> QED
  BY <1>2, <1>3, <1>4, <1>6, <1>7, <1>9, <1>10, <1>11, <1>12, <1>13 DEF PublicationNext

LEMMA SeenIsActive == ReaderStands => ReadsOneMoment
BY DEF ReaderStands, ReadsOneMoment, IsCurrent

\* What a reader is given was all active at the moment it is given: see GuardPublication.
THEOREM ReadersSeeOneMoment == PublicationSpec => [][ReadsOneMoment]_PublicationVars
<1>1. PublicationInv /\ ReaderStands /\ [PublicationNext]_PublicationVars => ReaderStands'
  BY ReaderKept
<1> QED
  BY <1>1, ReaderStarts, SeenIsActive, PublicationInvariant, PTL DEF PublicationSpec

----------------------------------------------------------------------------
(* Entities and the claims about them.                                     *)
(*                                                                         *)
(* A correction looks for the version of its own command before it makes   *)
(* one, so that each command makes one of a claim at most.                 *)

EntityRow == [state : {"none", "active", "merged"}, revision : 0..MaxChange,
              into : Identity \cup {NobodyYet}]
MoveRow == [who : Row, from : Identity, to : Identity, at : 1..MaxChange, undone : BOOLEAN]
ClaimRow == [revision : 0..MaxClaim, author : {"none", "honcho", "owner"},
             says : {"nothing", "one", "other", "corrected"}, retired : BOOLEAN]

OneVersion ==
  \A c \in Correction, x \in Claimed, r, s \in 1..MaxClaim :
    <<c, x, r>> \in corrections /\ <<c, x, s>> \in corrections => r = s
EntityInv == EntityTypeOK /\ OneVersion

LEMMA EntityTyped ==
  EntityTypeOK <=>
    /\ entity \in [Identity -> EntityRow] /\ binding \in [Row -> Identity \cup {NobodyYet}]
    /\ bindingMoves \subseteq MoveRow /\ arriving \in [Identity -> {"idle", "unlinked", "named"}]
    /\ suggestion \in [Identity -> {"none", "pending", "confirmed", "rejected"}]
    /\ claim \in [Claimed -> ClaimRow] /\ corrections \subseteq Correction \X Identity \X (1..MaxClaim)
    /\ correctionReceipt \subseteq Correction
BY DEF EntityTypeOK, EntityRow, MoveRow, ClaimRow

LEMMA EntityStarts == EntityInit => EntityInv
<1> SUFFICES ASSUME EntityInit PROVE EntityInv
  OBVIOUS
<1>1. NoEntity \in EntityRow /\ NoClaim \in ClaimRow
  BY EntityAssumption DEF NoEntity, EntityRow, NoClaim, ClaimRow
<1>2. /\ entity = [x \in Identity |-> NoEntity] /\ binding = [row \in Row |-> NobodyYet]
      /\ bindingMoves = {} /\ arriving = [x \in Identity |-> "idle"]
      /\ suggestion = [x \in Identity |-> "none"] /\ claim = [x \in Claimed |-> NoClaim]
      /\ corrections = {} /\ correctionReceipt = {}
  BY DEF EntityInit
<1> QED
  BY <1>1, <1>2, EntityTyped DEF EntityInv, OneVersion

\* One version of each command is at most one revision of a claim.
LEMMA VersionsCounted ==
  ASSUME OneVersion', NEW x \in Claimed, NEW c \in Correction
  PROVE  Cardinality({r \in 1..MaxClaim : <<c, x, r>> \in corrections'}) <= 1
<1>1. CASE \E r \in 1..MaxClaim : <<c, x, r>> \in corrections'
  <2>1. PICK v \in 1..MaxClaim : <<c, x, v>> \in corrections'
    BY <1>1
  <2>2. {r \in 1..MaxClaim : <<c, x, r>> \in corrections'} = {v}
    BY <2>1 DEF OneVersion
  <2>3. Cardinality({r \in 1..MaxClaim : <<c, x, r>> \in corrections'}) = 1
    BY <2>2, FS_Singleton
  <2> QED
    BY <2>3
<1>2. CASE ~\E r \in 1..MaxClaim : <<c, x, r>> \in corrections'
  <2>1. {r \in 1..MaxClaim : <<c, x, r>> \in corrections'} = {}
    BY <1>2
  <2>2. Cardinality({r \in 1..MaxClaim : <<c, x, r>> \in corrections'}) = 0
    BY <2>1, FS_EmptySet
  <2> QED
    BY <2>2
<1> QED
  BY <1>1, <1>2

\* The commands about entities leave the claims, and are well typed.
LEMMA EntityMoves ==
  ASSUME EntityInv, UNCHANGED claimRows, EntityTypeOK'
  PROVE  EntityInv' /\ OwnerClaimStands
<1>f. UNCHANGED <<claim, corrections, correctionReceipt>> /\ OneVersion
  BY DEF claimRows, EntityInv
<1>1. OneVersion'
  BY <1>f DEF OneVersion
<1>2. OwnerClaimStands
  <2>1. \A x \in Claimed, c \in Correction : Cardinality({r \in 1..MaxClaim : <<c, x, r>> \in corrections'}) <= 1
    BY <1>1, VersionsCounted
  <2> QED
    BY <1>f, <2>1 DEF OwnerClaimStands
<1> QED
  BY <1>1, <1>2 DEF EntityInv

LEMMA EntityCommands ==
  ASSUME EntityInv, NEW x \in Identity,
         \/ LookUp(x) \/ InsertEntity(x) \/ InsertBinding(x) \/ StopArriving(x)
         \/ rename(x) \/ suggest(x)
         \/ \E confirm \in BOOLEAN, target \in Identity : decideBinding(x, confirm, target)
  PROVE  EntityTypeOK' /\ UNCHANGED claimRows
<1>f. EntityTypeOK /\ entity \in [Identity -> EntityRow] /\ MaxChange \in Nat \ {0}
  BY EntityTyped, EntityAssumption DEF EntityInv
<1>1. CASE LookUp(x) \/ StopArriving(x) \/ suggest(x)
  BY <1>f, <1>1 DEF EntityTypeOK, claimRows, LookUp, StopArriving, suggest
<1>2. CASE InsertEntity(x)
  <2>0. [state |-> "active", revision |-> 1, into |-> NobodyYet] \in EntityRow
    BY <1>f DEF EntityRow
  <2>1. PICK row \in EntityRow : row = [state |-> "active", revision |-> 1, into |-> NobodyYet]
    BY <2>0
  <2>2. entity' \in [Identity -> EntityRow]
    BY <1>2, <1>f, <2>1 DEF InsertEntity
  <2>3. arriving' \in [Identity -> {"idle", "unlinked", "named"}]
    BY <1>2, <1>f DEF InsertEntity, EntityTypeOK
  <2> QED
    BY <1>2, <1>f, <2>2, <2>3, EntityTyped DEF InsertEntity, claimRows, EntityTypeOK, ClaimRow
<1>3. CASE InsertBinding(x)
  <2>1. <<x, "exact">> \in Row
    BY DEF Row
  <2>2. binding' \in [Row -> Identity \cup {NobodyYet}]
    BY <1>3, <1>f, <2>1 DEF InsertBinding, EntityTypeOK
  <2> QED
    BY <1>3, <1>f, <2>2 DEF InsertBinding, EntityTypeOK, claimRows
<1>4. CASE rename(x)
  <2>1. PICK n \in 0..MaxChange : n = entity[x].revision + 1
    BY <1>4, <1>f DEF rename, EntityRow
  <2>2. entity' = [entity EXCEPT ![x] = [entity[x] EXCEPT !.revision = n]]
    BY <1>4, <2>1 DEF rename
  <2>3. [entity[x] EXCEPT !.revision = n] \in EntityRow
    BY <1>f DEF EntityRow
  <2>4. entity' \in [Identity -> EntityRow]
    BY <1>f, <2>2, <2>3
  <2> QED
    BY <1>4, <1>f, <2>4, EntityTyped DEF rename, EntityTypeOK, claimRows, ClaimRow
<1>5. CASE \E confirm \in BOOLEAN, target \in Identity : decideBinding(x, confirm, target)
  <2>1. PICK confirm \in BOOLEAN, target \in Identity : decideBinding(x, confirm, target)
    BY <1>5
  <2>2. <<x, "confirmed">> \in Row
    BY DEF Row
  <2>3. binding' \in [Row -> Identity \cup {NobodyYet}]
    BY <1>f, <2>1, <2>2 DEF decideBinding, EntityTypeOK
  <2>4. suggestion' \in [Identity -> {"none", "pending", "confirmed", "rejected"}]
    BY <1>f, <2>1 DEF decideBinding, EntityTypeOK
  <2> QED
    BY <1>f, <2>1, <2>3, <2>4 DEF decideBinding, EntityTypeOK, claimRows
<1> QED
  BY <1>1, <1>2, <1>3, <1>4, <1>5

\* Merging moves the bindings of one entity to another and keeps where they came from.
LEMMA MergeTyped ==
  ASSUME EntityInv, NEW x \in Identity, NEW y \in Identity, merge(x, y)
  PROVE  EntityTypeOK' /\ UNCHANGED claimRows
<1>f. /\ EntityTypeOK /\ entity \in [Identity -> EntityRow] /\ MaxChange \in Nat \ {0}
      /\ binding \in [Row -> Identity \cup {NobodyYet}] /\ bindingMoves \subseteq MoveRow
      /\ UNCHANGED <<arriving, suggestion, claimRows>> /\ entity[x].revision < MaxChange
  BY EntityTyped, EntityAssumption DEF EntityInv, merge
<1>1. PICK n \in 1..MaxChange : n = entity[x].revision + 1
  BY <1>f DEF EntityRow
<1>2. [state |-> "merged", revision |-> n, into |-> y] \in EntityRow
  BY DEF EntityRow
<1>3. PICK row \in EntityRow : row = [state |-> "merged", revision |-> n, into |-> y]
  BY <1>2
<1>4. entity' = [entity EXCEPT ![x] = row]
  BY <1>1, <1>3 DEF merge
<1>5. ASSUME NEW i \in Row
      PROVE  [who |-> i, from |-> x, to |-> y, at |-> entity[x].revision + 1, undone |-> FALSE] \in MoveRow
  BY <1>1 DEF MoveRow
<1>6. bindingMoves' \subseteq MoveRow
  BY <1>f, <1>5 DEF merge, Moves
<1>7. binding' \in [Row -> Identity \cup {NobodyYet}]
  BY <1>f DEF merge
<1>8. entity' \in [Identity -> EntityRow]
  BY <1>f, <1>4
<1> QED
  BY <1>f, <1>6, <1>7, <1>8 DEF EntityTypeOK, claimRows, EntityRow, MoveRow

LEMMA UnmergeTyped ==
  ASSUME EntityInv, NEW x \in Identity, unmerge(x)
  PROVE  EntityTypeOK' /\ UNCHANGED claimRows
<1>f. /\ EntityTypeOK /\ entity \in [Identity -> EntityRow] /\ MaxChange \in Nat \ {0}
      /\ binding \in [Row -> Identity \cup {NobodyYet}] /\ bindingMoves \subseteq MoveRow
      /\ UNCHANGED <<arriving, suggestion, claimRows>> /\ entity[x].revision < MaxChange
  BY EntityTyped, EntityAssumption DEF EntityInv, unmerge
<1>1. PICK n \in 1..MaxChange : n = entity[x].revision + 1
  BY <1>f DEF EntityRow
<1>2. [state |-> "active", revision |-> n, into |-> NobodyYet] \in EntityRow
  BY DEF EntityRow
<1>3. PICK row \in EntityRow : row = [state |-> "active", revision |-> n, into |-> NobodyYet]
  BY <1>2
<1>4. entity' = [entity EXCEPT ![x] = row]
  BY <1>1, <1>3 DEF unmerge
<1>5. ASSUME NEW m \in MoveRow PROVE [m EXCEPT !.undone = TRUE] \in MoveRow
  BY DEF MoveRow
<1>6. bindingMoves' \subseteq MoveRow
  BY <1>f, <1>5 DEF unmerge
<1>7. binding' \in [Row -> Identity \cup {NobodyYet}]
  BY <1>f DEF unmerge
<1>8. entity' \in [Identity -> EntityRow]
  BY <1>f, <1>4
<1> QED
  BY <1>f, <1>6, <1>7, <1>8 DEF EntityTypeOK, claimRows, EntityRow, MoveRow

\* A new version of a claim is well typed.
LEMMA VersionTyped ==
  ASSUME EntityInv, NEW x \in Claimed, NEW author \in {"honcho", "owner"},
         NEW says \in {"one", "other", "corrected"}, NEW retired \in BOOLEAN,
         claim[x].revision < MaxClaim, Publishes(x, author, says, retired)
  PROVE  /\ claim' \in [Claimed -> ClaimRow] /\ claim'[x].author = author
         /\ claim'[x].revision = claim[x].revision + 1 /\ claim[x].revision + 1 \in 1..MaxClaim
         /\ \A y \in Claimed : y # x => claim'[y] = claim[y]
<1>f. claim \in [Claimed -> ClaimRow] /\ MaxClaim \in Nat
  BY EntityTyped, EntityAssumption DEF EntityInv
<1>1. PICK n \in 1..MaxClaim : n = claim[x].revision + 1
  BY <1>f DEF ClaimRow
<1>2. [revision |-> n, author |-> author, says |-> says, retired |-> retired] \in ClaimRow
  BY DEF ClaimRow
<1>3. PICK row \in ClaimRow : row = [revision |-> n, author |-> author, says |-> says, retired |-> retired]
  BY <1>2
<1>4. claim' = [claim EXCEPT ![x] = row]
  BY <1>1, <1>3 DEF Publishes
<1>5. row.author = author /\ row.revision = n
  BY <1>3
<1> QED
  BY <1>f, <1>1, <1>4, <1>5

LEMMA ClaimIsPublished ==
  ASSUME EntityInv, NEW x \in Claimed, NEW says \in {"one", "other"}, publishClaim(x, says)
  PROVE  EntityInv' /\ OwnerClaimStands
<1>1. /\ claim' \in [Claimed -> ClaimRow] /\ claim'[x].author = "honcho" /\ claim[x].author # "owner"
      /\ \A y \in Claimed : y # x => claim'[y] = claim[y]
  BY VersionTyped DEF publishClaim, KeepsClaim
<1>2. UNCHANGED <<entity, binding, bindingMoves, arriving, suggestion, corrections, correctionReceipt>>
  BY DEF publishClaim
<1>3. OneVersion'
  BY <1>2 DEF EntityInv, OneVersion
<1>4. EntityTypeOK'
  BY <1>1, <1>2, EntityTyped DEF EntityInv, EntityTypeOK, ClaimRow
<1>5. OwnerClaimStands
  <2>1. \A y \in Claimed, c \in Correction : Cardinality({r \in 1..MaxClaim : <<c, y, r>> \in corrections'}) <= 1
    BY <1>3, VersionsCounted
  <2> QED
    BY <1>1, <2>1 DEF OwnerClaimStands
<1> QED
  BY <1>3, <1>4, <1>5 DEF EntityInv

\* A correction is one version more of a command that had none; its version is a new one.
LEMMA ClaimIsCorrected ==
  ASSUME EntityInv, NEW x \in Claimed, NEW c \in Correction, NEW seen \in 1..MaxClaim, NEW retired \in BOOLEAN,
         correct(c, x, seen, retired)
  PROVE  EntityInv' /\ OwnerClaimStands
<1>1. PICK n : n = seen + 1
  OBVIOUS
<1>2. /\ claim' \in [Claimed -> ClaimRow] /\ claim'[x].author = "owner" /\ claim'[x].revision = n
      /\ n \in 1..MaxClaim /\ \A y \in Claimed : y # x => claim'[y] = claim[y]
  BY <1>1, VersionTyped DEF correct
<1>3. /\ UNCHANGED <<entity, binding, bindingMoves, arriving, suggestion, correctionReceipt>>
      /\ corrections' = corrections \cup {<<c, x, n>>} /\ \A r \in 1..MaxClaim : <<c, x, r>> \notin corrections
  BY <1>1 DEF correct, Replays
<1>4. OneVersion'
  BY <1>2, <1>3 DEF EntityInv, OneVersion
<1>5. EntityTypeOK'
  <2>1. <<c, x, n>> \in Correction \X Identity \X (1..MaxClaim)
    BY <1>2, EntityAssumption
  <2>2. corrections' \subseteq Correction \X Identity \X (1..MaxClaim)
    BY <1>3, <2>1 DEF EntityInv, EntityTypeOK
  <2> QED
    BY <1>2, <1>3, <2>2, EntityTyped DEF EntityInv, EntityTypeOK, ClaimRow
<1>6. <<c, x, claim'[x].revision>> \in corrections' \ corrections
  BY <1>2, <1>3
<1>7. OwnerClaimStands
  <2>1. \A y \in Claimed, k \in Correction : Cardinality({r \in 1..MaxClaim : <<k, y, r>> \in corrections'}) <= 1
    BY <1>4, VersionsCounted
  <2> QED
    BY <1>2, <1>6, <2>1 DEF OwnerClaimStands
<1> QED
  BY <1>4, <1>5, <1>7 DEF EntityInv

LEMMA CorrectionCompletes ==
  ASSUME EntityInv, NEW x \in Identity, NEW c \in Correction, CompleteCorrection(c, x)
  PROVE  EntityInv' /\ OwnerClaimStands
<1>1. UNCHANGED <<entity, binding, bindingMoves, arriving, suggestion, claim, corrections>>
  BY DEF CompleteCorrection
<1>2. OneVersion'
  BY <1>1 DEF EntityInv, OneVersion
<1>3. EntityTypeOK'
  BY <1>1 DEF EntityInv, EntityTypeOK, CompleteCorrection
<1>4. OwnerClaimStands
  <2>1. \A y \in Claimed, k \in Correction : Cardinality({r \in 1..MaxClaim : <<k, y, r>> \in corrections'}) <= 1
    BY <1>2, VersionsCounted
  <2> QED
    BY <1>1, <2>1 DEF OwnerClaimStands
<1> QED
  BY <1>2, <1>3, <1>4 DEF EntityInv

LEMMA EntityStep ==
  ASSUME EntityInv, [EntityNext]_EntityVars
  PROVE  EntityInv' /\ [OwnerClaimStands]_EntityVars
<1>1. CASE EntityNext
  <2>1. PICK x \in Identity :
          \/ LookUp(x) \/ InsertEntity(x) \/ InsertBinding(x) \/ StopArriving(x)
          \/ rename(x) \/ unmerge(x) \/ suggest(x)
          \/ \E y \in Identity : merge(x, y)
          \/ \E confirm \in BOOLEAN, target \in Identity : decideBinding(x, confirm, target)
          \/ x \in Claimed /\ \E says \in {"one", "other"} : publishClaim(x, says)
          \/ x \in Claimed /\ \E c \in Correction, seen \in 1..MaxClaim, retired \in BOOLEAN :
                                correct(c, x, seen, retired)
          \/ \E c \in Correction : CompleteCorrection(c, x)
    BY <1>1 DEF EntityNext
  <2>2. CASE \/ LookUp(x) \/ InsertEntity(x) \/ InsertBinding(x) \/ StopArriving(x)
             \/ rename(x) \/ suggest(x)
             \/ \E confirm \in BOOLEAN, target \in Identity : decideBinding(x, confirm, target)
    BY <2>2, EntityCommands, EntityMoves
  <2>3. CASE unmerge(x) \/ \E y \in Identity : merge(x, y)
    BY <2>3, UnmergeTyped, MergeTyped, EntityMoves
  <2>4. CASE x \in Claimed /\ \E says \in {"one", "other"} : publishClaim(x, says)
    BY <2>4, ClaimIsPublished
  <2>5. CASE x \in Claimed /\ \E c \in Correction, seen \in 1..MaxClaim, retired \in BOOLEAN :
                                correct(c, x, seen, retired)
    BY <2>5, ClaimIsCorrected
  <2>6. CASE \E c \in Correction : CompleteCorrection(c, x)
    BY <2>6, CorrectionCompletes
  <2> QED
    BY <2>1, <2>2, <2>3, <2>4, <2>5, <2>6
<1>2. CASE UNCHANGED EntityVars
  <2>1. UNCHANGED claimRows /\ EntityTypeOK'
    BY <1>2 DEF EntityInv, EntityVars, claimRows, EntityTypeOK
  <2> QED
    BY <2>1, EntityMoves
<1> QED
  BY <1>1, <1>2

\* What an owner's correction says of an entity stands: see ConnectedEntities.
THEOREM ClaimsAreKept == EntitySpec => []EntityTypeOK /\ [][OwnerClaimStands]_EntityVars
<1>1. EntityInv => EntityTypeOK
  BY DEF EntityInv
<1>2. EntityInv /\ [EntityNext]_EntityVars => EntityInv' /\ [OwnerClaimStands]_EntityVars
  BY EntityStep
<1> QED
  BY <1>1, <1>2, EntityStarts, PTL DEF EntitySpec

----------------------------------------------------------------------------
(* Capture.                                                                *)
(*                                                                         *)
(* A drainer retires a file only when it has gone through all its commits  *)
(* itself, and every commit it went through is still there: what was       *)
(* archived, handed over or written is never taken back.  Only what was    *)
(* observed, or admitted by an import before, has an original, so that an  *)
(* original without an intake was captured live.                           *)

CaptureTyped ==
  /\ spool \subseteq observed /\ observed \subseteq File /\ answered \subseteq Update /\ reaction \in 0..9
  /\ intake \in [Source -> {NoIntake, "capture", "import pending", "import"}]
  /\ drainer \in [Drainer -> [at : {"idle", "read", "archived", "handed", "committed"}, file : File \cup {NoFile}]]
  /\ importer \in [at : {"idle", "begun", "admitted", "archived", "ready"}, source : Update \cup {NoFile}]

\* A drainer's file was observed, and its commits up to here are there.
DrainerStands(d) ==
  LET f == drainer[d].file IN
  drainer[d].at # "idle" =>
    /\ f \in observed /\ (f = InputFile => InputFile \in files)
    /\ drainer[d].at # "read" => Original(f) \in archived
    /\ drainer[d].at \in {"handed", "committed"} => Original(f) \in handed
    /\ drainer[d].at = "committed" /\ f = ResultFile => "effect" \in receipts
\* What may be answered was observed.
LiveStands(u) ==
  /\ u \in answered => u \in observed /\ u <= reaction
  /\ intake[u] = "capture" => u \in observed
  /\ intake[u] = NoIntake /\ u \in archived => u \in observed
ImporterStands ==
  /\ importer.at # "idle" => importer.source \in Update
  /\ importer.at \in {"admitted", "archived", "ready"} => intake[importer.source] # NoIntake

CaptureInv ==
  /\ CaptureTyped /\ NothingLost /\ ImporterStands
  /\ InputFile \in spool => InputFile \in files
  /\ \A d \in Drainer : DrainerStands(d)
  /\ \A u \in Update : LiveStands(u)

LEMMA FilesDiffer ==
  /\ Update \subseteq 1..9 /\ Update \subseteq Source /\ Update \subseteq File
  /\ \A f \in File : Original(f) \in Source /\ (Original(f) \in Update => Original(f) = f)
  /\ \A f \in File : Original(f) = InputFile <=> f = InputFile
  /\ InputFile \notin Update /\ ResultFile \notin Update /\ AnswerFile \notin Update /\ NoFile \notin File
  /\ InputFile \in File /\ AnswerFile \in File /\ ResultFile \in File /\ InputFile # AnswerFile /\ InputFile # ResultFile
BY CaptureAssumption DEF Source, File, Original, InputFile, ResultFile, AnswerFile, DeliveredSource, NoFile

LEMMA CaptureStarts == CaptureInit => CaptureInv
<1> SUFFICES ASSUME CaptureInit PROVE CaptureInv
  OBVIOUS
<1>1. CaptureTyped
  BY DEF CaptureInit, CaptureTyped, IdleDrainer, NoImport, NoIntake
<1>2. NothingLost /\ ImporterStands
  BY DEF CaptureInit, NothingLost, ImporterStands, NoImport
<1>3. \A d \in Drainer : DrainerStands(d)
  BY DEF CaptureInit, DrainerStands, IdleDrainer
<1>4. \A u \in Update : LiveStands(u)
  BY FilesDiffer DEF CaptureInit, LiveStands, NoIntake
<1> QED
  BY <1>1, <1>2, <1>3, <1>4 DEF CaptureInv, CaptureInit

\* An observation is put into the spool: the stores and who works with them stay.
LEMMA Observed ==
  ASSUME CaptureInv, NEW f \in File, observed' = observed \cup {f}, spool' = spool \cup {f},
         files \subseteq files', f = InputFile => InputFile \in files',
         UNCHANGED <<archived, intake, handed, answered, reaction, receipts, drainer, importer>>
  PROVE  CaptureInv'
<1>1. CaptureTyped' /\ NothingLost' /\ ImporterStands'
  BY DEF CaptureInv, CaptureTyped, NothingLost, ImporterStands
<1>2. ASSUME NEW d \in Drainer PROVE DrainerStands(d)'
  BY DEF CaptureInv, DrainerStands
<1>3. ASSUME NEW u \in Update PROVE LiveStands(u)'
  BY DEF CaptureInv, LiveStands
<1> QED
  BY <1>1, <1>2, <1>3 DEF CaptureInv

LEMMA ObservedStep ==
  ASSUME CaptureInv,
         \/ StoreInputBytes \/ SubmitInput \/ OfferAnswer \/ AcknowledgeAnswer
         \/ \E f \in File : Ingest(f)
  PROVE  CaptureInv'
<1>1. CASE StoreInputBytes \/ OfferAnswer
  <2>1. /\ UNCHANGED <<observed, spool, archived, intake, handed, answered, reaction, receipts, drainer, importer>>
        /\ files \subseteq files'
    BY <1>1 DEF StoreInputBytes, OfferAnswer, stores
  <2> QED
    BY <2>1 DEF CaptureInv, CaptureTyped, NothingLost, ImporterStands, DrainerStands, LiveStands
<1>2. CASE SubmitInput
  BY <1>2, Observed, FilesDiffer DEF SubmitInput, Spool, stores
<1>3. CASE AcknowledgeAnswer
  BY <1>3, Observed, FilesDiffer DEF AcknowledgeAnswer, Spool, stores
<1>4. ASSUME NEW f \in File, Ingest(f) PROVE CaptureInv'
  BY <1>4, Observed, FilesDiffer DEF Ingest, Spool, stores
<1> QED
  BY <1>1, <1>2, <1>3, <1>4

\* What is archived was observed, or is being imported.
LEMMA Archived ==
  ASSUME CaptureInv, NEW s \in Source, ArchiveOf(s), s \in Update /\ intake[s] = NoIntake => s \in observed,
         s = InputFile => InputFile \in files,
         UNCHANGED <<observed, files, spool, intake, handed, answered, reaction, receipts>>
  PROVE  /\ NothingLost' /\ \A u \in Update : LiveStands(u)'
         /\ s \in archived' /\ archived \subseteq archived'
<1>1. archived' = archived \cup {s}
  BY DEF ArchiveOf
<1>2. NothingLost'
  BY <1>1 DEF CaptureInv, NothingLost
<1>3. ASSUME NEW u \in Update PROVE LiveStands(u)'
  BY <1>1 DEF CaptureInv, LiveStands
<1> QED
  BY <1>1, <1>2, <1>3

\* Of two updates the last is the later one.
LEMMA LastOfTwo ==
  ASSUME NEW n \in 0..9, NEW u \in 0..9
  PROVE  /\ n <= n
         /\ LET m == IF u > n THEN u ELSE n IN m \in 0..9 /\ n <= m /\ u <= m
OBVIOUS
LEMMA UpdatesAreNumbers == 1..9 \subseteq 0..9
OBVIOUS
LEMMA LaterStill == ASSUME NEW u \in 0..9, NEW n \in 0..9, NEW m \in 0..9, u <= n, n <= m PROVE u <= m
OBVIOUS

\* What is handed over and answered was observed.
LEMMA HandedOver ==
  ASSUME CaptureInv, NEW s \in Source, HandOff(s),
         s \in Update /\ intake[s] = NoIntake => s \in observed,
         UNCHANGED <<observed, files, spool, archived, receipts>>
  PROVE  /\ intake' \in [Source -> {NoIntake, "capture", "import pending", "import"}]
         /\ answered' \subseteq Update /\ reaction' \in 0..9 /\ NothingLost' /\ \A u \in Update : LiveStands(u)'
         /\ handed' = handed \cup {s} /\ \A u \in Source : intake[u] # NoIntake => intake'[u] # NoIntake
<1>f. /\ CaptureTyped /\ Update \subseteq 1..9 /\ handed' = handed \cup {s} /\ Update \subseteq Source
      /\ reaction \in 0..9 /\ intake \in [Source -> {NoIntake, "capture", "import pending", "import"}]
  BY FilesDiffer DEF CaptureInv, CaptureTyped, HandOff
<1>l. \A u \in Update : LiveStands(u)
  BY DEF CaptureInv
<1>1. PICK via \in {"capture", "import pending", "import"} :
        /\ via = IF intake[s] = NoIntake THEN "capture" ELSE intake[s]
        /\ intake' = [intake EXCEPT ![s] = IF via = "import pending" THEN "import" ELSE via]
        /\ answered' = IF via = "capture" /\ s \in Update THEN answered \cup {s} ELSE answered
        /\ reaction' = IF via = "capture" /\ s \in Update /\ s > reaction THEN s ELSE reaction
  BY <1>f DEF HandOff, Latest
<1>2. intake' \in [Source -> {NoIntake, "capture", "import pending", "import"}]
  BY <1>f, <1>1
<1>3. /\ answered' \subseteq Update /\ reaction' \in 0..9 /\ reaction <= reaction'
      /\ via = "capture" /\ s \in Update => s <= reaction'
  <2>1. CASE via = "capture" /\ s \in Update
    <3>1. s \in 1..9 /\ answered' = answered \cup {s} /\ reaction' = IF s > reaction THEN s ELSE reaction
      BY <1>f, <1>1, <2>1
    <3>2. answered' \subseteq Update
      BY <1>f, <2>1, <3>1 DEF CaptureTyped
    <3>3. PICK n \in 0..9, u \in 0..9 : n = reaction /\ u = s
      BY <1>f, <3>1, UpdatesAreNumbers, Zenon
    <3>4. reaction' = (IF u > n THEN u ELSE n)
      BY <3>1, <3>3
    <3>5. reaction' \in 0..9 /\ n <= reaction' /\ u <= reaction'
      BY <3>4, LastOfTwo
    <3> QED
      BY <3>2, <3>3, <3>5
  <2>2. CASE ~(via = "capture" /\ s \in Update)
    <3>1. answered' = answered /\ reaction' = reaction
      BY <1>1, <2>2
    <3>2. reaction <= reaction
      BY <1>f, LastOfTwo
    <3>3. answered' \subseteq Update
      BY <1>f, <3>1 DEF CaptureTyped
    <3> QED
      BY <1>f, <2>2, <3>1, <3>2, <3>3, Zenon
  <2> QED
    BY <2>1, <2>2
<1>4. NothingLost'
  BY <1>f DEF CaptureInv, NothingLost
<1>5. via = "capture" /\ s \in Update => s \in observed
  BY <1>1, <1>l DEF LiveStands, NoIntake
<1>6. \A u \in answered' : u \in observed /\ u <= reaction'
  <2>1. \A u \in answered : u \in observed /\ u <= reaction /\ u \in 1..9
    BY <1>f, <1>l DEF LiveStands, CaptureTyped
  <2>2. ASSUME NEW u \in answered PROVE u \in observed' /\ u <= reaction'
    <3>1. u \in 1..9 /\ u <= reaction /\ reaction <= reaction' /\ reaction' \in 0..9
      BY <1>3, <2>1
    <3>2. u \in observed' /\ reaction \in 0..9
      BY <1>f, <2>1
    <3>3. PICK v \in 0..9, n \in 0..9, m \in 0..9 : v = u /\ n = reaction /\ m = reaction'
      BY <3>1, <3>2, UpdatesAreNumbers, Zenon
    <3>4. v <= m
      BY <3>1, <3>3, LaterStill
    <3> QED
      BY <3>2, <3>3, <3>4
  <2>3. ASSUME NEW u \in answered', u \notin answered
        PROVE  u = s /\ via = "capture" /\ s \in Update
    BY <1>1, <2>3
  <2> QED
    BY <1>3, <1>5, <2>2, <2>3
<1>7. ASSUME NEW u \in Update PROVE LiveStands(u)'
  BY <1>f, <1>1, <1>5, <1>6, <1>7, <1>l DEF LiveStands, NoIntake
<1>8. \A u \in Source : intake[u] # NoIntake => intake'[u] # NoIntake
  BY <1>f, <1>1 DEF NoIntake
<1> QED
  BY <1>f, <1>2, <1>3, <1>4, <1>7, <1>8

\* The stores have grown, and a drainer is as far as it went with them.
LEMMA DrainerMoved ==
  ASSUME CaptureInv, NEW d \in Drainer, NEW at \in {"read", "archived", "handed", "committed"},
         NEW file \in File, drainer' = [drainer EXCEPT ![d] = [at |-> at, file |-> file]],
         UNCHANGED <<observed, files>>,
         archived \subseteq archived', handed \subseteq handed', receipts \subseteq receipts',
         file \in observed, file = InputFile => InputFile \in files, at # "read" => Original(file) \in archived',
         at \in {"handed", "committed"} => Original(file) \in handed',
         at = "committed" /\ file = ResultFile => "effect" \in receipts'
  PROVE  /\ drainer' \in [Drainer -> [at : {"idle", "read", "archived", "handed", "committed"}, file : File \cup {NoFile}]]
         /\ \A x \in Drainer : DrainerStands(x)'
<1>1. PICK row \in [at : {"idle", "read", "archived", "handed", "committed"}, file : File \cup {NoFile}] :
        row = [at |-> at, file |-> file]
  OBVIOUS
<1>2. drainer \in [Drainer -> [at : {"idle", "read", "archived", "handed", "committed"}, file : File \cup {NoFile}]]
  BY DEF CaptureInv, CaptureTyped
<1>3. drainer' = [drainer EXCEPT ![d] = row] /\ row.at = at /\ row.file = file
  BY <1>1
<1>4. ASSUME NEW x \in Drainer, x # d PROVE DrainerStands(x)'
  <2>1. DrainerStands(x) /\ drainer'[x] = drainer[x]
    BY <1>2, <1>3, <1>4 DEF CaptureInv
  <2> QED
    BY <2>1 DEF DrainerStands
<1>5. DrainerStands(d)'
  BY <1>2, <1>3 DEF DrainerStands
<1> QED
  BY <1>2, <1>3, <1>4, <1>5

\* The stores have grown, and the drainers are as they were or idle.
LEMMA DrainersKept ==
  ASSUME CaptureInv, UNCHANGED <<observed, files>>,
         \A x \in Drainer : drainer'[x] = drainer[x] \/ drainer'[x].at = "idle",
         archived \subseteq archived', handed \subseteq handed', receipts \subseteq receipts'
  PROVE  \A x \in Drainer : DrainerStands(x)'
<1>1. ASSUME NEW x \in Drainer PROVE DrainerStands(x)'
  <2>1. DrainerStands(x)
    BY DEF CaptureInv
  <2> QED
    BY <2>1 DEF DrainerStands
<1> QED
  BY <1>1

LEMMA DrainStep ==
  ASSUME CaptureInv, NEW d \in Drainer,
         \/ ArchiveFile(d) \/ HandOffFile(d) \/ CommitGenerated(d) \/ \E f \in File : OpenFile(d, f)
  PROVE  CaptureInv'
<1>f. /\ CaptureTyped /\ DrainerStands(d) /\ ImporterStands /\ \A u \in Update : LiveStands(u)
      /\ drainer \in [Drainer -> [at : {"idle", "read", "archived", "handed", "committed"}, file : File \cup {NoFile}]]
  BY DEF CaptureInv, CaptureTyped
<1>1. ASSUME NEW f \in File, OpenFile(d, f) PROVE CaptureInv'
  <2>1. /\ UNCHANGED <<observed, files, spool, archived, intake, handed, answered, reaction, receipts, importer>>
        /\ f \in spool /\ f \in observed /\ drainer' = [drainer EXCEPT ![d] = [at |-> "read", file |-> f]]
        /\ f = InputFile => InputFile \in files
    BY <1>1 DEF OpenFile, CaptureInv, CaptureTyped, stores
  <2>2. /\ drainer' \in [Drainer -> [at : {"idle", "read", "archived", "handed", "committed"}, file : File \cup {NoFile}]]
        /\ \A x \in Drainer : DrainerStands(x)'
    BY <2>1, DrainerMoved
  <2> QED
    BY <2>1, <2>2 DEF CaptureInv, CaptureTyped, NothingLost, ImporterStands, LiveStands
<1>b. ASSUME drainer[d].at # "idle"
      PROVE  /\ drainer[d].file \in File /\ drainer[d].file \in observed /\ Original(drainer[d].file) \in Source
             /\ drainer[d].file = InputFile => InputFile \in files
             /\ \A at : Busy(d, at) => drainer' = [drainer EXCEPT ![d] = [at |-> at, file |-> drainer[d].file]]
  <2>1. drainer[d].file \in observed /\ (drainer[d].file = InputFile => InputFile \in files)
    BY <1>f, <1>b DEF DrainerStands
  <2>2. drainer[d].file \in File
    BY <1>f, <2>1 DEF CaptureTyped
  <2>3. \A at : [drainer[d] EXCEPT !.at = at] = [at |-> at, file |-> drainer[d].file]
    BY <1>f
  <2> QED
    BY <1>f, <2>1, <2>2, <2>3, FilesDiffer DEF Busy
<1>2. CASE ArchiveFile(d)
  <2>1. PICK f \in File : f = drainer[d].file
    BY <1>2, <1>b DEF ArchiveFile
  <2>2. /\ f \in observed /\ Original(f) \in Source /\ (f = InputFile => InputFile \in files)
        /\ drainer' = [drainer EXCEPT ![d] = [at |-> "archived", file |-> f]] /\ ArchiveOf(Original(f))
        /\ UNCHANGED <<observed, files, spool, intake, handed, answered, reaction, receipts, importer>>
    BY <1>2, <1>b, <2>1 DEF ArchiveFile
  <2>3. PICK s \in Source : s = Original(f)
    BY <2>2
  <2>4. (s \in Update => s \in observed) /\ (s = InputFile => InputFile \in files)
    BY <2>2, <2>3, FilesDiffer
  <2>5. NothingLost' /\ (\A u \in Update : LiveStands(u)') /\ s \in archived' /\ archived \subseteq archived'
    BY <2>2, <2>3, <2>4, Archived
  <2>6. /\ drainer' \in [Drainer -> [at : {"idle", "read", "archived", "handed", "committed"}, file : File \cup {NoFile}]]
        /\ \A x \in Drainer : DrainerStands(x)'
    BY <2>2, <2>3, <2>5, DrainerMoved
  <2> QED
    BY <2>2, <2>5, <2>6 DEF CaptureInv, CaptureTyped, ImporterStands
<1>3. CASE HandOffFile(d)
  <2>1. PICK f \in File : f = drainer[d].file
    BY <1>3, <1>b DEF HandOffFile
  <2>2. PICK at \in {"handed", "committed"} : at = IF f = ResultFile THEN "handed" ELSE "committed"
    OBVIOUS
  <2>3. /\ f \in observed /\ Original(f) \in Source /\ (f = InputFile => InputFile \in files)
        /\ drainer' = [drainer EXCEPT ![d] = [at |-> at, file |-> f]] /\ HandOff(Original(f))
        /\ Original(f) \in archived
        /\ UNCHANGED <<observed, files, spool, archived, receipts, importer>>
    BY <1>3, <1>b, <1>f, <2>1, <2>2 DEF HandOffFile, DrainerStands
  <2>4. PICK s \in Source : s = Original(f)
    BY <2>3
  <2>5. s \in Update => s \in observed
    BY <2>3, <2>4, FilesDiffer
  <2>6. /\ intake' \in [Source -> {NoIntake, "capture", "import pending", "import"}]
        /\ answered' \subseteq Update /\ reaction' \in 0..9 /\ NothingLost' /\ \A u \in Update : LiveStands(u)'
        /\ handed' = handed \cup {s} /\ \A u \in Source : intake[u] # NoIntake => intake'[u] # NoIntake
    BY <2>3, <2>4, <2>5, HandedOver
  <2>7. /\ drainer' \in [Drainer -> [at : {"idle", "read", "archived", "handed", "committed"}, file : File \cup {NoFile}]]
        /\ \A x \in Drainer : DrainerStands(x)'
    BY <2>2, <2>3, <2>4, <2>6, DrainerMoved
  <2> QED
    BY <2>3, <2>6, <2>7, FilesDiffer DEF CaptureInv, CaptureTyped, ImporterStands
<1>4. CASE CommitGenerated(d)
  <2>1. PICK f \in File : f = drainer[d].file
    BY <1>4, <1>b DEF CommitGenerated
  <2>2. /\ f \in observed /\ (f = InputFile => InputFile \in files)
        /\ Original(f) \in archived /\ Original(f) \in handed
        /\ UNCHANGED <<observed, files, spool, archived, intake, handed, answered, reaction, importer>>
    BY <1>4, <1>b, <1>f, <2>1 DEF CommitGenerated, DrainerStands
  <2>3. PICK done : done = {i \in 1..3 : ReceiptSteps[i] \in receipts}
    OBVIOUS
  <2>4. \/ Cardinality(done) + 1 > 3 /\ Busy(d, "committed") /\ UNCHANGED receipts
        \/ UNCHANGED drainer /\ receipts \subseteq receipts'
    <3>1. IF Cardinality(done) + 1 > 3 THEN Busy(d, "committed") /\ UNCHANGED receipts
          ELSE receipts' = receipts \cup {ReceiptSteps[Cardinality(done) + 1]} /\ UNCHANGED drainer
      BY <1>4, <2>3, Zenon DEF CommitGenerated
    <3> QED
      BY <3>1
  <2>5. CASE Cardinality(done) + 1 > 3 /\ Busy(d, "committed") /\ UNCHANGED receipts
    <3>1. 3 \in done
      <4>1. SUFFICES ASSUME 3 \notin done PROVE FALSE
        OBVIOUS
      <4>2. done \in SUBSET (1..2)
        BY <2>3, <4>1
      <4>3. IsFiniteSet(1..2) /\ Cardinality(1..2) = 2
        <5>1. IsFiniteSet(1..2) /\ Cardinality(1..2) = IF 1 > 2 THEN 0 ELSE 2 - 1 + 1
          BY FS_Interval, 1 \in Int, 2 \in Int
        <5> QED
          BY <5>1
      <4>4. Cardinality(done) <= 2 /\ IsFiniteSet(done)
        BY <4>2, <4>3, FS_Subset
      <4>5. Cardinality(done) \in Nat
        BY <4>4, FS_CardinalityType
      <4> QED
        BY <2>5, <4>4, <4>5
    <3>2. "effect" \in receipts
      BY <2>3, <3>1 DEF ReceiptSteps
    <3>3. drainer' = [drainer EXCEPT ![d] = [at |-> "committed", file |-> f]]
      BY <1>4, <1>b, <2>1, <2>5 DEF CommitGenerated
    <3>4. /\ drainer' \in [Drainer -> [at : {"idle", "read", "archived", "handed", "committed"}, file : File \cup {NoFile}]]
          /\ \A x \in Drainer : DrainerStands(x)'
      BY <2>2, <2>5, <3>2, <3>3, DrainerMoved
    <3> QED
      BY <2>2, <2>5, <3>4 DEF CaptureInv, CaptureTyped, NothingLost, ImporterStands, LiveStands
  <2>6. CASE UNCHANGED drainer /\ receipts \subseteq receipts'
    <3>1. \A x \in Drainer : DrainerStands(x)'
      BY <2>2, <2>6, DrainersKept
    <3> QED
      BY <2>2, <2>6, <3>1 DEF CaptureInv, CaptureTyped, NothingLost, ImporterStands, LiveStands
  <2> QED
    BY <2>4, <2>5, <2>6
<1> QED
  BY <1>1, <1>2, <1>3, <1>4

\* A file is retired by the drainer that saw all its commits; a lost drainer leaves its file.
LEMMA DrainEnds ==
  ASSUME CaptureInv, NEW d \in Drainer, RetireFile(d) \/ LoseDrainer(d)
  PROVE  CaptureInv'
<1>f. /\ CaptureTyped /\ DrainerStands(d)
      /\ drainer \in [Drainer -> [at : {"idle", "read", "archived", "handed", "committed"}, file : File \cup {NoFile}]]
  BY DEF CaptureInv, CaptureTyped
<1>1. PICK row : row = IdleDrainer
  OBVIOUS
<1>2. row \in [at : {"idle", "read", "archived", "handed", "committed"}, file : File \cup {NoFile}] /\ row.at = "idle"
  BY <1>1 DEF IdleDrainer
<1>3. /\ drainer' = [drainer EXCEPT ![d] = row]
      /\ UNCHANGED <<observed, files, archived, intake, handed, answered, reaction, receipts, importer>>
      /\ \/ spool' = spool
         \/ drainer[d].at = "committed" /\ spool' = spool \ {drainer[d].file}
  BY <1>1 DEF RetireFile, Retireable, LoseDrainer, stores
<1>4. /\ drainer' \in [Drainer -> [at : {"idle", "read", "archived", "handed", "committed"}, file : File \cup {NoFile}]]
      /\ \A x \in Drainer : drainer'[x] = drainer[x] \/ drainer'[x].at = "idle"
  BY <1>f, <1>2, <1>3
<1>5. \A x \in Drainer : DrainerStands(x)'
  BY <1>3, <1>4, DrainersKept
<1>6. NothingLost'
  <2>1. CASE spool' = spool
    BY <1>3, <2>1 DEF CaptureInv, NothingLost
  <2>2. CASE drainer[d].at = "committed" /\ spool' = spool \ {drainer[d].file}
    <3>1. PICK f : f = drainer[d].file
      OBVIOUS
    <3>2. Original(f) \in archived /\ Original(f) \in handed /\ (f = ResultFile => "effect" \in receipts)
      BY <1>f, <2>2, <3>1 DEF DrainerStands
    <3> QED
      BY <1>3, <2>2, <3>1, <3>2 DEF CaptureInv, NothingLost
  <2> QED
    BY <1>3, <2>1, <2>2
<1> QED
  BY <1>3, <1>4, <1>5, <1>6 DEF CaptureInv, CaptureTyped, ImporterStands, LiveStands

\* The intake of an import is there before its original, and nothing is answered for it.
LEMMA ImportStep ==
  ASSUME CaptureInv,
         \/ \E s \in Update : BeginImport(s)
         \/ AdmitImport \/ ArchiveImport \/ ReadyImport \/ HandOffImport \/ LoseImport
  PROVE  CaptureInv'
<1>f. /\ CaptureTyped /\ ImporterStands /\ (\A u \in Update : LiveStands(u)) /\ Update \subseteq Source
      /\ intake \in [Source -> {NoIntake, "capture", "import pending", "import"}]
      /\ importer \in [at : {"idle", "begun", "admitted", "archived", "ready"}, source : Update \cup {NoFile}]
  BY FilesDiffer DEF CaptureInv, CaptureTyped
<1>k. UNCHANGED <<observed, files, spool, receipts, drainer>>
  BY DEF BeginImport, AdmitImport, ArchiveImport, ReadyImport, HandOffImport, LoseImport, rest
<1>i. ASSUME NEW at \in {"idle", "begun", "admitted", "archived", "ready"}, Importing(at)
      PROVE  /\ importer' \in [at : {"idle", "begun", "admitted", "archived", "ready"}, source : Update \cup {NoFile}]
             /\ importer'.at = at /\ importer'.source = importer.source
  BY <1>f, <1>i DEF Importing
<1>n. /\ NoImport \in [at : {"idle", "begun", "admitted", "archived", "ready"}, source : Update \cup {NoFile}]
      /\ NoImport.at = "idle"
  BY DEF NoImport
<1>1. CASE (\E s \in Update : BeginImport(s)) \/ LoseImport
  <2>1. /\ UNCHANGED <<archived, intake, handed, answered, reaction>>
        /\ importer' \in [at : {"idle", "begun", "admitted", "archived", "ready"}, source : Update \cup {NoFile}]
        /\ importer'.at # "idle" => importer'.at = "begun" /\ importer'.source \in Update
    BY <1>1, <1>n DEF BeginImport, LoseImport
  <2> QED
    BY <1>f, <1>k, <2>1 DEF CaptureInv, CaptureTyped, NothingLost, ImporterStands, DrainerStands, LiveStands
<1>2. CASE AdmitImport \/ ReadyImport
  <2>1. PICK s \in Update : s = importer.source
    BY <1>f, <1>2 DEF AdmitImport, ReadyImport, ImporterStands
  <2>2. PICK at \in {"admitted", "ready"}, to \in {"capture", "import pending", "import"} :
          /\ Importing(at) /\ UNCHANGED <<archived, handed, answered, reaction>>
          /\ intake' = [intake EXCEPT ![s] = to] /\ (to = "capture" => intake[s] = "capture")
    BY <1>f, <1>2, <2>1 DEF AdmitImport, ReadyImport, ImporterStands, NoIntake
  <2>3. /\ importer' \in [at : {"idle", "begun", "admitted", "archived", "ready"}, source : Update \cup {NoFile}]
        /\ importer'.source = s
    BY <1>i, <2>1, <2>2
  <2>4. intake' \in [Source -> {NoIntake, "capture", "import pending", "import"}] /\ intake'[s] # NoIntake
    BY <1>f, <2>2 DEF NoIntake
  <2>5. ASSUME NEW u \in Update PROVE LiveStands(u)'
    BY <1>f, <1>k, <2>2, <2>5 DEF LiveStands, NoIntake
  <2>6. \A d \in Drainer : DrainerStands(d)'
    BY <1>k, <2>2, DrainersKept
  <2> QED
    BY <1>k, <2>2, <2>3, <2>4, <2>5, <2>6 DEF CaptureInv, CaptureTyped, NothingLost, ImporterStands
<1>3. CASE ArchiveImport
  <2>1. PICK s \in Update : s = importer.source
    BY <1>f, <1>3 DEF ArchiveImport, Admitted, ImporterStands
  <2>2. /\ ArchiveOf(s) /\ Importing("archived") /\ UNCHANGED <<intake, handed, answered, reaction>>
        /\ intake[s] # NoIntake /\ s \in Source /\ s # InputFile
    BY <1>f, <1>3, <2>1, FilesDiffer DEF ArchiveImport, Admitted, ImporterStands, rest
  <2>3. NothingLost' /\ (\A u \in Update : LiveStands(u)') /\ archived \subseteq archived'
    BY <1>k, <2>2, Archived
  <2>4. \A d \in Drainer : DrainerStands(d)'
    BY <1>k, <2>2, <2>3, DrainersKept
  <2> QED
    BY <1>i, <1>k, <2>1, <2>2, <2>3, <2>4 DEF CaptureInv, CaptureTyped, ImporterStands
<1>4. CASE HandOffImport
  <2>1. PICK s \in Update : s = importer.source
    BY <1>f, <1>4 DEF HandOffImport, ImporterStands
  <2>2. HandOff(s) /\ UNCHANGED archived /\ intake[s] # NoIntake /\ s \in Source /\ importer' = NoImport
    BY <1>f, <1>4, <2>1 DEF HandOffImport, ImporterStands, rest
  <2>3. /\ intake' \in [Source -> {NoIntake, "capture", "import pending", "import"}]
        /\ answered' \subseteq Update /\ reaction' \in 0..9 /\ NothingLost' /\ \A u \in Update : LiveStands(u)'
        /\ handed \subseteq handed'
    BY <1>k, <2>2, HandedOver
  <2>4. \A d \in Drainer : DrainerStands(d)'
    BY <1>k, <2>2, <2>3, DrainersKept
  <2> QED
    BY <1>k, <1>n, <2>2, <2>3, <2>4 DEF CaptureInv, CaptureTyped, ImporterStands
<1> QED
  BY <1>1, <1>2, <1>3, <1>4

LEMMA ReconcileStep ==
  ASSUME CaptureInv, NEW s \in Source, Reconcile(s)
  PROVE  CaptureInv'
<1>1. /\ UNCHANGED <<observed, files, spool, archived, receipts, drainer, importer>> /\ HandOff(s)
      /\ s \in Update /\ intake[s] = NoIntake => s \in observed
  BY DEF Reconcile, CaptureInv, LiveStands
<1>2. /\ intake' \in [Source -> {NoIntake, "capture", "import pending", "import"}]
      /\ answered' \subseteq Update /\ reaction' \in 0..9 /\ NothingLost' /\ \A u \in Update : LiveStands(u)'
      /\ handed' = handed \cup {s} /\ \A u \in Source : intake[u] # NoIntake => intake'[u] # NoIntake
  BY <1>1, HandedOver
<1>3. \A d \in Drainer : DrainerStands(d)'
  BY <1>1, <1>2, DrainersKept
<1> QED
  BY <1>1, <1>2, <1>3, FilesDiffer DEF CaptureInv, CaptureTyped, ImporterStands

LEMMA CaptureInvariant == CaptureSpec => []CaptureInv
<1>1. CaptureInv /\ [CaptureNext]_CaptureVars => CaptureInv'
  <2>1. ASSUME CaptureInv, CaptureStep PROVE CaptureInv'
    BY <2>1, ObservedStep, DrainStep, DrainEnds, ImportStep, ReconcileStep DEF CaptureStep
  <2>2. ASSUME CaptureInv, UNCHANGED CaptureVars PROVE CaptureInv'
    BY <2>2 DEF CaptureVars, CaptureInv, CaptureTyped, NothingLost, ImporterStands, DrainerStands, LiveStands
  <2> QED
    BY <2>1, <2>2 DEF CaptureNext
<1> QED
  BY <1>1, CaptureStarts, PTL DEF CaptureSpec

\* Whoever drains, reconciles and imports, and wherever they stop: see Capture.
THEOREM EvidenceIsKept == CaptureSpec => []CaptureKeeps
<1>1. CaptureInv => CaptureKeeps
  BY DEF CaptureInv, LiveStands, CaptureTyped, CaptureKeeps, HistoryStaysSilent, ReactionIsLast
<1> QED
  BY <1>1, CaptureInvariant, PTL

----------------------------------------------------------------------------
(* Preparation.                                                            *)
(*                                                                         *)
(* No lock is needed for what was prepared to stand: bytes and texts are   *)
(* put only where there are none, a first selection only where there is    *)
(* none, and what the owner selects is guarded when it is selected.        *)

PreparedTyped ==
  /\ manifest \in [Attachment -> Bytes \cup {Nothing}] /\ text \in [Attachment -> Output \cup {Nothing}]
  /\ chosen \in [Attachment -> Output \cup {OwnerText, Nothing}]

LEMMA PreparationStarts == PreparationInit => PreparedTyped
BY DEF PreparationInit, PreparedTyped

\* Where there were bytes, a text and a selection they are still, or what the owner selected,
\* and that is guarded: so a prepared source stays prepared.
LEMMA StillPrepared ==
  ASSUME PreparedTyped,
         \A a \in Attachment : manifest[a] # Nothing => manifest'[a] = manifest[a],
         \A a \in Attachment : text[a] # Nothing => text'[a] = text[a],
         \A a \in Attachment : chosen[a] # Nothing =>
           chosen'[a] = chosen[a] \/ (chosen'[a] = OwnerText /\ <<a, OwnerText>> \in guardReady'),
         guardReady \subseteq guardReady'
  PROVE  PreparationStands
<1>1. \A a \in Attachment : chosen[a] # Nothing => chosen'[a] # Nothing
  BY PreparationAssumption
<1>2. ASSUME Completed, ~(guardOn' /\ ~guardOn) PROVE Completed'
  <2>1. \A a \in Attachment : manifest[a] # Nothing /\ chosen[a] # Nothing
    BY <1>2 DEF Completed, Missing, Unchosen
  <2>2. Missing' = {} /\ Unchosen' = {}
    BY <1>1, <2>1 DEF Missing, Unchosen
  <2>3. ASSUME guardOn' PROVE Guarded' \subseteq guardReady'
    <3>1. Guarded \subseteq guardReady
      BY <1>2, <2>3 DEF Completed
    <3>2. SourceCopy \in guardReady'
      BY <3>1 DEF Guarded
    <3>3. ASSUME NEW a \in Attachment PROVE <<a, "file">> \in guardReady' /\ <<a, chosen'[a]>> \in guardReady'
      <4>1. <<a, "file">> \in guardReady /\ <<a, chosen[a]>> \in guardReady
        BY <3>1 DEF Guarded
      <4> QED
        BY <2>1, <4>1
    <3> QED
      BY <3>2, <3>3 DEF Guarded, SourceCopy
  <2> QED
    BY <2>2, <2>3 DEF Completed
<1> QED
  BY <1>2 DEF PreparationStands

LEMMA BytesAttached ==
  ASSUME PreparedTyped, NEW a \in Attachment, NEW b \in Bytes, Attach(a, b), UNCHANGED <<text, chosen, guardReady>>
  PROVE  PreparedTyped' /\ PreparationStands
<1>1. PreparedTyped' /\ \A x \in Attachment : manifest[x] # Nothing => manifest'[x] = manifest[x]
  BY DEF PreparedTyped, Attach
<1> QED
  BY <1>1, StillPrepared

LEMMA PreparationStep ==
  ASSUME PreparedTyped, [PreparationNext]_PreparationVars
  PROVE  PreparedTyped' /\ [PreparationStands]_PreparationVars
<1>k. ASSUME UNCHANGED <<manifest, text, chosen>>, guardReady \subseteq guardReady'
      PROVE  PreparedTyped' /\ PreparationStands
  BY <1>k, StillPrepared DEF PreparedTyped
<1>1. ASSUME NEW p \in Preparer,
             \/ EnterPreparation(p) \/ DownloadFails(p) \/ EndFetch(p)
             \/ AfterSelection(p) \/ GuardSource(p) \/ LoseLocks(p) \/ CrashPreparer(p)
      PROVE  PreparedTyped' /\ PreparationStands
  <2>1. UNCHANGED <<manifest, text, chosen>> /\ guardReady \subseteq guardReady'
    BY <1>1 DEF EnterPreparation, DownloadFails, EndFetch, AfterSelection, GuardSource, LoseLocks, CrashPreparer, preparedRows
  <2> QED
    BY <1>k, <2>1
<1>2. ASSUME NEW p \in Preparer, NEW b \in Bytes, Downloaded(p, b) PROVE PreparedTyped' /\ PreparationStands
  <2>1. UNCHANGED <<text, chosen, guardReady>> /\ \E a \in preparer[p].todo : Attach(a, b)
    BY <1>2 DEF Downloaded
  <2>2. PICK a \in preparer[p].todo : Attach(a, b)
    BY <2>1
  <2>3. CASE a \in Attachment
    BY <2>1, <2>2, <2>3, BytesAttached
  <2>4. CASE a \notin Attachment
    <3>1. manifest' = manifest
      BY <2>2, <2>4 DEF PreparedTyped, Attach
    <3> QED
      BY <1>k, <2>1, <3>1
  <2> QED
    BY <2>3, <2>4
<1>3. ASSUME NEW p \in Preparer, NEW a \in Attachment,
             \/ BeginFetch(p, a) \/ RequestJob(p, a) \/ Derive(p, a) \/ PassAttachment(p, a)
             \/ RunFails(p, a) \/ GuardText(p, a) \/ FinishJob(p, a) \/ StageSelection(p, a)
      PROVE  PreparedTyped' /\ PreparationStands
  <2>1. UNCHANGED <<manifest, text, chosen>> /\ guardReady \subseteq guardReady'
    BY <1>3 DEF BeginFetch, RequestJob, Derive, PassAttachment, RunFails, GuardText, FinishJob, StageSelection, preparedRows
  <2> QED
    BY <1>k, <2>1
<1>4. ASSUME NEW p \in Preparer, NEW a \in Attachment, NEW o \in Output, Derived(p, a, o)
      PROVE  PreparedTyped' /\ PreparationStands
  <2>1. UNCHANGED <<manifest, chosen, guardReady>>
    BY <1>4 DEF Derived
  <2>2. UNCHANGED text \/ (Keeps(a, o) /\ text' = [text EXCEPT ![a] = o])
    BY <1>4 DEF Derived
  <2>3. PreparedTyped' /\ \A x \in Attachment : text[x] # Nothing => text'[x] = text[x]
    BY <2>1, <2>2 DEF PreparedTyped, Keeps
  <2> QED
    BY <2>1, <2>3, StillPrepared
<1>5. ASSUME NEW a \in Attachment, FinishSelection(a) PROVE PreparedTyped' /\ PreparationStands
  <2>1. /\ UNCHANGED <<manifest, text, guardReady>>
        /\ chosen' = [chosen EXCEPT ![a] = IF chosen[a] = Nothing THEN text[a] ELSE chosen[a]]
    BY <1>5 DEF FinishSelection, Selectable
  <2>2. PreparedTyped' /\ \A x \in Attachment : chosen[x] # Nothing => chosen'[x] = chosen[x]
    BY <2>1 DEF PreparedTyped
  <2> QED
    BY <2>1, <2>2, StillPrepared
<1>6. ASSUME NEW a \in Attachment, OwnerSelects(a) PROVE PreparedTyped' /\ PreparationStands
  <2>1. /\ UNCHANGED <<manifest, text>> /\ guardReady' = guardReady \cup {<<a, OwnerText>>}
        /\ chosen' = [chosen EXCEPT ![a] = OwnerText]
    BY <1>6 DEF OwnerSelects
  <2>2. PreparedTyped' /\ \A x \in Attachment : x = a \/ chosen'[x] = chosen[x]
    BY <2>1 DEF PreparedTyped
  <2>3. chosen'[a] = OwnerText
    BY <2>1 DEF PreparedTyped
  <2> QED
    BY <2>1, <2>2, <2>3, StillPrepared
<1>7. ASSUME NEW a \in Attachment, NEW b \in Bytes, ImportBytes(a, b) PROVE PreparedTyped' /\ PreparationStands
  BY <1>7, BytesAttached DEF ImportBytes
<1>8. CASE SwitchGuard
  BY <1>k, <1>8 DEF SwitchGuard
<1>9. CASE UNCHANGED PreparationVars
  BY <1>k, <1>9 DEF PreparationVars
<1> QED
  BY <1>1, <1>2, <1>3, <1>4, <1>5, <1>6, <1>7, <1>8, <1>9 DEF PreparationNext

\* Whoever lost a lock, crashed or ran twice: see Preparation.
THEOREM PreparedIsKept == PreparationSpec => [][PreparationStands]_PreparationVars
BY PreparationStarts, PreparationStep, PTL DEF PreparationSpec

----------------------------------------------------------------------------
(* Long-term memory.                                                       *)
(*                                                                         *)
(* In the present workspace the receipts of the present session are live   *)
(* and those of the ones before it are retired, so that a session to be    *)
(* deleted has none that is.  A write that was authorized holds the lock:  *)
(* until it is done its session and workspace may become ones to delete,   *)
(* but are not deleted.  Whoever observes the workspace compares the work  *)
(* it counted with the work there is, which only grows.                    *)

DocReceipts == Document \X Session
ReceiptRow == [state : {"none", "pending", "uncertain", "done"}, retired : BOOLEAN]
GenerationRow == [state : {"none", "building", "ready", "retired"}, work : Nat]
HonchoRow == [exists : BOOLEAN, holds : SUBSET Document]
LockRow == [at : {"free", "reconcile", "open", "look", "write", "delete", "retire"},
            on : 0..(MaxSession + MaxWorkspace), doc : SUBSET Document]
RebuildRow == [on : Session \cup {None}, rejected : SUBSET Document]
ObserverRow == [at : {"idle", "count", "save"}, on : Workspace \cup {None}, work : Nat, ready : BOOLEAN]

MemoryTyped ==
  /\ workspaceNow \in Workspace /\ generation \in [Workspace -> GenerationRow]
  /\ sessionIn \in [Session -> Workspace \cup {None}] /\ liveSession \in Session \cup {None}
  /\ receipt \in [DocReceipts -> ReceiptRow]
  /\ deletion \in [Session -> {"none", "pending", "done"}]
  /\ retirement \in [Workspace -> {"none", "pending", "done"}] /\ valid \subseteq Document
  /\ remote \in [Session -> HonchoRow]
  /\ worker \in LockRow /\ rebuilding \in RebuildRow /\ observer \in ObserverRow
\* Session identities are opened one after the other.
OpenedInOrder == \E n \in 0..MaxSession : \A s \in Session : sessionIn[s] # None <=> s <= n
WorkspacesStand ==
  \A w \in Workspace :
    /\ generation[w].state \in {"building", "ready"} => w = workspaceNow
    /\ generation[w].state # "none" => w <= workspaceNow
    /\ retirement[w] # "none" => w < workspaceNow
SessionsStand ==
  /\ \A s \in Session : sessionIn[s] <= workspaceNow
  /\ liveSession # None => sessionIn[liveSession] = workspaceNow
  /\ liveSession = None => \A s \in Session : sessionIn[s] # workspaceNow
  /\ \A s \in Session : deletion[s] # "none" => sessionIn[s] # None /\ s # liveSession
ReceiptsStand ==
  \A d \in Document, s \in Session :
    /\ receipt[<<d, s>>].state = "none" <=> receipt[<<d, s>>] = NoReceipt
    /\ receipt[<<d, s>>] # NoReceipt => sessionIn[s] # None
    /\ receipt[<<d, s>>] # NoReceipt /\ sessionIn[s] = workspaceNow => (Live(d, s) <=> s = liveSession)
    /\ deletion[s] # "none" => ~Live(d, s)
RemoteStands ==
  /\ \A s \in Session : ~remote[s].exists => remote[s] = Absent
  /\ DeletedStaysDeleted /\ DoneIsRemote
Syncing == {"reconcile", "open", "look", "write"}
LockStands ==
  /\ worker.at = "free" <=> worker = Unlocked
  /\ worker.at \in Syncing =>
       /\ worker.on \in Session /\ \E d \in Document : worker.doc = {d}
       /\ \A d \in worker.doc :
            receipt[<<d, worker.on>>].state = IF worker.at \in {"open", "look"} THEN "pending" ELSE "uncertain"
  /\ worker.at \in {"look", "write"} => remote[worker.on].exists
  /\ worker.at = "write" => deletion[worker.on] # "done" /\ retirement[sessionIn[worker.on]] # "done"
  /\ worker.at = "delete" => worker.on \in Session /\ deletion[worker.on] = "pending"
  /\ worker.at = "retire" => worker.on \in Workspace /\ retirement[worker.on] = "pending"
RebuildStands ==
  /\ rebuilding.rejected \cap valid = {}
  /\ rebuilding # NoRebuild => rebuilding.on \in Session
ObserverStands ==
  observer.at # "idle" =>
    /\ observer.on \in Workspace /\ observer.on <= workspaceNow
    /\ observer.on = workspaceNow =>
         /\ observer.work <= generation[observer.on].work
         /\ observer.at = "save" /\ observer.ready /\ observer.work = generation[observer.on].work => ~Pending(observer.on)
MemoryInv ==
  /\ MemoryTyped /\ OpenedInOrder /\ WorkspacesStand /\ SessionsStand /\ ReceiptsStand
  /\ RemoteStands /\ LockStands /\ RebuildStands /\ ObserverStands /\ ReadyMeansWritten /\ ValidIsKept

LEMMA MemoryKeys ==
  /\ Session \subseteq Nat /\ None \notin Session /\ None \in Nat
  /\ Workspace \subseteq Nat /\ None \notin Workspace /\ 1 \in Workspace
  /\ Session \subseteq 0..(MaxSession + MaxWorkspace) /\ Workspace \subseteq 0..(MaxSession + MaxWorkspace)
  /\ None \in 0..(MaxSession + MaxWorkspace)
  /\ NoReceipt \in ReceiptRow /\ NoReceipt.state = "none" /\ NoReceipt.retired = FALSE
  /\ Queued \in ReceiptRow /\ Queued.state = "pending" /\ Queued.retired = FALSE
  /\ Absent \in HonchoRow /\ Absent.exists = FALSE /\ Absent.holds = {}
<1>1. MaxSession \in Nat /\ MaxWorkspace \in Nat \ {0}
  BY MemoryAssumption
<1>2. /\ Session \subseteq Nat /\ None \notin Session /\ None \in Nat
      /\ Workspace \subseteq Nat /\ None \notin Workspace /\ 1 \in Workspace
      /\ Session \subseteq 0..(MaxSession + MaxWorkspace) /\ Workspace \subseteq 0..(MaxSession + MaxWorkspace)
      /\ None \in 0..(MaxSession + MaxWorkspace)
  BY <1>1 DEF Session, Workspace, None
<1>3. NoReceipt \in ReceiptRow /\ NoReceipt.state = "none" /\ NoReceipt.retired = FALSE
  BY DEF NoReceipt, ReceiptRow
<1>4. Queued \in ReceiptRow /\ Queued.state = "pending" /\ Queued.retired = FALSE
  BY DEF Queued, ReceiptRow
<1>5. Absent \in HonchoRow /\ Absent.exists = FALSE /\ Absent.holds = {}
  BY DEF Absent, HonchoRow
<1> QED
  BY <1>2, <1>3, <1>4, <1>5

LEMMA NobodyAtWork ==
  /\ Unlocked \in LockRow /\ Unlocked.at = "free"
  /\ NoRebuild \in RebuildRow /\ NoRebuild.rejected = {}
  /\ NoObserver \in ObserverRow /\ NoObserver.at = "idle"
  /\ Opened \in GenerationRow /\ Unopened \in GenerationRow /\ Unopened.state = "none" /\ Unopened.work = 0
<1>1. Unlocked \in LockRow /\ Unlocked.at = "free"
  BY MemoryKeys DEF Unlocked, LockRow
<1>2. NoRebuild \in RebuildRow /\ NoRebuild.rejected = {}
  BY DEF NoRebuild, RebuildRow
<1>3. NoObserver \in ObserverRow /\ NoObserver.at = "idle"
  BY DEF NoObserver, ObserverRow
<1>4. Opened \in GenerationRow /\ Unopened \in GenerationRow /\ Unopened.state = "none" /\ Unopened.work = 0
  BY DEF Opened, Unopened, GenerationRow
<1> QED
  BY <1>1, <1>2, <1>3, <1>4

LEMMA MemoryStarts == MemoryInit => MemoryInv
<1> SUFFICES ASSUME MemoryInit PROVE MemoryInv
  OBVIOUS
<1>1. /\ workspaceNow = 1 /\ generation = [w \in Workspace |-> Unopened]
      /\ sessionIn = [s \in Session |-> None] /\ liveSession = None
      /\ receipt = [x \in DocReceipts |-> NoReceipt]
      /\ deletion = [s \in Session |-> "none"] /\ retirement = [w \in Workspace |-> "none"]
      /\ valid = Document /\ remote = [s \in Session |-> Absent]
      /\ worker = Unlocked /\ rebuilding = NoRebuild /\ observer = NoObserver
  BY DEF MemoryInit, DocReceipts
<1>2. MemoryTyped
  BY <1>1, MemoryKeys, NobodyAtWork DEF MemoryTyped
<1>3. OpenedInOrder
  <2>1. 0 \in 0..MaxSession
    BY MemoryAssumption
  <2>2. \A s \in Session : ~(s <= 0)
    BY DEF Session
  <2> QED
    BY <1>1, <2>1, <2>2 DEF OpenedInOrder
<1>4. WorkspacesStand
  BY <1>1, NobodyAtWork DEF WorkspacesStand
<1>5. SessionsStand
  BY <1>1, MemoryKeys DEF SessionsStand, None
<1>6. \A d \in Document, s \in Session : receipt[<<d, s>>] = NoReceipt /\ ~Live(d, s)
  BY <1>1 DEF DocReceipts, Live
<1>7. ReceiptsStand
  BY <1>1, <1>6, MemoryKeys DEF ReceiptsStand
<1>8. RemoteStands
  BY <1>1, <1>6, MemoryKeys DEF RemoteStands, DeletedStaysDeleted, DoneIsRemote
<1>9. LockStands /\ RebuildStands /\ ObserverStands
  BY <1>1, NobodyAtWork DEF LockStands, Syncing, RebuildStands, ObserverStands
<1>10. ReadyMeansWritten /\ ValidIsKept
  BY <1>1, <1>6, NobodyAtWork DEF ReadyMeansWritten, ValidIsKept
<1> QED
  BY <1>2, <1>3, <1>4, <1>5, <1>7, <1>8, <1>9, <1>10 DEF MemoryInv

LEMMA JustAbove == ASSUME NEW s \in Nat, NEW n \in Nat, s # n + 1 PROVE s <= n <=> s <= n + 1
OBVIOUS

\* A session that was not opened holds nothing, and the next one is such.
LEMMA NextIsFresh ==
  ASSUME MemoryInv, NextSession \in Session
  PROVE  /\ sessionIn[NextSession] = None /\ deletion[NextSession] = "none" /\ NextSession # liveSession
         /\ \A d \in Document : receipt[<<d, NextSession>>] = NoReceipt
         /\ \A set : [sessionIn EXCEPT ![NextSession] = set] = sessionIn' /\ set # None => OpenedInOrder'
<1>1. PICK n \in 0..MaxSession : \A s \in Session : sessionIn[s] # None <=> s <= n
  BY DEF MemoryInv, OpenedInOrder
<1>2. {s \in Session : sessionIn[s] # None} = 1..n
  BY <1>1, MemoryAssumption DEF Session
<1>3. NextSession = n + 1
  <2>1. Cardinality(1..n) = n
    BY <1>1, FS_Interval
  <2> QED
    BY <1>2, <2>1 DEF NextSession
<1>4. sessionIn[NextSession] = None
  BY <1>1, <1>3
<1>5. deletion[NextSession] = "none" /\ \A d \in Document : receipt[<<d, NextSession>>] = NoReceipt
  BY <1>4 DEF MemoryInv, SessionsStand, ReceiptsStand
<1>6. NextSession # liveSession
  <2>1. workspaceNow # None
    BY MemoryKeys DEF MemoryInv, MemoryTyped
  <2> QED
    BY <1>4, <2>1, MemoryKeys DEF MemoryInv, SessionsStand
<1>7. ASSUME NEW set, [sessionIn EXCEPT ![NextSession] = set] = sessionIn', set # None PROVE OpenedInOrder'
  <2>1. n + 1 \in 0..MaxSession
    BY <1>3, MemoryAssumption DEF Session
  <2>2. \A s \in Session : sessionIn'[s] # None <=> s <= n + 1
    <3>1. ASSUME NEW s \in Session PROVE sessionIn'[s] # None <=> s <= n + 1
      <4>1. CASE s = n + 1
        BY <1>3, <1>7, <4>1, MemoryKeys DEF MemoryInv, MemoryTyped
      <4>2. CASE s # n + 1
        <5>1. sessionIn'[s] = sessionIn[s]
          BY <1>3, <1>7, <4>2 DEF MemoryInv, MemoryTyped
        <5>2. s <= n <=> s <= n + 1
          <6>1. s \in Nat /\ n \in Nat
            BY <1>1, MemoryKeys
          <6> QED
            BY <4>2, <6>1, JustAbove
        <5> QED
          BY <1>1, <5>1, <5>2
      <4> QED
        BY <4>1, <4>2
    <3> QED
      BY <3>1
  <2> QED
    BY <2>1, <2>2 DEF OpenedInOrder
<1> QED
  BY <1>4, <1>5, <1>6, <1>7

\* Only the lock changes hands.
LEMMA LockMoved ==
  ASSUME MemoryInv, UNCHANGED <<workspaceRows, sessionRows, valid, remote, rebuilding, observer>>,
         worker' \in LockRow, LockStands'
  PROVE  MemoryInv'
<1>1. UNCHANGED <<workspaceNow, generation, sessionIn, liveSession, receipt, deletion, retirement, valid, remote,
                  rebuilding, observer>>
  BY DEF workspaceRows, sessionRows
<1>2. MemoryTyped' /\ OpenedInOrder' /\ WorkspacesStand' /\ SessionsStand' /\ RebuildStands'
  BY <1>1 DEF MemoryInv, MemoryTyped, OpenedInOrder, WorkspacesStand, SessionsStand, RebuildStands
<1>3. ReceiptsStand' /\ RemoteStands' /\ ObserverStands' /\ ReadyMeansWritten' /\ ValidIsKept'
  BY <1>1 DEF MemoryInv, ReceiptsStand, RemoteStands, DeletedStaysDeleted, DoneIsRemote, ObserverStands, Pending,
    ReadyMeansWritten, ValidIsKept, Live
<1> QED
  BY <1>2, <1>3 DEF MemoryInv

LEMMA LockStep ==
  ASSUME MemoryInv,
         \/ ReleaseLock
         \/ \E s \in Session : BeginDeletion(s)
         \/ \E w \in Workspace : BeginRetirement(w)
         \/ \E d \in Document, s \in Session : BeginSync(d, s)
  PROVE  MemoryInv'
<1>1. UNCHANGED <<workspaceRows, sessionRows, valid, remote, rebuilding, observer>>
  BY DEF ReleaseLock, BeginDeletion, BeginRetirement, BeginSync, WriterUnchanged, sessionRows
<1>2. UNCHANGED <<retirement, receipt, deletion, sessionIn, remote>>
  BY <1>1 DEF workspaceRows, sessionRows
<1>3. worker' \in LockRow /\ LockStands'
  <2>1. CASE ReleaseLock
    BY <2>1, NobodyAtWork DEF ReleaseLock, LockStands, Syncing
  <2>2. ASSUME NEW s \in Session, BeginDeletion(s) PROVE worker' \in LockRow /\ LockStands'
    <3>1. PICK duty \in LockRow : duty = [at |-> "delete", on |-> s, doc |-> {}]
      BY MemoryKeys DEF LockRow
    <3>2. duty.at = "delete" /\ duty.on = s /\ worker' = duty /\ deletion[s] = "pending"
      BY <2>2, <3>1 DEF BeginDeletion
    <3> QED
      BY <1>2, <3>2, NobodyAtWork DEF LockStands, Syncing
  <2>3. ASSUME NEW w \in Workspace, BeginRetirement(w) PROVE worker' \in LockRow /\ LockStands'
    <3>1. PICK duty \in LockRow : duty = [at |-> "retire", on |-> w, doc |-> {}]
      BY MemoryKeys DEF LockRow
    <3>2. duty.at = "retire" /\ duty.on = w /\ worker' = duty /\ retirement[w] = "pending"
      BY <2>3, <3>1 DEF BeginRetirement
    <3> QED
      BY <1>2, <3>2, NobodyAtWork DEF LockStands, Syncing
  <2>4. ASSUME NEW d \in Document, NEW s \in Session, BeginSync(d, s) PROVE worker' \in LockRow /\ LockStands'
    <3>1. PICK at \in {"reconcile", "open"} : at = IF receipt[<<d, s>>].state = "uncertain" THEN "reconcile" ELSE "open"
      OBVIOUS
    <3>2. PICK duty \in LockRow : duty = [at |-> at, on |-> s, doc |-> {d}]
      BY MemoryKeys DEF LockRow
    <3>3. duty.at = at /\ duty.on = s /\ duty.doc = {d}
      BY <3>2
    <3>4. worker' = duty /\ receipt[<<d, s>>].state \in {"pending", "uncertain"}
      BY <2>4, <3>1, <3>2 DEF BeginSync
    <3> QED
      BY <1>2, <3>1, <3>3, <3>4, NobodyAtWork DEF LockStands, Syncing
  <2> QED
    BY <2>1, <2>2, <2>3, <2>4
<1> QED
  BY <1>1, <1>3, LockMoved

\* The holder of the lock changes what is said of one receipt, and adds to its session.
LEMMA ReceiptSynced ==
  ASSUME MemoryInv, UNCHANGED <<workspaceNow, generation, retirement, sessionIn, liveSession, deletion, valid, rebuilding, observer>>,
         NEW d \in Document, NEW s \in Session, NEW row \in ReceiptRow, NEW at \in HonchoRow,
         receipt' = [receipt EXCEPT ![<<d, s>>] = row], remote' = [remote EXCEPT ![s] = at],
         receipt[<<d, s>>].state \in {"pending", "uncertain"}, row.retired = receipt[<<d, s>>].retired,
         row.state # "none", row.state = "done" => d \in at.holds,
         remote[s].holds \subseteq at.holds,
         at = remote[s] \/ (at.exists /\ deletion[s] # "done" /\ retirement[sessionIn[s]] # "done"),
         worker' \in LockRow, LockStands'
  PROVE  MemoryInv'
<1>1. /\ receipt \in [DocReceipts -> ReceiptRow] /\ remote \in [Session -> HonchoRow] /\ <<d, s>> \in DocReceipts
  BY DEF MemoryInv, MemoryTyped, DocReceipts
<1>2. /\ receipt' \in [DocReceipts -> ReceiptRow] /\ remote' \in [Session -> HonchoRow]
      /\ receipt'[<<d, s>>] = row /\ remote'[s] = at
      /\ \A x \in DocReceipts : x # <<d, s>> => receipt'[x] = receipt[x]
      /\ \A t \in Session : t # s => remote'[t] = remote[t]
  BY <1>1
<1>3. MemoryTyped' /\ OpenedInOrder' /\ WorkspacesStand' /\ SessionsStand' /\ RebuildStands'
  BY <1>2 DEF MemoryInv, MemoryTyped, OpenedInOrder, WorkspacesStand, SessionsStand, RebuildStands
<1>4. ASSUME NEW e \in Document, NEW t \in Session
      PROVE  /\ receipt'[<<e, t>>] = NoReceipt <=> receipt[<<e, t>>] = NoReceipt
             /\ Live(e, t)' <=> Live(e, t)
             /\ receipt'[<<e, t>>].state = "none" <=> receipt[<<e, t>>].state = "none"
             /\ receipt'[<<e, t>>].state = "done" => receipt[<<e, t>>].state = "done" \/ e \in remote'[t].holds
             /\ receipt[<<e, t>>].state = "done" => receipt'[<<e, t>>].state = "done"
  <2>1. CASE <<e, t>> = <<d, s>>
    <3>1. e = d /\ t = s
      BY <2>1
    <3> QED
      BY <1>2, <3>1, MemoryKeys DEF Live
  <2>2. CASE <<e, t>> # <<d, s>>
    <3>1. receipt'[<<e, t>>] = receipt[<<e, t>>]
      BY <1>2, <2>2 DEF DocReceipts
    <3> QED
      BY <3>1 DEF Live
  <2> QED
    BY <2>1, <2>2
<1>5. \A e \in Document, t \in Session : Live(e, t)' <=> Live(e, t)
  BY <1>4
<1>6. ReceiptsStand'
  BY <1>4, <1>5 DEF MemoryInv, ReceiptsStand
<1>7. \A t \in Session : remote[t].holds \subseteq remote'[t].holds
  BY <1>2
<1>8. RemoteStands'
  <2>1. \A t \in Session : ~remote'[t].exists => remote'[t] = Absent
    BY <1>2 DEF MemoryInv, RemoteStands
  <2>2. DeletedStaysDeleted'
    BY <1>2 DEF MemoryInv, RemoteStands, DeletedStaysDeleted
  <2>3. DoneIsRemote'
    BY <1>4, <1>5, <1>7 DEF MemoryInv, RemoteStands, DoneIsRemote
  <2> QED
    BY <2>1, <2>2, <2>3 DEF RemoteStands
<1>9. \A w : Pending(w)' => Pending(w)
  BY <1>4, <1>5 DEF Pending
<1>10. ObserverStands' /\ ReadyMeansWritten'
  BY <1>9 DEF MemoryInv, ObserverStands, ReadyMeansWritten
<1>11. ValidIsKept'
  <2>1. ASSUME NEW e \in valid, NEW t \in Session, receipt'[<<e, t>>] # NoReceipt, sessionIn[t] = workspaceNow
        PROVE  Live(e, liveSession)'
    <3>1. e \in Document /\ receipt[<<e, t>>] # NoReceipt
      BY <1>4, <2>1 DEF MemoryInv, MemoryTyped
    <3>2. liveSession \in Session
      BY <2>1 DEF MemoryInv, MemoryTyped, SessionsStand
    <3>3. Live(e, liveSession)
      BY <2>1, <3>1 DEF MemoryInv, ValidIsKept
    <3> QED
      BY <1>4, <3>1, <3>2, <3>3 DEF Live
  <2> QED
    BY <2>1 DEF ValidIsKept
<1> QED
  BY <1>3, <1>6, <1>8, <1>10, <1>11 DEF MemoryInv

\* What is authorized is in no session and no workspace to be deleted.
LEMMA AuthorizedStands ==
  ASSUME MemoryInv, NEW d \in Document, NEW s \in Session, AuthorizedReceipt(d, s)
  PROVE  deletion[s] # "done" /\ retirement[sessionIn[s]] # "done"
<1>1. sessionIn[s] = workspaceNow /\ workspaceNow \in Workspace /\ Live(d, s)
  BY DEF AuthorizedReceipt, IsCurrentWorkspace, MemoryInv, MemoryTyped
<1>2. ~(workspaceNow < workspaceNow)
  BY <1>1, MemoryKeys
<1>3. retirement[workspaceNow] = "none"
  BY <1>1, <1>2 DEF MemoryInv, WorkspacesStand
<1>4. deletion[s] = "none"
  BY <1>1 DEF MemoryInv, ReceiptsStand
<1> QED
  BY <1>1, <1>3, <1>4

LEMMA SyncStep ==
  ASSUME MemoryInv, NEW d \in Document, NEW s \in Session,
         ReconcileReceipt(d, s) \/ OpenRemote(d, s) \/ LookForReceipt(d, s) \/ WriteRemote(d, s)
  PROVE  MemoryInv'
<1>f. /\ receipt \in [DocReceipts -> ReceiptRow] /\ remote \in [Session -> HonchoRow] /\ worker \in LockRow
      /\ <<d, s>> \in DocReceipts
  BY DEF MemoryInv, MemoryTyped, DocReceipts
<1>1. UNCHANGED <<workspaceNow, generation, retirement, sessionIn, liveSession, deletion, valid, rebuilding, observer>>
  BY DEF ReconcileReceipt, OpenRemote, LookForReceipt, WriteRemote, WriterUnchanged, workspaceRows
<1>2. worker.on = s /\ worker.doc = {d} /\ d \in worker.doc
  BY DEF ReconcileReceipt, OpenRemote, LookForReceipt, WriteRemote
<1>3. PICK was \in ReceiptRow : was = receipt[<<d, s>>]
  BY <1>f
<1>4. PICK held \in HonchoRow : held = remote[s]
  BY <1>f
<1>5. receipt = [receipt EXCEPT ![<<d, s>>] = was] /\ remote = [remote EXCEPT ![s] = held]
  BY <1>f, <1>3, <1>4
<1>6. /\ worker.at \in {"open", "look"} => was.state = "pending"
      /\ worker.at \in {"reconcile", "write"} => was.state = "uncertain"
  BY <1>2, <1>3 DEF MemoryInv, LockStands, Syncing
<1>7. worker' = Unlocked => worker' \in LockRow /\ LockStands'
  BY NobodyAtWork DEF LockStands, Syncing
<1>8. ASSUME NEW row \in ReceiptRow, NEW at \in HonchoRow, was.state \in {"pending", "uncertain"},
             receipt' = [receipt EXCEPT ![<<d, s>>] = row], remote' = [remote EXCEPT ![s] = at],
             row.retired = was.retired, row.state # "none", row.state = "done" => d \in at.holds,
             held.holds \subseteq at.holds,
             at = held \/ (at.exists /\ deletion[s] # "done" /\ retirement[sessionIn[s]] # "done"),
             worker' \in LockRow, LockStands'
      PROVE  MemoryInv'
  BY <1>1, <1>3, <1>4, <1>8, ReceiptSynced
<1>9. ASSUME Confirm(d, s)
      PROVE  \E row \in ReceiptRow : row.state = "done" /\ row.retired = was.retired /\ receipt' = [receipt EXCEPT ![<<d, s>>] = row]
  <2>1. PICK row \in ReceiptRow : row = [was EXCEPT !.state = "done"]
    BY DEF ReceiptRow
  <2>2. row.state = "done" /\ row.retired = was.retired
    BY <2>1 DEF ReceiptRow
  <2>3. receipt' = [receipt EXCEPT ![<<d, s>>] = row]
    BY <1>9, <1>3, <2>1 DEF Confirm
  <2> QED
    BY <2>2, <2>3
<1>10. CASE ReconcileReceipt(d, s)
  <2>1. worker.at = "reconcile" /\ worker' = Unlocked /\ remote' = remote
    BY <1>10 DEF ReconcileReceipt
  <2>2. CASE d \in held.holds
    <3>1. Confirm(d, s)
      BY <1>10, <1>4, <2>2 DEF ReconcileReceipt
    <3>2. PICK row \in ReceiptRow : row.state = "done" /\ row.retired = was.retired /\ receipt' = [receipt EXCEPT ![<<d, s>>] = row]
      BY <1>9, <3>1
    <3> QED
      BY <1>5, <1>6, <1>7, <1>8, <2>1, <2>2, <3>2
  <2>3. CASE d \notin held.holds
    <3>1. receipt' = receipt
      BY <1>10, <1>4, <2>3 DEF ReconcileReceipt
    <3> QED
      BY <1>5, <1>6, <1>7, <1>8, <2>1, <3>1
  <2> QED
    BY <2>2, <2>3
<1>11. CASE OpenRemote(d, s)
  <2>1. worker.at = "open" /\ worker' = [worker EXCEPT !.at = "look"] /\ receipt' = receipt /\ AuthorizedReceipt(d, s)
    BY <1>11 DEF OpenRemote, Step
  <2>2. worker' \in LockRow /\ worker'.at = "look" /\ worker'.on = s /\ worker'.doc = {d}
    BY <1>f, <1>2, <2>1 DEF LockRow
  <2>3. PICK at \in HonchoRow : at = [held EXCEPT !.exists = TRUE]
    BY DEF HonchoRow
  <2>4. at.exists = TRUE /\ at.holds = held.holds
    BY <2>3 DEF HonchoRow
  <2>5. remote' = [remote EXCEPT ![s] = at]
    BY <1>11, <1>4, <2>3 DEF OpenRemote
  <2>6. remote'[s].exists
    BY <1>f, <2>4, <2>5
  <2>7. LockStands'
    BY <1>3, <1>6, <2>1, <2>2, <2>6, NobodyAtWork DEF LockStands, Syncing
  <2> QED
    BY <1>5, <1>6, <1>8, <2>1, <2>2, <2>4, <2>5, <2>7, AuthorizedStands
<1>12. CASE LookForReceipt(d, s)
  <2>1. worker.at = "look" /\ remote' = remote
    BY <1>12 DEF LookForReceipt
  <2>2. CASE d \in held.holds
    <3>1. Confirm(d, s) /\ worker' = Unlocked
      BY <1>12, <1>4, <2>2 DEF LookForReceipt
    <3>2. PICK row \in ReceiptRow : row.state = "done" /\ row.retired = was.retired /\ receipt' = [receipt EXCEPT ![<<d, s>>] = row]
      BY <1>9, <3>1
    <3> QED
      BY <1>5, <1>6, <1>7, <1>8, <2>1, <2>2, <3>1, <3>2
  <2>3. CASE d \notin held.holds
    <3>1. /\ AuthorizedReceipt(d, s) /\ worker' = [worker EXCEPT !.at = "write"]
          /\ receipt' = [receipt EXCEPT ![<<d, s>>].state = "uncertain"]
      BY <1>12, <1>4, <2>3 DEF LookForReceipt, Step
    <3>2. worker' \in LockRow /\ worker'.at = "write" /\ worker'.on = s /\ worker'.doc = {d}
      BY <1>f, <1>2, <3>1 DEF LockRow
    <3>3. PICK row \in ReceiptRow : row = [was EXCEPT !.state = "uncertain"]
      BY DEF ReceiptRow
    <3>4. row.state = "uncertain" /\ row.retired = was.retired
      BY <3>3 DEF ReceiptRow
    <3>5. receipt' = [receipt EXCEPT ![<<d, s>>] = row]
      BY <1>3, <3>1, <3>3
    <3>6. receipt'[<<d, s>>].state = "uncertain"
      BY <1>f, <3>4, <3>5
    <3>7. remote[s].exists
      BY <1>2, <2>1 DEF MemoryInv, LockStands
    <3>8. LockStands'
      BY <1>1, <2>1, <3>1, <3>2, <3>6, <3>7, NobodyAtWork, AuthorizedStands DEF LockStands, Syncing
    <3> QED
      BY <1>5, <1>6, <1>8, <2>1, <3>2, <3>4, <3>5, <3>8
  <2> QED
    BY <2>2, <2>3
<1>13. CASE WriteRemote(d, s)
  <2>1. worker.at = "write" /\ worker' = Unlocked
    BY <1>13 DEF WriteRemote
  <2>2. held.exists /\ deletion[s] # "done" /\ retirement[sessionIn[s]] # "done"
    BY <1>2, <1>4, <2>1 DEF MemoryInv, LockStands
  <2>3. PICK at \in HonchoRow : at = [held EXCEPT !.holds = @ \cup {d}]
    BY DEF HonchoRow
  <2>4. at.exists = held.exists /\ at.holds = held.holds \cup {d}
    BY <2>3 DEF HonchoRow
  <2>5. remote' = [remote EXCEPT ![s] = at]
    BY <1>13, <1>4, <2>3 DEF WriteRemote
  <2>6. CASE receipt' = receipt
    BY <1>5, <1>6, <1>7, <1>8, <2>1, <2>2, <2>4, <2>5, <2>6
  <2>7. CASE Confirm(d, s)
    <3>1. PICK row \in ReceiptRow : row.state = "done" /\ row.retired = was.retired /\ receipt' = [receipt EXCEPT ![<<d, s>>] = row]
      BY <1>9, <2>7
    <3> QED
      BY <1>6, <1>7, <1>8, <2>1, <2>2, <2>4, <2>5, <3>1
  <2> QED
    BY <1>13, <2>6, <2>7 DEF WriteRemote
<1> QED
  BY <1>10, <1>11, <1>12, <1>13

\* A session is gone from Honcho.
LEMMA SessionGone ==
  ASSUME MemoryInv, UNCHANGED <<workspaceNow, generation, retirement, sessionIn, liveSession, receipt, valid, rebuilding, observer>>,
         NEW s \in Session, remote' = [remote EXCEPT ![s] = Absent],
         deletion' = deletion \/ (deletion[s] = "pending" /\ deletion' = [deletion EXCEPT ![s] = "done"]),
         deletion[s] # "none" \/ sessionIn[s] # workspaceNow, worker' \in LockRow, LockStands'
  PROVE  MemoryInv'
<1>1. /\ remote' \in [Session -> HonchoRow] /\ remote'[s] = Absent
      /\ \A t \in Session : t # s => remote'[t] = remote[t]
  BY MemoryKeys DEF MemoryInv, MemoryTyped
<1>2. /\ deletion' \in [Session -> {"none", "pending", "done"}]
      /\ \A t \in Session : deletion'[t] = "none" <=> deletion[t] = "none"
      /\ \A t \in Session : t # s => deletion'[t] = deletion[t]
  BY DEF MemoryInv, MemoryTyped
<1>3. \A e, t : Live(e, t)' <=> Live(e, t)
  BY DEF Live
<1>4. \A w : Pending(w)' <=> Pending(w)
  BY <1>3 DEF Pending
<1>5. MemoryTyped' /\ OpenedInOrder' /\ WorkspacesStand' /\ SessionsStand' /\ RebuildStands'
  BY <1>1, <1>2 DEF MemoryInv, MemoryTyped, OpenedInOrder, WorkspacesStand, SessionsStand, RebuildStands
<1>6. ReceiptsStand' /\ ObserverStands' /\ ReadyMeansWritten' /\ ValidIsKept'
  BY <1>2, <1>3, <1>4 DEF MemoryInv, ReceiptsStand, ObserverStands, ReadyMeansWritten, ValidIsKept
<1>7. RemoteStands'
  <2>1. \A t \in Session : ~remote'[t].exists => remote'[t] = Absent
    BY <1>1 DEF MemoryInv, RemoteStands
  <2>2. DeletedStaysDeleted'
    BY <1>1, <1>2 DEF MemoryInv, RemoteStands, DeletedStaysDeleted
  <2>3. DoneIsRemote'
    BY <1>1, <1>3 DEF MemoryInv, RemoteStands, DoneIsRemote, ReceiptsStand
  <2> QED
    BY <2>1, <2>2, <2>3 DEF RemoteStands
<1> QED
  BY <1>5, <1>6, <1>7 DEF MemoryInv

LEMMA DeletionStep ==
  ASSUME MemoryInv, NEW s \in Session, DeleteSession(s) \/ RetireSession(s)
  PROVE  MemoryInv'
<1>1. /\ UNCHANGED <<workspaceNow, generation, retirement, sessionIn, liveSession, receipt, valid, rebuilding, observer>>
      /\ remote' = [remote EXCEPT ![s] = Absent]
  BY DEF DeleteSession, RetireSession, WriterUnchanged, workspaceRows
<1>2. CASE DeleteSession(s)
  <2>1. worker.at = "delete" /\ worker.on = s /\ worker' = Unlocked
    BY <1>2 DEF DeleteSession
  <2>2. worker' \in LockRow /\ LockStands'
    BY <2>1, NobodyAtWork DEF LockStands, Syncing
  <2>3. deletion[s] = "pending"
    BY <2>1 DEF MemoryInv, LockStands
  <2>4. deletion' = deletion \/ deletion' = [deletion EXCEPT ![s] = "done"]
    BY <1>2 DEF DeleteSession
  <2> QED
    BY <1>1, <2>2, <2>3, <2>4, SessionGone
<1>3. CASE RetireSession(s)
  <2>1. worker.at = "retire" /\ sessionIn[s] = worker.on /\ worker' = worker /\ deletion' = deletion
    BY <1>3 DEF RetireSession, WriterUnchanged
  <2>2. worker.on \in Workspace /\ retirement[worker.on] = "pending"
    BY <2>1 DEF MemoryInv, LockStands
  <2>3. sessionIn[s] # workspaceNow
    <3>1. worker.on < workspaceNow /\ worker.on \in Nat
      BY <2>2, MemoryKeys DEF MemoryInv, WorkspacesStand
    <3> QED
      BY <2>1, <3>1
  <2>4. worker' \in LockRow /\ LockStands'
    BY <1>1, <2>1, <2>2 DEF MemoryInv, MemoryTyped, LockStands, Syncing
  <2> QED
    BY <1>1, <2>1, <2>3, <2>4, SessionGone
<1> QED
  BY <1>2, <1>3

\* A workspace that was retired, and every row of it.
LEMMA RetireStep ==
  ASSUME MemoryInv, NEW w \in Workspace, RetireWorkspace(w)
  PROVE  MemoryInv'
<1>f. /\ receipt \in [DocReceipts -> ReceiptRow] /\ generation \in [Workspace -> GenerationRow]
      /\ sessionIn \in [Session -> Workspace \cup {None}] /\ retirement \in [Workspace -> {"none", "pending", "done"}]
      /\ deletion \in [Session -> {"none", "pending", "done"}] /\ workspaceNow \in Workspace
  BY DEF MemoryInv, MemoryTyped
<1>1. /\ worker.at = "retire" /\ worker.on = w /\ worker' = Unlocked
      /\ UNCHANGED <<workspaceNow, sessionIn, liveSession, valid, remote, rebuilding, observer>>
  BY DEF RetireWorkspace
<1>2. retirement[w] = "pending" /\ w < workspaceNow /\ w # workspaceNow
  <2>1. retirement[w] = "pending"
    BY <1>1 DEF MemoryInv, LockStands
  <2>2. w < workspaceNow
    BY <2>1 DEF MemoryInv, WorkspacesStand
  <2> QED
    BY <1>f, <2>1, <2>2, MemoryKeys
<1>3. /\ \A d \in Document, s \in Session : sessionIn[s] = w => receipt'[<<d, s>>] = NoReceipt
      /\ \A d \in Document, s \in Session : sessionIn[s] # w => receipt'[<<d, s>>] = receipt[<<d, s>>]
      /\ receipt' \in [DocReceipts -> ReceiptRow]
  <2>1. receipt' = [x \in DocReceipts |-> IF x[2] \in {s \in Session : sessionIn[s] = w} THEN NoReceipt ELSE receipt[x]]
    BY DEF RetireWorkspace, DocReceipts
  <2>2. ASSUME NEW d \in Document, NEW s \in Session PROVE <<d, s>> \in DocReceipts /\ <<d, s>>[2] = s
    BY DEF DocReceipts
  <2> QED
    BY <1>f, <2>1, <2>2, MemoryKeys
<1>4. /\ \A s \in Session : sessionIn[s] = w => deletion'[s] = "none"
      /\ \A s \in Session : sessionIn[s] # w => deletion'[s] = deletion[s]
      /\ deletion' \in [Session -> {"none", "pending", "done"}]
  <2>1. deletion' = [s \in Session |-> IF sessionIn[s] = w THEN "none" ELSE deletion[s]]
    BY DEF RetireWorkspace
  <2> QED
    BY <1>f, <2>1
<1>5. /\ generation'[w] = Unopened /\ \A v \in Workspace : v # w => generation'[v] = generation[v]
      /\ generation' \in [Workspace -> GenerationRow]
      /\ retirement'[w] = "done" /\ \A v \in Workspace : v # w => retirement'[v] = retirement[v]
      /\ retirement' \in [Workspace -> {"none", "pending", "done"}]
  BY <1>f, NobodyAtWork DEF RetireWorkspace
<1>6. ASSUME NEW d \in Document, NEW s \in Session
      PROVE  /\ sessionIn[s] = w => ~Live(d, s)'
             /\ sessionIn[s] # w => (Live(d, s)' <=> Live(d, s))
  BY <1>3 DEF Live
<1>7. MemoryTyped' /\ OpenedInOrder' /\ RebuildStands'
  BY <1>1, <1>3, <1>4, <1>5, NobodyAtWork DEF MemoryInv, MemoryTyped, OpenedInOrder, RebuildStands
<1>8. WorkspacesStand'
  BY <1>1, <1>2, <1>5, NobodyAtWork DEF MemoryInv, WorkspacesStand
<1>9. SessionsStand'
  BY <1>1, <1>4 DEF MemoryInv, SessionsStand
<1>10. ReceiptsStand'
  <2>1. ASSUME NEW d \in Document, NEW s \in Session
        PROVE  /\ receipt'[<<d, s>>].state = "none" <=> receipt'[<<d, s>>] = NoReceipt
               /\ receipt'[<<d, s>>] # NoReceipt => sessionIn[s] # None
               /\ receipt'[<<d, s>>] # NoReceipt /\ sessionIn[s] = workspaceNow => (Live(d, s)' <=> s = liveSession)
               /\ deletion'[s] # "none" => ~Live(d, s)'
    <3>1. CASE sessionIn[s] = w
      BY <1>3, <1>6, <3>1, MemoryKeys
    <3>2. CASE sessionIn[s] # w
      BY <1>3, <1>4, <1>6, <3>2 DEF MemoryInv, ReceiptsStand
    <3> QED
      BY <3>1, <3>2
  <2> QED
    BY <1>1, <2>1 DEF ReceiptsStand
<1>11. RemoteStands'
  <2>1. \A s \in Session : ~remote[s].exists => remote[s] = Absent
    BY DEF MemoryInv, RemoteStands
  <2>2. \A s \in Session : sessionIn[s] = w => remote[s] = Absent
    BY <2>1 DEF RetireWorkspace
  <2>3. DeletedStaysDeleted'
    BY <1>1, <1>4, <1>5, <1>f, <2>2 DEF MemoryInv, RemoteStands, DeletedStaysDeleted
  <2>4. DoneIsRemote'
    BY <1>1, <1>2, <1>3, <1>6 DEF MemoryInv, RemoteStands, DoneIsRemote
  <2> QED
    BY <1>1, <2>1, <2>3, <2>4 DEF RemoteStands
<1>12. LockStands'
  BY <1>1, NobodyAtWork DEF LockStands, Syncing
<1>13. ASSUME NEW v \in Workspace, v # w PROVE Pending(v)' <=> Pending(v)
  BY <1>1, <1>3, <1>6, <1>13 DEF Pending
<1>14. ObserverStands'
  BY <1>1, <1>2, <1>5, <1>13 DEF MemoryInv, ObserverStands
<1>15. ReadyMeansWritten'
  <2>1. Unopened.state # "ready"
    BY NobodyAtWork
  <2> QED
    BY <1>5, <1>13, <2>1 DEF MemoryInv, ReadyMeansWritten
<1>16. ValidIsKept'
  <2>1. ASSUME NEW d \in valid, NEW s \in Session, receipt'[<<d, s>>] # NoReceipt, sessionIn[s] = workspaceNow
        PROVE  Live(d, liveSession)'
    <3>1. d \in Document /\ receipt[<<d, s>>] # NoReceipt
      BY <1>2, <1>3, <2>1 DEF MemoryInv, MemoryTyped
    <3>2. liveSession \in Session /\ sessionIn[liveSession] = workspaceNow
      BY <2>1 DEF MemoryInv, MemoryTyped, SessionsStand
    <3>3. Live(d, liveSession)
      BY <2>1, <3>1 DEF MemoryInv, ValidIsKept
    <3>4. PICK t \in Session : t = liveSession
      BY <3>2
    <3>5. receipt'[<<d, t>>] = receipt[<<d, t>>]
      BY <1>2, <1>3, <3>1, <3>2, <3>4
    <3> QED
      BY <1>1, <3>3, <3>4, <3>5 DEF Live
  <2> QED
    BY <1>1, <2>1 DEF ValidIsKept
<1> QED
  BY <1>7, <1>8, <1>9, <1>10, <1>11, <1>12, <1>14, <1>15, <1>16 DEF MemoryInv

\* New work is counted by the workspace.
LEMMA WorkCounted ==
  ASSUME MemoryInv, generation' = Changed(workspaceNow)
  PROVE  /\ generation' \in [Workspace -> GenerationRow]
         /\ generation'[workspaceNow].state = "building" /\ generation'[workspaceNow].work = generation[workspaceNow].work + 1
         /\ generation[workspaceNow].work \in Nat
         /\ \A v \in Workspace : v # workspaceNow => generation'[v] = generation[v]
<1>1. workspaceNow \in Workspace /\ generation \in [Workspace -> GenerationRow]
  BY DEF MemoryInv, MemoryTyped
<1>2. PICK old \in GenerationRow : old = generation[workspaceNow]
  BY <1>1
<1>3. PICK row \in GenerationRow : row = [state |-> "building", work |-> old.work + 1]
  <2>1. [state |-> "building", work |-> old.work + 1] \in GenerationRow
    BY DEF GenerationRow
  <2> QED
    BY <2>1
<1>4. generation' = [generation EXCEPT ![workspaceNow] = row]
  BY <1>2, <1>3 DEF Changed
<1>5. row.state = "building" /\ row.work = old.work + 1 /\ old.work \in Nat
  BY <1>3 DEF GenerationRow
<1> QED
  BY <1>1, <1>2, <1>4, <1>5

LEMMA QueueingStep ==
  ASSUME MemoryInv, NEW d \in Document, QueueDocument(d)
  PROVE  MemoryInv'
<1>f. /\ receipt \in [DocReceipts -> ReceiptRow] /\ sessionIn \in [Session -> Workspace \cup {None}]
      /\ workspaceNow \in Workspace /\ workspaceNow \in Nat /\ workspaceNow # None /\ valid \subseteq Document
  BY MemoryKeys DEF MemoryInv, MemoryTyped
<1>1. PICK s \in Session :
        /\ s = IF liveSession = None THEN NextSession ELSE liveSession
        /\ ~Live(d, s) /\ generation[workspaceNow].state # "retired"
        /\ sessionIn' = [sessionIn EXCEPT ![s] = workspaceNow] /\ liveSession' = s
        /\ receipt' = [receipt EXCEPT ![<<d, s>>] = Queued] /\ generation' = Changed(workspaceNow)
  BY DEF QueueDocument
<1>2. UNCHANGED <<workspaceNow, retirement, deletion, valid, remote, worker, rebuilding, observer>>
  BY DEF QueueDocument
<1>3. /\ sessionIn' \in [Session -> Workspace \cup {None}] /\ sessionIn'[s] = workspaceNow
      /\ \A t \in Session : t # s => sessionIn'[t] = sessionIn[t]
  BY <1>f, <1>1
<1>4. /\ sessionIn[s] \in {None, workspaceNow} /\ deletion[s] = "none" /\ receipt[<<d, s>>] = NoReceipt /\ OpenedInOrder'
      /\ liveSession \in {None, s}
      /\ liveSession = None => sessionIn[s] = None
      /\ sessionIn[s] = None => \A e \in Document : receipt[<<e, s>>] = NoReceipt
  <2>1. sessionIn[s] = None => \A e \in Document : receipt[<<e, s>>] = NoReceipt
    BY DEF MemoryInv, ReceiptsStand
  <2>2. CASE liveSession = None
    <3>1. s = NextSession
      BY <1>1, <2>2
    <3> QED
      BY <1>f, <1>1, <2>1, <2>2, <3>1, NextIsFresh
  <2>3. CASE liveSession # None
    <3>1. s = liveSession /\ sessionIn[s] = workspaceNow
      BY <1>1, <2>3 DEF MemoryInv, SessionsStand
    <3>2. deletion[s] = "none"
      BY <3>1 DEF MemoryInv, SessionsStand
    <3>3. receipt[<<d, s>>] = NoReceipt
      BY <1>1, <3>1 DEF MemoryInv, ReceiptsStand
    <3>4. sessionIn' = sessionIn
      BY <1>f, <1>1, <3>1
    <3>5. OpenedInOrder'
      BY <3>4 DEF MemoryInv, OpenedInOrder
    <3> QED
      BY <2>1, <2>3, <3>1, <3>2, <3>3, <3>5
  <2> QED
    BY <2>2, <2>3
<1>5. /\ receipt' \in [DocReceipts -> ReceiptRow] /\ receipt'[<<d, s>>] = Queued
      /\ \A x \in DocReceipts : x # <<d, s>> => receipt'[x] = receipt[x]
  BY <1>f, <1>1, MemoryKeys DEF DocReceipts
<1>6. /\ generation' \in [Workspace -> GenerationRow]
      /\ generation'[workspaceNow].state = "building" /\ generation'[workspaceNow].work = generation[workspaceNow].work + 1
      /\ generation[workspaceNow].work \in Nat
      /\ \A v \in Workspace : v # workspaceNow => generation'[v] = generation[v]
  BY <1>1, WorkCounted
<1>7. Live(d, s)' /\ Queued # NoReceipt
  BY <1>5, MemoryKeys DEF Live
<1>8. ASSUME NEW e \in Document, NEW t \in Session, <<e, t>> # <<d, s>>
      PROVE  receipt'[<<e, t>>] = receipt[<<e, t>>] /\ (Live(e, t)' <=> Live(e, t))
  <2>1. receipt'[<<e, t>>] = receipt[<<e, t>>]
    BY <1>5, <1>8 DEF DocReceipts
  <2> QED
    BY <2>1 DEF Live
<1>9. MemoryTyped' /\ RebuildStands'
  BY <1>1, <1>2, <1>3, <1>5, <1>6 DEF MemoryInv, MemoryTyped, RebuildStands
<1>10. WorkspacesStand'
  BY <1>2, <1>6, <1>f, MemoryKeys DEF MemoryInv, WorkspacesStand
<1>11. SessionsStand'
  <2>1. \A t \in Session : sessionIn'[t] <= workspaceNow
    BY <1>f, <1>3 DEF MemoryInv, SessionsStand
  <2>2. \A t \in Session : deletion[t] # "none" => sessionIn'[t] # None /\ t # s
    BY <1>3, <1>4 DEF MemoryInv, SessionsStand
  <2> QED
    BY <1>1, <1>2, <1>3, <2>1, <2>2, MemoryKeys DEF SessionsStand
<1>12. ReceiptsStand'
  <2>1. ASSUME NEW e \in Document, NEW t \in Session
        PROVE  /\ receipt'[<<e, t>>].state = "none" <=> receipt'[<<e, t>>] = NoReceipt
               /\ receipt'[<<e, t>>] # NoReceipt => sessionIn'[t] # None
               /\ receipt'[<<e, t>>] # NoReceipt /\ sessionIn'[t] = workspaceNow => (Live(e, t)' <=> t = s)
               /\ deletion[t] # "none" => ~Live(e, t)'
    <3>1. CASE <<e, t>> = <<d, s>>
      <4>1. e = d /\ t = s
        BY <3>1
      <4> QED
        BY <1>3, <1>4, <1>5, <1>7, <1>f, <4>1, MemoryKeys
    <3>2. CASE <<e, t>> # <<d, s>>
      <4>1. receipt'[<<e, t>>] = receipt[<<e, t>>] /\ (Live(e, t)' <=> Live(e, t))
        BY <1>8, <3>2
      <4>2. /\ receipt[<<e, t>>].state = "none" <=> receipt[<<e, t>>] = NoReceipt
            /\ receipt[<<e, t>>] # NoReceipt => sessionIn[t] # None
            /\ deletion[t] # "none" => ~Live(e, t)
        BY DEF MemoryInv, ReceiptsStand
      <4>3. receipt[<<e, t>>] # NoReceipt => sessionIn'[t] = sessionIn[t]
        BY <1>3, <1>4, <4>2
      <4>4. ASSUME receipt[<<e, t>>] # NoReceipt, sessionIn[t] = workspaceNow PROVE Live(e, t) <=> t = s
        <5>1. liveSession = s
          BY <1>4, <4>4 DEF MemoryInv, SessionsStand
        <5> QED
          BY <4>4, <5>1 DEF MemoryInv, ReceiptsStand
      <4> QED
        BY <4>1, <4>2, <4>3, <4>4
    <3> QED
      BY <3>1, <3>2
  <2> QED
    BY <1>1, <1>2, <2>1 DEF ReceiptsStand
<1>13. RemoteStands'
  <2>1. retirement[workspaceNow] = "none"
    BY <1>f DEF MemoryInv, WorkspacesStand
  <2>2. DeletedStaysDeleted'
    BY <1>2, <1>3, <1>4, <2>1 DEF MemoryInv, RemoteStands, DeletedStaysDeleted
  <2>3. DoneIsRemote'
    <3>1. ASSUME NEW e \in Document, NEW t \in Session, Live(e, t)', receipt'[<<e, t>>].state = "done", sessionIn'[t] = workspaceNow
          PROVE  e \in remote[t].holds
      <4>1. <<e, t>> # <<d, s>>
        BY <1>5, <3>1, MemoryKeys
      <4>2. receipt'[<<e, t>>] = receipt[<<e, t>>] /\ Live(e, t)
        BY <1>8, <3>1, <4>1
      <4>3. sessionIn[t] = workspaceNow
        BY <1>3, <1>4, <3>1, <4>2 DEF Live
      <4> QED
        BY <3>1, <4>2, <4>3 DEF MemoryInv, RemoteStands, DoneIsRemote
    <3> QED
      BY <1>2, <3>1 DEF DoneIsRemote
  <2> QED
    BY <1>2, <2>2, <2>3 DEF MemoryInv, RemoteStands
<1>14. LockStands'
  <2>1. ASSUME worker.at \in Syncing, NEW e \in worker.doc
        PROVE  /\ e \in Document /\ worker.on \in Session
               /\ receipt'[<<e, worker.on>>] = receipt[<<e, worker.on>>] /\ sessionIn'[worker.on] = sessionIn[worker.on]
    <3>1. PICK t \in Session : t = worker.on
      BY <2>1 DEF MemoryInv, LockStands
    <3>2. e \in Document
      BY <2>1 DEF MemoryInv, MemoryTyped, LockRow
    <3>3. receipt[<<e, t>>].state \in {"pending", "uncertain"}
      BY <2>1, <3>1 DEF MemoryInv, LockStands
    <3>4. receipt[<<e, t>>] # NoReceipt
      BY <3>3, MemoryKeys
    <3>5. <<e, t>> # <<d, s>>
      BY <1>4, <3>4
    <3>6. t # s \/ sessionIn[s] # None
      BY <1>4, <3>2, <3>4
    <3>7. receipt'[<<e, t>>] = receipt[<<e, t>>]
      BY <1>8, <3>2, <3>5
    <3>8. sessionIn'[t] = sessionIn[t]
      BY <1>3, <1>4, <3>6
    <3> QED
      BY <3>1, <3>2, <3>7, <3>8
  <2>2. worker.at \in Syncing => \E e \in Document : worker.doc = {e}
    BY DEF MemoryInv, LockStands
  <2>3. worker.at = "write" => sessionIn'[worker.on] = sessionIn[worker.on]
    BY <2>1, <2>2 DEF Syncing
  <2> QED
    BY <1>2, <2>1, <2>3 DEF MemoryInv, LockStands
<1>15. ASSUME NEW v \in Workspace, v # workspaceNow, Pending(v)' PROVE Pending(v)
  <2>1. PICK e \in Document, t \in Session : sessionIn'[t] = v /\ Live(e, t)' /\ receipt'[<<e, t>>].state # "done"
    BY <1>15 DEF Pending
  <2>2. t # s
    BY <1>15, <1>3, <2>1
  <2>3. <<e, t>> # <<d, s>>
    BY <2>2
  <2> QED
    BY <1>3, <1>8, <2>1, <2>2, <2>3 DEF Pending
<1>16. ObserverStands'
  <2>1. observer.work \in Nat
    BY DEF MemoryInv, MemoryTyped, ObserverRow
  <2>2. observer.work <= generation[workspaceNow].work =>
          observer.work <= generation'[workspaceNow].work /\ observer.work # generation'[workspaceNow].work
    BY <1>6, <2>1
  <2> QED
    BY <1>2, <2>2 DEF MemoryInv, ObserverStands
<1>17. ReadyMeansWritten'
  BY <1>6, <1>15 DEF MemoryInv, ReadyMeansWritten
<1>18. ValidIsKept'
  <2>1. ASSUME NEW e \in valid, NEW t \in Session, receipt'[<<e, t>>] # NoReceipt, sessionIn'[t] = workspaceNow
        PROVE  Live(e, s)'
    <3>1. e \in Document
      BY <1>f
    <3>2. CASE e = d
      BY <1>7, <3>2
    <3>3. CASE e # d
      <4>1. <<e, t>> # <<d, s>> /\ <<e, s>> # <<d, s>>
        BY <3>3
      <4>2. receipt[<<e, t>>] # NoReceipt
        BY <1>8, <2>1, <3>1, <4>1
      <4>3. sessionIn[t] = workspaceNow
        BY <1>3, <1>4, <2>1, <3>1, <4>2
      <4>4. liveSession = s
        BY <1>4, <4>3 DEF MemoryInv, SessionsStand
      <4>5. Live(e, s)
        BY <4>2, <4>3, <4>4 DEF MemoryInv, ValidIsKept
      <4> QED
        BY <1>8, <3>1, <4>1, <4>5
    <3> QED
      BY <3>2, <3>3
  <2> QED
    BY <1>1, <1>2, <2>1 DEF ValidIsKept, Live
<1> QED
  BY <1>4, <1>9, <1>10, <1>11, <1>12, <1>13, <1>14, <1>16, <1>17, <1>18 DEF MemoryInv

\* A rebuild whose session is not the present one any more does nothing.
LEMMA RebuildDropped ==
  ASSUME MemoryInv, rebuilding' = NoRebuild, UNCHANGED <<workspaceRows, sessionRows, valid, remote, worker, observer>>
  PROVE  MemoryInv'
<1>1. UNCHANGED <<workspaceNow, generation, retirement, sessionIn, liveSession, receipt, deletion, valid, remote, worker, observer>>
  BY DEF workspaceRows, sessionRows
<1>2. MemoryTyped' /\ RebuildStands' /\ OpenedInOrder' /\ WorkspacesStand' /\ SessionsStand' /\ LockStands'
  BY <1>1, NobodyAtWork DEF MemoryInv, MemoryTyped, RebuildStands, OpenedInOrder, WorkspacesStand, SessionsStand, LockStands
<1>3. ReceiptsStand' /\ RemoteStands' /\ ObserverStands' /\ ReadyMeansWritten' /\ ValidIsKept'
  BY <1>1 DEF MemoryInv, ReceiptsStand, RemoteStands, DeletedStaysDeleted, DoneIsRemote, ObserverStands, Pending,
    ReadyMeansWritten, ValidIsKept, Live
<1> QED
  BY <1>2, <1>3 DEF MemoryInv

\* The present session is replaced by the next one, with what was not rejected.
LEMMA RebuildStep ==
  ASSUME MemoryInv, CommitRebuild
  PROVE  MemoryInv'
<1>f. /\ receipt \in [DocReceipts -> ReceiptRow] /\ sessionIn \in [Session -> Workspace \cup {None}]
      /\ workspaceNow \in Workspace /\ workspaceNow \in Nat /\ workspaceNow # None /\ valid \subseteq Document
      /\ generation \in [Workspace -> GenerationRow] /\ deletion \in [Session -> {"none", "pending", "done"}]
  BY MemoryKeys DEF MemoryInv, MemoryTyped
<1>1. PICK s, next, rejected : /\ s = rebuilding.on /\ next = NextSession /\ rejected = rebuilding.rejected
  OBVIOUS
<1>2. s \in Session /\ rebuilding' = NoRebuild /\ rejected \cap valid = {}
  BY <1>1 DEF CommitRebuild, MemoryInv, RebuildStands
<1>3. UNCHANGED <<workspaceNow, retirement, valid, remote, worker, observer>>
  BY DEF CommitRebuild
<1>4. CASE s # liveSession
  <2>1. UNCHANGED <<sessionRows, generation>>
    BY <1>1, <1>4 DEF CommitRebuild
  <2> QED
    BY <1>2, <1>3, <2>1, RebuildDropped DEF workspaceRows
<1>5. CASE s = liveSession
  <2>1. /\ next \in Session /\ sessionIn' = [sessionIn EXCEPT ![next] = sessionIn[s]] /\ liveSession' = next
        /\ receipt' = Rebuilt(s, next) /\ deletion' = [deletion EXCEPT ![s] = "pending"]
        /\ generation' = IF \E d \in Document \ rejected : Live(d, s) THEN Changed(sessionIn[s]) ELSE generation
    BY <1>1, <1>5 DEF CommitRebuild
  <2>2. s # None /\ sessionIn[s] = workspaceNow /\ s # next
    <3>1. s # None
      BY <1>2, MemoryKeys
    <3>2. sessionIn[s] = workspaceNow
      BY <1>5, <3>1 DEF MemoryInv, SessionsStand
    <3>3. s # next
      BY <1>1, <1>5, <2>1, NextIsFresh
    <3> QED
      BY <3>1, <3>2, <3>3
  <2>3. /\ sessionIn[next] = None /\ deletion[next] = "none"
        /\ \A d \in Document : receipt[<<d, next>>] = NoReceipt /\ ~Live(d, next)
    BY <1>1, <2>1, NextIsFresh DEF Live
  <2>4. OpenedInOrder'
    BY <1>1, <1>f, <2>1, <2>2, NextIsFresh
  <2>5. /\ sessionIn' \in [Session -> Workspace \cup {None}] /\ sessionIn'[next] = workspaceNow
        /\ \A t \in Session : t # next => sessionIn'[t] = sessionIn[t]
    BY <1>f, <2>1, <2>2
  <2>6. /\ deletion' \in [Session -> {"none", "pending", "done"}] /\ deletion'[s] = "pending"
        /\ \A t \in Session : t # s => deletion'[t] = deletion[t]
    BY <1>f, <1>2, <2>1
  <2>7. ASSUME NEW d \in Document, NEW t \in Session
        PROVE  receipt'[<<d, t>>] = IF t = s /\ Live(d, s) THEN [receipt[<<d, t>>] EXCEPT !.retired = TRUE]
                                    ELSE IF t = next /\ Live(d, s) /\ d \notin rejected THEN Queued
                                    ELSE receipt[<<d, t>>]
    <3>1. <<d, t>> \in Document \X Session /\ <<d, t>>[1] = d /\ <<d, t>>[2] = t
      OBVIOUS
    <3> QED
      BY <1>1, <2>1, <3>1 DEF Rebuilt
  <2>8. ASSUME NEW d \in Document
        PROVE  /\ receipt'[<<d, s>>] \in ReceiptRow /\ receipt'[<<d, s>>].state = receipt[<<d, s>>].state
               /\ receipt'[<<d, s>>] # NoReceipt <=> receipt[<<d, s>>] # NoReceipt
               /\ ~Live(d, s)'
    <3>1. PICK was \in ReceiptRow : was = receipt[<<d, s>>]
      BY <1>f, <1>2 DEF DocReceipts
    <3>2. CASE Live(d, s)
      <4>1. PICK row \in ReceiptRow : row = [was EXCEPT !.retired = TRUE]
        BY DEF ReceiptRow
      <4>2. row.retired = TRUE /\ row.state = was.state
        BY <4>1 DEF ReceiptRow
      <4>3. receipt'[<<d, s>>] = row
        BY <1>2, <2>7, <3>1, <3>2, <4>1
      <4> QED
        BY <3>1, <3>2, <4>2, <4>3, MemoryKeys DEF Live
    <3>3. CASE ~Live(d, s)
      <4>1. receipt'[<<d, s>>] = receipt[<<d, s>>]
        BY <1>2, <2>2, <2>7, <3>3
      <4> QED
        BY <3>1, <3>3, <4>1 DEF Live
    <3> QED
      BY <3>2, <3>3
  <2>9. ASSUME NEW d \in Document
        PROVE  /\ receipt'[<<d, next>>] = IF Live(d, s) /\ d \notin rejected THEN Queued ELSE NoReceipt
               /\ Live(d, next)' <=> Live(d, s) /\ d \notin rejected
    <3>1. receipt'[<<d, next>>] = IF Live(d, s) /\ d \notin rejected THEN Queued ELSE NoReceipt
      BY <2>1, <2>2, <2>3, <2>7
    <3> QED
      BY <3>1, MemoryKeys DEF Live
  <2>10. ASSUME NEW d \in Document, NEW t \in Session, t # s, t # next
         PROVE  receipt'[<<d, t>>] = receipt[<<d, t>>] /\ (Live(d, t)' <=> Live(d, t))
    <3>1. receipt'[<<d, t>>] = receipt[<<d, t>>]
      BY <2>7, <2>10
    <3> QED
      BY <3>1 DEF Live
  <2>11. receipt' \in [DocReceipts -> ReceiptRow]
    <3>1. ASSUME NEW x \in DocReceipts PROVE receipt'[x] \in ReceiptRow
      <4>1. PICK d \in Document, t \in Session : x = <<d, t>>
        BY DEF DocReceipts
      <4>2. CASE t = s
        BY <2>8, <4>1, <4>2
      <4>3. CASE t = next
        BY <2>9, <4>1, <4>3, MemoryKeys
      <4>4. CASE t # s /\ t # next
        BY <1>f, <2>10, <4>1, <4>4
      <4> QED
        BY <4>2, <4>3, <4>4
    <3>2. receipt' = [x \in DocReceipts |-> receipt'[x]]
      BY <2>1 DEF Rebuilt, DocReceipts
    <3> QED
      BY <3>1, <3>2
  <2>12. ASSUME NEW d \in Document, NEW t \in Session, sessionIn'[t] = workspaceNow
         PROVE  Live(d, t)' => t = next
    <3>1. CASE t = s
      BY <2>8, <3>1
    <3>2. CASE t # s /\ t # next
      <4>1. sessionIn[t] = workspaceNow
        BY <2>5, <2>12, <3>2
      <4>2. ~Live(d, t)
        BY <1>5, <3>2, <4>1 DEF MemoryInv, ReceiptsStand, Live
      <4> QED
        BY <2>10, <3>2, <4>2
    <3> QED
      BY <3>1, <3>2
  <2>13. \/ generation' = generation /\ ~Pending(workspaceNow)'
         \/ generation' = Changed(workspaceNow)
    <3>1. CASE \E d \in Document \ rejected : Live(d, s)
      BY <2>1, <2>2, <3>1
    <3>2. CASE ~\E d \in Document \ rejected : Live(d, s)
      <4>1. generation' = generation
        BY <2>1, <3>2
      <4>2. ASSUME NEW d \in Document, NEW t \in Session, sessionIn'[t] = workspaceNow, Live(d, t)' PROVE FALSE
        <5>1. t = next
          BY <2>12, <4>2
        <5> QED
          BY <2>9, <3>2, <4>2, <5>1
      <4>3. ~Pending(workspaceNow)'
        BY <1>3, <4>2 DEF Pending
      <4> QED
        BY <4>1, <4>3
    <3> QED
      BY <3>1, <3>2
  <2>14. /\ generation' \in [Workspace -> GenerationRow]
         /\ \A v \in Workspace : v # workspaceNow => generation'[v] = generation[v]
         /\ generation' = generation \/ (generation'[workspaceNow].state = "building"
                                         /\ generation'[workspaceNow].work = generation[workspaceNow].work + 1
                                         /\ generation[workspaceNow].work \in Nat)
    BY <1>f, <2>13, WorkCounted
  <2>15. MemoryTyped' /\ RebuildStands'
    BY <1>2, <1>3, <2>1, <2>5, <2>6, <2>11, <2>14, NobodyAtWork DEF MemoryInv, MemoryTyped, RebuildStands
  <2>16. WorkspacesStand'
    BY <1>3, <1>f, <2>14 DEF MemoryInv, WorkspacesStand
  <2>17. SessionsStand'
    <3>1. \A t \in Session : sessionIn'[t] <= workspaceNow
      BY <1>f, <2>5 DEF MemoryInv, SessionsStand
    <3>2. \A t \in Session : deletion'[t] # "none" => sessionIn'[t] # None /\ t # next
      <4>1. ASSUME NEW t \in Session, deletion'[t] # "none" PROVE sessionIn'[t] # None /\ t # next
        <5>1. CASE t = s
          BY <1>f, <2>2, <2>5, <5>1
        <5>2. CASE t # s
          <6>1. deletion[t] # "none"
            BY <2>6, <4>1, <5>2
          <6>2. sessionIn[t] # None /\ t # next
            BY <2>3, <6>1 DEF MemoryInv, SessionsStand
          <6> QED
            BY <2>5, <6>2
        <5> QED
          BY <5>1, <5>2
      <4> QED
        BY <4>1
    <3> QED
      BY <1>3, <2>1, <2>5, <3>1, <3>2, MemoryKeys DEF SessionsStand
  <2>18. ReceiptsStand'
    <3>1. ASSUME NEW d \in Document, NEW t \in Session
          PROVE  /\ receipt'[<<d, t>>].state = "none" <=> receipt'[<<d, t>>] = NoReceipt
                 /\ receipt'[<<d, t>>] # NoReceipt => sessionIn'[t] # None
                 /\ receipt'[<<d, t>>] # NoReceipt /\ sessionIn'[t] = workspaceNow => (Live(d, t)' <=> t = next)
                 /\ deletion'[t] # "none" => ~Live(d, t)'
      <4>1. CASE t = s
        <5>1. receipt[<<d, s>>].state = "none" <=> receipt[<<d, s>>] = NoReceipt
          BY <1>2 DEF MemoryInv, ReceiptsStand
        <5> QED
          BY <1>f, <2>2, <2>5, <2>8, <4>1, <5>1
      <4>2. CASE t = next
        <5>1. deletion'[t] = "none"
          BY <2>2, <2>3, <2>6, <4>2
        <5>2. receipt'[<<d, t>>].state = "none" <=> receipt'[<<d, t>>] = NoReceipt
          BY <2>9, <4>2, MemoryKeys
        <5>3. receipt'[<<d, t>>] # NoReceipt => Live(d, t)'
          BY <2>9, <4>2, MemoryKeys
        <5> QED
          BY <1>f, <2>5, <4>2, <5>1, <5>2, <5>3
      <4>3. CASE t # s /\ t # next
        <5>1. /\ receipt[<<d, t>>].state = "none" <=> receipt[<<d, t>>] = NoReceipt
              /\ receipt[<<d, t>>] # NoReceipt => sessionIn[t] # None
              /\ receipt[<<d, t>>] # NoReceipt /\ sessionIn[t] = workspaceNow => ~Live(d, t)
              /\ deletion[t] # "none" => ~Live(d, t)
          BY <1>5, <4>3 DEF MemoryInv, ReceiptsStand
        <5>2. deletion'[t] = deletion[t] /\ sessionIn'[t] = sessionIn[t]
          BY <2>5, <2>6, <4>3
        <5> QED
          BY <2>10, <4>3, <5>1, <5>2
      <4> QED
        BY <4>1, <4>2, <4>3
    <3> QED
      BY <1>3, <2>1, <3>1 DEF ReceiptsStand
  <2>19. RemoteStands'
    <3>1. retirement[workspaceNow] = "none"
      BY <1>f DEF MemoryInv, WorkspacesStand
    <3>2. DeletedStaysDeleted'
      <4>1. ASSUME NEW t \in Session, deletion'[t] = "done" \/ (sessionIn'[t] # None /\ retirement[sessionIn'[t]] = "done")
            PROVE  remote[t] = Absent
        <5>1. CASE t = next
          BY <2>2, <2>3, <2>5, <2>6, <3>1, <4>1, <5>1
        <5>2. CASE t # next
          <6>1. deletion[t] = "done" \/ (sessionIn[t] # None /\ retirement[sessionIn[t]] = "done")
            BY <2>5, <2>6, <4>1, <5>2
          <6> QED
            BY <6>1 DEF MemoryInv, RemoteStands, DeletedStaysDeleted
        <5> QED
          BY <5>1, <5>2
      <4> QED
        BY <1>3, <4>1 DEF DeletedStaysDeleted
    <3>3. DoneIsRemote'
      <4>1. ASSUME NEW d \in Document, NEW t \in Session, Live(d, t)', receipt'[<<d, t>>].state = "done", sessionIn'[t] = workspaceNow
            PROVE  FALSE
        <5>1. t = next
          BY <2>12, <4>1
        <5> QED
          BY <2>9, <4>1, <5>1, MemoryKeys
      <4> QED
        BY <1>3, <4>1 DEF DoneIsRemote
    <3> QED
      BY <1>3, <3>2, <3>3 DEF MemoryInv, RemoteStands
  <2>20. LockStands'
    <3>1. ASSUME worker.at \in Syncing, NEW d \in worker.doc
          PROVE  /\ worker.on \in Session /\ worker.on # next
                 /\ receipt'[<<d, worker.on>>].state = receipt[<<d, worker.on>>].state
      <4>1. PICK t \in Session : t = worker.on
        BY <3>1 DEF MemoryInv, LockStands
      <4>2. d \in Document
        BY <3>1 DEF MemoryInv, MemoryTyped, LockRow
      <4>3. receipt[<<d, t>>].state \in {"pending", "uncertain"}
        BY <3>1, <4>1 DEF MemoryInv, LockStands
      <4>4. t # next
        BY <2>3, <4>2, <4>3, MemoryKeys
      <4>5. receipt'[<<d, t>>].state = receipt[<<d, t>>].state
        BY <2>8, <2>10, <4>2, <4>4
      <4> QED
        BY <4>1, <4>4, <4>5
    <3>2. worker.at \in Syncing => \E d \in Document : worker.doc = {d}
      BY DEF MemoryInv, LockStands
    <3>3. ASSUME worker.at = "write"
          PROVE  deletion'[worker.on] # "done" /\ retirement[sessionIn'[worker.on]] # "done"
      <4>1. worker.on \in Session /\ worker.on # next
        BY <3>1, <3>2, <3>3 DEF Syncing
      <4>2. deletion[worker.on] # "done" /\ retirement[sessionIn[worker.on]] # "done"
        BY <3>3 DEF MemoryInv, LockStands
      <4> QED
        BY <2>5, <2>6, <4>1, <4>2
    <3>4. worker.at = "delete" => worker.on \in Session /\ deletion'[worker.on] = "pending"
      BY <2>6 DEF MemoryInv, LockStands
    <3> QED
      BY <1>3, <3>1, <3>3, <3>4 DEF MemoryInv, LockStands
  <2>21. ASSUME NEW v \in Workspace, v # workspaceNow, Pending(v)' PROVE Pending(v)
    <3>1. PICK d \in Document, t \in Session : sessionIn'[t] = v /\ Live(d, t)' /\ receipt'[<<d, t>>].state # "done"
      BY <2>21 DEF Pending
    <3>2. t # next /\ t # s
      BY <2>2, <2>5, <2>21, <3>1
    <3> QED
      BY <2>5, <2>10, <3>1, <3>2 DEF Pending
  <2>22. ObserverStands'
    <3>1. observer.work \in Nat
      BY DEF MemoryInv, MemoryTyped, ObserverRow
    <3>2. observer.work <= generation[workspaceNow].work =>
            /\ observer.work <= generation'[workspaceNow].work
            /\ observer.work = generation'[workspaceNow].work => generation' = generation
      BY <2>14, <3>1
    <3>3. generation' = generation => ~Pending(workspaceNow)'
      BY <2>13, <2>14, <1>f, WorkCounted
    <3> QED
      BY <1>3, <3>2, <3>3 DEF MemoryInv, ObserverStands
  <2>23. ReadyMeansWritten'
    <3>1. ASSUME NEW v \in Workspace, generation'[v].state = "ready" PROVE ~Pending(v)'
      <4>1. CASE v = workspaceNow
        <5>1. generation' # Changed(workspaceNow)
          BY <3>1, <4>1, WorkCounted
        <5>2. ~Pending(workspaceNow)'
          BY <2>13, <5>1
        <5> QED
          BY <1>3, <4>1, <5>2 DEF Pending
      <4>2. CASE v # workspaceNow
        BY <2>14, <2>21, <3>1, <4>2 DEF MemoryInv, ReadyMeansWritten
      <4> QED
        BY <4>1, <4>2
    <3> QED
      BY <3>1 DEF ReadyMeansWritten
  <2>24. ValidIsKept'
    <3>1. ASSUME NEW d \in valid, NEW t \in Session, receipt'[<<d, t>>] # NoReceipt, sessionIn'[t] = workspaceNow
          PROVE  Live(d, next)'
      <4>1. d \in Document /\ d \notin rejected
        BY <1>f, <1>2
      <4>2. CASE t = next
        BY <2>9, <3>1, <4>1, <4>2, MemoryKeys
      <4>3. CASE t # next
        <5>1. receipt[<<d, t>>] # NoReceipt /\ sessionIn[t] = workspaceNow
          BY <2>5, <2>8, <2>10, <3>1, <4>1, <4>3
        <5>2. Live(d, s)
          BY <1>5, <5>1 DEF MemoryInv, ValidIsKept
        <5> QED
          BY <2>9, <4>1, <5>2
      <4> QED
        BY <4>2, <4>3
    <3> QED
      BY <1>3, <2>1, <3>1 DEF ValidIsKept, Live
  <2> QED
    BY <2>4, <2>15, <2>16, <2>17, <2>18, <2>19, <2>20, <2>22, <2>23, <2>24 DEF MemoryInv
<1> QED
  BY <1>4, <1>5

\* Every workspace is one before the new one: nothing of it is live, and it is deleted if opened.
LEMMA StartStep ==
  ASSUME MemoryInv, FreshStart
  PROVE  MemoryInv'
<1>f. /\ workspaceNow \in Workspace /\ workspaceNow \in Nat /\ generation \in [Workspace -> GenerationRow]
      /\ sessionIn \in [Session -> Workspace \cup {None}] /\ retirement \in [Workspace -> {"none", "pending", "done"}]
  BY MemoryKeys DEF MemoryInv, MemoryTyped
<1>1. /\ UNCHANGED <<sessionIn, receipt, deletion, valid, remote, worker, rebuilding, observer>> /\ liveSession' = None
      /\ workspaceNow' = workspaceNow + 1 /\ workspaceNow < MaxWorkspace
  BY DEF FreshStart
<1>2. workspaceNow' \in Workspace /\ workspaceNow' \in Nat /\ \A n \in Nat : n <= workspaceNow => n < workspaceNow' /\ n <= workspaceNow'
  BY <1>1, <1>f, MemoryAssumption DEF Workspace
<1>3. ASSUME NEW w \in Workspace
      PROVE  /\ generation'[w] \in GenerationRow /\ generation'[w].state \notin {"building", "ready"}
             /\ generation'[w].state # "none" => generation[w].state # "none"
             /\ retirement'[w] # "none" => retirement[w] # "none" \/ generation[w].state # "none"
             /\ retirement'[w] = "done" <=> retirement[w] = "done"
             /\ retirement[w] = "pending" => retirement'[w] = "pending"
             /\ retirement'[w] \in {"none", "pending", "done"}
  <2>1. PICK old \in GenerationRow : old = generation[w]
    BY <1>f
  <2>2. PICK row \in GenerationRow : row = [old EXCEPT !.state = "retired"]
    BY DEF GenerationRow
  <2>3. row.state = "retired"
    BY <2>2 DEF GenerationRow
  <2>4. generation'[w] = IF old.state \in {"building", "ready"} THEN row ELSE old
    BY <2>1, <2>2 DEF FreshStart
  <2>5. retirement'[w] = IF old.state # "none" /\ retirement[w] = "none" THEN "pending" ELSE retirement[w]
    BY <2>1 DEF FreshStart
  <2> QED
    BY <1>f, <2>1, <2>3, <2>4, <2>5
<1>4. generation' \in [Workspace -> GenerationRow] /\ retirement' \in [Workspace -> {"none", "pending", "done"}]
  <2>1. generation' = [w \in Workspace |-> generation'[w]] /\ retirement' = [w \in Workspace |-> retirement'[w]]
    BY DEF FreshStart
  <2> QED
    BY <1>3, <2>1
<1>5. MemoryTyped' /\ OpenedInOrder' /\ RebuildStands'
  BY <1>1, <1>2, <1>4 DEF MemoryInv, MemoryTyped, OpenedInOrder, RebuildStands
<1>6. WorkspacesStand'
  <2>1. ASSUME NEW w \in Workspace, generation[w].state # "none" \/ retirement[w] # "none" PROVE w < workspaceNow' /\ w <= workspaceNow'
    <3>1. w \in Nat /\ w <= workspaceNow
      BY <1>f, <2>1, MemoryKeys DEF MemoryInv, WorkspacesStand
    <3> QED
      BY <1>2, <3>1
  <2> QED
    BY <1>3, <2>1 DEF WorkspacesStand
<1>7. ASSUME NEW s \in Session PROVE sessionIn[s] <= workspaceNow' /\ sessionIn[s] # workspaceNow'
  <2>1. sessionIn[s] \in Nat /\ sessionIn[s] <= workspaceNow
    BY <1>f, MemoryKeys DEF MemoryInv, SessionsStand
  <2>2. sessionIn[s] < workspaceNow'
    BY <1>2, <2>1
  <2> QED
    BY <1>2, <2>1, <2>2
<1>8. SessionsStand'
  BY <1>1, <1>7, MemoryKeys DEF MemoryInv, SessionsStand
<1>9. ReceiptsStand'
  BY <1>1, <1>7 DEF MemoryInv, ReceiptsStand, Live
<1>10. RemoteStands'
  <2>1. DeletedStaysDeleted'
    <3>1. \A s \in Session : sessionIn[s] # None => (retirement'[sessionIn[s]] = "done" <=> retirement[sessionIn[s]] = "done")
      BY <1>3, <1>f
    <3> QED
      BY <1>1, <3>1 DEF MemoryInv, RemoteStands, DeletedStaysDeleted
  <2>2. DoneIsRemote'
    BY <1>1, <1>7 DEF DoneIsRemote
  <2> QED
    BY <1>1, <2>1, <2>2 DEF MemoryInv, RemoteStands
<1>11. LockStands'
  <2>1. worker.at = "write" => retirement'[sessionIn[worker.on]] # "done"
    <3>1. ASSUME worker.at = "write" PROVE retirement'[sessionIn[worker.on]] # "done"
      <4>1. PICK d \in Document, s \in Session : worker.on = s /\ worker.doc = {d}
        BY <3>1 DEF MemoryInv, LockStands, Syncing
      <4>2. receipt[<<d, s>>].state = "uncertain" /\ retirement[sessionIn[s]] # "done"
        BY <3>1, <4>1 DEF MemoryInv, LockStands, Syncing
      <4>3. sessionIn[s] # None
        BY <4>2, MemoryKeys DEF MemoryInv, ReceiptsStand
      <4>4. sessionIn[s] \in Workspace
        BY <1>f, <4>3
      <4> QED
        BY <1>3, <4>1, <4>2, <4>4
    <3> QED
      BY <3>1
  <2>2. worker.at = "retire" => worker.on \in Workspace /\ retirement'[worker.on] = "pending"
    BY <1>3 DEF MemoryInv, LockStands
  <2> QED
    BY <1>1, <2>1, <2>2 DEF MemoryInv, LockStands
<1>12. ObserverStands'
  <2>1. ASSUME observer.at # "idle" PROVE observer.on \in Workspace /\ observer.on <= workspaceNow' /\ observer.on # workspaceNow'
    <3>1. observer.on \in Workspace /\ observer.on \in Nat /\ observer.on <= workspaceNow
      BY <2>1, MemoryKeys DEF MemoryInv, ObserverStands
    <3>2. observer.on < workspaceNow' /\ observer.on <= workspaceNow'
      BY <1>2, <3>1
    <3> QED
      BY <1>2, <3>1, <3>2
  <2> QED
    BY <1>1, <2>1 DEF ObserverStands
<1>13. ReadyMeansWritten' /\ ValidIsKept'
  BY <1>1, <1>3, <1>7 DEF ReadyMeansWritten, ValidIsKept
<1> QED
  BY <1>5, <1>6, <1>8, <1>9, <1>10, <1>11, <1>12, <1>13 DEF MemoryInv

LEMMA RejectStep ==
  ASSUME MemoryInv, BeginRebuild \/ \E d \in Document : Invalidate(d)
  PROVE  MemoryInv'
<1>1. UNCHANGED <<workspaceNow, generation, retirement, sessionIn, liveSession, receipt, deletion, remote, worker, observer>>
  BY DEF BeginRebuild, Invalidate, workspaceRows, sessionRows
<1>2. valid' \subseteq valid /\ rebuilding' \in RebuildRow /\ RebuildStands'
  <2>1. CASE BeginRebuild
    <3>1. PICK row \in RebuildRow : row = [on |-> liveSession, rejected |-> Document \ valid]
      BY DEF MemoryInv, MemoryTyped, RebuildRow
    <3>2. row.on = liveSession /\ row.rejected = Document \ valid
      BY <3>1
    <3>3. rebuilding' = row /\ valid' = valid /\ liveSession # None
      BY <2>1, <3>1 DEF BeginRebuild
    <3> QED
      BY <3>2, <3>3 DEF MemoryInv, MemoryTyped, RebuildStands
  <2>2. CASE \E d \in Document : Invalidate(d)
    BY <2>2 DEF MemoryInv, MemoryTyped, Invalidate, RebuildStands
  <2> QED
    BY <2>1, <2>2
<1>3. MemoryTyped' /\ OpenedInOrder' /\ WorkspacesStand' /\ SessionsStand' /\ LockStands'
  BY <1>1, <1>2 DEF MemoryInv, MemoryTyped, OpenedInOrder, WorkspacesStand, SessionsStand, LockStands
<1>4. \A e, t : Live(e, t)' <=> Live(e, t)
  BY <1>1 DEF Live
<1>5. \A w : Pending(w)' <=> Pending(w)
  BY <1>1, <1>4 DEF Pending
<1>6. ReceiptsStand' /\ RemoteStands'
  BY <1>1, <1>4 DEF MemoryInv, ReceiptsStand, RemoteStands, DeletedStaysDeleted, DoneIsRemote
<1>7. ObserverStands' /\ ReadyMeansWritten'
  BY <1>1, <1>5 DEF MemoryInv, ObserverStands, ReadyMeansWritten
<1>8. ValidIsKept'
  <2>1. ASSUME NEW e \in valid', NEW t \in Session, receipt[<<e, t>>] # NoReceipt, sessionIn[t] = workspaceNow
        PROVE  Live(e, liveSession)
    BY <1>2, <2>1 DEF MemoryInv, ValidIsKept
  <2>2. liveSession' = liveSession /\ \A e : Live(e, liveSession)' <=> Live(e, liveSession)
    BY <1>1 DEF Live
  <2> QED
    BY <1>1, <2>1, <2>2 DEF ValidIsKept
<1> QED
  BY <1>2, <1>3, <1>6, <1>7, <1>8 DEF MemoryInv

\* A workspace is called ready on what was counted if no work was added since.
LEMMA ObserveStep ==
  ASSUME MemoryInv, BeginObserve \/ CountPending \/ SaveObservation
  PROVE  MemoryInv'
<1>f. /\ workspaceNow \in Workspace /\ generation \in [Workspace -> GenerationRow] /\ observer \in ObserverRow
  BY DEF MemoryInv, MemoryTyped
<1>1. UNCHANGED <<workspaceNow, retirement, sessionIn, liveSession, receipt, deletion, valid, remote, worker, rebuilding>>
  BY DEF BeginObserve, CountPending, SaveObservation, Observing, workspaceRows, sessionRows
<1>2. \A w : Pending(w)' <=> Pending(w)
  BY <1>1 DEF Pending, Live
<1>3. ASSUME generation' \in [Workspace -> GenerationRow], observer' \in ObserverRow, WorkspacesStand', ObserverStands', ReadyMeansWritten'
      PROVE  MemoryInv'
  <2>1. MemoryTyped' /\ OpenedInOrder' /\ SessionsStand' /\ LockStands' /\ RebuildStands'
    BY <1>1, <1>3 DEF MemoryInv, MemoryTyped, OpenedInOrder, SessionsStand, LockStands, RebuildStands
  <2>2. ReceiptsStand' /\ RemoteStands' /\ ValidIsKept'
    BY <1>1 DEF MemoryInv, ReceiptsStand, RemoteStands, DeletedStaysDeleted, DoneIsRemote, ValidIsKept, Live
  <2> QED
    BY <1>3, <2>1, <2>2 DEF MemoryInv
<1>4. CASE BeginObserve
  <2>1. PICK work \in Nat : work = generation[workspaceNow].work
    BY <1>f DEF GenerationRow
  <2>2. PICK row \in ObserverRow : row = [at |-> "count", on |-> workspaceNow, work |-> work, ready |-> FALSE]
    BY <1>f DEF ObserverRow
  <2>3. row.at = "count" /\ row.on = workspaceNow /\ row.work = work
    BY <2>2
  <2>4. observer' = row /\ generation' = generation
    BY <1>4, <2>1, <2>2 DEF BeginObserve, Observing, workspaceRows
  <2>5. ObserverStands'
    <3>1. workspaceNow <= workspaceNow /\ work <= work
      BY <1>f, MemoryKeys
    <3> QED
      BY <1>1, <1>f, <2>1, <2>3, <2>4, <3>1 DEF ObserverStands
  <2>6. WorkspacesStand' /\ ReadyMeansWritten'
    BY <1>1, <1>2, <2>4 DEF MemoryInv, WorkspacesStand, ReadyMeansWritten
  <2> QED
    BY <1>3, <1>f, <2>4, <2>5, <2>6
<1>5. CASE CountPending
  <2>1. PICK idle \in BOOLEAN : observer' = [at |-> "save", on |-> observer.on, work |-> observer.work,
                                            ready |-> ~Pending(observer.on) /\ idle]
    BY <1>5 DEF CountPending
  <2>2. PICK ready \in BOOLEAN : ready = (~Pending(observer.on) /\ idle)
    BY Zenon
  <2>3. PICK row \in ObserverRow : row = [at |-> "save", on |-> observer.on, work |-> observer.work, ready |-> ready]
    BY <1>f DEF ObserverRow
  <2>4. row.at = "save" /\ row.on = observer.on /\ row.work = observer.work /\ row.ready = ready
    BY <2>3
  <2>5. observer' = row
    BY <2>1, <2>2, <2>3, Zenon
  <2>6. generation' = generation /\ observer.at = "count"
    BY <1>5 DEF CountPending, Observing, workspaceRows
  <2>7. ready => ~Pending(observer.on)
    BY <2>2, Zenon
  <2>8. ObserverStands'
    BY <1>1, <1>2, <2>4, <2>5, <2>6, <2>7 DEF MemoryInv, ObserverStands
  <2>9. WorkspacesStand' /\ ReadyMeansWritten'
    BY <1>1, <1>2, <2>6 DEF MemoryInv, WorkspacesStand, ReadyMeansWritten
  <2> QED
    BY <1>3, <1>f, <2>5, <2>6, <2>8, <2>9
<1>6. CASE SaveObservation
  <2>1. observer.at = "save" /\ observer' = NoObserver
    BY <1>6 DEF SaveObservation
  <2>2. ObserverStands'
    BY <2>1, NobodyAtWork DEF ObserverStands
  <2>3. CASE ~(IsCurrentWorkspace(observer.on) /\ generation[observer.on].work = observer.work)
    <3>1. generation' = generation
      BY <1>6, <2>3 DEF SaveObservation
    <3>2. WorkspacesStand' /\ ReadyMeansWritten'
      BY <1>1, <1>2, <3>1 DEF MemoryInv, WorkspacesStand, ReadyMeansWritten
    <3> QED
      BY <1>3, <1>f, <2>1, <2>2, <3>1, <3>2, NobodyAtWork
  <2>4. CASE IsCurrentWorkspace(observer.on) /\ generation[observer.on].work = observer.work
    <3>1. observer.on = workspaceNow /\ generation[workspaceNow].state \in {"building", "ready"}
      BY <2>4 DEF IsCurrentWorkspace
    <3>2. PICK old \in GenerationRow : old = generation[workspaceNow]
      BY <1>f
    <3>3. PICK state \in {"ready", "building"} : state = IF observer.ready THEN "ready" ELSE "building"
      OBVIOUS
    <3>4. PICK row \in GenerationRow : row = [old EXCEPT !.state = state]
      BY DEF GenerationRow
    <3>5. row.state = state
      BY <3>4 DEF GenerationRow
    <3>6. generation' = [generation EXCEPT ![workspaceNow] = row]
      BY <1>6, <2>4, <3>1, <3>2, <3>3, <3>4 DEF SaveObservation
    <3>7. /\ generation' \in [Workspace -> GenerationRow] /\ generation'[workspaceNow].state = state
          /\ \A v \in Workspace : v # workspaceNow => generation'[v] = generation[v]
      BY <1>f, <3>5, <3>6
    <3>8. WorkspacesStand'
      BY <1>1, <3>1, <3>7 DEF MemoryInv, WorkspacesStand
    <3>9. state = "ready" => ~Pending(workspaceNow)
      BY <2>1, <2>4, <3>1, <3>3 DEF MemoryInv, ObserverStands
    <3>10. ReadyMeansWritten'
      <4>1. ASSUME NEW v \in Workspace, generation'[v].state = "ready" PROVE ~Pending(v)
        BY <3>7, <3>9, <4>1 DEF MemoryInv, ReadyMeansWritten
      <4> QED
        BY <1>2, <4>1 DEF ReadyMeansWritten
    <3> QED
      BY <1>3, <2>1, <2>2, <3>7, <3>8, <3>10, NobodyAtWork
  <2> QED
    BY <2>3, <2>4
<1> QED
  BY <1>4, <1>5, <1>6

LEMMA MemoryStep == MemoryInv /\ [MemoryNext]_MemoryVars => MemoryInv'
<1> SUFFICES ASSUME MemoryInv, [MemoryNext]_MemoryVars PROVE MemoryInv'
  OBVIOUS
<1>1. CASE ReleaseLock
  BY <1>1, LockStep
<1>6. CASE CommitRebuild
  BY <1>6, RebuildStep
<1>7. CASE FreshStart
  BY <1>7, StartStep
<1>8. CASE BeginRebuild \/ \E d \in Document : Invalidate(d)
  BY <1>8, RejectStep
<1>9. CASE BeginObserve \/ CountPending \/ SaveObservation
  BY <1>9, ObserveStep
<1>10. CASE UNCHANGED MemoryVars
  <2>1. /\ UNCHANGED <<workspaceRows, sessionRows, valid, remote, rebuilding, observer>> /\ worker' = worker
        /\ UNCHANGED <<retirement, receipt, deletion, sessionIn, remote>>
    BY <1>10 DEF MemoryVars, workspaceRows, sessionRows
  <2>2. worker' \in LockRow /\ LockStands'
    BY <2>1 DEF MemoryInv, MemoryTyped, LockStands
  <2> QED
    BY <2>1, <2>2, LockMoved
<1>11. ASSUME NEW s \in Session, BeginDeletion(s) \/ DeleteSession(s) \/ RetireSession(s) PROVE MemoryInv'
  <2>1. CASE BeginDeletion(s)
    BY <2>1, LockStep
  <2>2. CASE DeleteSession(s) \/ RetireSession(s)
    BY <2>2, DeletionStep
  <2> QED
    BY <1>11, <2>1, <2>2
<1>12. ASSUME NEW w \in Workspace, BeginRetirement(w) \/ RetireWorkspace(w) PROVE MemoryInv'
  <2>1. CASE BeginRetirement(w)
    BY <2>1, LockStep
  <2>2. CASE RetireWorkspace(w)
    BY <2>2, RetireStep
  <2> QED
    BY <1>12, <2>1, <2>2
<1>13. ASSUME NEW d \in Document, NEW s \in Session,
              \/ BeginSync(d, s) \/ ReconcileReceipt(d, s) \/ OpenRemote(d, s)
              \/ LookForReceipt(d, s) \/ WriteRemote(d, s)
       PROVE  MemoryInv'
  <2>1. CASE BeginSync(d, s)
    BY <2>1, LockStep
  <2>2. CASE ReconcileReceipt(d, s) \/ OpenRemote(d, s) \/ LookForReceipt(d, s) \/ WriteRemote(d, s)
    BY <2>2, SyncStep
  <2> QED
    BY <1>13, <2>1, <2>2
<1>14. ASSUME NEW d \in Document, QueueDocument(d) \/ Invalidate(d) PROVE MemoryInv'
  BY <1>14, QueueingStep, RejectStep
<1>15. CASE MemoryNext
  BY <1>6, <1>7, <1>8, <1>9, <1>1, <1>11, <1>12, <1>13, <1>14, <1>15, ZenonT(60) DEF MemoryNext
<1> QED
  BY <1>10, <1>15

\* What Nocheh says of its memory is what Honcho holds: what was deleted stays deleted, a ready
\* workspace has nothing unwritten, what is valid is kept, and what is confirmed is there.
THEOREM MemoryAlwaysAgrees == MemorySpec => []MemoryAgrees
<1>1. MemorySpec => []MemoryInv
  BY MemoryStarts, MemoryStep, PTL DEF MemorySpec
<1>2. MemoryInv => MemoryAgrees
  <2>1. MemoryInv => MemoryTypeOK
    BY DEF MemoryInv, MemoryTyped, MemoryTypeOK, DocReceipts, ReceiptRow, GenerationRow, HonchoRow, LockRow, RebuildRow, ObserverRow
  <2> QED
    BY <2>1 DEF MemoryInv, RemoteStands, MemoryAgrees
<1> QED
  BY <1>1, <1>2, PTL

----------------------------------------------------------------------------
(* Corrections of long-term memory.                                        *)
(*                                                                         *)
(* A live receipt is of the present revision of its session, and nothing   *)
(* was ever written for a later one.  Behind the cursor of a sweep no live *)
(* receipt that Honcho was given rests on a retired message; a checked     *)
(* page adds itself to that, and what is outside the last page was queued  *)
(* after it was read.  What stands and has no live receipt was asked for   *)
(* under the present epoch, and no answer of another epoch takes that away.*)

Receipts == Memo \X SessionRevision
MemoRow == [state : {"none", "pending", "uncertain", "done"}, live : BOOLEAN, open : BOOLEAN]
SweepRow == [stage : {"sources", "learned", "done"}, passed : SUBSET Receipts]
PageRow == [on : BOOLEAN, under : Nat, page : SUBSET Receipts, last : BOOLEAN, checked : BOOLEAN]
QueueRow == [on : BOOLEAN, doc : Memo \cup {Conversation}, asked : Nat, under : Nat, revision : SessionRevision]
WriteRow == [on : BOOLEAN, doc : Memo \cup {Conversation}, revision : SessionRevision]
CorrectionTyped ==
  /\ decisions \in 0..MaxDecision /\ retiredMessages \subseteq Message
  /\ sessionAt \in [SessionKey -> SessionRevision] /\ memoReceipt \in [Receipts -> MemoRow]
  /\ asked \subseteq Memo \X (0..MaxDecision) /\ sweep \in SweepRow /\ reviewed \in BOOLEAN
  /\ sweeper \in PageRow /\ queueing \in QueueRow /\ writing \in WriteRow

ReceiptsInOrder ==
  \A d \in Memo, r \in SessionRevision :
    memoReceipt[<<d, r>>] # Unwritten =>
      r <= sessionAt[KeyOf(d)] /\ (memoReceipt[<<d, r>>].live <=> r = sessionAt[KeyOf(d)])
Held(row) == row.live /\ row.state \in {"uncertain", "done"}
CleanAt(x) == Held(memoReceipt[x]) => Stands(x[1])
SweepStands == \A x \in Receipts : sweep.stage # "sources" \/ x \in sweep.passed => CleanAt(x)
PageStands ==
  sweeper.on =>
    /\ sweeper.under <= decisions
    /\ sweeper.under = decisions =>
         /\ sweep.stage = "sources"
         /\ \A x \in Receipts :
              /\ sweeper.last /\ x \notin sweep.passed \cup sweeper.page => CleanAt(x)
              /\ sweeper.checked /\ x \in sweeper.page => CleanAt(x)
AskersStand ==
  /\ \A d \in Memo, e \in 0..MaxDecision : <<d, e>> \in asked => e <= decisions
  /\ queueing.on => queueing.doc \in Memo /\ queueing.asked <= queueing.under /\ queueing.under <= decisions
WriterStands ==
  writing.on => writing.doc \in Memo /\ memoReceipt[<<writing.doc, writing.revision>>].state = "uncertain"
Remembered(d) == Stands(d) => LiveIn(d, sessionAt[KeyOf(d)]) \/ <<d, decisions>> \in asked
AllRemembered ==
  /\ reviewed => \A m \in Message : Remembered(m)
  /\ sweep.stage = "done" => \A m \in Meaning : Remembered(m)
CorrectionInv ==
  /\ CorrectionTyped /\ ReceiptsInOrder /\ SweepStands /\ PageStands
  /\ AskersStand /\ WriterStands /\ AllRemembered

LEMMA Keys == /\ Memo = Message \cup Meaning /\ \A d \in Memo : KeyOf(d) \in SessionKey
              /\ Conversation \in SessionKey /\ MaxDecision \in Nat /\ MaxSessionRevision \in Nat \ {0}
              /\ 1 \in SessionRevision /\ SessionRevision \subseteq Nat
BY CorrectionAssumption DEF Memo, KeyOf, SessionKey, SessionRevision

LEMMA CorrectionStarts == CorrectionInit => CorrectionInv
<1> SUFFICES ASSUME CorrectionInit PROVE CorrectionInv
  OBVIOUS
<1>1. /\ Unwritten \in MemoRow /\ Unwritten.state = "none" /\ NoPage \in PageRow /\ ~NoPage.on
      /\ NoMemo \in QueueRow /\ ~NoMemo.on /\ NoWrite \in WriteRow /\ ~NoWrite.on
  BY Keys DEF Unwritten, MemoRow, NoPage, PageRow, NoMemo, QueueRow, NoWrite, WriteRow
<1>2. sweep \in SweepRow
  BY DEF CorrectionInit, FirstPage, SweepRow
<1>3. 0 \in 0..MaxDecision /\ 0 <= 0
  BY Keys
<1>4. /\ decisions = 0 /\ retiredMessages = {} /\ sessionAt = [k \in SessionKey |-> 1]
      /\ memoReceipt = [x \in Receipts |-> Unwritten] /\ asked = Memo \X {0} /\ reviewed = TRUE
      /\ sweeper = NoPage /\ queueing = NoMemo /\ writing = NoWrite
  BY DEF CorrectionInit, Receipts
<1>5. CorrectionTyped
  BY <1>1, <1>2, <1>3, <1>4, Keys DEF CorrectionTyped
<1>6. ReceiptsInOrder /\ SweepStands
  BY <1>1, <1>4 DEF ReceiptsInOrder, SweepStands, CleanAt, Held, Receipts
<1>7. PageStands /\ AskersStand /\ WriterStands
  BY <1>1, <1>3, <1>4 DEF PageStands, AskersStand, WriterStands
<1>8. AllRemembered
  BY <1>4, Keys DEF AllRemembered, Remembered
<1> QED
  BY <1>5, <1>6, <1>7, <1>8 DEF CorrectionInv

\* A decision begins a sweep and a review.
LEMMA Decided ==
  ASSUME CorrectionInv, Command, retiredMessages' \subseteq Message
  PROVE  CorrectionInv'
<1>1. /\ UNCHANGED <<sessionAt, memoReceipt, asked, sweeper, queueing, writing>> /\ reviewed' = FALSE
      /\ sweep' = FirstPage /\ decisions' = decisions + 1 /\ decisions < MaxDecision
  BY DEF Command, NewSweep
<1>2. decisions \in Nat /\ decisions' \in 0..MaxDecision
  BY <1>1, Keys DEF CorrectionInv, CorrectionTyped
<1>3. sweep' \in SweepRow /\ sweep'.stage = "sources" /\ sweep'.passed = {}
  BY <1>1 DEF FirstPage, SweepRow
<1>4. CorrectionTyped'
  BY <1>1, <1>2, <1>3 DEF CorrectionInv, CorrectionTyped
<1>5. ReceiptsInOrder' /\ SweepStands' /\ WriterStands' /\ AllRemembered'
  BY <1>1, <1>3 DEF CorrectionInv, ReceiptsInOrder, SweepStands, WriterStands, AllRemembered
<1>6. PageStands'
  <2>1. sweeper.under \in Nat
    BY DEF CorrectionInv, CorrectionTyped, PageRow
  <2>2. sweeper.under <= decisions => sweeper.under <= decisions' /\ sweeper.under # decisions'
    BY <1>1, <1>2, <2>1
  <2> QED
    BY <1>1, <2>2 DEF CorrectionInv, PageStands
<1>7. AskersStand'
  <2>1. queueing.under \in Nat
    BY DEF CorrectionInv, CorrectionTyped, QueueRow
  <2>2. \A e \in Nat : e <= decisions => e <= decisions'
    BY <1>1, <1>2
  <2>3. \A e \in 0..MaxDecision : e \in Nat
    OBVIOUS
  <2> QED
    BY <1>1, <2>1, <2>2, <2>3 DEF CorrectionInv, AskersStand
<1> QED
  BY <1>4, <1>5, <1>6, <1>7 DEF CorrectionInv

\* Requests are added, or those taken away that no memo needs.
LEMMA AskedAnew ==
  ASSUME CorrectionInv, UNCHANGED <<decisions, retiredMessages, sessionAt, memoReceipt, sweeper, writing>>,
         asked' \subseteq Memo \X (0..MaxDecision), queueing' \in QueueRow, reviewed' \in BOOLEAN,
         sweep' \in SweepRow, sweep'.passed = sweep.passed, (sweep.stage = "sources") <=> (sweep'.stage = "sources"),
         AskersStand', AllRemembered'
  PROVE  CorrectionInv'
<1>1. CorrectionTyped'
  BY DEF CorrectionInv, CorrectionTyped
<1>2. ReceiptsInOrder' /\ WriterStands'
  BY DEF CorrectionInv, ReceiptsInOrder, WriterStands
<1>3. \A x : CleanAt(x)' <=> CleanAt(x)
  BY DEF CleanAt, Stands
<1>4. SweepStands' /\ PageStands'
  BY <1>3 DEF CorrectionInv, SweepStands, PageStands
<1> QED
  BY <1>1, <1>2, <1>4 DEF CorrectionInv

LEMMA RefreshStep ==
  ASSUME CorrectionInv, RefreshReview \/ RefreshLearned
  PROVE  CorrectionInv'
<1>f. /\ decisions \in 0..MaxDecision /\ decisions \in Nat /\ AskersStand /\ sweep \in SweepRow /\ queueing \in QueueRow
      /\ asked \subseteq Memo \X (0..MaxDecision) /\ memoReceipt \in [Receipts -> MemoRow]
  BY DEF CorrectionInv, CorrectionTyped
<1>1. PICK some \in SUBSET Memo :
        /\ asked' = asked \cup some \X {decisions}
        /\ \/ some = {m \in Message : ~HasLive(m)} /\ reviewed' = TRUE /\ UNCHANGED sweep
           \/ some = {m \in Meaning : ~HasLive(m)} /\ sweep.stage = "learned" /\ UNCHANGED reviewed
              /\ sweep' = [sweep EXCEPT !.stage = "done"]
  BY Keys DEF RefreshReview, RefreshLearned
<1>2. UNCHANGED <<decisions, retiredMessages, sessionAt, memoReceipt, sweeper, queueing, writing>>
  BY DEF RefreshReview, RefreshLearned
<1>3. asked' \subseteq Memo \X (0..MaxDecision) /\ AskersStand'
  BY <1>f, <1>1, <1>2 DEF AskersStand
<1>4. /\ sweep' \in SweepRow /\ sweep'.passed = sweep.passed /\ reviewed' \in BOOLEAN
      /\ (sweep.stage = "sources") <=> (sweep'.stage = "sources")
  BY <1>f, <1>1 DEF SweepRow, CorrectionInv, CorrectionTyped
<1>5. ASSUME NEW d \in Memo, Remembered(d) \/ d \in some \/ HasLive(d) PROVE Remembered(d)'
  <2>1. HasLive(d) => LiveIn(d, sessionAt[KeyOf(d)])
    <3>1. Unwritten.live = FALSE
      BY DEF Unwritten
    <3>2. ASSUME NEW r \in SessionRevision, LiveIn(d, r) PROVE r = sessionAt[KeyOf(d)]
      BY <3>1, <3>2 DEF CorrectionInv, ReceiptsInOrder, LiveIn
    <3> QED
      BY <3>2 DEF HasLive
  <2> QED
    BY <1>1, <1>2, <1>5, <2>1 DEF Remembered, LiveIn, Stands
<1>6. AllRemembered'
  <2>1. ASSUME reviewed', NEW m \in Message PROVE Remembered(m)'
    BY <1>1, <1>5, <2>1, Keys DEF CorrectionInv, AllRemembered
  <2>2. ASSUME sweep'.stage = "done", NEW m \in Meaning PROVE Remembered(m)'
    BY <1>f, <1>1, <1>5, <2>2, Keys DEF CorrectionInv, AllRemembered
  <2> QED
    BY <2>1, <2>2 DEF AllRemembered
<1> QED
  BY <1>2, <1>3, <1>4, <1>6, <1>f, AskedAnew

LEMMA QueueStep ==
  ASSUME CorrectionInv,
         \/ SupersedeQueueing
         \/ \E d \in Memo, e \in 0..MaxDecision : BeginQueueing(d, e) \/ RefuseQueueing(d, e)
  PROVE  CorrectionInv'
<1>f. /\ decisions \in 0..MaxDecision /\ decisions \in Nat /\ AskersStand /\ sweep \in SweepRow /\ queueing \in QueueRow
      /\ asked \subseteq Memo \X (0..MaxDecision) /\ sessionAt \in [SessionKey -> SessionRevision] /\ reviewed \in BOOLEAN
  BY DEF CorrectionInv, CorrectionTyped
<1>n. NoMemo \in QueueRow /\ ~NoMemo.on
  BY Keys DEF NoMemo, QueueRow
<1>k. ASSUME NEW d, NEW e, asked' = asked \ {<<d, e>>}, UNCHANGED <<decisions, retiredMessages, sessionAt, memoReceipt, sweep, reviewed>>,
             ~Stands(d) \/ e # decisions
      PROVE  AllRemembered'
  <2>1. ASSUME NEW m, Remembered(m) PROVE Remembered(m)'
    BY <1>k, <2>1 DEF Remembered, Stands, LiveIn
  <2> QED
    BY <1>k, <2>1 DEF CorrectionInv, AllRemembered
<1>1. CASE SupersedeQueueing
  <2>1. /\ UNCHANGED <<decisions, retiredMessages, sessionAt, memoReceipt, sweeper, writing, sweep, reviewed>>
        /\ queueing' = NoMemo /\ asked' = asked \ {<<queueing.doc, queueing.asked>>}
        /\ queueing.on /\ queueing.under # decisions
    BY <1>1 DEF SupersedeQueueing, Queues
  <2>2. queueing.asked # decisions
    <3>1. queueing.asked \in Nat /\ queueing.under \in Nat
      BY <1>f DEF QueueRow
    <3> QED
      BY <1>f, <2>1, <3>1 DEF AskersStand
  <2>3. AllRemembered'
    <3>1. PICK d, e : d = queueing.doc /\ e = queueing.asked
      OBVIOUS
    <3> QED
      BY <1>k, <2>1, <2>2, <3>1
  <2>4. AskersStand'
    BY <1>f, <1>n, <2>1 DEF AskersStand
  <2> QED
    BY <1>f, <1>n, <2>1, <2>3, <2>4, AskedAnew
<1>2. ASSUME NEW d \in Memo, NEW e \in 0..MaxDecision, BeginQueueing(d, e) PROVE CorrectionInv'
  <2>1. PICK r \in SessionRevision, under \in Nat : r = sessionAt[KeyOf(d)] /\ under = decisions
    BY <1>f, Keys
  <2>2. /\ UNCHANGED <<decisions, retiredMessages, sessionAt, memoReceipt, sweeper, writing, sweep, reviewed, asked>>
        /\ queueing' = [on |-> TRUE, doc |-> d, asked |-> e, under |-> under, revision |-> r] /\ <<d, e>> \in asked
    BY <1>2, <2>1 DEF BeginQueueing, Queues
  <2>3. queueing' \in QueueRow /\ queueing'.doc = d /\ queueing'.asked = e /\ queueing'.under = under
    BY <2>2 DEF QueueRow
  <2>4. AskersStand'
    BY <1>f, <2>1, <2>2, <2>3 DEF AskersStand
  <2>5. AllRemembered'
    BY <2>2 DEF CorrectionInv, AllRemembered, Remembered, Stands, LiveIn
  <2> QED
    BY <1>f, <2>2, <2>3, <2>4, <2>5, AskedAnew
<1>3. ASSUME NEW d \in Memo, NEW e \in 0..MaxDecision, RefuseQueueing(d, e) PROVE CorrectionInv'
  <2>1. /\ UNCHANGED <<decisions, retiredMessages, sessionAt, memoReceipt, sweeper, writing, sweep, reviewed, queueing>>
        /\ asked' = asked \ {<<d, e>>} /\ ~Stands(d)
    BY <1>3 DEF RefuseQueueing, Queues
  <2>2. AskersStand'
    BY <1>f, <2>1 DEF AskersStand
  <2> QED
    BY <1>f, <1>k, <2>1, <2>2, AskedAnew
<1> QED
  BY <1>1, <1>2, <1>3

\* One receipt of the present session is new or has changed, and is clean.
LEMMA ReceiptChanged ==
  ASSUME CorrectionInv, NEW d \in Memo, NEW r \in SessionRevision, NEW row \in MemoRow,
         memoReceipt' = [memoReceipt EXCEPT ![<<d, r>>] = row],
         UNCHANGED <<decisions, retiredMessages, sessionAt, sweeper, reviewed>>,
         row # Unwritten, r <= sessionAt[KeyOf(d)], row.live <=> r = sessionAt[KeyOf(d)],
         Held(row) => Stands(d) \/ Held(memoReceipt[<<d, r>>]),
         sweep' \in SweepRow, sweep'.stage = sweep.stage,
         \A x \in Receipts : x \in sweep'.passed => x \in sweep.passed \/ (x = <<d, r>> /\ ~Held(row)),
         \A x \in Receipts : x \in sweep.passed => x \in sweep'.passed,
         asked' \subseteq Memo \X (0..MaxDecision), queueing' \in QueueRow, writing' \in WriteRow,
         AskersStand', WriterStands',
         \A m \in Memo : Remembered(m) => Remembered(m)'
  PROVE  CorrectionInv'
<1>f. /\ memoReceipt \in [Receipts -> MemoRow] /\ <<d, r>> \in Receipts
  BY DEF CorrectionInv, CorrectionTyped, Receipts
<1>1. /\ memoReceipt' \in [Receipts -> MemoRow] /\ memoReceipt'[<<d, r>>] = row
      /\ \A x \in Receipts : x # <<d, r>> => memoReceipt'[x] = memoReceipt[x]
  BY <1>f
<1>2. CorrectionTyped'
  BY <1>1 DEF CorrectionInv, CorrectionTyped
<1>3. ReceiptsInOrder'
  <2>1. ASSUME NEW c \in Memo, NEW q \in SessionRevision, memoReceipt'[<<c, q>>] # Unwritten
        PROVE  q <= sessionAt[KeyOf(c)] /\ (memoReceipt'[<<c, q>>].live <=> q = sessionAt[KeyOf(c)])
    <3>1. CASE <<c, q>> = <<d, r>>
      <4>1. c = d /\ q = r
        BY <3>1
      <4> QED
        BY <1>1, <4>1
    <3>2. CASE <<c, q>> # <<d, r>>
      <4>1. memoReceipt'[<<c, q>>] = memoReceipt[<<c, q>>]
        BY <1>1, <3>2 DEF Receipts
      <4> QED
        BY <2>1, <4>1 DEF CorrectionInv, ReceiptsInOrder
    <3> QED
      BY <3>1, <3>2
  <2> QED
    BY <2>1 DEF ReceiptsInOrder
<1>4. ASSUME NEW x \in Receipts, CleanAt(x) \/ (x = <<d, r>> /\ ~Held(row)) PROVE CleanAt(x)'
  <2>1. CASE x = <<d, r>>
    <3>1. x[1] = d
      BY <2>1
    <3> QED
      BY <1>1, <1>4, <2>1, <3>1 DEF CleanAt, Stands
  <2>2. CASE x # <<d, r>>
    BY <1>1, <1>4, <2>2 DEF CleanAt, Stands
  <2> QED
    BY <2>1, <2>2
<1>5. SweepStands'
  BY <1>4 DEF CorrectionInv, SweepStands
<1>6. PageStands'
  BY <1>4 DEF CorrectionInv, PageStands
<1>7. AllRemembered'
  BY Keys DEF CorrectionInv, AllRemembered
<1> QED
  BY <1>2, <1>3, <1>5, <1>6, <1>7 DEF CorrectionInv

LEMMA InsertStep ==
  ASSUME CorrectionInv, InsertReceipt
  PROVE  CorrectionInv'
<1>f. /\ decisions \in Nat /\ AskersStand /\ sweep \in SweepRow /\ queueing \in QueueRow /\ writing \in WriteRow
      /\ asked \subseteq Memo \X (0..MaxDecision) /\ sessionAt \in [SessionKey -> SessionRevision] /\ reviewed \in BOOLEAN
      /\ memoReceipt \in [Receipts -> MemoRow]
  BY DEF CorrectionInv, CorrectionTyped
<1>n. NoMemo \in QueueRow /\ ~NoMemo.on
  BY Keys DEF NoMemo, QueueRow
<1>1. PICK d \in Memo, r \in SessionRevision, e \in Nat : d = queueing.doc /\ r = queueing.revision /\ e = queueing.asked
  BY <1>f DEF InsertReceipt, AskersStand, QueueRow
<1>2. UNCHANGED <<decisions, retiredMessages, sessionAt, reviewed, sweeper, writing>> /\ queueing' = NoMemo
  BY DEF InsertReceipt, Queues
<1>a. ASSUME asked' \subseteq asked PROVE AskersStand'
  BY <1>n, <1>2, <1>a, <1>f DEF AskersStand
<1>3. CASE UNCHANGED <<memoReceipt, asked, sweep>>
  <2>1. AllRemembered'
    BY <1>2, <1>3 DEF CorrectionInv, AllRemembered, Remembered, Stands, LiveIn
  <2> QED
    BY <1>f, <1>n, <1>a, <1>2, <1>3, <2>1, AskedAnew
<1>4. CASE sessionAt[KeyOf(d)] = r /\ asked' = asked \ {<<d, e>>} /\ memoReceipt[<<d, r>>] # Unwritten
           /\ UNCHANGED <<memoReceipt, sweep>>
  <2>1. LiveIn(d, r)
    BY <1>4 DEF CorrectionInv, ReceiptsInOrder, LiveIn
  <2>2. ASSUME NEW m, Remembered(m) PROVE Remembered(m)'
    BY <1>2, <1>4, <2>1, <2>2 DEF Remembered, Stands, LiveIn
  <2>3. AllRemembered'
    BY <1>2, <1>4, <2>2 DEF CorrectionInv, AllRemembered
  <2> QED
    BY <1>f, <1>n, <1>a, <1>2, <1>4, <2>3, AskedAnew
<1>5. CASE sessionAt[KeyOf(d)] = r /\ asked' = asked \ {<<d, e>>} /\ memoReceipt[<<d, r>>] = Unwritten
           /\ memoReceipt' = [memoReceipt EXCEPT ![<<d, r>>] = Requested] /\ Inserted({<<d, r>>})
  <2>1. PICK row \in MemoRow : row = Requested
    BY DEF Requested, MemoRow
  <2>2. row.live = TRUE /\ row.state = "pending" /\ row # Unwritten
    BY <2>1 DEF Requested, Unwritten
  <2>3. PICK behind \in SUBSET {<<d, r>>} :
          sweep' = IF sweep.stage = "sources" THEN [sweep EXCEPT !.passed = @ \cup behind] ELSE sweep
    BY <1>5 DEF Inserted
  <2>4. behind \in SUBSET Receipts /\ <<d, r>> \in Receipts
    BY DEF Receipts
  <2>5. sweep' \in SweepRow /\ sweep'.stage = sweep.stage
    BY <1>f, <2>3, <2>4 DEF SweepRow
  <2>a. \A x \in Receipts : x \in sweep'.passed => x \in sweep.passed \/ (x = <<d, r>> /\ ~Held(row))
    BY <1>f, <2>2, <2>3, <2>4 DEF SweepRow, Held
  <2>b. \A x \in Receipts : x \in sweep.passed => x \in sweep'.passed
    BY <1>f, <2>3, <2>4 DEF SweepRow
  <2>c. Held(row) => Stands(d) \/ Held(memoReceipt[<<d, r>>])
    BY <2>2 DEF Held
  <2>d. row.live <=> r = sessionAt[KeyOf(d)]
    BY <1>5, <2>2
  <2>6. memoReceipt' = [memoReceipt EXCEPT ![<<d, r>>] = row] /\ r <= sessionAt[KeyOf(d)]
    BY <1>5, <2>1, Keys
  <2>7. asked' \subseteq Memo \X (0..MaxDecision) /\ AskersStand'
    BY <1>a, <1>f, <1>5
  <2>8. WriterStands'
    <3>1. ASSUME writing.on PROVE writing.doc \in Memo /\ memoReceipt'[<<writing.doc, writing.revision>>].state = "uncertain"
      <4>1. /\ writing.doc \in Memo /\ writing.revision \in SessionRevision
            /\ memoReceipt[<<writing.doc, writing.revision>>].state = "uncertain"
        BY <1>f, <3>1 DEF CorrectionInv, WriterStands, WriteRow
      <4>2. <<writing.doc, writing.revision>> # <<d, r>>
        BY <1>5, <4>1 DEF Unwritten
      <4> QED
        BY <1>f, <2>6, <4>1, <4>2 DEF Receipts
    <3> QED
      BY <1>2, <3>1 DEF WriterStands
  <2>9. ASSUME NEW m \in Memo, Remembered(m) PROVE Remembered(m)'
    <3>1. memoReceipt'[<<d, r>>].live = TRUE
      BY <1>f, <2>2, <2>4, <2>6
    <3>2. \A x \in Receipts : memoReceipt[x].live => memoReceipt'[x].live
      BY <1>f, <2>2, <2>6
    <3>3. <<m, sessionAt[KeyOf(m)]>> \in Receipts
      BY <1>f, Keys DEF Receipts
    <3> QED
      BY <1>2, <1>5, <2>9, <3>1, <3>2, <3>3 DEF Remembered, Stands, LiveIn
  <2> QED
    <3>1. UNCHANGED <<decisions, retiredMessages, sessionAt, sweeper, reviewed>> /\ queueing' \in QueueRow /\ writing' \in WriteRow
      BY <1>f, <1>n, <1>2
    <3>2. row # Unwritten
      BY <2>2
    <3> QED
      BY <2>5, <2>6, <2>7, <2>8, <2>9, <2>a, <2>b, <2>c, <2>d, <3>1, <3>2, ReceiptChanged, ZenonT(60)
<1> QED
  BY <1>1, <1>3, <1>4, <1>5 DEF InsertReceipt

\* A receipt is written under its own evidence, and what is written was.
LEMMA WriteStep ==
  ASSUME CorrectionInv, FinishWrite \/ \E d \in Memo, r \in SessionRevision : BeginWrite(d, r)
  PROVE  CorrectionInv'
<1>f. /\ sweep \in SweepRow /\ queueing \in QueueRow /\ writing \in WriteRow
      /\ asked \subseteq Memo \X (0..MaxDecision) /\ memoReceipt \in [Receipts -> MemoRow]
      /\ sessionAt \in [SessionKey -> SessionRevision]
  BY DEF CorrectionInv, CorrectionTyped
<1>1. UNCHANGED <<decisions, retiredMessages, sessionAt, asked, sweep, reviewed, sweeper, queueing>>
  BY DEF FinishWrite, BeginWrite, Writes
<1>n. NoWrite \in WriteRow /\ ~NoWrite.on
  BY Keys DEF NoWrite, WriteRow
<1>2. ASSUME NEW d \in Memo, NEW r \in SessionRevision, NEW row \in MemoRow,
             memoReceipt' = [memoReceipt EXCEPT ![<<d, r>>] = row], memoReceipt[<<d, r>>] # Unwritten, row # Unwritten,
             row.live = memoReceipt[<<d, r>>].live,
             Held(row) => Stands(d) \/ Held(memoReceipt[<<d, r>>]), writing' \in WriteRow, WriterStands'
      PROVE  CorrectionInv'
  <2>1. r <= sessionAt[KeyOf(d)] /\ (row.live <=> r = sessionAt[KeyOf(d)])
    BY <1>2 DEF CorrectionInv, ReceiptsInOrder
  <2>2. AskersStand'
    BY <1>1 DEF CorrectionInv, AskersStand
  <2>3. ASSUME NEW m \in Memo, Remembered(m) PROVE Remembered(m)'
    <3>1. <<m, sessionAt[KeyOf(m)]>> \in Receipts
      BY <1>f, Keys DEF Receipts
    <3>2. \A x \in Receipts : memoReceipt'[x].live = memoReceipt[x].live
      BY <1>f, <1>2
    <3> QED
      BY <1>1, <2>3, <3>1, <3>2 DEF Remembered, Stands, LiveIn
  <2> QED
    BY <1>f, <1>1, <1>2, <2>1, <2>2, <2>3, ReceiptChanged
<1>3. CASE FinishWrite
  <2>1. PICK d \in Memo, r \in SessionRevision : d = writing.doc /\ r = writing.revision
    BY <1>f, <1>3 DEF FinishWrite, CorrectionInv, WriterStands, WriteRow
  <2>2. PICK was \in MemoRow : was = memoReceipt[<<d, r>>]
    BY <1>f DEF Receipts
  <2>3. PICK row \in MemoRow : row = [was EXCEPT !.state = "done", !.open = FALSE]
    <3>1. [was EXCEPT !.state = "done", !.open = FALSE] \in MemoRow
      BY Zenon DEF MemoRow
    <3> QED
      BY <3>1
  <2>4. row.state = "done" /\ row.live = was.live
    BY <2>3, Zenon DEF MemoRow
  <2>5. memoReceipt' = [memoReceipt EXCEPT ![<<d, r>>] = row] /\ writing' = NoWrite
    BY <1>3, <2>1, <2>2, <2>3 DEF FinishWrite
  <2>6. was.state = "uncertain"
    BY <1>3, <2>1, <2>2 DEF FinishWrite, CorrectionInv, WriterStands
  <2>7. was # Unwritten /\ row # Unwritten
    BY <2>4, <2>6 DEF Unwritten
  <2>8. Held(row) => Held(memoReceipt[<<d, r>>])
    BY <2>2, <2>4, <2>6 DEF Held
  <2> QED
    BY <1>2, <1>n, <2>2, <2>4, <2>5, <2>7, <2>8 DEF WriterStands
<1>4. ASSUME NEW d \in Memo, NEW r \in SessionRevision, BeginWrite(d, r) PROVE CorrectionInv'
  <2>1. PICK was \in MemoRow : was = memoReceipt[<<d, r>>]
    BY <1>f DEF Receipts
  <2>2. was.state = "pending" /\ was # Unwritten
    BY <1>4, <2>1 DEF BeginWrite, Unwritten
  <2>3. CASE MayWrite(d, r)
    <3>1. PICK row \in MemoRow : row = [was EXCEPT !.state = "uncertain"]
      BY DEF MemoRow
    <3>2. row.state = "uncertain" /\ row.live = was.live /\ row # Unwritten
      BY <3>1 DEF MemoRow, Unwritten
    <3>3. memoReceipt' = [memoReceipt EXCEPT ![<<d, r>>] = row] /\ writing' = [on |-> TRUE, doc |-> d, revision |-> r]
      BY <1>4, <2>1, <2>3, <3>1 DEF BeginWrite
    <3>4. writing' \in WriteRow /\ writing'.doc = d /\ writing'.revision = r
      BY <3>3 DEF WriteRow
    <3>5. WriterStands'
      BY <1>f, <3>2, <3>3, <3>4 DEF WriterStands, Receipts
    <3> QED
      BY <1>2, <2>1, <2>2, <2>3, <3>2, <3>3, <3>4, <3>5 DEF MayWrite
  <2>4. CASE ~MayWrite(d, r)
    <3>1. PICK row \in MemoRow : row = [was EXCEPT !.open = FALSE]
      BY DEF MemoRow
    <3>2. row.state = "pending" /\ row.live = was.live /\ row # Unwritten
      BY <2>2, <3>1 DEF MemoRow, Unwritten
    <3>3. memoReceipt' = [memoReceipt EXCEPT ![<<d, r>>] = row] /\ writing' = writing /\ ~writing.on
      BY <1>4, <2>1, <2>4, <3>1 DEF BeginWrite
    <3> QED
      BY <1>2, <1>f, <2>1, <2>2, <3>2, <3>3 DEF WriterStands, Held
  <2> QED
    BY <2>3, <2>4
<1> QED
  BY <1>3, <1>4

\* A page is the live receipts ahead of the cursor, all of them if it is the last.
LEMMA LastPage ==
  ASSUME CorrectionInv, NEW page, NEW ahead, ahead = LiveReceipts \ sweep.passed, page \subseteq ahead,
         Cardinality(page) = IF Cardinality(ahead) < PageSize THEN Cardinality(ahead) ELSE PageSize,
         Cardinality(page) < PageSize
  PROVE  page = ahead
<1>1. IsFiniteSet(Memo) /\ IsFiniteSet(SessionRevision)
  <2>1. IsFiniteSet(Memo)
    BY CorrectionAssumption, FS_Union DEF Memo
  <2>2. IsFiniteSet(SessionRevision)
    <3>1. 1 \in Int /\ MaxSessionRevision \in Int
      BY Keys
    <3> QED
      BY <3>1, FS_Interval DEF SessionRevision
  <2> QED
    BY <2>1, <2>2
<1>2. IsFiniteSet(Receipts)
  BY <1>1, FS_Product DEF Receipts
<1>3. ahead \subseteq Receipts
  BY DEF LiveReceipts, Receipts
<1>4. IsFiniteSet(ahead)
  BY <1>2, <1>3, FS_Subset
<1>5. Cardinality(page) = Cardinality(ahead)
  BY CorrectionAssumption
<1> QED
  BY <1>4, <1>5, FS_Subset

LEMMA PageStep ==
  ASSUME CorrectionInv, ReadSweepPage \/ SavePage
  PROVE  CorrectionInv'
<1>f. decisions \in Nat /\ sweep \in SweepRow /\ sweeper \in PageRow
  BY DEF CorrectionInv, CorrectionTyped
<1>1. UNCHANGED <<decisions, retiredMessages, sessionAt, memoReceipt, asked, reviewed, queueing, writing>>
  BY DEF ReadSweepPage, SavePage
<1>2. \A x : CleanAt(x)' <=> CleanAt(x)
  BY <1>1 DEF CleanAt, Stands
<1>3. ASSUME sweeper' \in PageRow, sweep' \in SweepRow, sweep'.stage = "done" => sweep.stage = "done",
             SweepStands', PageStands'
      PROVE  CorrectionInv'
  <2>1. CorrectionTyped' /\ ReceiptsInOrder' /\ AskersStand' /\ WriterStands'
    BY <1>1, <1>3 DEF CorrectionInv, CorrectionTyped, ReceiptsInOrder, AskersStand, WriterStands
  <2>2. AllRemembered'
    BY <1>1, <1>3 DEF CorrectionInv, AllRemembered, Remembered, Stands, LiveIn
  <2> QED
    BY <1>3, <2>1, <2>2 DEF CorrectionInv
<1>4. CASE ReadSweepPage
  <2>1. PICK page \in SUBSET (LiveReceipts \ sweep.passed) :
          /\ Cardinality(page) = IF Cardinality(LiveReceipts \ sweep.passed) < PageSize
                                 THEN Cardinality(LiveReceipts \ sweep.passed) ELSE PageSize
          /\ sweeper' = [on |-> TRUE, under |-> decisions, page |-> page,
                         last |-> Cardinality(page) < PageSize, checked |-> FALSE]
    BY <1>4 DEF ReadSweepPage
  <2>2. PICK last \in BOOLEAN : last = (Cardinality(page) < PageSize)
    <3>1. (Cardinality(page) < PageSize) \in BOOLEAN
      OBVIOUS
    <3> QED
      BY <3>1, Zenon
  <2>3. page \in SUBSET Receipts
    BY DEF LiveReceipts, Receipts
  <2>4. sweeper' = [on |-> TRUE, under |-> decisions, page |-> page, last |-> last, checked |-> FALSE]
    BY <2>1, <2>2, Zenon
  <2>5. /\ sweeper' \in PageRow /\ sweeper'.under = decisions /\ sweeper'.page = page /\ sweeper'.last = last
        /\ sweeper'.checked = FALSE
    BY <1>f, <2>3, <2>4 DEF PageRow
  <2>6. sweep' = sweep /\ sweep.stage = "sources"
    BY <1>4 DEF ReadSweepPage
  <2>7. ASSUME last, NEW x \in Receipts, x \notin sweep.passed \cup page PROVE CleanAt(x)
    <3>1. page = LiveReceipts \ sweep.passed
      BY <2>1, <2>2, <2>7, LastPage
    <3>2. x \notin LiveReceipts
      BY <2>7, <3>1
    <3>3. ~memoReceipt[x].live
      <4>1. x = <<x[1], x[2]>>
        BY DEF Receipts
      <4> QED
        BY <3>2, <4>1 DEF LiveReceipts, LiveIn, Receipts
    <3> QED
      BY <3>3 DEF CleanAt, Held
  <2>8. PageStands'
    BY <1>f, <1>1, <1>2, <2>5, <2>6, <2>7 DEF PageStands
  <2>9. SweepStands'
    BY <1>2, <2>6 DEF CorrectionInv, SweepStands
  <2> QED
    BY <1>3, <1>f, <2>5, <2>6, <2>8, <2>9
<1>5. CASE SavePage
  <2>1. sweeper.on /\ sweeper.checked /\ sweeper' = NoPage
    BY <1>5 DEF SavePage
  <2>2. NoPage \in PageRow /\ ~NoPage.on
    BY DEF NoPage, PageRow
  <2>3. PageStands'
    BY <2>1, <2>2 DEF PageStands
  <2>4. CASE sweeper.under # decisions
    <3>1. sweep' = sweep
      BY <1>5, <2>4 DEF SavePage
    <3>2. SweepStands'
      BY <1>2, <3>1 DEF CorrectionInv, SweepStands
    <3> QED
      BY <1>3, <1>f, <2>1, <2>2, <2>3, <3>1, <3>2
  <2>5. CASE sweeper.under = decisions
    <3>1. sweep' = [stage |-> IF sweeper.last THEN "learned" ELSE "sources",
                    passed |-> IF sweeper.last THEN {} ELSE sweep.passed \cup sweeper.page]
      BY <1>5, <2>5 DEF SavePage
    <3>2. /\ sweep' \in SweepRow /\ sweep'.stage # "done"
          /\ sweep'.stage # "sources" => sweeper.last
          /\ \A x : x \in sweep'.passed => x \in sweep.passed \cup sweeper.page
      BY <1>f, <3>1 DEF SweepRow, PageRow
    <3>3. ASSUME NEW x \in Receipts, sweeper.last \/ x \in sweep.passed \cup sweeper.page PROVE CleanAt(x)
      BY <2>1, <2>5, <3>3 DEF CorrectionInv, SweepStands, PageStands
    <3>4. SweepStands'
      BY <1>2, <3>2, <3>3 DEF SweepStands
    <3> QED
      BY <1>3, <2>1, <2>2, <2>3, <3>2, <3>4
  <2> QED
    BY <2>4, <2>5
<1> QED
  BY <1>4, <1>5

\* A rebuild of the sessions of a page's withdrawn receipts.
LEMMA CheckStep ==
  ASSUME CorrectionInv, CheckPage
  PROVE  CorrectionInv'
<1>f. /\ decisions \in 0..MaxDecision /\ decisions \in Nat /\ sweep \in SweepRow /\ sweeper \in PageRow
      /\ sessionAt \in [SessionKey -> SessionRevision] /\ memoReceipt \in [Receipts -> MemoRow]
      /\ asked \subseteq Memo \X (0..MaxDecision) /\ writing \in WriteRow
  BY DEF CorrectionInv, CorrectionTyped
<1>1. UNCHANGED <<decisions, retiredMessages, reviewed, queueing, writing>> /\ sweeper.on
  BY DEF CheckPage
<1>2. CASE sweeper.under # decisions
  <2>1. sweeper' = NoPage /\ UNCHANGED <<sessionAt, memoReceipt, asked, sweep>>
    BY <1>2 DEF CheckPage
  <2>2. NoPage \in PageRow /\ ~NoPage.on
    BY DEF NoPage, PageRow
  <2>3. CorrectionTyped' /\ ReceiptsInOrder' /\ AskersStand' /\ WriterStands'
    BY <1>1, <2>1, <2>2 DEF CorrectionInv, CorrectionTyped, ReceiptsInOrder, AskersStand, WriterStands
  <2>4. SweepStands' /\ AllRemembered'
    BY <1>1, <2>1 DEF CorrectionInv, SweepStands, CleanAt, AllRemembered, Remembered, Stands, LiveIn
  <2>5. PageStands'
    BY <2>1, <2>2 DEF PageStands
  <2> QED
    BY <2>3, <2>4, <2>5 DEF CorrectionInv
<1>3. CASE sweeper.under = decisions
  <2>1. PICK keys : /\ keys = {KeyOf(x[1]) : x \in {y \in sweeper.page : ~Stands(y[1])}}
                    /\ Rebuild(keys) /\ sweeper' = [sweeper EXCEPT !.checked = TRUE]
    BY <1>3 DEF CheckPage
  <2>a. /\ sweeper' \in PageRow /\ sweeper'.on = sweeper.on /\ sweeper'.page = sweeper.page /\ sweeper'.last = sweeper.last
        /\ sweeper'.under = sweeper.under
    BY <1>f, <2>1 DEF PageRow
  <2> DEFINE Old(d) == KeyOf(d) \in keys /\ LiveIn(d, sessionAt[KeyOf(d)])
             carried == {<<d, sessionAt[KeyOf(d)] + 1>> : d \in {x \in Memo : Old(x) /\ Stands(x)}}
  <2>2. /\ \A k \in keys : sessionAt[k] < MaxSessionRevision
        /\ sessionAt' = [k \in SessionKey |-> IF k \in keys THEN sessionAt[k] + 1 ELSE sessionAt[k]]
        /\ memoReceipt' = [x \in Memo \X SessionRevision |->
             IF x \in carried THEN Requested
             ELSE IF Old(x[1]) /\ x[2] = sessionAt[KeyOf(x[1])] THEN [memoReceipt[x] EXCEPT !.live = FALSE]
             ELSE memoReceipt[x]]
        /\ asked' = asked \cup {m \in Message : Old(m) /\ ~Stands(m)} \X {decisions}
        /\ Inserted(carried)
    BY <2>1 DEF Rebuild
  <2>3. sessionAt' \in [SessionKey -> SessionRevision]
    <3>1. ASSUME NEW k \in SessionKey PROVE (IF k \in keys THEN sessionAt[k] + 1 ELSE sessionAt[k]) \in SessionRevision
      BY <1>f, <2>2, Keys DEF SessionRevision
    <3> QED
      BY <2>2, <3>1
  <2>4. ASSUME NEW d \in Memo PROVE /\ sessionAt[KeyOf(d)] \in SessionRevision /\ sessionAt[KeyOf(d)] \in Nat
                                    /\ KeyOf(d) \in keys => sessionAt'[KeyOf(d)] = sessionAt[KeyOf(d)] + 1
                                                              /\ sessionAt[KeyOf(d)] + 1 \in SessionRevision
                                    /\ KeyOf(d) \notin keys => sessionAt'[KeyOf(d)] = sessionAt[KeyOf(d)]
    BY <1>f, <2>2, <2>3, Keys
  <2>5. ASSUME NEW d \in Memo, NEW q \in SessionRevision
        PROVE  <<d, q>> \in carried <=> Old(d) /\ Stands(d) /\ q = sessionAt[KeyOf(d)] + 1
    OBVIOUS
  <2>6. carried \subseteq Receipts
    BY <2>4 DEF Receipts
  <2> HIDE DEF carried, Old
  <2>7. ASSUME NEW d \in Memo, NEW q \in SessionRevision
        PROVE  memoReceipt'[<<d, q>>] =
                 IF Old(d) /\ Stands(d) /\ q = sessionAt[KeyOf(d)] + 1 THEN Requested
                 ELSE IF Old(d) /\ q = sessionAt[KeyOf(d)] THEN [memoReceipt[<<d, q>>] EXCEPT !.live = FALSE]
                 ELSE memoReceipt[<<d, q>>]
    <3>1. <<d, q>> \in Memo \X SessionRevision /\ <<d, q>>[1] = d /\ <<d, q>>[2] = q
      OBVIOUS
    <3> QED
      BY <2>2, <2>5, <3>1
  <2>8. PICK fresh \in MemoRow : fresh = Requested
    BY DEF Requested, MemoRow
  <2>9. fresh.live = TRUE /\ fresh.state = "pending"
    BY <2>8 DEF Requested
  <2>10. ASSUME NEW d \in Memo, NEW q \in SessionRevision
         PROVE  /\ [memoReceipt[<<d, q>>] EXCEPT !.live = FALSE] \in MemoRow
                /\ [memoReceipt[<<d, q>>] EXCEPT !.live = FALSE].live = FALSE
                /\ [memoReceipt[<<d, q>>] EXCEPT !.live = FALSE].state = memoReceipt[<<d, q>>].state
    BY <1>f DEF MemoRow, Receipts
  <2>r. ASSUME NEW d \in Memo, NEW q \in SessionRevision, Old(d), q = sessionAt[KeyOf(d)]
        PROVE  memoReceipt'[<<d, q>>].live = FALSE /\ memoReceipt'[<<d, q>>].state = memoReceipt[<<d, q>>].state
    <3>1. q # sessionAt[KeyOf(d)] + 1
      BY <2>4, <2>r
    <3>2. PICK row : row = [memoReceipt[<<d, q>>] EXCEPT !.live = FALSE]
      OBVIOUS
    <3>3. row.live = FALSE /\ row.state = memoReceipt[<<d, q>>].state
      BY <2>10, <3>2
    <3>4. memoReceipt'[<<d, q>>] = row
      BY <2>7, <2>r, <3>1, <3>2
    <3> QED
      BY <3>3, <3>4
  <2>11. memoReceipt' \in [Receipts -> MemoRow]
    <3>1. ASSUME NEW x \in Receipts PROVE memoReceipt'[x] \in MemoRow
      <4>1. PICK d \in Memo, q \in SessionRevision : x = <<d, q>>
        BY DEF Receipts
      <4>2. memoReceipt[x] \in MemoRow
        BY <1>f
      <4> QED
        BY <2>7, <2>8, <2>10, <4>1, <4>2
    <3>2. memoReceipt' = [x \in Receipts |-> memoReceipt'[x]]
      BY <2>2 DEF Receipts
    <3> QED
      BY <3>1, <3>2
  <2>12. ReceiptsInOrder'
    <3>1. ASSUME NEW d \in Memo, NEW q \in SessionRevision, memoReceipt'[<<d, q>>] # Unwritten
          PROVE  q <= sessionAt'[KeyOf(d)] /\ (memoReceipt'[<<d, q>>].live <=> q = sessionAt'[KeyOf(d)])
      <4>1. CASE KeyOf(d) \notin keys
        <5>1. memoReceipt'[<<d, q>>] = memoReceipt[<<d, q>>] /\ sessionAt'[KeyOf(d)] = sessionAt[KeyOf(d)]
          BY <2>4, <2>7, <4>1 DEF Old
        <5> QED
          BY <3>1, <5>1 DEF CorrectionInv, ReceiptsInOrder
      <4>2. CASE KeyOf(d) \in keys
        <5>1. sessionAt'[KeyOf(d)] = sessionAt[KeyOf(d)] + 1 /\ sessionAt[KeyOf(d)] \in Nat /\ q \in Nat
          BY <2>4, <4>2, Keys
        <5>2. CASE Old(d) /\ Stands(d) /\ q = sessionAt[KeyOf(d)] + 1
          <6>1. memoReceipt'[<<d, q>>] = fresh
            BY <2>7, <2>8, <5>2
          <6> QED
            BY <2>9, <5>1, <5>2, <6>1
        <5>3. CASE ~(Old(d) /\ Stands(d) /\ q = sessionAt[KeyOf(d)] + 1) /\ Old(d) /\ q = sessionAt[KeyOf(d)]
          <6>1. memoReceipt'[<<d, q>>].live = FALSE
            BY <2>r, <5>3
          <6> QED
            BY <5>1, <5>3, <6>1
        <5>4. CASE ~(Old(d) /\ Stands(d) /\ q = sessionAt[KeyOf(d)] + 1) /\ ~(Old(d) /\ q = sessionAt[KeyOf(d)])
          <6>1. memoReceipt'[<<d, q>>] = memoReceipt[<<d, q>>]
            BY <2>7, <5>4
          <6>2. q <= sessionAt[KeyOf(d)] /\ (memoReceipt[<<d, q>>].live <=> q = sessionAt[KeyOf(d)])
            BY <3>1, <6>1 DEF CorrectionInv, ReceiptsInOrder
          <6>3. q # sessionAt[KeyOf(d)]
            BY <4>2, <5>4, <6>2 DEF Old, LiveIn
          <6> QED
            BY <5>1, <6>1, <6>2, <6>3
        <5> QED
          BY <5>2, <5>3, <5>4
      <4> QED
        BY <4>1, <4>2
    <3> QED
      BY <3>1 DEF ReceiptsInOrder
  <2>13. ASSUME NEW x \in Receipts, CleanAt(x) \/ x \in carried \/ KeyOf(x[1]) \in keys PROVE CleanAt(x)'
    <3>1. PICK d \in Memo, q \in SessionRevision : x = <<d, q>>
      BY DEF Receipts
    <3>2. x[1] = d
      BY <3>1
    <3>3. CASE Old(d) /\ Stands(d) /\ q = sessionAt[KeyOf(d)] + 1
      <4>1. ~Held(memoReceipt'[x])
        BY <2>7, <2>8, <2>9, <3>1, <3>3 DEF Held
      <4> QED
        BY <4>1 DEF CleanAt
    <3>4. CASE ~(Old(d) /\ Stands(d) /\ q = sessionAt[KeyOf(d)] + 1) /\ Old(d) /\ q = sessionAt[KeyOf(d)]
      <4>1. memoReceipt'[x].live = FALSE
        BY <2>r, <3>1, <3>4
      <4> QED
        BY <4>1 DEF CleanAt, Held
    <3>5. CASE ~(Old(d) /\ Stands(d) /\ q = sessionAt[KeyOf(d)] + 1) /\ ~(Old(d) /\ q = sessionAt[KeyOf(d)])
      <4>1. memoReceipt'[x] = memoReceipt[x]
        BY <2>7, <3>1, <3>5
      <4>2. x \notin carried
        BY <2>5, <3>1, <3>5
      <4>3. CASE CleanAt(x)
        BY <1>1, <4>1, <4>3 DEF CleanAt, Stands
      <4>4. CASE KeyOf(d) \in keys
        <5>1. memoReceipt[x].live => memoReceipt[x] # Unwritten
          BY DEF Unwritten
        <5>2. memoReceipt[x].live => q = sessionAt[KeyOf(d)]
          BY <3>1, <5>1 DEF CorrectionInv, ReceiptsInOrder
        <5>3. ~memoReceipt[x].live
          BY <3>1, <3>5, <4>4, <5>2 DEF Old, LiveIn
        <5> QED
          BY <4>1, <5>3 DEF CleanAt, Held
      <4> QED
        BY <2>13, <3>2, <4>2, <4>3, <4>4
    <3> QED
      BY <3>3, <3>4, <3>5
  <2>14. /\ sweep' \in SweepRow /\ sweep'.stage = sweep.stage /\ sweep.stage = "sources"
         /\ \A x : x \in sweep'.passed => x \in sweep.passed \/ x \in carried
         /\ \A x : x \in sweep.passed => x \in sweep'.passed
    <3>1. sweep.stage = "sources"
      BY <1>1, <1>3 DEF CorrectionInv, PageStands
    <3>2. PICK behind \in SUBSET carried : sweep' = [sweep EXCEPT !.passed = @ \cup behind]
      BY <2>2, <3>1 DEF Inserted
    <3>3. behind \in SUBSET Receipts
      BY <2>6
    <3> QED
      BY <1>f, <3>1, <3>2, <3>3 DEF SweepRow
  <2>15. SweepStands'
    BY <2>13, <2>14 DEF CorrectionInv, SweepStands
  <2>16. PageStands'
    <3>1. ASSUME NEW x \in Receipts, sweeper.last, x \notin sweep'.passed \cup sweeper.page PROVE CleanAt(x)'
      <4>1. CleanAt(x)
        BY <1>1, <1>3, <2>14, <3>1 DEF CorrectionInv, PageStands
      <4> QED
        BY <2>13, <4>1
    <3>2. ASSUME NEW x \in Receipts, x \in sweeper.page PROVE CleanAt(x)'
      <4>1. CASE Stands(x[1])
        BY <1>1, <4>1 DEF CleanAt, Stands
      <4>2. CASE ~Stands(x[1])
        <5>1. KeyOf(x[1]) \in keys
          BY <2>1, <3>2, <4>2
        <5> QED
          BY <2>13, <5>1
      <4> QED
        BY <4>1, <4>2
    <3>3. sweeper.under <= decisions
      BY <1>1, <1>3, <1>f
    <3> QED
      BY <1>1, <2>14, <2>a, <3>1, <3>2, <3>3 DEF PageStands
  <2>17. asked' \subseteq Memo \X (0..MaxDecision) /\ AskersStand'
    <3>1. \A y \in asked' : y \in asked \/ (y[1] \in Message /\ y = <<y[1], decisions>>)
      BY <2>2
    <3>2. asked' \subseteq Memo \X (0..MaxDecision)
      BY <1>f, <3>1, Keys
    <3>3. ASSUME NEW d \in Memo, NEW e \in 0..MaxDecision, <<d, e>> \in asked' PROVE e <= decisions
      <4>1. <<d, e>> \in asked \/ e = decisions
        BY <3>1, <3>3
      <4> QED
        BY <1>f, <4>1 DEF CorrectionInv, AskersStand
    <3> QED
      BY <1>1, <3>2, <3>3 DEF CorrectionInv, AskersStand
  <2>18. WriterStands'
    <3>1. ASSUME writing.on
          PROVE  writing.doc \in Memo /\ memoReceipt'[<<writing.doc, writing.revision>>].state = "uncertain"
      <4>1. PICK d \in Memo, q \in SessionRevision : d = writing.doc /\ q = writing.revision
        BY <1>f, <3>1 DEF CorrectionInv, WriterStands, WriteRow
      <4>2. memoReceipt[<<d, q>>].state = "uncertain" /\ memoReceipt[<<d, q>>] # Unwritten
        BY <3>1, <4>1 DEF CorrectionInv, WriterStands, Unwritten
      <4>3. q <= sessionAt[KeyOf(d)] /\ sessionAt[KeyOf(d)] \in Nat /\ q \in Nat
        BY <2>4, <4>2, Keys DEF CorrectionInv, ReceiptsInOrder
      <4>4. q # sessionAt[KeyOf(d)] + 1
        BY <4>3
      <4> QED
        <5>1. CASE Old(d) /\ q = sessionAt[KeyOf(d)]
          BY <2>r, <4>1, <4>2, <5>1
        <5>2. CASE ~(Old(d) /\ q = sessionAt[KeyOf(d)])
          <6>1. memoReceipt'[<<d, q>>] = memoReceipt[<<d, q>>]
            BY <2>7, <4>4, <5>2
          <6> QED
            BY <4>1, <4>2, <6>1
        <5> QED
          BY <5>1, <5>2
    <3> QED
      BY <1>1, <3>1 DEF WriterStands
  <2>19. ASSUME NEW d \in Memo, Remembered(d) PROVE Remembered(d)'
    <3>1. ASSUME LiveIn(d, sessionAt[KeyOf(d)]), Stands(d) PROVE LiveIn(d, sessionAt[KeyOf(d)])'
      <4>1. PICK s \in SessionRevision : s = sessionAt[KeyOf(d)] /\ s \in Nat
        BY <2>4
      <4>2. CASE KeyOf(d) \in keys
        <5>1. PICK q \in SessionRevision : q = s + 1
          BY <2>4, <4>1, <4>2
        <5>2. memoReceipt'[<<d, q>>] = fresh
          BY <2>7, <2>8, <3>1, <4>1, <4>2, <5>1 DEF Old
        <5> QED
          BY <2>4, <2>9, <4>1, <4>2, <5>1, <5>2 DEF LiveIn
      <4>3. CASE KeyOf(d) \notin keys
        <5>1. memoReceipt'[<<d, s>>] = memoReceipt[<<d, s>>]
          BY <2>7, <4>3 DEF Old
        <5> QED
          BY <2>4, <3>1, <4>1, <4>3, <5>1 DEF LiveIn
      <4> QED
        BY <4>2, <4>3
    <3>2. <<d, decisions>> \in asked => <<d, decisions>> \in asked'
      BY <2>2
    <3> QED
      BY <1>1, <2>19, <3>1, <3>2 DEF Remembered, Stands
  <2>20. AllRemembered'
    BY <1>1, <2>14, <2>19, Keys DEF CorrectionInv, AllRemembered
  <2>21. CorrectionTyped'
    BY <1>1, <2>a, <2>3, <2>11, <2>14, <2>17 DEF CorrectionInv, CorrectionTyped
  <2> QED
    BY <2>12, <2>15, <2>16, <2>17, <2>18, <2>20, <2>21 DEF CorrectionInv
<1> QED
  BY <1>2, <1>3

LEMMA CorrectionStep == CorrectionInv /\ [CorrectionNext]_CorrectionVars => CorrectionInv'
<1> SUFFICES ASSUME CorrectionInv, [CorrectionNext]_CorrectionVars PROVE CorrectionInv'
  OBVIOUS
<1>1. CASE OtherCommand \/ \E m \in Message : DecideRetirement(m)
  <2>1. Command /\ retiredMessages' \subseteq Message
    BY <1>1 DEF OtherCommand, DecideRetirement, CorrectionInv, CorrectionTyped
  <2> QED
    BY <2>1, Decided
<1>2. CASE RefreshReview \/ RefreshLearned
  BY <1>2, RefreshStep
<1>3. CASE SupersedeQueueing \/ \E d \in Memo, e \in 0..MaxDecision : BeginQueueing(d, e) \/ RefuseQueueing(d, e)
  BY <1>3, QueueStep
<1>4. CASE InsertReceipt
  BY <1>4, InsertStep
<1>5. CASE FinishWrite \/ \E d \in Memo, r \in SessionRevision : BeginWrite(d, r)
  BY <1>5, WriteStep
<1>6. CASE ReadSweepPage \/ SavePage
  BY <1>6, PageStep
<1>7. CASE CheckPage
  BY <1>7, CheckStep
<1>8. CASE UNCHANGED CorrectionVars
  <2>1. /\ CorrectionTyped' /\ ReceiptsInOrder' /\ SweepStands' /\ PageStands'
        /\ AskersStand' /\ WriterStands' /\ AllRemembered'
    BY <1>8 DEF CorrectionInv, CorrectionVars, CorrectionTyped, ReceiptsInOrder, SweepStands, CleanAt, PageStands,
      AskersStand, WriterStands, AllRemembered, Remembered, Stands, LiveIn
  <2> QED
    BY <2>1 DEF CorrectionInv
<1> QED
  BY <1>1, <1>2, <1>3, <1>4, <1>5, <1>6, <1>7, <1>8 DEF CorrectionNext

LEMMA CorrectionHolds == CorrectionInv => CorrectionAgrees
<1> SUFFICES ASSUME CorrectionInv PROVE CorrectionAgrees
  OBVIOUS
<1>1. CorrectionTypeOK
  BY DEF CorrectionInv, CorrectionTyped, CorrectionTypeOK, Receipts, MemoRow, SweepRow
<1>2. SweptIsClean
  <2>1. \A x \in LiveReceipts : x \in Receipts /\ x = <<x[1], x[2]>>
    BY DEF LiveReceipts, Receipts
  <2>2. ASSUME NEW x \in LiveReceipts PROVE memoReceipt[x].live
    BY <2>1 DEF LiveReceipts, LiveIn
  <2> QED
    BY <2>1, <2>2 DEF CorrectionInv, SweepStands, CleanAt, Held, SweptIsClean
<1>3. NothingForgotten
  <2>1. ASSUME sweep.stage = "done", reviewed, NEW d \in Memo, Stands(d)
        PROVE  LiveIn(d, sessionAt[KeyOf(d)]) \/ \E e \in 0..MaxDecision : <<d, e>> \in asked
    <3>1. Remembered(d)
      BY <2>1, Keys DEF CorrectionInv, AllRemembered
    <3> QED
      BY <2>1, <3>1 DEF Remembered, CorrectionInv, CorrectionTyped
  <2> QED
    BY <2>1 DEF NothingForgotten
<1> QED
  BY <1>1, <1>2, <1>3 DEF CorrectionAgrees

\* What Honcho was given and is still live stands, once a sweep has passed it; and once both
\* refreshes of an epoch are done every memo that stands is live or still to be queued.
THEOREM CorrectionsAgree == CorrectionSpec => []CorrectionAgrees
<1>1. CorrectionSpec => []CorrectionInv
  BY CorrectionStarts, CorrectionStep, PTL DEF CorrectionSpec
<1> QED
  BY <1>1, CorrectionHolds, PTL

----------------------------------------------------------------------------
(* Reading.                                                                *)
(*                                                                         *)
(* While the epoch is the one a read began under nothing is withdrawn, so  *)
(* what it may hear stays clean when it was clean; and what a conversation *)
(* may hear was heard in it.                                               *)

Copied == [of : SUBSET (Place \X Nat), text : SUBSET Memory]
AskRow == [at : {"none", "asking", "guarded", "read"}, kind : {"recall", "context", "prefetch"},
           audience : Place \cup {Everywhere}, under : Nat, scope : SUBSET (Place \X Nat), calls : Int,
           heard : SUBSET Memory, corrections : SUBSET Memory, copy : Copied, young : BOOLEAN, late : BOOLEAN]
ReadingTyped ==
  /\ judged \in Nat /\ withdrawn \subseteq Memory /\ taking \in [Place -> Nat]
  /\ given \subseteq Memory \X (Place \X Nat) /\ refreshed \in BOOLEAN /\ asking \in AskRow

\* The sessions of a conversation are given what was heard there.
GivenWhereHeard == \A m \in Memory, p \in Place, r \in Nat : <<m, <<p, r>>>> \in given => HeardAt[m] = p
\* What an audience was told of may be told to it.
ToldItsOwn ==
  asking.audience # Everywhere =>
    /\ \A s \in asking.scope : s[1] = asking.audience
    /\ \A m \in asking.heard \cup asking.copy.text : HeardAt[m] = asking.audience
\* Under the epoch of the read nothing that is withdrawn is heard.
ToldNothingWithdrawn ==
  /\ asking.corrections \cap withdrawn = {}
  /\ ~asking.late =>
       /\ Clean(asking.audience) /\ (asking.heard \cup asking.copy.text) \cap withdrawn = {}
       /\ asking.audience # Everywhere => asking.scope \subseteq {Now(asking.audience)}
ReadingInv ==
  /\ ReadingTyped /\ GivenWhereHeard
  /\ asking.at # "none" => asking.under <= judged /\ ToldItsOwn
  /\ asking.at # "none" /\ asking.under = judged => ToldNothingWithdrawn

LEMMA ToldOf ==
  ASSUME ReadingTyped, NEW sessions, NEW m
  PROVE  m \in Told(sessions) <=> \E s \in sessions : <<m, s>> \in given
<1>1. ASSUME m \in Told(sessions) PROVE \E s \in sessions : <<m, s>> \in given
  <2>1. PICK g \in given : g[2] \in sessions /\ m = g[1]
    BY <1>1 DEF Told
  <2>2. g = <<g[1], g[2]>>
    BY <2>1 DEF ReadingTyped
  <2> QED
    BY <2>1, <2>2
<1>2. ASSUME NEW s \in sessions, <<m, s>> \in given PROVE m \in Told(sessions)
  BY <1>2 DEF Told
<1> QED
  BY <1>1, <1>2

LEMMA CleanOf ==
  ASSUME ReadingTyped, NEW a \in Place \cup {Everywhere}
  PROVE  Clean(a) <=>
           refreshed /\ \A m \in withdrawn, s \in Place \X Nat :
                          <<m, s>> \in given => a # Everywhere /\ s # Now(a)
<1>1. CASE a = Everywhere
  <2>1. ASSUME NEW m PROVE m \in Told(Sessions) <=> \E s \in Place \X Nat : <<m, s>> \in given
    <3>1. \A s : <<m, s>> \in given => s \in Sessions /\ s \in Place \X Nat
      BY DEF Sessions, ReadingTyped
    <3> QED
      BY <3>1, ToldOf
  <2> QED
    BY <1>1, <2>1 DEF Clean
<1>2. CASE a # Everywhere
  <2>1. ASSUME NEW m PROVE m \in Told({Now(a)}) <=> <<m, Now(a)>> \in given
    <3>1. PICK one : one = {Now(a)}
      OBVIOUS
    <3>2. m \in Told(one) <=> \E s \in one : <<m, s>> \in given
      BY ToldOf
    <3> QED
      BY <3>1, <3>2
  <2>2. \A m, s : <<m, s>> \in given => s \in Place \X Nat
    BY DEF ReadingTyped
  <2> QED
    BY <1>2, <2>1, <2>2 DEF Clean
<1> QED
  BY <1>1, <1>2

LEMMA ReadingStarts == ReadingInit => ReadingInv
<1> SUFFICES ASSUME ReadingInit PROVE ReadingInv
  OBVIOUS
<1>1. NoCopy \in Copied
  BY DEF NoCopy, Copied
<1>2. NotAsking \in AskRow /\ NotAsking.at = "none"
  BY <1>1 DEF NotAsking, AskRow
<1> QED
  BY <1>2 DEF ReadingInit, ReadingInv, ReadingTyped, GivenWhereHeard

\* What is decided, refreshed, deleted and given while a read is under way.
LEMMA Meanwhile ==
  ASSUME ReadingInv, UNCHANGED asking, ReadingTyped', GivenWhereHeard', judged <= judged',
         judged' = judged =>
           /\ withdrawn' = withdrawn
           /\ refreshed => refreshed' /\ taking' = taking
           /\ \A m \in withdrawn, s \in Place \X Nat : <<m, s>> \in given' => <<m, s>> \in given
  PROVE  ReadingInv'
<1>f. asking \in AskRow /\ judged \in Nat /\ judged' \in Nat /\ asking.under \in Nat /\ asking.audience \in Place \cup {Everywhere}
  BY DEF ReadingInv, ReadingTyped, AskRow
<1>1. ASSUME asking.at # "none" PROVE asking.under <= judged' /\ ToldItsOwn'
  BY <1>f, <1>1 DEF ReadingInv, ToldItsOwn
<1>2. ASSUME asking.at # "none", asking.under = judged' PROVE ToldNothingWithdrawn'
  <2>1. judged' = judged /\ ToldNothingWithdrawn
    BY <1>f, <1>2 DEF ReadingInv
  <2>2. ASSUME Clean(asking.audience) PROVE Clean(asking.audience)' /\ taking' = taking
    <3>1. PICK a \in Place \cup {Everywhere} : a = asking.audience
      BY <1>f
    <3>2. refreshed /\ \A m \in withdrawn, s \in Place \X Nat : <<m, s>> \in given => a # Everywhere /\ s # Now(a)
      BY <2>2, <3>1, CleanOf DEF ReadingInv
    <3>3. refreshed' /\ \A m \in withdrawn', s \in Place \X Nat : <<m, s>> \in given' => a # Everywhere /\ s # Now(a)'
      BY <2>1, <3>2 DEF Now
    <3>4. Clean(a)' <=> refreshed' /\ \A m \in withdrawn', s \in Place \X Nat :
                                       <<m, s>> \in given' => a # Everywhere /\ s # Now(a)'
      <4>1. ASSUME NEW sessions, NEW m
            PROVE  m \in {g[1] : g \in {x \in given' : x[2] \in sessions}} <=> \E s \in sessions : <<m, s>> \in given'
        <5>1. \A g \in given' : g = <<g[1], g[2]>>
          BY DEF ReadingTyped
        <5> QED
          BY <5>1
      <4>2. CASE a = Everywhere
        <5>1. ASSUME NEW m PROVE m \in Told(Sessions)' <=> \E s \in Place \X Nat : <<m, s>> \in given'
          <6>1. \A s : <<m, s>> \in given' => s \in Sessions' /\ s \in Place \X Nat
            BY DEF Sessions, ReadingTyped
          <6>2. m \in Told(Sessions)' <=> \E s \in Sessions' : <<m, s>> \in given'
            <7>1. Told(Sessions)' = {g[1] : g \in {x \in given' : x[2] \in Sessions'}}
              BY DEF Told
            <7> QED
              BY <4>1, <7>1, Zenon
          <6> QED
            BY <6>1, <6>2
        <5> QED
          BY <4>2, <5>1 DEF Clean
      <4>3. CASE a # Everywhere
        <5>1. ASSUME NEW m PROVE m \in Told({Now(a)})' <=> <<m, Now(a)'>> \in given'
          BY <4>1 DEF Told
        <5>2. \A m, s : <<m, s>> \in given' => s \in Place \X Nat
          BY DEF ReadingTyped
        <5> QED
          BY <4>3, <5>1, <5>2 DEF Clean
      <4> QED
        BY <4>2, <4>3
    <3>5. Clean(a)'
      BY <3>3, <3>4
    <3> QED
      BY <2>1, <3>1, <3>2, <3>5
  <2> QED
    BY <2>1, <2>2 DEF ToldNothingWithdrawn, Now
<1> QED
  BY <1>1, <1>2 DEF ReadingInv

LEMMA DecidedMeanwhile ==
  ASSUME ReadingInv,
         \/ Refresh
         \/ \E m \in Memory : Judge(m) \/ Give(m)
         \/ \E s \in Place \X (1..MaxTaking) : DeleteTaking(s)
         \/ \E c \in kept : PruneCopy(c)
         \/ UNCHANGED ReadingVars
  PROVE  ReadingInv'
<1>f. /\ ReadingTyped /\ GivenWhereHeard /\ judged \in Nat /\ withdrawn \subseteq Memory /\ taking \in [Place -> Nat]
      /\ given \subseteq Memory \X (Place \X Nat)
  BY DEF ReadingInv, ReadingTyped
<1>0. judged <= judged
  BY <1>f
<1>1. CASE (\E c \in kept : PruneCopy(c)) \/ UNCHANGED ReadingVars
  <2>1. UNCHANGED <<judged, withdrawn, taking, given, refreshed, asking>>
    BY <1>1 DEF PruneCopy, ReadingVars
  <2>2. ReadingTyped' /\ GivenWhereHeard'
    BY <1>f, <2>1 DEF ReadingTyped, GivenWhereHeard
  <2> QED
    BY <1>0, <2>1, <2>2, Meanwhile
<1>2. CASE Refresh
  <2>1. UNCHANGED <<judged, withdrawn, given, asking>> /\ ~refreshed /\ refreshed' = TRUE
    BY <1>2 DEF Refresh
  <2>2. taking' \in [Place -> Nat]
    BY <1>f, <1>2 DEF Refresh
  <2>3. ReadingTyped' /\ GivenWhereHeard'
    BY <1>f, <2>1, <2>2 DEF ReadingTyped, GivenWhereHeard
  <2> QED
    BY <1>0, <2>1, <2>3, Meanwhile
<1>3. ASSUME NEW m \in Memory, Judge(m) PROVE ReadingInv'
  <2>1. UNCHANGED <<taking, given, asking>> /\ judged' = judged + 1 /\ refreshed' = FALSE /\ withdrawn' \subseteq Memory
    BY <1>f, <1>3 DEF Judge
  <2>2. judged' \in Nat /\ judged <= judged' /\ judged' # judged
    BY <1>f, <2>1
  <2>3. ReadingTyped' /\ GivenWhereHeard'
    BY <1>f, <2>1, <2>2 DEF ReadingTyped, GivenWhereHeard
  <2> QED
    BY <2>1, <2>2, <2>3, Meanwhile
<1>4. ASSUME NEW m \in Memory, Give(m) PROVE ReadingInv'
  <2>1. PICK p \in Place, r \in Nat : p = HeardAt[m] /\ r = taking[p]
    BY <1>f, ReadingAssumption
  <2>2. /\ UNCHANGED <<judged, withdrawn, taking, refreshed, asking>> /\ given' = given \cup {<<m, <<p, r>>>>}
        /\ m \notin withdrawn
    BY <1>4, <2>1 DEF Give, Now
  <2>3. ReadingTyped' /\ GivenWhereHeard'
    <3>1. given' \subseteq Memory \X (Place \X Nat)
      BY <1>f, <2>2
    <3>2. GivenWhereHeard'
      BY <1>f, <2>1, <2>2 DEF GivenWhereHeard
    <3> QED
      BY <1>f, <2>2, <3>1, <3>2 DEF ReadingTyped
  <2>4. \A x \in withdrawn, s \in Place \X Nat : <<x, s>> \in given' => <<x, s>> \in given
    BY <2>2
  <2> QED
    BY <1>0, <2>2, <2>3, <2>4, Meanwhile
<1>5. ASSUME NEW s \in Place \X (1..MaxTaking), DeleteTaking(s) PROVE ReadingInv'
  <2>1. UNCHANGED <<judged, withdrawn, taking, refreshed, asking>> /\ given' \subseteq given
    BY <1>5 DEF DeleteTaking
  <2>2. ReadingTyped' /\ GivenWhereHeard'
    BY <1>f, <2>1 DEF ReadingTyped, GivenWhereHeard
  <2> QED
    BY <1>0, <2>1, <2>2, Meanwhile
<1> QED
  BY <1>1, <1>2, <1>3, <1>4, <1>5

\* A read is under way in a row of its own.
LEMMA ReadingRow ==
  ASSUME ReadingInv, Reads, asking' \in AskRow,
         asking'.at # "none" => asking'.under <= judged /\ ToldItsOwn',
         asking'.at # "none" /\ asking'.under = judged =>
           /\ asking'.corrections \cap withdrawn = {}
           /\ ~asking'.late =>
                /\ Clean(asking'.audience) /\ (asking'.heard \cup asking'.copy.text) \cap withdrawn = {}
                /\ asking'.audience # Everywhere => asking'.scope \subseteq {Now(asking'.audience)}
  PROVE  ReadingInv'
<1>1. UNCHANGED <<judged, withdrawn, taking, given, refreshed>>
  BY DEF Reads
<1>2. \A a : Clean(a)' <=> Clean(a)'
  OBVIOUS
<1>3. ASSUME NEW a, Clean(a) PROVE refreshed /\ Told(IF a = Everywhere THEN Sessions ELSE {Now(a)}) \cap withdrawn = {}
  BY <1>3 DEF Clean
<1>4. ReadingTyped' /\ GivenWhereHeard'
  BY <1>1 DEF ReadingInv, ReadingTyped, GivenWhereHeard
<1>5. ASSUME asking'.at # "none", asking'.under = judged' PROVE ToldNothingWithdrawn'
  BY <1>1, <1>5 DEF ToldNothingWithdrawn, Clean, Told, Sessions, Now
<1> QED
  BY <1>1, <1>4, <1>5 DEF ReadingInv

\* A read begins with nothing heard.
LEMMA Started ==
  ASSUME ReadingInv, NEW kind \in {"recall", "context", "prefetch"}, NEW p \in Place,
         NEW audience \in {p, Everywhere}, NEW scope \in SUBSET {Now(p)}, NEW calls \in 0..2,
         NEW owned \in SUBSET (Memory \ withdrawn),
         Start(kind, audience, scope, calls, owned), Reads
  PROVE  ReadingInv'
<1>f. ReadingTyped /\ judged \in Nat /\ taking \in [Place -> Nat]
  BY DEF ReadingInv, ReadingTyped
<1>1. PICK n \in AskRow, under \in Nat, late \in BOOLEAN :
        n = NotAsking /\ under = judged /\ late = ~Clean(audience)
  <2>1. NoCopy \in Copied
    BY DEF NoCopy, Copied
  <2>2. NotAsking \in AskRow
    BY <2>1 DEF NotAsking, AskRow
  <2> QED
    BY <1>f, <2>2
<1>2. n.heard = {} /\ n.copy.text = {} /\ n.copy \in Copied /\ n.young \in BOOLEAN
  BY <1>1 DEF NotAsking, NoCopy, AskRow
<1>3. asking' = [n EXCEPT !.at = "asking", !.kind = kind, !.audience = audience, !.under = under,
                 !.scope = scope, !.calls = calls, !.corrections = owned, !.late = late]
  BY <1>1 DEF Start
<1>4. /\ asking' = [at |-> "asking", kind |-> kind, audience |-> audience, under |-> under, scope |-> scope,
                    calls |-> calls, heard |-> n.heard, corrections |-> owned, copy |-> n.copy,
                    young |-> n.young, late |-> late]
  BY <1>3, Zenon DEF AskRow
<1>5. scope \in SUBSET (Place \X Nat) /\ calls \in Int /\ audience \in Place \cup {Everywhere}
  BY <1>f DEF Now
<1>6. asking' \in AskRow
  BY <1>2, <1>4, <1>5 DEF AskRow
<1>7. /\ asking'.at = "asking" /\ asking'.audience = audience /\ asking'.under = under /\ asking'.scope = scope
      /\ asking'.heard = {} /\ asking'.corrections = owned /\ asking'.copy.text = {} /\ asking'.late = late
  BY <1>2, <1>4
<1>8. ToldItsOwn'
  BY <1>7, AudienceAssumption DEF ToldItsOwn, Now
<1>9. asking'.under <= judged
  BY <1>1, <1>7
<1>10. ~late => Clean(audience)
  BY <1>1
<1>11. audience # Everywhere => audience = p
  OBVIOUS
<1> QED
  BY <1>6, <1>7, <1>8, <1>9, <1>10, <1>11, ReadingRow

LEMMA ReadBegins ==
  ASSUME ReadingInv, NEW p \in Place, NEW audience \in Place \cup {Everywhere},
         BeginRecall(p, audience) \/ \E kind \in {"context", "prefetch"} : BeginContext(p, audience, kind)
  PROVE  ReadingInv'
<1>1. CASE BeginRecall(p, audience)
  <2>1. PICK owned \in SUBSET CorrectionsAt(p), people \in 0..2 :
          Start("recall", audience, {Now(p)}, people, owned)
    BY <1>1 DEF BeginRecall
  <2>2. PICK scope \in SUBSET {Now(p)} : scope = {Now(p)}
    OBVIOUS
  <2>3. owned \in SUBSET (Memory \ withdrawn) /\ audience \in {p, Everywhere} /\ Reads
    BY <1>1, <2>1, ReadingAssumption DEF CorrectionsAt, BeginRecall
  <2>4. Start("recall", audience, scope, people, owned)
    BY <2>1, <2>2
  <2> QED
    BY <2>3, <2>4, Started
<1>2. ASSUME NEW kind \in {"context", "prefetch"}, BeginContext(p, audience, kind) PROVE ReadingInv'
  <2>1. PICK scope \in SUBSET {Now(p)} : scope = IF Written(p) # {} THEN {Now(p)} ELSE {}
    OBVIOUS
  <2>2. Start(kind, audience, scope, 1, {}) /\ audience \in {p, Everywhere} /\ Reads
    BY <1>2, <2>1 DEF BeginContext
  <2>3. {} \in SUBSET (Memory \ withdrawn) /\ 1 \in 0..2 /\ kind \in {"recall", "context", "prefetch"}
    OBVIOUS
  <2> QED
    BY <2>2, <2>3, Started
<1> QED
  BY <1>1, <1>2

\* What Honcho says is a part of what the sessions the answer may use were given.
LEMMA ReadAsks ==
  ASSUME ReadingInv, AskHoncho
  PROVE  ReadingInv'
<1>1. PICK r \in AskRow : r = asking
  BY DEF ReadingInv, ReadingTyped
<1>2. PICK said \in SUBSET Told(Usable) : asking' = [asking EXCEPT !.heard = @ \cup said, !.calls = @ - 1]
  BY DEF AskHoncho
<1>3. PICK hears \in SUBSET Memory, calls \in Int : hears = r.heard \cup said /\ calls = r.calls - 1
  <2>1. said \subseteq Memory
    BY <1>2 DEF Told, ReadingInv, ReadingTyped
  <2>2. r.heard \cup said \in SUBSET Memory
    BY <2>1 DEF AskRow
  <2>3. r.calls \in Int
    BY DEF AskRow
  <2>4. r.calls - 1 \in Int
    BY <2>3
  <2> QED
    BY <2>2, <2>4
<1>4. asking' = [r EXCEPT !.heard = hears, !.calls = calls]
  BY <1>1, <1>2, <1>3
<1>5. /\ asking' \in AskRow /\ asking'.at = r.at /\ asking'.under = r.under /\ asking'.audience = r.audience
      /\ asking'.scope = r.scope /\ asking'.corrections = r.corrections /\ asking'.copy = r.copy
      /\ asking'.late = r.late /\ asking'.heard = hears
  BY <1>4, Zenon DEF AskRow
<1>6. r.at # "none" /\ Reads
  BY <1>1 DEF AskHoncho
<1>7. ASSUME NEW m \in said PROVE \E s \in Usable : s \in Place \X Nat /\ <<m, s>> \in given
  <2>1. PICK usable : usable = Usable
    OBVIOUS
  <2>2. \E s \in usable : <<m, s>> \in given
    BY <1>2, <1>7, <2>1, ToldOf DEF ReadingInv
  <2> QED
    BY <2>1, <2>2 DEF ReadingInv, ReadingTyped
<1>8. ToldItsOwn'
  <2>1. ASSUME r.audience # Everywhere, NEW m \in said PROVE HeardAt[m] = r.audience
    <3>1. PICK s \in r.scope : s \in Place \X Nat /\ <<m, s>> \in given
      BY <1>1, <1>7, <2>1 DEF Usable
    <3>2. s[1] = r.audience
      BY <1>1, <1>6, <2>1 DEF ReadingInv, ToldItsOwn
    <3>3. s = <<s[1], s[2]>> /\ s[1] \in Place /\ s[2] \in Nat /\ m \in Memory
      BY <3>1 DEF ReadingInv, ReadingTyped
    <3> QED
      BY <3>1, <3>2, <3>3 DEF ReadingInv, GivenWhereHeard
  <2> QED
    BY <1>1, <1>3, <1>5, <1>6, <2>1 DEF ReadingInv, ToldItsOwn
<1>9. ASSUME r.under = judged, ~r.late PROVE said \cap withdrawn = {}
  <2>1. Clean(r.audience) /\ (r.audience # Everywhere => r.scope \subseteq {Now(r.audience)})
    BY <1>1, <1>6, <1>9 DEF ReadingInv, ToldNothingWithdrawn
  <2>2. r.audience \in Place \cup {Everywhere}
    BY DEF AskRow
  <2>3. \A m \in withdrawn, s \in Place \X Nat : <<m, s>> \in given => r.audience # Everywhere /\ s # Now(r.audience)
    BY <2>1, <2>2, CleanOf DEF ReadingInv
  <2>4. ASSUME NEW m \in said, m \in withdrawn PROVE FALSE
    <3>1. PICK s \in Usable : s \in Place \X Nat /\ <<m, s>> \in given
      BY <1>7
    <3> QED
      BY <1>1, <2>1, <2>3, <2>4, <3>1 DEF Usable
  <2> QED
    BY <2>4
<1>10. r.under <= judged
  BY <1>1, <1>6 DEF ReadingInv
<1>11. r.under = judged => ToldNothingWithdrawn
  BY <1>1, <1>6 DEF ReadingInv
<1>12. ASSUME r.under = judged
       PROVE  /\ asking'.corrections \cap withdrawn = {}
              /\ ~asking'.late =>
                   /\ Clean(asking'.audience) /\ (asking'.heard \cup asking'.copy.text) \cap withdrawn = {}
                   /\ asking'.audience # Everywhere => asking'.scope \subseteq {Now(asking'.audience)}
  BY <1>1, <1>3, <1>5, <1>9, <1>11, <1>12 DEF ToldNothingWithdrawn
<1> QED
  BY <1>5, <1>6, <1>8, <1>10, <1>12, ReadingRow

\* The answer is kept, and read back, as it was heard.
LEMMA ReadGuards ==
  ASSUME ReadingInv, GuardAnswer \/ ReadCopy
  PROVE  ReadingInv'
<1>1. PICK r \in AskRow : r = asking
  BY DEF ReadingInv, ReadingTyped
<1>2. r.at # "none" /\ Reads /\ r.heard \in SUBSET Memory /\ r.copy \in Copied /\ r.scope \in SUBSET (Place \X Nat)
      /\ r.copy.text \in SUBSET Memory /\ r.young \in BOOLEAN
  BY <1>1 DEF GuardAnswer, ReadCopy, AskRow, Copied
<1>3. PICK at \in {"read", "guarded"}, hears \in SUBSET Memory, copy \in Copied, young \in BOOLEAN :
        /\ asking' = [r EXCEPT !.at = at, !.heard = hears, !.copy = copy, !.young = young]
        /\ hears \subseteq r.heard \cup r.copy.text /\ copy.text \subseteq r.heard \cup r.copy.text
  <2>1. CASE GuardAnswer
    <3>1. CASE asking' = [asking EXCEPT !.at = "read"]
      <4>1. asking' = [r EXCEPT !.at = "read", !.heard = r.heard, !.copy = r.copy, !.young = r.young]
        BY <1>1, <3>1, Zenon DEF AskRow
      <4> QED
        BY <1>2, <4>1
    <3>2. CASE asking' = [asking EXCEPT !.at = "guarded", !.copy = CopyOf, !.young = CopyOf \notin kept]
      <4>1. PICK copy \in Copied, young \in BOOLEAN : copy = CopyOf /\ young = (CopyOf \notin kept) /\ copy.text = r.heard
        <5>1. CopyOf \in Copied /\ CopyOf.text = r.heard
          BY <1>1, <1>2 DEF CopyOf, Copied
        <5>2. (CopyOf \notin kept) \in BOOLEAN
          OBVIOUS
        <5> QED
          BY <5>1, <5>2, Zenon
      <4>2. asking' = [r EXCEPT !.at = "guarded", !.copy = copy, !.young = young]
        BY <1>1, <3>2, <4>1
      <4>3. asking' = [r EXCEPT !.at = "guarded", !.heard = r.heard, !.copy = copy, !.young = young]
        BY <4>2, Zenon DEF AskRow
      <4> QED
        BY <1>2, <4>1, <4>3
    <3> QED
      BY <2>1, <3>1, <3>2 DEF GuardAnswer
  <2>2. CASE ReadCopy
    <3>1. PICK copy \in Copied : copy = NoCopy /\ copy.text = {}
      <4>1. NoCopy \in Copied /\ NoCopy.text = {}
        BY DEF NoCopy, Copied
      <4> QED
        BY <4>1
    <3>2. asking' = [r EXCEPT !.at = "read", !.heard = r.copy.text, !.copy = copy, !.young = FALSE]
      BY <1>1, <2>2, <3>1 DEF ReadCopy
    <3> QED
      BY <1>2, <3>1, <3>2
  <2> QED
    BY <2>1, <2>2
<1>4. /\ asking' \in AskRow /\ asking'.at = at /\ asking'.under = r.under /\ asking'.audience = r.audience
      /\ asking'.scope = r.scope /\ asking'.corrections = r.corrections /\ asking'.copy = copy
      /\ asking'.late = r.late /\ asking'.heard = hears
  BY <1>3, Zenon DEF AskRow
<1>5. r.under <= judged /\ ToldItsOwn /\ (r.under = judged => ToldNothingWithdrawn)
  BY <1>1, <1>2 DEF ReadingInv
<1>6. ToldItsOwn'
  BY <1>1, <1>3, <1>4, <1>5 DEF ToldItsOwn
<1>7. ASSUME r.under = judged
      PROVE  /\ asking'.corrections \cap withdrawn = {}
             /\ ~asking'.late =>
                  /\ Clean(asking'.audience) /\ (asking'.heard \cup asking'.copy.text) \cap withdrawn = {}
                  /\ asking'.audience # Everywhere => asking'.scope \subseteq {Now(asking'.audience)}
  BY <1>1, <1>3, <1>4, <1>5, <1>7 DEF ToldNothingWithdrawn
<1> QED
  BY <1>2, <1>4, <1>5, <1>6, <1>7, ReadingRow

LEMMA ReadEnds ==
  ASSUME ReadingInv, Deliver \/ EndPrefetch \/ DeliverLimited \/ AbandonRead
  PROVE  ReadingInv'
<1>1. NoCopy \in Copied
  BY DEF NoCopy, Copied
<1>2. NotAsking \in AskRow /\ NotAsking.at = "none"
  BY <1>1 DEF NotAsking, AskRow
<1> QED
  BY <1>2, ReadingRow DEF Deliver, EndPrefetch, DeliverLimited, AbandonRead

LEMMA ReadingInvariant == ReadingSpec => []ReadingInv
<1>1. ReadingInv /\ [ReadingNext]_ReadingVars => ReadingInv'
  BY DecidedMeanwhile, ReadBegins, ReadAsks, ReadGuards, ReadEnds DEF ReadingNext
<1> QED
  BY <1>1, ReadingStarts, PTL DEF ReadingSpec

\* Whatever is decided, rebuilt, reused or pruned while a turn reads: see MemoryReading.
THEOREM ReadsAreClean == ReadingSpec => [][CleanReads]_ReadingVars
<1>1. ReadingInv => CleanReads
  BY DEF ReadingInv, ToldItsOwn, ToldNothingWithdrawn, CleanReads, ReadsClean, CorrectionsClean,
     Deliver, DeliverLimited, StillBound
<1> QED
  BY <1>1, ReadingInvariant, PTL

----------------------------------------------------------------------------
(* The walk to whom a memory is read about.                                *)
(*                                                                         *)
(* The results of the walk and the entities that wait in its queue are one *)
(* sequence of paths, of which the results are the first ones: the next    *)
(* result moves the border, a claim that leads on appends a path.  While   *)
(* nothing happens the walk is a breadth-first search: paths grow by their *)
(* length, no entity is nearer than its path says, and what is nearer than *)
(* the last result was met, because the claims of every result before it   *)
(* were followed.                                                          *)

WalkPath == {p \in Seq(Person) : Len(p) \in 1..Hops + 1}
WalkRow == [at : {"idle", "walking", "walkingHere", "walked", "walkedHere", "clarify", "offered"},
            from : SUBSET Person, queue : Seq(WalkPath), following : SUBSET Links, found : Seq(WalkPath),
            partial : BOOLEAN, offered : SUBSET Person]

\* The entities within one claim more than those of a set.
Readable == {c \in Links : evidence[c] = "readable"}
Beyond(near, links, who) == near \cup {x \in who : \E c \in links : x \in c /\ c \cap near # {}}
WalkStart == {x \in walk.from : visible(x)}
WithinEquations ==
  /\ Within[0] = WalkStart
  /\ \A h \in 1..Hops : Within[h] = Beyond(Within[h - 1], Readable, Shown)
  /\ Within = [h \in 0..Hops |-> Within[h]]

MetOf(P) == {End(P[i]) : i \in 1..Len(P)}
Distinct(P) == \A i, j \in 1..Len(P) : End(P[i]) = End(P[j]) => i = j
Trodden(P, links, who) ==
  \A i \in 1..Len(P) : \A k \in 2..Len(P[i]) : {P[i][k - 1], P[i][k]} \in links /\ P[i][k] \in who

\* W says what is within so many claims, of which F are left of the n-th path.
SearchSound(P, W) == \A i \in 1..Len(P) : End(P[i]) \in W[Len(P[i]) - 1]
SearchSorted(P, n) ==
  /\ \A i, j \in 1..Len(P) : i <= j => Len(P[i]) <= Len(P[j])
  /\ n = 0 => \A j \in 1..Len(P) : Len(P[j]) = 1
  /\ n # 0 => \A j \in 1..Len(P) : Len(P[j]) <= Len(P[n]) + 1
SearchFollowed(P, n, F, links, who) ==
  \A i \in 1..n : Len(P[i]) <= Hops =>
    \A c \in links, x \in who : End(P[i]) \in c /\ x \in c => x \in MetOf(P) \/ (i = n /\ c \in F)
SearchShortest(P, W) == \A i \in 1..Len(P), h \in 0..Hops : End(P[i]) \in W[h] => Len(P[i]) <= h + 1
SearchNearer(P, n, W) == W[0] \subseteq MetOf(P) /\ (n # 0 => W[Len(P[n]) - 1] \subseteq MetOf(P))
Searched(P, n, F, W, links, who) ==
  /\ SearchSound(P, W) /\ SearchSorted(P, n) /\ SearchFollowed(P, n, F, links, who)
  /\ SearchShortest(P, W) /\ SearchNearer(P, n, W) /\ F \subseteq links

Paths == walk.found \o walk.queue
Results == Len(walk.found)
WalkTyped ==
  /\ walk \in WalkRow /\ unmerged \subseteq Person /\ heard \subseteq Person /\ known \subseteq Person
  /\ evidence \in [Links -> {"readable", "hidden", "retired"}] /\ meanwhile \in Nat
  /\ Readable \subseteq stood.links /\ unmerged \subseteq stood.who
FollowingStands ==
  walk.following # {} =>
    /\ Results # 0 /\ Len(Paths[Results]) <= Hops
    /\ \A c \in walk.following : End(Paths[Results]) \in c /\ c \in stood.links
WalkEnds ==
  walk.at \in {"walked", "walkedHere"} => walk.following = {} /\ (~walk.partial => walk.queue = <<>>)
WalkInv ==
  /\ WalkTyped /\ FollowingStands /\ WalkEnds
  /\ Distinct(Paths) /\ Trodden(Paths, stood.links, stood.who)
  /\ meanwhile = 0 /\ ~walk.partial => Searched(Paths, Results, walk.following, Within, Readable, Shown)

LEMMA WithinIs == WithinEquations
<1> DEFINE W1 == Beyond(WalkStart, Readable, Shown)
           W2 == Beyond(W1, Readable, Shown)
           G == [h \in 0..Hops |-> IF h = 0 THEN WalkStart ELSE IF h = 1 THEN W1
                                   ELSE IF h = 2 THEN W2 ELSE Beyond(W2, Readable, Shown)]
           Again(f) == [h \in 0..Hops |-> IF h = 0 THEN WalkStart ELSE Beyond(f[h - 1], Readable, Shown)]
<1>1. G = Again(G)
  <2>1. /\ G[0] = WalkStart /\ G[1] = Beyond(G[0], Readable, Shown)
        /\ G[2] = Beyond(G[1], Readable, Shown) /\ G[3] = Beyond(G[2], Readable, Shown)
    BY DEF Hops
  <2>2. \A h \in 0..Hops : h = 0 \/ h = 1 \/ h = 2 \/ h = 3
    BY DEF Hops
  <2>3. \A h \in 0..Hops : G[h] = IF h = 0 THEN WalkStart ELSE Beyond(G[h - 1], Readable, Shown)
    <3>1. 1 - 1 = 0 /\ 2 - 1 = 1 /\ 3 - 1 = 2
      OBVIOUS
    <3> HIDE DEF G
    <3> QED
      BY <2>1, <2>2, <3>1
  <2> QED
    BY <2>3, Zenon
<1>2. ASSUME NEW near PROVE Beyond(near, Readable, Shown)
        = near \cup {x \in Shown : \E c \in Links : x \in c /\ evidence[c] = "readable" /\ c \cap near # {}}
  BY DEF Beyond, Readable
<1>3. Within = CHOOSE f : f = Again(f)
  <2> DEFINE Body(near) == near \cup {x \in Shown : \E c \in Links : x \in c /\ evidence[c] = "readable" /\ c \cap near # {}}
             Once(f) == [h \in 0..Hops |-> IF h = 0 THEN WalkStart ELSE Body(f[h - 1])]
  <2>1. \A near : Body(near) = Beyond(near, Readable, Shown)
    BY <1>2
  <2>2. ASSUME NEW f PROVE Once(f) = Again(f)
    <3> HIDE DEF Body
    <3> QED
      BY <2>1
  <2>3. Within = CHOOSE f : f = Once(f)
    BY Zenon DEF Within, WalkStart
  <2> HIDE DEF Once, Again, G
  <2>4. Within = Once(Within)
    BY <1>1, <2>2, <2>3, Zenon
  <2>5. (CHOOSE f : f = Once(f)) = (CHOOSE f : f = Again(f))
    BY <2>2, Zenon
  <2> QED
    BY <2>3, <2>5, Zenon
<1>4. Within = Again(Within)
  <2> HIDE DEF G, Again
  <2> QED
    BY <1>1, <1>3, Zenon
<1>5. \A h \in 0..Hops : Within[h] = IF h = 0 THEN WalkStart ELSE Beyond(Within[h - 1], Readable, Shown)
  BY <1>4, Zenon
<1>6. Within = [h \in 0..Hops |-> Within[h]]
  BY <1>4, Zenon
<1> QED
  BY <1>5, <1>6 DEF WithinEquations, Hops

LEMMA WithinIsNext == WithinEquations'
BY WithinIs, PTL

\* What a reader is shown depends on the claims, on who is merged and who was heard.
LEMMA ShownStays ==
  ASSUME UNCHANGED <<unmerged, evidence, heard>>
  PROVE  Shown' = Shown /\ \A x : visible(x)' = visible(x)
<1>1. ASSUME NEW x PROVE Claims(x)' = Claims(x)
  BY DEF Claims
<1>2. ASSUME NEW x PROVE LookedAt(x)' = LookedAt(x)
  BY <1>1 DEF LookedAt
<1>3. ASSUME NEW x PROVE visible(x)' = visible(x)
  BY <1>2 DEF visible
<1> QED
  BY <1>3 DEF Shown

\* What is within so many claims depends on the claims, on who is merged and where the walk
\* began.
LEMMA WithinStays ==
  ASSUME UNCHANGED <<unmerged, evidence, heard>>, walk'.from = walk.from
  PROVE  Within' = Within /\ Readable' = Readable /\ Shown' = Shown
<1>1. Readable' = Readable
  BY DEF Readable
<1>2. WalkStart' = WalkStart /\ Shown' = Shown
  BY ShownStays DEF WalkStart
<1>3. /\ Within'[0] = WalkStart /\ \A h \in 1..Hops : Within'[h] = Beyond(Within'[h - 1], Readable, Shown)
      /\ Within' = [h \in 0..Hops |-> Within'[h]]
  BY <1>1, <1>2, WithinIsNext DEF WithinEquations
<1>4. /\ Within[0] = WalkStart /\ \A h \in 1..Hops : Within[h] = Beyond(Within[h - 1], Readable, Shown)
      /\ Within = [h \in 0..Hops |-> Within[h]]
  BY WithinIs DEF WithinEquations
<1>5. PICK V, W : V = Within' /\ W = Within
  OBVIOUS
<1>6. V[0] = W[0] /\ V[1] = W[1] /\ V[2] = W[2] /\ V[3] = W[3]
  <2>1. 1 \in 1..Hops /\ 2 \in 1..Hops /\ 3 \in 1..Hops /\ 1 - 1 = 0 /\ 2 - 1 = 1 /\ 3 - 1 = 2
    BY DEF Hops
  <2>3. V[1] = Beyond(V[0], Readable, Shown) /\ V[2] = Beyond(V[1], Readable, Shown) /\ V[3] = Beyond(V[2], Readable, Shown)
    <3>1. \A k \in 1..Hops : V[k] = Beyond(V[k - 1], Readable, Shown)
      BY <1>3, <1>5, Zenon
    <3> QED
      BY <2>1, <3>1
  <2>4. W[1] = Beyond(W[0], Readable, Shown) /\ W[2] = Beyond(W[1], Readable, Shown) /\ W[3] = Beyond(W[2], Readable, Shown)
    <3>1. \A k \in 1..Hops : W[k] = Beyond(W[k - 1], Readable, Shown)
      BY <1>4, <1>5, Zenon
    <3> QED
      BY <2>1, <3>1
  <2>5. V[0] = W[0]
    BY <1>3, <1>4, <1>5
  <2> QED
    BY <2>3, <2>4, <2>5
<1>7. \A h \in 0..Hops : V[h] = W[h]
  BY <1>6 DEF Hops
<1>8. V = W
  BY <1>3, <1>4, <1>5, <1>7, Zenon
<1> QED
  BY <1>1, <1>2, <1>5, <1>8

----------------------------------------------------------------------------
(* Breadth-first search, of any sequence of paths.                         *)

LEMMA PathLengths == \A p \in WalkPath : p \in Seq(Person) /\ Len(p) \in Nat /\ Len(p) >= 1 /\ Len(p) <= Hops + 1
<1> SUFFICES ASSUME NEW p \in WalkPath PROVE p \in Seq(Person) /\ Len(p) \in Nat /\ Len(p) >= 1 /\ Len(p) <= Hops + 1
  OBVIOUS
<1>1. p \in Seq(Person) /\ Len(p) \in 1..Hops + 1
  BY Zenon DEF WalkPath
<1>2. \A a \in 1..Hops + 1 : a \in Nat /\ a >= 1 /\ a <= Hops + 1
  BY DEF Hops
<1> QED
  BY <1>1, <1>2

LEMMA JustOneMore == ASSUME NEW a \in Nat, NEW b \in Nat, a <= b, b <= a + 1, a # b PROVE b = a + 1 /\ b - 1 = a
OBVIOUS

LEMMA WalkSteps == Hops = 3 /\ Hops \in Nat /\ 0 \in 0..Hops
BY DEF Hops

LEMMA PathDepths == \A p \in WalkPath : Len(p) - 1 = 0 \/ Len(p) - 1 = 1 \/ Len(p) - 1 = 2 \/ Len(p) - 1 = 3
<1> TAKE p \in WalkPath
<1>1. PICK a \in Nat : a = Len(p) /\ a >= 1 /\ a <= 4
  <2>1. Len(p) \in Nat /\ Len(p) >= 1 /\ Len(p) <= Hops + 1 /\ Hops + 1 = 4
    BY PathLengths, WalkSteps
  <2> QED
    BY <2>1
<1>2. a - 1 = 0 \/ a - 1 = 1 \/ a - 1 = 2 \/ a - 1 = 3
  BY <1>1
<1> QED
  BY <1>1, <1>2

\* It begins from paths of one entity each.
LEMMA SearchStarts ==
  ASSUME NEW P \in Seq(WalkPath), NEW W, NEW links, NEW who, \A i \in 1..Len(P) : Len(P[i]) = 1, MetOf(P) = W[0]
  PROVE  Searched(P, 0, {}, W, links, who)
<1>1. \A i \in 1..Len(P) : End(P[i]) \in W[0]
  BY DEF MetOf
<1>2. SearchSound(P, W)
  <2>1. 1 - 1 = 0
    OBVIOUS
  <2> QED
    BY <1>1, <2>1 DEF SearchSound
<1>3. SearchSorted(P, 0) /\ SearchFollowed(P, 0, {}, links, who)
  BY DEF SearchSorted, SearchFollowed
<1>4. SearchShortest(P, W)
  <2>1. ASSUME NEW i \in 1..Len(P), NEW h \in 0..Hops PROVE Len(P[i]) <= h + 1
    <3>1. h \in Nat /\ Len(P[i]) = 1
      BY WalkSteps
    <3> QED
      BY <3>1
  <2> QED
    BY <2>1 DEF SearchShortest
<1>5. SearchNearer(P, 0, W)
  BY DEF SearchNearer
<1> QED
  BY <1>2, <1>3, <1>4, <1>5 DEF Searched

\* Who has a path of k entities or less, followed to its end, has every neighbour met.
LEMMA NeighboursMet ==
  ASSUME NEW P \in Seq(WalkPath), NEW n \in 0..Len(P), NEW W, NEW links, NEW who,
         Searched(P, n, {}, W, links, who), NEW k \in 1..Hops, W[k - 1] \subseteq MetOf(P),
         W[k] = Beyond(W[k - 1], links, who), \A i \in 1..Len(P) : Len(P[i]) <= k => i <= n
  PROVE  W[k] \subseteq MetOf(P)
<1> SUFFICES ASSUME NEW x \in W[k], x \notin W[k - 1] PROVE x \in MetOf(P)
  OBVIOUS
<1>1. PICK c \in links : x \in who /\ x \in c /\ c \cap W[k - 1] # {}
  BY DEF Beyond
<1>2. PICK y \in c : y \in W[k - 1]
  BY <1>1
<1>3. PICK i \in 1..Len(P) : y = End(P[i])
  BY <1>2 DEF MetOf
<1>4. k - 1 \in 0..Hops /\ (k - 1) + 1 = k /\ k <= Hops /\ k \in Nat
  BY WalkSteps
<1>5. Len(P[i]) <= k
  BY <1>2, <1>3, <1>4 DEF Searched, SearchShortest
<1>6. P[i] \in WalkPath
  OBVIOUS
<1>7. Len(P[i]) <= Hops
  BY <1>4, <1>5, <1>6, PathLengths, WalkSteps
<1>8. i \in 1..n
  BY <1>5
<1> QED
  BY <1>1, <1>2, <1>3, <1>7, <1>8 DEF Searched, SearchFollowed

\* The next of the queue is a result, and its claims are left to follow.
LEMMA SearchShifts ==
  ASSUME NEW P \in Seq(WalkPath), NEW n \in 0..Len(P), NEW W, NEW links, NEW who,
         Searched(P, n, {}, W, links, who), n + 1 <= Len(P), NEW F \in SUBSET links,
         \A h \in 1..Hops : W[h] = Beyond(W[h - 1], links, who),
         Len(P[n + 1]) <= Hops => F = {c \in links : End(P[n + 1]) \in c}
  PROVE  Searched(P, n + 1, F, W, links, who)
<1>1. n + 1 \in 1..Len(P) /\ n + 1 # 0 /\ n \in Nat
  OBVIOUS
<1>2. \A i \in 1..Len(P) : P[i] \in WalkPath /\ Len(P[i]) \in Nat /\ Len(P[i]) >= 1 /\ Len(P[i]) <= Hops + 1
  <2>1. \A i \in 1..Len(P) : P[i] \in WalkPath
    OBVIOUS
  <2> QED
    BY <2>1, PathLengths
<1>3. SearchSorted(P, n + 1)
  <2>1. ASSUME NEW j \in 1..Len(P) PROVE Len(P[j]) <= Len(P[n + 1]) + 1
    <3>1. CASE n = 0
      BY <1>1, <1>2, <3>1 DEF Searched, SearchSorted
    <3>2. CASE n # 0
      <4>1. n \in 1..Len(P) /\ n <= n + 1
        BY <1>1, <3>2
      <4>2. Len(P[n]) <= Len(P[n + 1]) /\ Len(P[j]) <= Len(P[n]) + 1
        BY <1>1, <3>2, <4>1 DEF Searched, SearchSorted
      <4> QED
        BY <1>1, <1>2, <4>1, <4>2
    <3> QED
      BY <3>1, <3>2
  <2> QED
    BY <1>1, <2>1 DEF Searched, SearchSorted
<1>4. SearchFollowed(P, n + 1, F, links, who)
  <2>1. ASSUME NEW i \in 1..(n + 1), Len(P[i]) <= Hops, NEW c \in links, NEW x \in who, End(P[i]) \in c, x \in c
        PROVE  x \in MetOf(P) \/ (i = n + 1 /\ c \in F)
    <3>1. CASE i = n + 1
      BY <2>1, <3>1
    <3>2. CASE i # n + 1
      <4>1. i \in 1..n
        BY <1>1, <3>2
      <4> QED
        BY <2>1, <4>1 DEF Searched, SearchFollowed
    <3> QED
      BY <3>1, <3>2
  <2> QED
    BY <2>1 DEF SearchFollowed
<1>5. SearchNearer(P, n + 1, W)
  <2>1. W[Len(P[n + 1]) - 1] \subseteq MetOf(P)
    <3>1. CASE n = 0
      <4>1. Len(P[n + 1]) = 1 /\ 1 - 1 = 0
        BY <1>1, <3>1 DEF Searched, SearchSorted
      <4> QED
        BY <4>1 DEF Searched, SearchNearer
    <3>2. CASE n # 0
      <4>1. n \in 1..Len(P) /\ n <= n + 1
        BY <1>1, <3>2
      <4>2. Len(P[n]) <= Len(P[n + 1]) /\ Len(P[n + 1]) <= Len(P[n]) + 1 /\ W[Len(P[n]) - 1] \subseteq MetOf(P)
        BY <1>1, <3>2, <4>1 DEF Searched, SearchSorted, SearchNearer
      <4>3. CASE Len(P[n + 1]) = Len(P[n])
        BY <4>2, <4>3
      <4>4. CASE Len(P[n + 1]) # Len(P[n])
        <5> DEFINE k == Len(P[n])
        <5>1. k \in 1..Hops /\ Len(P[n + 1]) - 1 = k
          <6>1. k \in Nat /\ k >= 1 /\ Len(P[n + 1]) \in Nat /\ Len(P[n + 1]) <= Hops + 1
            BY <1>1, <1>2, <4>1
          <6>2. Len(P[n + 1]) = k + 1 /\ Len(P[n + 1]) - 1 = k
            BY <4>2, <4>4, <6>1, JustOneMore
          <6>3. k + 1 <= Hops + 1
            BY <6>1, <6>2
          <6> HIDE DEF k
          <6> QED
            BY <6>1, <6>2, <6>3, WalkSteps
        <5>2. \A i \in 1..Len(P) : Len(P[i]) <= k => i <= n
          <6>1. ASSUME NEW i \in 1..Len(P), ~(i <= n) PROVE ~(Len(P[i]) <= k)
            <7>1. n + 1 <= i
              BY <1>1, <6>1
            <7>2. Len(P[n + 1]) <= Len(P[i])
              BY <1>1, <7>1 DEF Searched, SearchSorted
            <7> QED
              BY <1>1, <1>2, <4>1, <5>1, <7>2
          <6> QED
            BY <6>1
        <5> HIDE DEF k
        <5>3. W[k - 1] \subseteq MetOf(P) /\ W[k] = Beyond(W[k - 1], links, who)
          BY <4>2, <5>1 DEF k
        <5>4. W[k] \subseteq MetOf(P)
          BY <5>1, <5>2, <5>3, NeighboursMet
        <5> QED
          BY <5>1, <5>4
      <4> QED
        BY <4>3, <4>4
    <3> QED
      BY <3>1, <3>2
  <2> QED
    BY <2>1 DEF Searched, SearchNearer
<1> QED
  BY <1>3, <1>4, <1>5 DEF Searched

\* A claim leads to an entity that was met, or is not shown: nothing is added.
LEMMA SearchPasses ==
  ASSUME NEW P \in Seq(WalkPath), NEW n \in 0..Len(P), NEW W, NEW links, NEW who, NEW F,
         Searched(P, n, F, W, links, who), NEW c \in F, \A x \in c \cap who : x \in MetOf(P)
  PROVE  Searched(P, n, F \ {c}, W, links, who)
<1>1. SearchFollowed(P, n, F \ {c}, links, who)
  <2>1. ASSUME NEW i \in 1..n, Len(P[i]) <= Hops, NEW e \in links, NEW x \in who, End(P[i]) \in e, x \in e
        PROVE  x \in MetOf(P) \/ (i = n /\ e \in F \ {c})
    BY <2>1 DEF Searched, SearchFollowed
  <2> QED
    BY <2>1 DEF SearchFollowed
<1> QED
  BY <1>1 DEF Searched

\* A path one entity longer than the one it was found from.
LEMMA PathAppended ==
  ASSUME NEW P \in Seq(WalkPath), NEW n \in 1..Len(P), Len(P[n]) <= Hops, NEW x \in Person
  PROVE  LET path == Append(P[n], x)  Q == Append(P, path) IN
         /\ path \in WalkPath /\ Len(path) = Len(P[n]) + 1 /\ End(path) = x
         /\ \A k \in 1..Len(P[n]) : path[k] = P[n][k]
         /\ Q \in Seq(WalkPath) /\ Len(Q) = Len(P) + 1 /\ Q[Len(P) + 1] = path
         /\ \A i \in 1..Len(P) : Q[i] = P[i]
         /\ MetOf(Q) = MetOf(P) \cup {x}
<1> DEFINE path == Append(P[n], x)
           Q == Append(P, path)
<1>1. P[n] \in WalkPath
  OBVIOUS
<1>2. P[n] \in Seq(Person) /\ Len(P[n]) \in Nat /\ Len(P[n]) >= 1
  BY <1>1, PathLengths
<1>3. path \in Seq(Person) /\ Len(path) = Len(P[n]) + 1 /\ path[Len(P[n]) + 1] = x /\ \A k \in 1..Len(P[n]) : path[k] = P[n][k]
  BY <1>2
<1>4. Len(path) \in 1..Hops + 1
  BY <1>2, <1>3, WalkSteps
<1>5. path \in WalkPath /\ End(path) = x
  BY <1>3, <1>4, Zenon DEF WalkPath, End
<1> HIDE DEF path
<1>6. Q \in Seq(WalkPath) /\ Len(Q) = Len(P) + 1 /\ Q[Len(P) + 1] = path /\ \A i \in 1..Len(P) : Q[i] = P[i]
  BY <1>5
<1>7. MetOf(Q) = MetOf(P) \cup {x}
  <2> HIDE DEF Q
  <2>1. 1..Len(Q) = 1..Len(P) \cup {Len(P) + 1}
    BY <1>6
  <2> QED
    BY <1>5, <1>6, <2>1 DEF MetOf
<1> QED
  BY <1>3, <1>5, <1>6, <1>7 DEF path

\* A claim leads on: its other entity was not nearer, as all that is nearer was met.
LEMMA SearchGoesOn ==
  ASSUME NEW P \in Seq(WalkPath), NEW n \in 1..Len(P), NEW W, NEW links, NEW who \in SUBSET Person, NEW F,
         Searched(P, n, F, W, links, who), NEW c \in F, NEW x \in who, x \notin MetOf(P), c = {End(P[n]), x},
         Len(P[n]) <= Hops, \A h \in 1..Hops : W[h] = Beyond(W[h - 1], links, who)
  PROVE  Searched(Append(P, Append(P[n], x)), n, F \ {c}, W, links, who)
<1> DEFINE m == Len(P[n])
           last == Len(P) + 1
<1> PICK Q : Q = Append(P, Append(P[n], x))
  OBVIOUS
<1>1. /\ Q \in Seq(WalkPath) /\ Len(Q) = last /\ \A i \in 1..Len(P) : Q[i] = P[i]
      /\ Len(Q[last]) = m + 1 /\ End(Q[last]) = x /\ MetOf(Q) = MetOf(P) \cup {x}
  BY PathAppended
<1>2. m \in 1..Hops /\ m \in Nat /\ (m + 1) - 1 = m /\ m - 1 \in 0..Hops /\ last \in Nat /\ n <= Len(P) /\ n # 0 /\ n # last
  <2>1. P[n] \in WalkPath /\ last \in Nat /\ n <= Len(P) /\ n # 0 /\ n # last
    OBVIOUS
  <2>2. m \in Nat /\ m >= 1 /\ m <= Hops
    BY <2>1, PathLengths
  <2> HIDE DEF m, last
  <2> QED
    BY <2>1, <2>2, WalkSteps
<1> HIDE DEF m
<1>3. \A i \in 1..Len(Q) : i \in 1..Len(P) \/ i = last
  BY <1>1
<1>4. \A i \in 1..Len(P) : P[i] \in WalkPath /\ Len(P[i]) \in Nat /\ Len(P[i]) <= m + 1
  <2>1. \A i \in 1..Len(P) : P[i] \in WalkPath
    OBVIOUS
  <2> QED
    BY <1>2, <2>1, PathLengths DEF Searched, SearchSorted, m
<1>5. Q[n] = P[n] /\ Len(Q[n]) = m
  BY <1>1 DEF m
<1> HIDE DEF last
<1>6. SearchSound(Q, W)
  <2>1. End(P[n]) \in W[m - 1]
    BY DEF Searched, SearchSound, m
  <2>2. W[m] = Beyond(W[m - 1], links, who)
    BY <1>2
  <2>3. x \in W[m]
    BY <2>1, <2>2 DEF Beyond, Searched
  <2>4. ASSUME NEW i \in 1..Len(Q) PROVE End(Q[i]) \in W[Len(Q[i]) - 1]
    <3>1. CASE i = last
      BY <1>1, <1>2, <2>3, <3>1
    <3>2. CASE i \in 1..Len(P)
      BY <1>1, <3>2 DEF Searched, SearchSound
    <3> QED
      BY <1>3, <3>1, <3>2
  <2> QED
    BY <2>4 DEF SearchSound
<1>7. SearchSorted(Q, n)
  <2>1. ASSUME NEW i \in 1..Len(Q), NEW j \in 1..Len(Q), i <= j PROVE Len(Q[i]) <= Len(Q[j])
    <3>1. CASE j = last
      BY <1>1, <1>2, <1>3, <1>4, <3>1
    <3>2. CASE j \in 1..Len(P)
      <4>1. i \in 1..Len(P)
        BY <2>1, <3>2
      <4> QED
        BY <1>1, <2>1, <3>2, <4>1 DEF Searched, SearchSorted
    <3> QED
      BY <1>3, <3>1, <3>2
  <2>2. \A j \in 1..Len(Q) : Len(Q[j]) <= Len(Q[n]) + 1
    BY <1>1, <1>2, <1>3, <1>4, <1>5
  <2> QED
    BY <1>2, <2>1, <2>2 DEF SearchSorted
<1>8. SearchFollowed(Q, n, F \ {c}, links, who)
  <2>1. ASSUME NEW i \in 1..n, Len(Q[i]) <= Hops, NEW e \in links, NEW y \in who, End(Q[i]) \in e, y \in e
        PROVE  y \in MetOf(Q) \/ (i = n /\ e \in F \ {c})
    <3>1. i \in 1..Len(P) /\ Q[i] = P[i]
      BY <1>1, <1>2
    <3>2. y \in MetOf(P) \/ (i = n /\ e \in F)
      BY <2>1, <3>1 DEF Searched, SearchFollowed
    <3>3. End(P[n]) \in MetOf(P)
      BY DEF MetOf
    <3>4. CASE i = n /\ e = c
      BY <1>1, <2>1, <3>3, <3>4
    <3>5. CASE ~(i = n /\ e = c)
      BY <1>1, <3>2, <3>5
    <3> QED
      BY <3>4, <3>5
  <2> QED
    BY <2>1 DEF SearchFollowed
<1>9. SearchShortest(Q, W)
  <2>1. ASSUME NEW h \in 0..Hops, x \in W[h] PROVE m + 1 <= h + 1
    <3>1. SUFFICES ASSUME h <= m - 1 PROVE FALSE
      BY <1>2, <3>1
    <3>2. W[m - 1] \subseteq MetOf(P)
      BY <1>2 DEF Searched, SearchNearer, m
    <3>3. \A k \in 1..Hops : W[k - 1] \subseteq W[k]
      BY DEF Beyond
    <3>4. W[h] \subseteq W[m - 1]
      <4>1. W[0] \subseteq W[1] /\ W[1] \subseteq W[2] /\ W[2] \subseteq W[3]
        <5>1. 1 \in 1..Hops /\ 2 \in 1..Hops /\ 3 \in 1..Hops /\ 1 - 1 = 0 /\ 2 - 1 = 1 /\ 3 - 1 = 2
          BY DEF Hops
        <5> QED
          BY <3>3, <5>1
      <4>2. /\ h = 0 \/ h = 1 \/ h = 2 \/ h = 3
            /\ m - 1 = 0 \/ m - 1 = 1 \/ m - 1 = 2 \/ m - 1 = 3
        BY <1>2, WalkSteps
      <4> QED
        BY <3>1, <4>1, <4>2
    <3> QED
      BY <2>1, <3>2, <3>4
  <2>2. ASSUME NEW i \in 1..Len(Q), NEW h \in 0..Hops, End(Q[i]) \in W[h] PROVE Len(Q[i]) <= h + 1
    <3>1. CASE i = last
      BY <1>1, <2>1, <2>2, <3>1
    <3>2. CASE i \in 1..Len(P)
      BY <1>1, <2>2, <3>2 DEF Searched, SearchShortest
    <3> QED
      BY <1>3, <3>1, <3>2
  <2> QED
    BY <2>2 DEF SearchShortest
<1>10. SearchNearer(Q, n, W)
  BY <1>1, <1>2, <1>5 DEF Searched, SearchNearer, m
<1> QED
  BY <1>6, <1>7, <1>8, <1>9, <1>10 DEF Searched

\* When all paths are results and followed, all within the hops was met.
LEMMA SearchEnds ==
  ASSUME NEW P \in Seq(WalkPath), NEW W, NEW links, NEW who, Searched(P, Len(P), {}, W, links, who),
         \A h \in 1..Hops : W[h] = Beyond(W[h - 1], links, who)
  PROVE  MetOf(P) = W[Hops]
<1>1. Len(P) \in 0..Len(P) /\ \A i \in 1..Len(P) : i <= Len(P)
  OBVIOUS
<1>2. ASSUME NEW k \in 1..Hops, W[k - 1] \subseteq MetOf(P) PROVE W[k] \subseteq MetOf(P)
  BY <1>1, <1>2, NeighboursMet
<1>3. 1 \in 1..Hops /\ 2 \in 1..Hops /\ 3 \in 1..Hops /\ 1 - 1 = 0 /\ 2 - 1 = 1 /\ 3 - 1 = 2 /\ Hops = 3
  BY DEF Hops
<1>4. W[0] \subseteq MetOf(P)
  BY DEF Searched, SearchNearer
<1>5. W[Hops] \subseteq MetOf(P)
  BY <1>2, <1>3, <1>4
<1>6. W[0] \subseteq W[1] /\ W[1] \subseteq W[2] /\ W[2] \subseteq W[3]
  <2>1. \A k \in 1..Hops : W[k - 1] \subseteq W[k]
    BY DEF Beyond
  <2> QED
    BY <1>3, <2>1
<1>7. ASSUME NEW i \in 1..Len(P) PROVE End(P[i]) \in W[Hops]
  <2>1. P[i] \in WalkPath
    OBVIOUS
  <2>2. Len(P[i]) - 1 = 0 \/ Len(P[i]) - 1 = 1 \/ Len(P[i]) - 1 = 2 \/ Len(P[i]) - 1 = 3
    BY <2>1, PathDepths
  <2>3. End(P[i]) \in W[Len(P[i]) - 1]
    BY DEF Searched, SearchSound
  <2> QED
    BY <1>3, <1>6, <2>2, <2>3
<1> QED
  BY <1>5, <1>7 DEF MetOf

----------------------------------------------------------------------------
(* The steps of the walk.                                                  *)

\* Moving the border, or adding at the end, keeps the paths there are.
LEMMA PathsJoined ==
  ASSUME NEW f \in Seq(WalkPath), NEW q \in Seq(WalkPath)
  PROVE  /\ f \o q \in Seq(WalkPath) /\ Len(f) \in 0..Len(f \o q)
         /\ \A i \in 1..Len(f) : (f \o q)[i] = f[i]
         /\ q = <<>> => Len(f \o q) = Len(f)
         /\ q # <<>> => /\ Len(f) + 1 <= Len(f \o q) /\ (f \o q)[Len(f) + 1] = Head(q) /\ Head(q) \in WalkPath
                       /\ Tail(q) \in Seq(WalkPath) /\ Append(f, Head(q)) \in Seq(WalkPath)
                       /\ Len(Append(f, Head(q))) = Len(f) + 1
                       /\ Append(f, Head(q)) \o Tail(q) = f \o q
         /\ \A p \in WalkPath : Append(q, p) \in Seq(WalkPath) /\ f \o Append(q, p) = Append(f \o q, p)
<1>1. f \o q \in Seq(WalkPath) /\ Len(f \o q) = Len(f) + Len(q) /\ Len(f) \in Nat /\ Len(q) \in Nat
  OBVIOUS
<1>2. \A i \in 1..Len(f) : (f \o q)[i] = f[i]
  OBVIOUS
<1>3. q = <<>> => Len(f \o q) = Len(f)
  BY <1>1
<1>4. ASSUME q # <<>>
      PROVE  /\ Len(f) + 1 <= Len(f \o q) /\ (f \o q)[Len(f) + 1] = Head(q) /\ Head(q) \in WalkPath
             /\ Tail(q) \in Seq(WalkPath) /\ Append(f, Head(q)) \in Seq(WalkPath)
             /\ Len(Append(f, Head(q))) = Len(f) + 1
             /\ Append(f, Head(q)) \o Tail(q) = f \o q
  <2>1. Len(q) >= 1 /\ Head(q) = q[1] /\ Head(q) \in WalkPath /\ Tail(q) \in Seq(WalkPath)
    BY <1>4
  <2>2. Append(f, Head(q)) \in Seq(WalkPath) /\ Len(Append(f, Head(q))) = Len(f) + 1
    BY <2>1
  <2>3. Append(f, Head(q)) \o Tail(q) = f \o q
    BY <1>4, <2>1
  <2>4. (f \o q)[Len(f) + 1] = q[1]
    BY <1>1, <2>1
  <2> QED
    BY <1>1, <2>1, <2>2, <2>3, <2>4
<1>5. \A p \in WalkPath : Append(q, p) \in Seq(WalkPath) /\ f \o Append(q, p) = Append(f \o q, p)
  OBVIOUS
<1>6. Len(f) \in 0..Len(f \o q)
  BY <1>1
<1> QED
  BY <1>1, <1>2, <1>3, <1>4, <1>5, <1>6, Zenon

LEMMA MetIsMet ==
  ASSUME NEW f \in Seq(WalkPath), NEW q \in Seq(WalkPath)
  PROVE  {End(p) : p \in Seqs!Range(f) \cup Seqs!Range(q)} = MetOf(f \o q)
<1>1. \A i \in 1..Len(f) : (f \o q)[i] = f[i]
  OBVIOUS
<1>2. \A i \in 1..Len(q) : (f \o q)[Len(f) + i] = q[i]
  OBVIOUS
<1>3. /\ \A i \in 1..Len(f) : i \in 1..Len(f \o q)
      /\ \A i \in 1..Len(q) : Len(f) + i \in 1..Len(f \o q)
  OBVIOUS
<1>4. \A i \in 1..Len(f \o q) : i \in 1..Len(f) \/ \E j \in 1..Len(q) : i = Len(f) + j
  <2>1. ASSUME NEW i \in 1..Len(f \o q), i \notin 1..Len(f) PROVE i - Len(f) \in 1..Len(q) /\ i = Len(f) + (i - Len(f))
    BY <2>1
  <2> QED
    BY <2>1
<1>5. DOMAIN f = 1..Len(f) /\ DOMAIN q = 1..Len(q)
  OBVIOUS
<1>6. ASSUME NEW p \in Seqs!Range(f) \cup Seqs!Range(q) PROVE \E i \in 1..Len(f \o q) : p = (f \o q)[i]
  BY <1>1, <1>2, <1>3, <1>5, <1>6 DEF Seqs!Range
<1>7. ASSUME NEW i \in 1..Len(f \o q) PROVE (f \o q)[i] \in Seqs!Range(f) \cup Seqs!Range(q)
  BY <1>1, <1>2, <1>4, <1>5, <1>7 DEF Seqs!Range
<1> QED
  BY <1>6, <1>7 DEF MetOf

\* A sequence of the members of a set of entities, each once.
LEMMA SeedPaths ==
  ASSUME NEW Y \in SUBSET Person
  PROVE  LET q == Seqs!SetToSeq({<<x>> : x \in Y}) IN
         /\ q \in Seq(WalkPath) /\ MetOf(q) = Y /\ Distinct(q)
         /\ \A i \in 1..Len(q) : Len(q[i]) = 1
<1> DEFINE S == {<<x>> : x \in Y}
           q == Seqs!SetToSeq(S)
           n == Cardinality(S)
<1>1. IsFiniteSet(Y)
  BY WalkAssumption, FS_Subset
<1>2. IsFiniteSet(S)
  <2> DEFINE g == [x \in Y |-> <<x>>]
  <2>1. g \in Surjection(Y, S)
    BY DEF Surjection
  <2> QED
    BY <1>1, <2>1, FS_Surjection
<1>3. n \in Nat /\ ExistsBijection(1..n, S)
  BY <1>2, FS_CardinalityType
<1> HIDE DEF S
<1>4. \E f \in [1..n -> S] : Seqs!IsInjective(f)
  BY <1>3 DEF ExistsBijection, Bijection, Injection, IsInjective, Seqs!IsInjective
<1>5. q \in [1..n -> S] /\ Seqs!IsInjective(q)
  <2>1. q = CHOOSE f \in [1..n -> S] : Seqs!IsInjective(f)
    BY Zenon DEF Seqs!SetToSeq, Seqs!Cardinality, Seqs!IsFiniteSet, Cardinality, IsFiniteSet
  <2> HIDE DEF q, n
  <2> QED
    BY <1>4, <2>1, Zenon
<1> HIDE DEF q
<1>6. \A s \in S : \E i \in 1..n : q[i] = s
  <2> DEFINE T == {q[i] : i \in 1..n}
  <2>1. T \in SUBSET S
    BY <1>5
  <2>2. q \in Bijection(1..n, T)
    BY <1>5 DEF Bijection, Injection, Surjection, IsInjective, Seqs!IsInjective
  <2>3. IsFiniteSet(1..n) /\ Cardinality(1..n) = n
    BY <1>3, FS_Interval
  <2> HIDE DEF T
  <2>4. Cardinality(T) = n
    BY <2>2, <2>3, FS_Bijection DEF ExistsBijection
  <2>5. S = T
    BY <1>2, <2>1, <2>4, FS_Subset
  <2> QED
    BY <2>5 DEF T
<1> HIDE DEF n
<1>7. \A s \in S : s \in WalkPath /\ Len(s) = 1 /\ End(s) = s[1] /\ s = <<s[1]>> /\ s[1] \in Y
  <2>1. ASSUME NEW x \in Y PROVE <<x>> \in WalkPath /\ Len(<<x>>) = 1 /\ End(<<x>>) = x
    <3>1. <<x>> \in Seq(Person) /\ Len(<<x>>) = 1 /\ 1 \in 1..Hops + 1
      BY DEF Hops
    <3> QED
      BY <3>1 DEF WalkPath, End
  <2> QED
    BY <2>1 DEF S
<1>8. q \in Seq(WalkPath) /\ Len(q) = n
  <2>1. q \in [1..n -> WalkPath]
    BY <1>5, <1>7
  <2> QED
    BY <1>3, <2>1
<1>9. \A i \in 1..n : q[i] \in S
  BY <1>5
<1>10. Distinct(q)
  <2>1. ASSUME NEW i \in 1..n, NEW j \in 1..n, End(q[i]) = End(q[j]) PROVE i = j
    <3>1. q[i] = q[j]
      BY <1>7, <1>9, <2>1
    <3> QED
      BY <1>5, <3>1 DEF Seqs!IsInjective
  <2> QED
    BY <1>8, <2>1 DEF Distinct
<1>11. MetOf(q) = Y
  <2>1. ASSUME NEW x \in Y PROVE x \in MetOf(q)
    <3>1. <<x>> \in S
      BY DEF S
    <3>2. PICK i \in 1..n : q[i] = <<x>>
      BY <1>6, <3>1
    <3>3. End(q[i]) = x
      BY <1>7, <3>1, <3>2
    <3> QED
      BY <1>8, <3>3 DEF MetOf
  <2>2. ASSUME NEW i \in 1..n PROVE End(q[i]) \in Y
    BY <1>7, <1>9
  <2> QED
    BY <1>8, <2>1, <2>2 DEF MetOf
<1>12. \A i \in 1..Len(q) : Len(q[i]) = 1
  BY <1>7, <1>8, <1>9
<1> QED
  BY <1>8, <1>10, <1>11, <1>12 DEF q, S

LEMMA NoPaths == <<>> \in Seq(WalkPath)
<1> PICK S : S = WalkPath
  OBVIOUS
<1>1. <<>> \in Seq(S)
  OBVIOUS
<1> QED
  BY <1>1

LEMMA WalkStarts == WalkInit => WalkInv
<1> SUFFICES ASSUME WalkInit PROVE WalkInv
  OBVIOUS
<1>1. PICK row \in WalkRow : row = NotWalking
  <2>1. NotWalking \in WalkRow
    BY NoPaths DEF WalkRow, NotWalking
  <2> QED
    BY <2>1
<1>2. row.at = "idle" /\ row.from = {} /\ row.queue = <<>> /\ row.following = {} /\ row.found = <<>>
  BY <1>1 DEF NotWalking
<1>3. walk = row /\ unmerged = Person /\ evidence \in [Links -> {"readable", "hidden", "retired"}] /\ heard \in Places
      /\ known = Person /\ meanwhile = 0 /\ stood = Standing
  BY <1>1 DEF WalkInit
<1>4. stood.links = Readable /\ stood.who = unmerged
  BY <1>3 DEF Standing, Readable
<1>5. WalkTyped
  BY <1>3, <1>4, WalkAssumption DEF WalkTyped
<1>6. FollowingStands /\ WalkEnds
  BY <1>2, <1>3 DEF FollowingStands, WalkEnds
<1>7. PICK P \in Seq(WalkPath) : P = <<>>
  BY NoPaths
<1>8. Paths = P /\ Len(P) = 0 /\ Results = 0 /\ 1..Len(P) = {}
  BY <1>2, <1>3, <1>7 DEF Paths, Results
<1>9. Distinct(Paths) /\ Trodden(Paths, stood.links, stood.who)
  BY <1>8 DEF Distinct, Trodden
<1>10. MetOf(P) = Within[0]
  <2>1. MetOf(P) = {}
    BY <1>8 DEF MetOf
  <2>2. Within[0] = {}
    BY <1>2, <1>3, WithinIs DEF WithinEquations, WalkStart
  <2> QED
    BY <2>1, <2>2
<1>11. Searched(Paths, Results, walk.following, Within, Readable, Shown)
  <2>1. PICK W, links, who : W = Within /\ links = Readable /\ who = Shown
    OBVIOUS
  <2>2. Searched(P, 0, {}, W, links, who)
    BY <1>8, <1>10, <2>1, SearchStarts
  <2> QED
    BY <1>2, <1>3, <1>8, <2>1, <2>2
<1> QED
  BY <1>5, <1>6, <1>9, <1>11 DEF WalkInv

\* What happens meanwhile only adds to what was to be seen.
LEMMA HappensStep ==
  ASSUME WalkInv, \/ \E x \in Person : MergeOrUndo(x)
                  \/ \E c \in Links, to \in {"readable", "hidden", "retired"} : EvidenceTurns(c, to)
                  \/ Forgotten
  PROVE  WalkInv'
<1>1. /\ meanwhile' = meanwhile + 1 /\ UNCHANGED <<heard, walk>>
      /\ stood' = [links |-> stood.links \cup Standing.links', who |-> stood.who \cup unmerged']
  BY DEF MergeOrUndo, EvidenceTurns, Forgotten, Happens
<1>2. unmerged' \subseteq Person /\ known' \subseteq Person /\ evidence' \in [Links -> {"readable", "hidden", "retired"}]
  BY DEF MergeOrUndo, EvidenceTurns, Forgotten, WalkInv, WalkTyped
<1>3. stood'.links = stood.links \cup Readable' /\ stood'.who = stood.who \cup unmerged'
  BY <1>1 DEF Standing, Readable
<1>4. meanwhile' \in Nat /\ meanwhile' # 0
  BY <1>1 DEF WalkInv, WalkTyped
<1>5. WalkTyped'
  BY <1>1, <1>2, <1>3, <1>4 DEF WalkInv, WalkTyped
<1>6. Paths' = Paths /\ Results' = Results
  BY <1>1 DEF Paths, Results
<1>7. FollowingStands' /\ WalkEnds'
  BY <1>1, <1>3, <1>6 DEF WalkInv, FollowingStands, WalkEnds
<1>8. Distinct(Paths)' /\ Trodden(Paths, stood.links, stood.who)'
  BY <1>3, <1>6 DEF WalkInv, Distinct, Trodden
<1> QED
  BY <1>4, <1>5, <1>7, <1>8 DEF WalkInv

\* A step of the walk itself.
LEMMA WalkMoves ==
  ASSUME WalkInv, UNCHANGED outside, walk' \in WalkRow, FollowingStands', WalkEnds',
         NEW P, P = Paths', Distinct(P), Trodden(P, stood.links, stood.who),
         NEW n, n = Results', NEW F, F = walk'.following, NEW W, W = Within',
         meanwhile = 0 /\ ~walk'.partial => Searched(P, n, F, W, Readable, Shown)
  PROVE  WalkInv'
<1>1. UNCHANGED <<unmerged, evidence, heard, known, meanwhile, stood>>
  BY DEF outside
<1>2. WalkTyped'
  BY <1>1 DEF WalkInv, WalkTyped, Readable
<1>s. Shown' = Shown
  BY <1>1, ShownStays
<1>3. Distinct(Paths')
  OBVIOUS
<1>4. Trodden(Paths', stood'.links, stood'.who)
  BY <1>1
<1>5. meanwhile' = 0 /\ ~walk'.partial => Searched(Paths', Results', walk'.following, Within', Readable', Shown')
  BY <1>1, <1>s DEF Readable
<1> QED
  BY <1>2, <1>3, <1>4, <1>5 DEF WalkInv

\* A walk begins from the visible of some entities.
LEMMA WalkBegins ==
  ASSUME WalkInv, NEW from \in SUBSET Person, UNCHANGED outside, walk' \in WalkRow,
         walk'.at \in {"walking", "walkingHere"}, walk'.from = from, walk'.found = <<>>, walk'.following = {},
         walk'.queue = Seqs!SetToSeq({<<x>> : x \in {y \in from : visible(y)}})
  PROVE  WalkInv'
<1>1. PICK Y \in SUBSET Person : Y = {y \in from : visible(y)}
  OBVIOUS
<1>2. PICK P : P = Seqs!SetToSeq({<<x>> : x \in Y})
  OBVIOUS
<1>3. P \in Seq(WalkPath) /\ MetOf(P) = Y /\ Distinct(P) /\ \A i \in 1..Len(P) : Len(P[i]) = 1
  BY <1>2, SeedPaths
<1>4. Paths' = P /\ Results' = 0
  <2>1. walk'.queue = P
    BY <1>1, <1>2
  <2> QED
    BY <1>3, <2>1 DEF Paths, Results
<1>5. Trodden(P, stood.links, stood.who)
  BY <1>3 DEF Trodden
<1>6. PICK W : W = Within'
  OBVIOUS
<1>7. W[0] = Y
  <2>1. UNCHANGED <<evidence, heard>>
    BY DEF outside
  <2>2. W[0] = {x \in from : visible(x)'}
    BY <1>6, WithinIsNext DEF WithinEquations, WalkStart
  <2> QED
    BY <1>1, <2>1, <2>2 DEF visible, LookedAt, Claims
<1>8. ASSUME NEW links, NEW who PROVE Searched(P, 0, {}, W, links, who)
  BY <1>3, <1>7, SearchStarts
<1>9. FollowingStands' /\ WalkEnds'
  BY DEF FollowingStands, WalkEnds
<1> QED
  BY <1>3, <1>4, <1>5, <1>6, <1>8, <1>9, WalkMoves

LEMMA AskStep ==
  ASSUME WalkInv, \/ \E named \in SUBSET Named, more \in BOOLEAN : AskNamed(named, more)
                  \/ \E here \in Local : AskHere(here)
  PROVE  WalkInv'
<1>1. CASE \E named \in SUBSET Named, more \in BOOLEAN : AskNamed(named, more)
  <2>1. PICK named \in SUBSET Named, more \in BOOLEAN : AskNamed(named, more)
    BY <1>1
  <2>2. named \in SUBSET Person
    BY WalkAssumption
  <2>3. PICK q \in Seq(WalkPath) : q = Seqs!SetToSeq({<<x>> : x \in {y \in named : visible(y)}})
    <3>1. PICK Y \in SUBSET Person : Y = {y \in named : visible(y)}
      BY <2>2
    <3>2. Seqs!SetToSeq({<<x>> : x \in Y}) \in Seq(WalkPath)
      BY SeedPaths
    <3> QED
      BY <3>1, <3>2
  <2>4. walk' = [NotWalking EXCEPT !.at = "walking", !.from = named, !.partial = more, !.queue = q]
    BY <2>1, <2>3 DEF AskNamed, StartsFrom
  <2>5. walk'.at = "walking" /\ walk'.from = named /\ walk'.queue = q /\ walk'.found = <<>> /\ walk'.following = {}
    BY <2>4 DEF NotWalking
  <2>6. walk' \in WalkRow
    BY <2>2, <2>4, NoPaths DEF NotWalking, WalkRow
  <2>7. UNCHANGED outside
    BY <2>1 DEF AskNamed
  <2> QED
    BY <2>2, <2>3, <2>5, <2>6, <2>7, WalkBegins
<1>2. CASE \E here \in Local : AskHere(here)
  <2>1. PICK here \in Local : AskHere(here)
    BY <1>2
  <2>2. here \in SUBSET Person
    BY WalkAssumption DEF Local
  <2>3. PICK q \in Seq(WalkPath) : q = Seqs!SetToSeq({<<x>> : x \in {y \in here : visible(y)}})
    <3>1. PICK Y \in SUBSET Person : Y = {y \in here : visible(y)}
      BY <2>2
    <3>2. Seqs!SetToSeq({<<x>> : x \in Y}) \in Seq(WalkPath)
      BY SeedPaths
    <3> QED
      BY <3>1, <3>2
  <2>4. walk' = [[NotWalking EXCEPT !.at = "walking", !.from = here, !.partial = FALSE, !.queue = q]
                  EXCEPT !.at = "walkingHere"]
    BY <2>1, <2>3 DEF AskHere, StartsFrom
  <2>5. walk'.at = "walkingHere" /\ walk'.from = here /\ walk'.queue = q /\ walk'.found = <<>> /\ walk'.following = {}
    BY <2>4 DEF NotWalking
  <2>6. walk' \in WalkRow
    BY <2>2, <2>4, NoPaths DEF NotWalking, WalkRow
  <2>7. UNCHANGED outside
    BY <2>1 DEF AskHere
  <2> QED
    BY <2>2, <2>3, <2>5, <2>6, <2>7, WalkBegins
<1> QED
  BY <1>1, <1>2

\* What is said of the walk before a step of it.
LEMMA WalkBefore ==
  ASSUME WalkInv
  PROVE  /\ walk \in WalkRow /\ walk.found \in Seq(WalkPath) /\ walk.queue \in Seq(WalkPath)
         /\ Paths \in Seq(WalkPath) /\ Results \in 0..Len(Paths) /\ Met(walk) = MetOf(Paths)
         /\ walk.from \in SUBSET Person /\ walk.following \in SUBSET Links
<1>1. walk \in WalkRow
  BY DEF WalkInv, WalkTyped
<1>2. /\ walk.found \in Seq(WalkPath) /\ walk.queue \in Seq(WalkPath)
      /\ walk.from \in SUBSET Person /\ walk.following \in SUBSET Links
  BY <1>1 DEF WalkRow
<1> QED
  BY <1>1, <1>2, PathsJoined, MetIsMet DEF Paths, Results, Met

\* An owner is asked which is meant: nobody is walked to.
LEMMA ClarifyStep == ASSUME WalkInv, AskClarification PROVE WalkInv'
<1>1. walk' = [NotWalking EXCEPT !.at = "clarify"] /\ UNCHANGED outside
  BY DEF AskClarification
<1>2. walk' \in WalkRow /\ walk'.at = "clarify" /\ walk'.from = {} /\ walk'.queue = <<>> /\ walk'.found = <<>> /\ walk'.following = {}
  BY <1>1, NoPaths DEF NotWalking, WalkRow
<1>3. PICK P \in Seq(WalkPath) : P = <<>>
  BY NoPaths
<1>4. Paths' = P /\ Len(P) = 0 /\ Results' = 0 /\ 1..Len(P) = {}
  BY <1>2, <1>3 DEF Paths, Results
<1>5. Distinct(P) /\ Trodden(P, stood.links, stood.who)
  BY <1>4 DEF Distinct, Trodden
<1>6. PICK W : W = Within'
  OBVIOUS
<1>7. MetOf(P) = W[0]
  <2>1. MetOf(P) = {}
    BY <1>4 DEF MetOf
  <2>2. W[0] = {}
    BY <1>2, <1>6, WithinIsNext DEF WithinEquations, WalkStart
  <2> QED
    BY <2>1, <2>2
<1>8. ASSUME NEW links, NEW who PROVE Searched(P, 0, {}, W, links, who)
  BY <1>4, <1>7, SearchStarts
<1>9. FollowingStands' /\ WalkEnds'
  BY <1>2 DEF FollowingStands, WalkEnds
<1> QED
  BY <1>1, <1>2, <1>4, <1>5, <1>6, <1>8, <1>9, WalkMoves

\* The walk ends, or its results are offered: the paths stay as they are.
LEMMA EndStep == ASSUME WalkInv, EndWalk \/ OfferPeers PROVE WalkInv'
<1>1. UNCHANGED outside
  BY DEF EndWalk, OfferPeers
<1>2. /\ walk \in WalkRow /\ walk.found \in Seq(WalkPath) /\ walk.queue \in Seq(WalkPath)
      /\ Paths \in Seq(WalkPath) /\ Results \in 0..Len(Paths) /\ walk.from \in SUBSET Person
  BY WalkBefore
<1>3. /\ walk' \in WalkRow /\ walk'.found = walk.found /\ walk'.queue = walk.queue /\ walk'.from = walk.from
      /\ walk'.following = walk.following
      /\ walk'.at \in {"walked", "walkedHere"} => walk.following = {} /\ (~walk'.partial => walk.queue = <<>>)
      /\ ~walk'.partial => ~walk.partial
  <2>1. CASE EndWalk
    <3>1. PICK at \in {"walked", "walkedHere"} : at = IF walk.at = "walking" THEN "walked" ELSE "walkedHere"
      OBVIOUS
    <3>2. PICK partial \in BOOLEAN : partial = (walk.partial \/ walk.queue # <<>>)
      BY Zenon
    <3>3. walk' = [[walk EXCEPT !.at = at] EXCEPT !.partial = partial]
      <4>1. Ended(walk) = [walk EXCEPT !.at = at]
        BY <1>2, <3>1 DEF Ended
      <4>2. [Ended(walk) EXCEPT !.partial = @ \/ walk.queue # <<>>] = [Ended(walk) EXCEPT !.partial = partial]
        <5>1. Ended(walk).partial = walk.partial
          BY <1>2 DEF Ended, WalkRow
        <5> QED
          BY <3>2, <5>1, Zenon
      <4> QED
        BY <2>1, <4>1, <4>2 DEF EndWalk
    <3>4. /\ walk' \in WalkRow /\ walk'.found = walk.found /\ walk'.queue = walk.queue /\ walk'.from = walk.from
          /\ walk'.following = walk.following /\ walk'.partial = partial
      BY <1>2, <3>3 DEF WalkRow
    <3>5. walk.following = {} /\ (~partial => walk.queue = <<>>) /\ (~partial => ~walk.partial)
      BY <2>1, <3>2, Zenon DEF EndWalk
    <3> QED
      BY <3>4, <3>5, Zenon
  <2>2. CASE OfferPeers
    <3>1. PICK peers \in SUBSET Person : walk' = [walk EXCEPT !.at = "offered", !.offered = peers]
      <4>1. known \subseteq Person
        BY DEF WalkInv, WalkTyped
      <4> QED
        BY <2>2, <4>1 DEF OfferPeers
    <3>2. /\ walk' \in WalkRow /\ walk'.found = walk.found /\ walk'.queue = walk.queue /\ walk'.from = walk.from
          /\ walk'.following = walk.following /\ walk'.at = "offered" /\ walk'.partial = walk.partial
      BY <1>2, <3>1 DEF WalkRow
    <3> QED
      BY <3>2
  <2> QED
    BY <2>1, <2>2
<1>4. Paths' = Paths /\ Results' = Results
  BY <1>3 DEF Paths, Results
<1>5. FollowingStands' /\ WalkEnds'
  <2>1. stood' = stood
    BY <1>1 DEF outside
  <2> QED
    BY <1>3, <1>4, <2>1 DEF WalkInv, FollowingStands, WalkEnds
<1>6. PICK P, n, F, W : P = Paths /\ n = Results /\ F = walk.following /\ W = Within
  OBVIOUS
<1>7. Within' = Within
  BY <1>1, <1>3, WithinStays DEF outside
<1>8. Distinct(P) /\ Trodden(P, stood.links, stood.who) /\ (meanwhile = 0 /\ ~walk.partial => Searched(P, n, F, W, Readable, Shown))
  BY <1>6 DEF WalkInv
<1> QED
  BY <1>1, <1>3, <1>4, <1>5, <1>6, <1>7, <1>8, WalkMoves

LEMMA ClaimsAreFinite == \A x : IsFiniteSet(Claims(x)) /\ Cardinality(Claims(x)) \in Nat
<1>1. Links \subseteq SUBSET Person
  BY WalkAssumption
<1>2. IsFiniteSet(SUBSET Person)
  BY WalkAssumption, FS_SUBSET
<1>3. \A x : Claims(x) \in SUBSET (SUBSET Person)
  BY <1>1 DEF Claims
<1> QED
  BY <1>2, <1>3, FS_Subset, FS_CardinalityType

LEMMA ShiftStep == ASSUME WalkInv, Shift PROVE WalkInv'
<1>1. UNCHANGED outside /\ walk.following = {} /\ walk.queue # <<>>
  BY DEF Shift, MoreToMeet
<1>2. /\ walk \in WalkRow /\ walk.found \in Seq(WalkPath) /\ walk.queue \in Seq(WalkPath)
      /\ Paths \in Seq(WalkPath) /\ Results \in 0..Len(Paths)
  BY WalkBefore
<1>3. PICK path \in WalkPath : path = Head(walk.queue)
  BY <1>1, <1>2, PathsJoined
<1>b. PICK more \in BOOLEAN : more = (Len(path) <= Hops /\ Cardinality(Claims(End(path))) > MaxRead)
  BY Zenon
<1>c. PICK page \in Pages(End(path)) :
        walk' = [walk EXCEPT !.found = Append(@, path), !.queue = Tail(@), !.partial = @ \/ more,
                   !.following = IF Len(path) <= Hops THEN readableClaims(page) ELSE {}]
  BY <1>3, <1>b, Zenon DEF Shift
<1>d. page \in SUBSET Claims(End(path)) /\ (Cardinality(Claims(End(path))) <= MaxRead => page = Claims(End(path)))
  BY DEF Pages
<1>e. PICK partial \in BOOLEAN : partial = (walk.partial \/ more)
  BY Zenon
<1>4. PICK F \in SUBSET Links : F = IF Len(path) <= Hops THEN readableClaims(page) ELSE {}
  <2>1. readableClaims(page) \in SUBSET Links
    BY <1>d DEF readableClaims, Claims
  <2> QED
    BY <2>1
<1>5. walk' = [walk EXCEPT !.found = Append(walk.found, path), !.queue = Tail(walk.queue), !.partial = partial,
                 !.following = F]
  BY <1>c, <1>e, <1>4, Zenon
<1>6. /\ walk'.found = Append(walk.found, path) /\ walk'.queue = Tail(walk.queue) /\ walk'.following = F
      /\ walk'.from = walk.from /\ walk'.at = walk.at /\ walk'.partial = partial
  BY <1>2, <1>5 DEF WalkRow
<1>7. Append(walk.found, path) \in Seq(WalkPath) /\ Tail(walk.queue) \in Seq(WalkPath)
  BY <1>1, <1>2, <1>3, PathsJoined
<1>8. walk' \in WalkRow
  BY <1>2, <1>5, <1>7 DEF WalkRow
<1>9. PICK P, n, W : P = Paths /\ n = Results /\ W = Within
  OBVIOUS
<1>a. P \in Seq(WalkPath) /\ n \in 0..Len(P)
  BY <1>2, <1>9
<1>10. Paths' = P /\ Results' = n + 1 /\ n + 1 <= Len(P) /\ P[n + 1] = path
  <2>1. PICK f \in Seq(WalkPath), q \in Seq(WalkPath) : f = walk.found /\ q = walk.queue
    BY <1>2
  <2>2. P = f \o q /\ n = Len(f) /\ path = Head(q) /\ q # <<>>
    BY <1>1, <1>3, <1>9, <2>1 DEF Paths, Results
  <2>3. Append(f, path) \o Tail(q) = P /\ Len(Append(f, path)) = n + 1 /\ n + 1 <= Len(P) /\ P[n + 1] = path
    BY <2>2, PathsJoined
  <2>4. Paths' = Append(f, path) \o Tail(q) /\ Results' = Len(Append(f, path))
    BY <1>6, <2>1 DEF Paths, Results
  <2> QED
    BY <2>3, <2>4
<1>11. n + 1 # 0 /\ (F # {} => Len(path) <= Hops)
  <2>2. n + 1 # 0
    BY <1>a
  <2>1. Len(path) \in Nat /\ Hops \in Nat
    BY PathLengths, WalkSteps
  <2> QED
    BY <1>4, <2>1, <2>2
<1>12. \A c \in F : End(path) \in c /\ c \in Readable
  BY <1>4, <1>d DEF readableClaims, Claims, Readable
<1>13. Readable \subseteq stood.links /\ stood' = stood
  BY <1>1 DEF WalkInv, WalkTyped, outside
<1>14. FollowingStands'
  BY <1>6, <1>10, <1>11, <1>12, <1>13 DEF FollowingStands
<1>15. WalkEnds'
  BY <1>6 DEF WalkEnds, Shift, Walking
<1>16. Within' = Within
  BY <1>1, <1>6, WithinStays DEF outside
<1>17. Distinct(P) /\ Trodden(P, stood.links, stood.who)
  BY <1>9 DEF WalkInv
<1>18. ASSUME meanwhile = 0, ~partial PROVE Searched(P, n + 1, F, W, Readable, Shown)
  <2>1. PICK links, who : links = Readable /\ who = Shown
    OBVIOUS
  <2>2. Searched(P, n, {}, W, links, who)
    BY <1>1, <1>9, <1>18, <1>e, <2>1 DEF WalkInv
  <2>3. \A h \in 1..Hops : W[h] = Beyond(W[h - 1], links, who)
    BY <1>9, <2>1, WithinIs DEF WithinEquations
  <2>4. F \in SUBSET links
    BY <1>12, <2>1
  <2>5. Len(P[n + 1]) <= Hops => F = {c \in links : End(P[n + 1]) \in c}
    <3> SUFFICES ASSUME Len(path) <= Hops PROVE F = {c \in links : End(path) \in c}
      BY <1>10
    <3>1. ~(Cardinality(Claims(End(path))) > MaxRead)
      BY <1>18, <1>b, <1>e
    <3>2. page = Claims(End(path))
      BY <1>d, <3>1, WalkAssumption, ClaimsAreFinite
    <3> QED
      BY <1>4, <2>1, <3>2 DEF readableClaims, Claims, Readable
  <2>6. Searched(P, n + 1, F, W, links, who)
    BY <1>a, <1>10, <2>2, <2>3, <2>4, <2>5, SearchShifts
  <2> QED
    BY <2>1, <2>6
<1> QED
  BY <1>1, <1>6, <1>8, <1>9, <1>10, <1>14, <1>15, <1>16, <1>17, <1>18, WalkMoves

\* A claim is followed: its other entity is new, or there is nothing to add.
LEMMA FollowStep == ASSUME WalkInv, NEW c \in Links, Follow(c) PROVE WalkInv'
<1>1. UNCHANGED outside /\ c \in walk.following
  BY DEF Follow
<1>2. /\ walk \in WalkRow /\ walk.found \in Seq(WalkPath) /\ walk.queue \in Seq(WalkPath)
      /\ Paths \in Seq(WalkPath) /\ Results \in 0..Len(Paths) /\ Met(walk) = MetOf(Paths)
      /\ walk.following \in SUBSET Links
  BY WalkBefore
<1>3. PICK P, n, W, f, q, F, links, who :
        /\ P = Paths /\ n = Results /\ W = Within /\ f = walk.found /\ q = walk.queue /\ F = walk.following
        /\ links = Readable /\ who = Shown
  OBVIOUS
<1>4. /\ P \in Seq(WalkPath) /\ f \in Seq(WalkPath) /\ q \in Seq(WalkPath) /\ P = f \o q /\ n = Len(f)
      /\ n \in 0..Len(P) /\ F \in SUBSET Links /\ c \in F
  BY <1>1, <1>2, <1>3 DEF Paths, Results
<1>5. /\ n # 0 /\ Len(P[n]) <= Hops /\ stood' = stood
      /\ \A e \in F : End(P[n]) \in e /\ e \in stood.links
  BY <1>1, <1>3 DEF WalkInv, FollowingStands, outside
<1>6. n \in 1..Len(P) /\ P[n] = f[n]
  BY <1>4, <1>5, PathsJoined
<1>7. PICK path \in WalkPath : path = f[n] /\ path = P[n]
  BY <1>4, <1>6
<1>8. PICK x \in Person : x = (CHOOSE y \in c : c = {End(path), y}) /\ c = {End(path), x}
  <2>1. End(path) \in c
    BY <1>4, <1>5, <1>7
  <2>2. \E a, b \in Person : c = {a, b}
    BY WalkAssumption
  <2> QED
    BY <2>1, <2>2
<1>9. c # {} /\ walk' = [walk EXCEPT !.following = F \ {c}, !.queue = IF LeadsTo(x) THEN Append(q, Append(path, x)) ELSE q]
  BY <1>2, <1>3, <1>4, <1>7, <1>8 DEF Follow, WalkRow
<1>10. Append(path, x) \in WalkPath
  BY <1>4, <1>5, <1>6, <1>7, PathAppended
<1>11. PICK next \in Seq(WalkPath) : next = IF LeadsTo(x) THEN Append(q, Append(path, x)) ELSE q
  <2>1. Append(q, Append(path, x)) \in Seq(WalkPath)
    BY <1>4, <1>10, PathsJoined
  <2> QED
    BY <1>4, <2>1
<1>12. /\ walk' \in WalkRow /\ walk'.queue = next /\ walk'.following = F \ {c} /\ walk'.found = f
       /\ walk'.from = walk.from /\ walk'.at = walk.at /\ walk'.partial = walk.partial
  <2>1. walk' = [walk EXCEPT !.following = F \ {c}, !.queue = next]
    BY <1>9, <1>11
  <2> QED
    BY <1>2, <1>3, <1>4, <2>1 DEF WalkRow
<1>13. Within' = Within
  BY <1>1, <1>12, WithinStays DEF outside
<1>14. WalkEnds'
  BY <1>12 DEF WalkEnds, Follow, Walking
<1>15. Results' = n
  BY <1>4, <1>12 DEF Results
<1>16. Distinct(P) /\ Trodden(P, stood.links, stood.who)
  BY <1>3 DEF WalkInv
<1>17. meanwhile = 0 /\ ~walk.partial =>
         /\ Searched(P, n, F, W, links, who)
         /\ \A h \in 1..Hops : W[h] = Beyond(W[h - 1], links, who)
  BY <1>3, WithinIs DEF WalkInv, WithinEquations
<1>18. who \in SUBSET Person /\ who \subseteq stood.who
  BY <1>3 DEF WalkInv, WalkTyped, Shown
<1>19. CASE LeadsTo(x)
  <2>1. x \notin MetOf(P) /\ x \in who
    BY <1>2, <1>3, <1>19 DEF LeadsTo, Shown
  <2>2. PICK Q : Q = Append(P, Append(P[n], x))
    OBVIOUS
  <2>3. Paths' = Q
    <3>1. f \o Append(q, Append(path, x)) = Append(f \o q, Append(path, x))
      BY <1>4, <1>10, PathsJoined
    <3> QED
      BY <1>4, <1>7, <1>11, <1>12, <1>19, <2>2, <3>1 DEF Paths
  <2>l. PICK longer : longer = Append(P[n], x)
    OBVIOUS
  <2>4. PICK m \in Nat : m = Len(P[n]) /\ m >= 1
    BY <1>7, PathLengths
  <2>5. /\ Len(longer) = m + 1 /\ \A k \in 1..m : longer[k] = P[n][k]
        /\ Q \in Seq(WalkPath) /\ Len(Q) = Len(P) + 1 /\ Q[Len(P) + 1] = longer
        /\ End(longer) = x /\ \A i \in 1..Len(P) : Q[i] = P[i]
    <3>1. P \in Seq(WalkPath) /\ n \in 1..Len(P) /\ Len(P[n]) <= Hops /\ x \in Person
      BY <1>4, <1>5, <1>6
    <3>2. /\ Len(longer) = Len(P[n]) + 1 /\ \A k \in 1..Len(P[n]) : longer[k] = P[n][k]
          /\ Q \in Seq(WalkPath) /\ Len(Q) = Len(P) + 1 /\ Q[Len(P) + 1] = longer
          /\ End(longer) = x /\ \A i \in 1..Len(P) : Q[i] = P[i]
      BY <2>2, <2>l, <3>1, PathAppended
    <3> QED
      BY <2>4, <3>2
  <2>6. \A i \in 1..Len(Q) : i \in 1..Len(P) \/ i = Len(P) + 1
    <3>1. PICK last \in Nat : last = Len(P)
      BY <1>4
    <3>2. \A i \in 1..last + 1 : i \in 1..last \/ i = last + 1
      OBVIOUS
    <3> QED
      BY <2>5, <3>1, <3>2
  <2>7. Distinct(Q)
    <3>1. \A i \in 1..Len(P) : End(Q[i]) = End(P[i]) /\ End(Q[i]) # x
      BY <2>1, <2>5 DEF MetOf
    <3>2. End(Q[Len(P) + 1]) = x
      BY <2>5
    <3> QED
      BY <1>16, <2>6, <3>1, <3>2 DEF Distinct
  <2>8. Trodden(Q, stood.links, stood.who)
    <3>1. ASSUME NEW k \in 2..(m + 1) PROVE {longer[k - 1], longer[k]} \in stood.links /\ longer[k] \in stood.who
      <4>1. CASE k = m + 1
        <5>1. m \in 1..m /\ (m + 1) - 1 = m
          BY <2>4
        <5>2. longer[m] = End(P[n]) /\ longer[m + 1] = x
          BY <2>4, <2>5, <5>1 DEF End
        <5> QED
          BY <1>4, <1>5, <1>7, <1>8, <1>18, <2>1, <4>1, <5>1, <5>2
      <4>2. CASE k # m + 1
        <5>1. k \in 2..m /\ k \in 1..m /\ k - 1 \in 1..m
          BY <2>4, <4>2
        <5>2. longer[k] = P[n][k] /\ longer[k - 1] = P[n][k - 1]
          BY <2>5, <5>1
        <5> QED
          BY <1>6, <1>16, <2>4, <5>1, <5>2 DEF Trodden
      <4> QED
        BY <4>1, <4>2
    <3>2. \A i \in 1..Len(P) : \A k \in 2..Len(Q[i]) : {Q[i][k - 1], Q[i][k]} \in stood.links /\ Q[i][k] \in stood.who
      BY <1>16, <2>5 DEF Trodden
    <3>3. \A k \in 2..Len(Q[Len(P) + 1]) :
            {Q[Len(P) + 1][k - 1], Q[Len(P) + 1][k]} \in stood.links /\ Q[Len(P) + 1][k] \in stood.who
      BY <2>5, <3>1
    <3> QED
      BY <2>6, <3>2, <3>3 DEF Trodden
  <2>9. FollowingStands'
    <3>1. Q[n] = P[n]
      BY <1>6, <2>5
    <3> QED
      BY <1>5, <1>12, <1>15, <2>3, <3>1 DEF FollowingStands
  <2>10. ASSUME meanwhile = 0, ~walk.partial PROVE Searched(Q, n, F \ {c}, W, links, who)
    <3>1. c = {End(P[n]), x}
      BY <1>7, <1>8
    <3> QED
      BY <1>4, <1>5, <1>6, <1>17, <1>18, <2>1, <2>2, <2>10, <3>1, SearchGoesOn
  <2>11. meanwhile = 0 /\ ~walk'.partial => Searched(Q, n, F \ {c}, W, Readable, Shown)
    BY <1>3, <1>12, <2>10
  <2> QED
    BY <1>1, <1>3, <1>12, <1>13, <1>14, <1>15, <2>3, <2>7, <2>8, <2>9, <2>11, WalkMoves
<1>20. CASE ~LeadsTo(x)
  <2>1. Paths' = P
    BY <1>4, <1>11, <1>12, <1>20 DEF Paths
  <2>2. FollowingStands'
    BY <1>5, <1>12, <1>15, <2>1 DEF FollowingStands
  <2>3. ASSUME meanwhile = 0, ~walk.partial PROVE Searched(P, n, F \ {c}, W, links, who)
    <3>1. x \in MetOf(P) \/ x \notin who
      BY <1>2, <1>3, <1>20 DEF LeadsTo, Shown
    <3>2. End(P[n]) \in MetOf(P)
      BY <1>6 DEF MetOf
    <3>3. \A y \in c \cap who : y \in MetOf(P)
      BY <1>7, <1>8, <3>1, <3>2
    <3> QED
      BY <1>4, <1>17, <2>3, <3>3, SearchPasses
  <2>4. meanwhile = 0 /\ ~walk'.partial => Searched(P, n, F \ {c}, W, Readable, Shown)
    BY <1>3, <1>12, <2>3
  <2> QED
    BY <1>1, <1>3, <1>12, <1>13, <1>14, <1>15, <1>16, <2>1, <2>2, <2>4, WalkMoves
<1> QED
  BY <1>19, <1>20

LEMMA WalkStep == WalkInv /\ [WalkNext]_WalkVars => WalkInv'
<1> SUFFICES ASSUME WalkInv, [WalkNext]_WalkVars PROVE WalkInv'
  OBVIOUS
<1>1. CASE WalkNext
  BY <1>1, HappensStep, AskStep, ClarifyStep, ShiftStep, FollowStep, EndStep DEF WalkNext
<1>2. CASE UNCHANGED WalkVars
  <2>1. UNCHANGED outside /\ walk' = walk
    BY <1>2 DEF WalkVars, outside
  <2>2. PICK P, n, F, W : P = Paths /\ n = Results /\ F = walk.following /\ W = Within
    OBVIOUS
  <2>3. Paths' = P /\ Results' = n /\ walk'.following = F
    BY <2>1, <2>2 DEF Paths, Results
  <2>4. Within' = W
    BY <2>1, <2>2, WithinStays DEF outside
  <2>5. Distinct(P) /\ Trodden(P, stood.links, stood.who) /\ (meanwhile = 0 /\ ~walk.partial => Searched(P, n, F, W, Readable, Shown))
    BY <2>2 DEF WalkInv
  <2>6. walk' \in WalkRow /\ FollowingStands' /\ WalkEnds'
    BY <1>2, <2>1, <2>2, <2>3 DEF WalkVars, WalkInv, WalkTyped, FollowingStands, WalkEnds
  <2> QED
    BY <2>1, <2>3, <2>4, <2>5, <2>6, WalkMoves
<1> QED
  BY <1>1, <1>2

\* Whatever the owner decides meanwhile, every step of the walk is along a claim that was to be
\* seen, to an entity that was not merged, and nobody is met twice; undisturbed, a walk not
\* called partial has met all that is shown to the reader within the hops, by shortest paths.
THEOREM WalkAlwaysStands == WalkSpec => []WalkStands
<1>1. WalkInv => WalkStands
  <2> SUFFICES ASSUME WalkInv PROVE WalkStands
    OBVIOUS
  <2>1. /\ walk \in WalkRow /\ walk.found \in Seq(WalkPath) /\ walk.queue \in Seq(WalkPath)
        /\ Paths \in Seq(WalkPath) /\ Results \in 0..Len(Paths) /\ Met(walk) = MetOf(Paths)
    BY WalkBefore
  <2>2. DOMAIN Paths = 1..Len(Paths)
    BY <2>1
  <2>3. PathsStood
    <3>1. \A i \in 1..Len(Paths) : Len(Paths[i]) <= Hops + 1
      <4>1. \A i \in 1..Len(Paths) : Paths[i] \in WalkPath
        BY <2>1
      <4> QED
        BY <4>1, PathLengths
    <3> QED
      BY <2>2, <3>1 DEF WalkInv, PathsStood, Paths, Distinct, Trodden, Seqs!Range
  <2>4. ASSUME walk.at \in {"walked", "walkedHere"}, meanwhile = 0, ~walk.partial
        PROVE  /\ Met(walk) = Within[Hops]
               /\ \A p \in Seqs!Range(walk.found), hops \in 0..Hops : End(p) \in Within[hops] => Len(p) <= hops + 1
    <3>1. PICK P, W, links, who : P = Paths /\ W = Within /\ links = Readable /\ who = Shown
      OBVIOUS
    <3>2. walk.following = {} /\ walk.queue = <<>>
      BY <2>4 DEF WalkInv, WalkEnds
    <3>3. Results = Len(P) /\ P = walk.found
      BY <2>1, <3>1, <3>2, PathsJoined DEF Paths, Results
    <3>4. P \in Seq(WalkPath) /\ Searched(P, Len(P), {}, W, links, who)
      BY <2>1, <2>4, <3>1, <3>2, <3>3 DEF WalkInv
    <3>5. \A h \in 1..Hops : W[h] = Beyond(W[h - 1], links, who)
      BY <3>1, WithinIs DEF WithinEquations
    <3>6. MetOf(P) = W[Hops]
      BY <3>4, <3>5, SearchEnds
    <3>7. DOMAIN P = 1..Len(P)
      BY <3>4
    <3>8. \A p \in Seqs!Range(P), hops \in 0..Hops : End(p) \in W[hops] => Len(p) <= hops + 1
      BY <3>4, <3>7 DEF Seqs!Range, Searched, SearchShortest
    <3> QED
      BY <2>1, <3>1, <3>3, <3>6, <3>8
  <2> QED
    BY <2>3, <2>4 DEF WalkStands, WalkIsComplete
<1> QED
  BY <1>1, WalkStarts, WalkStep, PTL DEF WalkSpec

----------------------------------------------------------------------------
(* The runs of the union are runs of each component.                       *)

LEMMA PublicationsRun == Spec => PublicationSpec
<1>1. Init => PublicationInit
  BY DEF Init
<1>2. [Next]_RepresentationVars => [PublicationNext]_PublicationVars
  BY DEF Next, RepresentationVars
<1> QED
  BY <1>1, <1>2, PTL DEF Spec, PublicationSpec

LEMMA EntitiesRun == Spec => EntitySpec
<1>1. Init => EntityInit
  BY DEF Init
<1>2. [Next]_RepresentationVars => [EntityNext]_EntityVars
  BY DEF Next, RepresentationVars
<1> QED
  BY <1>1, <1>2, PTL DEF Spec, EntitySpec

LEMMA CaptureRuns == Spec => CaptureSpec
<1>1. Init => CaptureInit
  BY DEF Init
<1>2. [Next]_RepresentationVars => [CaptureNext]_CaptureVars
  BY DEF Next, RepresentationVars
<1> QED
  BY <1>1, <1>2, PTL DEF Spec, CaptureSpec

LEMMA PreparationRuns == Spec => PreparationSpec
<1>1. Init => PreparationInit
  BY DEF Init
<1>2. [Next]_RepresentationVars => [PreparationNext]_PreparationVars
  BY DEF Next, RepresentationVars
<1> QED
  BY <1>1, <1>2, PTL DEF Spec, PreparationSpec

LEMMA ReadingRuns == Spec => ReadingSpec
<1>1. Init => ReadingInit
  BY DEF Init
<1>2. [Next]_RepresentationVars => [ReadingNext]_ReadingVars
  BY DEF Next, RepresentationVars
<1> QED
  BY <1>1, <1>2, PTL DEF Spec, ReadingSpec

LEMMA MemoryRuns == Spec => MemorySpec
<1>1. Init => MemoryInit
  BY DEF Init
<1>2. [Next]_RepresentationVars => [MemoryNext]_MemoryVars
  BY DEF Next, RepresentationVars
<1> QED
  BY <1>1, <1>2, PTL DEF Spec, MemorySpec

LEMMA WalkRuns == Spec => WalkSpec
<1>1. Init => WalkInit
  BY DEF Init
<1>2. [Next]_RepresentationVars => [WalkNext]_WalkVars
  BY DEF Next, RepresentationVars
<1> QED
  BY <1>1, <1>2, PTL DEF Spec, WalkSpec

LEMMA CorrectionsRun == Spec => CorrectionSpec
<1>1. Init => CorrectionInit
  BY DEF Init
<1>2. [Next]_RepresentationVars => [CorrectionNext]_CorrectionVars
  BY DEF Next, RepresentationVars
<1> QED
  BY <1>1, <1>2, PTL DEF Spec, CorrectionSpec

\* Of every run of the union: whoever finishes a publication, the stores agree about it, and
\* the owner's revision stands.
THEOREM RevisionsAlwaysStand == Spec => RevisionsStand
<1>1. PublicationTypeOK /\ StoresAgree => (part = "publication" => PublicationTypeOK /\ StoresAgree)
  OBVIOUS
<1>2. [OwnerStays]_PublicationVars => [part = "publication" => OwnerStays]_PublicationVars
  OBVIOUS
<1>3. PublicationInv => PublicationTypeOK
  BY DEF PublicationInv
<1> QED
  BY <1>1, <1>2, <1>3, PublicationsRun, PublicationInvariant, PublicationsAgree, PTL DEF RevisionsStand

\* Of every run of the union: a guarded representation and a turn's memory are read of one
\* moment.
THEOREM ReadsAlwaysStand == Spec => ReadsStand
<1>1. [ReadsOneMoment]_PublicationVars => [part = "publication" => ReadsOneMoment]_PublicationVars
  OBVIOUS
<1>2. [CleanReads]_ReadingVars => [part = "reading" => CleanReads]_ReadingVars
  OBVIOUS
<1> QED
  BY <1>1, <1>2, PublicationsRun, ReadingRuns, ReadersSeeOneMoment, ReadsAreClean, PTL DEF ReadsStand

\* Of every run of the union: entities stay well formed, and a claim the owner corrected stands.
THEOREM ClaimsAlwaysStand == Spec => ClaimsStand
<1>1. EntityTypeOK => (part = "entities" => EntityTypeOK)
  OBVIOUS
<1>2. [OwnerClaimStands]_EntityVars => [part = "entities" => OwnerClaimStands]_EntityVars
  OBVIOUS
<1> QED
  BY <1>1, <1>2, EntitiesRun, ClaimsAreKept, PTL DEF ClaimsStand

\* Of every run of the union: what was acknowledged reaches its work, and what was derived
\* from it is never replaced behind the owner's back.
THEOREM EvidenceAlwaysStands == Spec => EvidenceStands
<1>1. CaptureKeeps => (part = "capture" => CaptureKeeps)
  OBVIOUS
<1>2. [PreparationStands]_PreparationVars => [part = "preparation" => PreparationStands]_PreparationVars
  OBVIOUS
<1> QED
  BY <1>1, <1>2, CaptureRuns, PreparationRuns, EvidenceIsKept, PreparedIsKept, PTL DEF EvidenceStands

\* Of every run of the union: what Honcho holds is what its receipts say and may be held, what
\* it was given stands after the refreshes of the owner's decisions, and whose memory is read
\* is found by a walk of which every step was to be seen and which misses nothing shown.
THEOREM MemoryAlwaysStands == Spec => []MemoryStands
<1>1. MemoryAgrees /\ CorrectionAgrees /\ WalkStands => MemoryStands
  BY DEF MemoryStands
<1> QED
  BY <1>1, MemoryRuns, CorrectionsRun, WalkRuns, MemoryAlwaysAgrees, CorrectionsAgree, WalkAlwaysStands, PTL
=============================================================================
