-------------------------- MODULE MCRepresentations --------------------------
(***************************************************************************)
(* Model checking of what Nocheh knows: capture and preparation of         *)
(* evidence, publications of representations, native memory with its       *)
(* corrections, its readers and the walk to whom they are read about, and  *)
(* connected entities, an instance of each.  `part' chooses in the initial *)
(* state which one moves, and never changes.                               *)
(***************************************************************************)
EXTENDS GuardPublication, NativeMemory, ConnectedEntities, Capture, Preparation,
        MemoryCorrection, MemoryReading, ConnectedWalk, TLC

CONSTANTS c1, l1, l2, x1, x2, i1, i2, k1, p1, p2, p3, p4, p5

VARIABLE part

OneCopy == {c1}
TwoLearned == {l1, l2}
\* Revisions, documents, callers, drainers, callbacks: only one component moves.
Pair == {x1, x2}
TwoIdentities == {i1, i2}
FirstIdentity == {i1}
OneCorrection == {k1}
TwoUpdates == {1, 2}
\* Two reactions; a message and the result of its answer; the browser's input and answer.
SomeHistories == {{1, 2}, {1, ResultFile}, {InputFile, AnswerFile}}
FromCorrection == (i1 :> k1)
HeardWhere == (i1 :> i1) @@ (i2 :> i2)
\* A chain one hop too long, a short cut in it, and a claim about p3 alone: p3 has more claims
\* than a page, unless that one was retired, and more than are looked at, by ids of which the
\* short cut's comes after the others'.
FivePersons == {p1, p2, p3, p4, p5}
TwoNamed == {p1, p4}
IdsOfChain ==
  ({p1, p2} :> 1) @@ ({p2, p3} :> 2) @@ ({p3, p4} :> 3) @@ ({p1, p3} :> 4) @@ ({p4, p5} :> 5) @@ ({p3} :> 6)
Chain == DOMAIN IdsOfChain
OwnersOrOnes == {FivePersons, {p1}}
Symmetry == Permutations(Pair)

RepresentationVars ==
  <<part, PublicationVars, MemoryVars, EntityVars, CaptureVars, PreparationVars,
    CorrectionVars, ReadingVars, WalkVars>>

Init ==
  /\ part \in {"publication", "memory", "entities", "capture", "preparation",
              "correction", "reading", "walk"}
  /\ PublicationInit /\ MemoryInit /\ EntityInit /\ CaptureInit /\ PreparationInit
  /\ CorrectionInit /\ ReadingInit /\ WalkInit
  /\ part # "capture" => subjects = {1, 2}
  /\ part # "walk" => evidence = [c \in Links |-> "readable"] /\ heard = FivePersons
  /\ part = "walk" =>
       /\ \A c \in Links : evidence[c] = "retired" => c = {p3}
       /\ evidence[{p3}] # "readable"
  /\ part # "preparation" => transport = "capture"

Next ==
  /\ UNCHANGED part
  /\ \/ /\ part = "publication" /\ PublicationNext
        /\ UNCHANGED <<MemoryVars, EntityVars, CaptureVars, PreparationVars,
                       CorrectionVars, ReadingVars, WalkVars>>
     \/ /\ part = "memory" /\ MemoryNext
        /\ UNCHANGED <<PublicationVars, EntityVars, CaptureVars, PreparationVars,
                       CorrectionVars, ReadingVars, WalkVars>>
     \/ /\ part = "entities" /\ EntityNext
        /\ UNCHANGED <<PublicationVars, MemoryVars, CaptureVars, PreparationVars,
                       CorrectionVars, ReadingVars, WalkVars>>
     \/ /\ part = "capture" /\ CaptureNext
        /\ UNCHANGED <<PublicationVars, MemoryVars, EntityVars, PreparationVars,
                       CorrectionVars, ReadingVars, WalkVars>>
     \/ /\ part = "preparation" /\ PreparationNext
        /\ UNCHANGED <<PublicationVars, MemoryVars, EntityVars, CaptureVars,
                       CorrectionVars, ReadingVars, WalkVars>>
     \/ /\ part = "correction" /\ CorrectionNext
        /\ UNCHANGED <<PublicationVars, MemoryVars, EntityVars, CaptureVars,
                       PreparationVars, ReadingVars, WalkVars>>
     \/ /\ part = "reading" /\ ReadingNext
        /\ UNCHANGED <<PublicationVars, MemoryVars, EntityVars, CaptureVars,
                       PreparationVars, CorrectionVars, WalkVars>>
     \/ /\ part = "walk" /\ WalkNext
        /\ UNCHANGED <<PublicationVars, MemoryVars, EntityVars, CaptureVars,
                       PreparationVars, CorrectionVars, ReadingVars>>

Spec == Init /\ [][Next]_RepresentationVars

\* A component that does not move stays in its first state: each property looks at the states
\* and steps of its own.  Whoever finishes a publication, the stores agree about it, and the
\* owner's revision stands.
RevisionsStand ==
  /\ [](part = "publication" => PublicationTypeOK /\ StoresAgree)
  /\ [][part = "publication" => OwnerStays]_PublicationVars

\* What Honcho holds is what its receipts say and may be held.  After the refreshes of the
\* owner's decisions what it was given stands, and what stands has a receipt or is still to be
\* queued.  Whose memory is read is found by a walk of which every step was to be seen, and
\* which, undisturbed and not called partial, meets all that the reader is shown.
MemoryStands ==
  /\ part = "memory" => MemoryAgrees
  /\ part = "correction" => CorrectionAgrees
  /\ part = "walk" => WalkStands

\* What is read is of one moment: a guarded representation, and a turn's memory.
ReadsStand ==
  /\ [][part = "publication" => ReadsOneMoment]_PublicationVars
  /\ [][part = "reading" => CleanReads]_ReadingVars

\* What entities are said to be stays well formed under crossing merges and bindings, and a
\* claim the owner corrected stands.
ClaimsStand ==
  /\ [](part = "entities" => EntityTypeOK)
  /\ [][part = "entities" => OwnerClaimStands]_EntityVars

\* Evidence stands: what was acknowledged reaches its work, and what was derived from it for
\* that work is never replaced behind the owner's back.
EvidenceStands ==
  /\ [](part = "capture" => CaptureKeeps)
  /\ [][part = "preparation" => PreparationStands]_PreparationVars
=============================================================================
