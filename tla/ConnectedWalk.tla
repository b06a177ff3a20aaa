---------------------------- MODULE ConnectedWalk ----------------------------
(***************************************************************************)
(* The connected people and projects a turn's memory is read for: from the *)
(* ones the question names, or else the speaker and the project of the     *)
(* message, along claims the reader may see, three hops at most.  Every    *)
(* look-up is a query of its own, so the owner may merge, correct or       *)
(* retire in between.                                                      *)
(* (src/src/stores/entities.ts, native-memory.ts)                          *)
(***************************************************************************)
EXTENDS Integers, FiniteSets, Sequences
Seqs == INSTANCE SequencesExt

CONSTANTS
  Person,      \* entities
  Named,       \* the ones a question, its speaker or its project may be
  Links,       \* the claims there may be, each the set of the entities it is about, one or two
  IdOf,        \* and the order of their ids
  MaxLooked,   \* of an entity's claims, how many are looked at to see whether it is shown (100)
  MaxRead,     \* and how many are read of one that is walked from (200)
  Places,      \* sets of entities: who has spoken where the reader is (all, for the owner)
  MaxFound,    \* the reader's limit
  MaxMeanwhile \* bound: what happens while the entities are walked

ASSUME WalkAssumption ==
  /\ IsFiniteSet(Person) /\ Named \subseteq Person
  /\ \A c \in Links : \E x, y \in Person : c = {x, y}
  /\ IdOf \in [Links -> Nat] /\ \A c, d \in Links : IdOf[c] = IdOf[d] => c = d
  /\ MaxLooked \in Nat \ {0} /\ MaxRead \in Nat \ {0}
  /\ Places \subseteq SUBSET Person /\ MaxFound \in Nat \ {0} /\ MaxMeanwhile \in Nat

Hops == 3  \* connectedFrom: no claim is followed from an entity at depth three
Seeds == 3 \* and it starts from three entities

VARIABLES
  unmerged,    \* entities whose row is 'active': the others are merged into another
  evidence,  \* of every claim: what its evidence is to the reader
  heard,     \* who has spoken where the reader is
  known,     \* entities Honcho has finished messages about, in the reader's audience
  walk,      \* connectedPeers and the connectedFrom it is in
  meanwhile, \* decisions since it began
  stood      \* the claims and the entities that were to be seen at some time since

WalkVars == <<unmerged, evidence, heard, known, walk, meanwhile, stood>>
outside == <<unmerged, evidence, heard, known, meanwhile, stood>>

Claims(x) == {c \in Links : x \in c /\ evidence[c] # "retired"}
\* A page of an entity's claims, the less certain ones left out.  (How certain a claim is, is
\* not modelled: they may be any.)
Pages(x) ==
  {page \in SUBSET Claims(x) : IF Cardinality(Claims(x)) <= MaxRead THEN page = Claims(x)
                                ELSE Cardinality(page) = MaxRead}
\* Of the first claims by id one must be readable: an entity whose readable claims all come
\* after them is not shown.  A project of the reader's space is among the heard.
LookedAt(x) ==
  {c \in Claims(x) : Cardinality({d \in Claims(x) : IdOf[d] < IdOf[c]}) < MaxLooked}
visible(x) == x \in heard \/ \E c \in LookedAt(x) : evidence[c] = "readable"
Listed == {x \in unmerged : visible(x)}
Standing == [links |-> {c \in Links : evidence[c] = "readable"}, who |-> unmerged]

NotWalking == [at |-> "idle", from |-> {}, queue |-> <<>>, following |-> {},
               found |-> <<>>, partial |-> FALSE, offered |-> {}]

WalkInit ==
  /\ unmerged = Person /\ evidence \in [Links -> {"readable", "hidden", "retired"}]
  /\ heard \in Places /\ known = Person /\ walk = NotWalking
  /\ meanwhile = 0 /\ stood = Standing

----------------------------------------------------------------------------
(* What happens meanwhile.                                                 *)

Happens ==
  /\ meanwhile < MaxMeanwhile /\ meanwhile' = meanwhile + 1
  /\ stood' = [links |-> stood.links \cup Standing.links', who |-> stood.who \cup unmerged']
  /\ UNCHANGED <<heard, walk>>
MergeOrUndo(x) ==
  /\ unmerged' = IF x \in unmerged THEN unmerged \ {x} ELSE unmerged \cup {x}
  /\ UNCHANGED <<evidence, known>> /\ Happens
\* The claim is retired, or a message of its evidence is retired or restored.
EvidenceTurns(c, to) ==
  /\ evidence[c] \notin {to, "retired"} /\ evidence' = [evidence EXCEPT ![c] = to]
  /\ UNCHANGED <<unmerged, known>> /\ Happens
Forgotten ==
  /\ known # {} /\ known' = {} /\ UNCHANGED <<unmerged, evidence>> /\ Happens

----------------------------------------------------------------------------
(* connectedPeers.                                                         *)

\* The ends of a path: a path is the entities a result was reached through.
End(path) == path[Len(path)]
Met(w) == {End(p) : p \in Seqs!Range(w.found) \cup Seqs!Range(w.queue)}
StartsFrom(from, partial) ==
  [NotWalking EXCEPT !.at = "walking", !.from = from, !.partial = partial,
     !.queue = Seqs!SetToSeq({<<x>> : x \in {y \in from : visible(y)}})]

\* connected: the listed entities the question names.  An owner who names two alike is asked
\* which is meant.
AskNamed(named, more) ==
  /\ walk.at = "idle" /\ named \subseteq Listed /\ named # {} /\ Cardinality(named) <= Seeds
  /\ walk' = StartsFrom(named, more) /\ UNCHANGED outside
AskClarification ==
  /\ walk.at = "idle" /\ heard = Person /\ Cardinality(Listed) > 1
  /\ walk' = [NotWalking EXCEPT !.at = "clarify"] /\ UNCHANGED outside
\* context: the speaker of the message and the project of its space, when the question led
\* to nobody.
Local == {here \in SUBSET Named : Cardinality(here) <= 2}
AskHere(here) ==
  /\ \/ walk.at = "idle"
     \/ walk.at = "walked" /\ walk.found = <<>>
  /\ walk' = [StartsFrom(here, FALSE) EXCEPT !.at = "walkingHere"] /\ UNCHANGED outside

Walking == walk.at \in {"walking", "walkingHere"}
Ended(w) == [w EXCEPT !.at = IF @ = "walking" THEN "walked" ELSE "walkedHere"]
MoreToMeet(w) == w.queue # <<>> /\ Len(w.found) < MaxFound

\* The next of the queue is a result, and its claims are read, up to three hops: a page of
\* them, and of it the readable ones.
readableClaims(page) == {c \in page : evidence[c] = "readable"}
Shift ==
  LET path == Head(walk.queue)
      goesOn == Len(path) <= Hops
      more == goesOn /\ Cardinality(Claims(End(path))) > MaxRead
  IN /\ Walking /\ walk.following = {} /\ MoreToMeet(walk)
     /\ \E page \in Pages(End(path)) :
          walk' = [walk EXCEPT !.found = Append(@, path), !.queue = Tail(@),
            !.partial = @ \/ more, !.following = IF goesOn THEN readableClaims(page) ELSE {}]
     /\ UNCHANGED outside
\* The other entity of a claim, unless there is none, it was met, is merged by now or is not
\* shown: then the claim is passed over, and the walk is not called partial for it.
LeadsTo(x) == x \notin Met(walk) /\ x \in unmerged /\ visible(x)
Follow(c) ==
  LET path == walk.found[Len(walk.found)]
      other == CHOOSE x \in c : c = {End(path), x}
  IN /\ Walking /\ c \in walk.following
     /\ walk' = [walk EXCEPT !.following = @ \ {c},
          !.queue = IF LeadsTo(other) THEN Append(@, Append(path, other)) ELSE @]
     /\ UNCHANGED outside
EndWalk ==
  /\ Walking /\ walk.following = {} /\ ~MoreToMeet(walk)
  /\ walk' = [Ended(walk) EXCEPT !.partial = @ \/ walk.queue # <<>>] /\ UNCHANGED outside

\* Of the results, the ones Honcho knows are offered.
OfferPeers ==
  /\ \/ walk.at = "walkedHere"
     \/ walk.at = "walked" /\ walk.found # <<>>
  /\ walk' = [walk EXCEPT !.at = "offered",
       !.offered = {End(p) : p \in Seqs!Range(walk.found)} \cap known]
  /\ UNCHANGED outside

WalkNext ==
  \/ \E x \in Person : MergeOrUndo(x)
  \/ \E c \in Links, to \in {"readable", "hidden", "retired"} : EvidenceTurns(c, to)
  \/ Forgotten
  \/ \E named \in SUBSET Named, more \in BOOLEAN : AskNamed(named, more)
  \/ AskClarification
  \/ \E here \in Local : AskHere(here)
  \/ Shift
  \/ \E c \in Links : Follow(c)
  \/ EndWalk \/ OfferPeers

WalkSpec == WalkInit /\ [][WalkNext]_WalkVars

----------------------------------------------------------------------------

\* What the reader is shown: with an owner, whoever is not merged.
Shown == {x \in unmerged : visible(x)}

\* The entities within so many claims of where the walk began, over the ones shown.
Within[hops \in 0..Hops] ==
  IF hops = 0 THEN {x \in walk.from : visible(x)}
  ELSE LET near == Within[hops - 1]
       IN near \cup {x \in Shown : \E c \in Links : x \in c /\ evidence[c] = "readable"
                                       /\ c \cap near # {}}

\* Whatever the owner decides meanwhile, nobody is met twice, and every step of every path is
\* along a claim that was to be seen since the walk began, to an entity that was not merged.
PathsStood ==
  LET paths == walk.found \o walk.queue IN
  /\ \A i, j \in DOMAIN paths : End(paths[i]) = End(paths[j]) => i = j
  /\ \A p \in Seqs!Range(paths) :
       /\ Len(p) <= Hops + 1
       /\ \A k \in 2..Len(p) : {p[k - 1], p[k]} \in stood.links /\ p[k] \in stood.who

\* And when nothing happened meanwhile, a walk not called partial has met all that is shown
\* within three hops over entities shown, each by a shortest path.  (What visible does not show
\* a group reader because its first claims by id cannot be read is missed, and so is what lies
\* behind it, without the walk being called partial.)
WalkIsComplete ==
  (walk.at \in {"walked", "walkedHere"} /\ meanwhile = 0 /\ ~walk.partial) =>
    /\ Met(walk) = Within[Hops]
    /\ \A p \in Seqs!Range(walk.found), hops \in 0..Hops : End(p) \in Within[hops] => Len(p) <= hops + 1

WalkStands == PathsStood /\ WalkIsComplete
=============================================================================
