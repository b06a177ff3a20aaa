-------------------------- MODULE ConnectedEntities --------------------------
(***************************************************************************)
(* People, the platform identities bound to them, and claims about them.   *)
(* The first message of an identity makes an entity and binds the identity *)
(* to it; the owner renames, merges, separates and corrects.  Automatic    *)
(* refresh goes on while the owner decides.                                *)
(* (src/src/stores/entities.ts, entity-schema.ts, owner-commands.ts)       *)
(*                                                                         *)
(* An owner command is one commit of the control store, except for the     *)
(* correction of a claim: that commits in the derived store first.         *)
(***************************************************************************)
EXTENDS Integers, FiniteSets

CONSTANTS
  Identity,   \* platform accounts; the entity made for one has its name
  Claimed,    \* the ones whose entity claims are about
  Correction, \* the owner's correction commands
  NobodyYet,
  MaxChange,  \* bound: revisions of an entity
  MaxClaim    \* bound: revisions of a claim

ASSUME EntityAssumption ==
  Claimed \subseteq Identity /\ NobodyYet \notin Identity /\ MaxChange \in Nat \ {0} /\ MaxClaim \in Nat

VARIABLES
  entity,       \* memory_entities
  binding,      \* memory_entity_bindings of kind 'source_identity': of an account, the row
                \* its first message makes, and the one a confirmed suggestion makes
  bindingMoves, \* memory_entity_binding_moves
  arriving,     \* ensureParticipant, between its statements
  suggestion,   \* memory_entity_suggestions of kind 'binding'
  claim,        \* entity_claims with the active version: one claim a subject
  corrections,  \* versions of an owner's correction: <<command, subject, revision>>
  correctionReceipt \* owner_commands of corrections

EntityVars == <<entity, binding, bindingMoves, arriving, suggestion,
                claim, corrections, correctionReceipt>>
claimRows == <<claim, corrections, correctionReceipt>>

Row == Identity \X {"exact", "confirmed"}
NoEntity == [state |-> "none", revision |-> 0, into |-> NobodyYet]
NoClaim == [revision |-> 0, author |-> "none", says |-> "nothing", retired |-> FALSE]

EntityInit ==
  /\ entity = [x \in Identity |-> NoEntity]
  /\ binding = [row \in Row |-> NobodyYet]
  /\ bindingMoves = {} /\ arriving = [x \in Identity |-> "idle"]
  /\ suggestion = [x \in Identity |-> "none"]
  /\ claim = [x \in Claimed |-> NoClaim] /\ corrections = {} /\ correctionReceipt = {}

Active(x) == entity[x].state = "active"
Linked(x) == binding[<<x, "exact">>] # NobodyYet

----------------------------------------------------------------------------
(* ensureParticipant: four statements, no transaction.                     *)

\* The identity's binding is looked up; a linked one only follows platform names.
LookUp(x) ==
  /\ arriving[x] = "idle" /\ ~Linked(x)
  /\ arriving' = [arriving EXCEPT ![x] = "unlinked"]
  /\ UNCHANGED <<entity, binding, bindingMoves, suggestion, claimRows>>
InsertEntity(x) ==
  /\ arriving[x] = "unlinked" /\ arriving' = [arriving EXCEPT ![x] = "named"]
  /\ entity' = [entity EXCEPT ![x] =
       IF @ = NoEntity THEN [state |-> "active", revision |-> 1, into |-> NobodyYet] ELSE @]
  /\ UNCHANGED <<binding, bindingMoves, suggestion, claimRows>>
\* A row that is there stays; a confirmed row for the account makes the statement fail.
InsertBinding(x) ==
  /\ arriving[x] = "named" /\ arriving' = [arriving EXCEPT ![x] = "idle"]
  /\ binding' = [binding EXCEPT ![<<x, "exact">>] =
       IF Linked(x) \/ binding[<<x, "confirmed">>] # NobodyYet THEN @ ELSE x]
  /\ UNCHANGED <<entity, bindingMoves, suggestion, claimRows>>
StopArriving(x) ==
  /\ arriving[x] # "idle" /\ arriving' = [arriving EXCEPT ![x] = "idle"]
  /\ UNCHANGED <<entity, binding, bindingMoves, suggestion, claimRows>>

----------------------------------------------------------------------------
(* The owner's commands about entities.                                    *)

rename(x) ==
  /\ Active(x) /\ entity[x].revision < MaxChange
  /\ entity' = [entity EXCEPT ![x].revision = @ + 1]
  /\ UNCHANGED <<binding, bindingMoves, arriving, suggestion, claimRows>>

\* Every identity bound to the one is bound to the other, and where it came from is kept.
Moves(x, y) ==
  {[who |-> i, from |-> x, to |-> y, at |-> entity[x].revision + 1, undone |-> FALSE] :
     i \in {row \in Row : binding[row] = x}}
merge(x, y) ==
  /\ x # y /\ Active(x) /\ Active(y) /\ entity[x].revision < MaxChange
  /\ bindingMoves' = bindingMoves \cup Moves(x, y)
  /\ binding' = [i \in Row |-> IF binding[i] = x THEN y ELSE binding[i]]
  /\ entity' = [entity EXCEPT ![x] = [state |-> "merged", revision |-> @.revision + 1, into |-> y]]
  /\ UNCHANGED <<arriving, suggestion, claimRows>>

\* What that merge moved comes back, wherever it is now.
Undone(m, x) == m.from = x /\ m.at = entity[x].revision /\ ~m.undone
unmerge(x) ==
  LET back == {m \in bindingMoves : Undone(m, x)} IN
  /\ entity[x].state = "merged" /\ entity[x].revision < MaxChange
  /\ binding' = [i \in Row |-> IF \E m \in back : m.who = i THEN x ELSE binding[i]]
  /\ bindingMoves' = (bindingMoves \ back) \cup {[m EXCEPT !.undone = TRUE] : m \in back}
  /\ entity' = [entity EXCEPT ![x] =
       [state |-> "active", revision |-> @.revision + 1, into |-> NobodyYet]]
  /\ UNCHANGED <<arriving, suggestion, claimRows>>

\* suggest, decide: the confirmed row of an account has an identity of its own, so it cannot
\* be written beside an exact one (the index on the account refuses it).
suggest(x) ==
  /\ suggestion[x] = "none" /\ suggestion' = [suggestion EXCEPT ![x] = "pending"]
  /\ UNCHANGED <<entity, binding, bindingMoves, arriving, claimRows>>
decideBinding(x, confirm, target) ==
  /\ suggestion[x] = "pending"
  /\ IF confirm THEN Active(target) /\ ~Linked(x)
                     /\ binding' = [binding EXCEPT ![<<x, "confirmed">>] = target]
                ELSE UNCHANGED binding
  /\ suggestion' = [suggestion EXCEPT ![x] = IF confirm THEN "confirmed" ELSE "rejected"]
  /\ UNCHANGED <<entity, bindingMoves, arriving, claimRows>>

----------------------------------------------------------------------------
(* Claims.                                                                 *)

Publishes(x, author, says, retired) ==
  claim' = [claim EXCEPT ![x] =
    [revision |-> @.revision + 1, author |-> author, says |-> says, retired |-> retired]]

\* A fault: only the same claim is kept, whoever wrote it.
KeepsClaimSame(x, says) == claim[x].says = says /\ ~claim[x].retired
\* publishClaim: what the owner wrote stays, retired or not; the same claim again is no
\* new revision.  publishDiscoveries publishes its claims one by one.
KeepsClaim(x, says) ==
  claim[x].author = "owner" \/ (claim[x].says = says /\ ~claim[x].retired)
publishClaim(x, says) ==
  /\ Active(x) /\ ~KeepsClaim(x, says) /\ claim[x].revision < MaxClaim
  /\ Publishes(x, "honcho", says, FALSE)
  /\ UNCHANGED <<entity, binding, bindingMoves, arriving, suggestion,
                 corrections, correctionReceipt>>

\* correct: the derived commit of an owner's command.  The command may stop here and be sent
\* again: the version of that operation is found and the command completed.
Replays(c, x) == \E r \in 1..MaxClaim : <<c, x, r>> \in corrections
correct(c, x, seen, retired) ==
  /\ c \notin correctionReceipt /\ claim[x] # NoClaim /\ claim[x].revision < MaxClaim
  /\ ~Replays(c, x) /\ seen = claim[x].revision
  /\ Publishes(x, "owner", "corrected", retired)
  /\ corrections' = corrections \cup {<<c, x, seen + 1>>}
  /\ UNCHANGED <<entity, binding, bindingMoves, arriving, suggestion, correctionReceipt>>
CompleteCorrection(c, x) ==
  /\ Replays(c, x) /\ c \notin correctionReceipt
  /\ correctionReceipt' = correctionReceipt \cup {c}
  /\ UNCHANGED <<entity, binding, bindingMoves, arriving, suggestion, claim, corrections>>

EntityNext ==
  \E x \in Identity :
    \/ LookUp(x) \/ InsertEntity(x) \/ InsertBinding(x) \/ StopArriving(x)
    \/ rename(x) \/ unmerge(x) \/ suggest(x)
    \/ \E y \in Identity : merge(x, y)
    \/ \E confirm \in BOOLEAN, target \in Identity : decideBinding(x, confirm, target)
    \/ x \in Claimed /\ \E says \in {"one", "other"} : publishClaim(x, says)
    \/ x \in Claimed /\ \E c \in Correction, seen \in 1..MaxClaim, retired \in BOOLEAN :
                          correct(c, x, seen, retired)
    \/ \E c \in Correction : CompleteCorrection(c, x)

EntitySpec == EntityInit /\ [][EntityNext]_EntityVars

----------------------------------------------------------------------------
EntityTypeOK ==
  /\ entity \in [Identity -> [state : {"none", "active", "merged"}, revision : 0..MaxChange,
                              into : Identity \cup {NobodyYet}]]
  /\ binding \in [Row -> Identity \cup {NobodyYet}]
  /\ bindingMoves \subseteq [who : Row, from : Identity, to : Identity,
                             at : 1..MaxChange, undone : BOOLEAN]
  /\ arriving \in [Identity -> {"idle", "unlinked", "named"}]
  /\ suggestion \in [Identity -> {"none", "pending", "confirmed", "rejected"}]
  /\ claim \in [Claimed -> [revision : 0..MaxClaim, author : {"none", "honcho", "owner"},
                             says : {"nothing", "one", "other", "corrected"}, retired : BOOLEAN]]
  /\ corrections \subseteq Correction \X Identity \X (1..MaxClaim)
  /\ correctionReceipt \subseteq Correction

\* What the owner corrected or retired is replaced only by a later correction of the owner,
\* and every correction makes one version, although its two commits may be taken apart by a
\* crash, repeated by a retry, and crossed by automatic claims and other corrections.
OwnerClaimStands ==
  \A x \in Claimed :
    /\ claim[x].author = "owner" => claim'[x].author = "owner"
    /\ claim'[x].author = "owner" /\ claim'[x] # claim[x] =>
         \E c \in Correction : <<c, x, claim'[x].revision>> \in corrections' \ corrections
    /\ \A c \in Correction : Cardinality({r \in 1..MaxClaim : <<c, x, r>> \in corrections'}) <= 1
=============================================================================
