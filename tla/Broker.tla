------------------------------- MODULE Broker -------------------------------
(***************************************************************************)
(* The broker between a turn and what it may read or ask of the model: a   *)
(* turn is admitted once, a request's effect is decided by the owner's     *)
(* policy and entered in the journal, the audience is asserted again       *)
(* before the call and before every part of the answer.  The policy, the   *)
(* guard epoch, the turn and its run may change between any two of these   *)
(* steps.  Requests share only what they read, so one request moves.       *)
(* (src/src/security/broker.ts, store.ts, contract.ts, stores/turns.ts)    *)
(***************************************************************************)
EXTENDS Integers, Sequences

CONSTANTS
  Admitter,     \* callers of register
  ProfileOf,    \* the logical profile each of them registers the turn for
  NoTurn,       \* not a profile: no runtime_turns row
  MaxParts,     \* parts of an answer
  MaxPolicies,  \* bound: revisions of the policy
  MaxBreaks     \* bound: lost answers of the database and stops of the broker

ASSUME BrokerAssumption ==
  /\ NoTurn \notin {ProfileOf[c] : c \in Admitter}
  /\ MaxParts \in Nat /\ MaxPolicies \in Nat \ {0} /\ MaxBreaks \in Nat

\* A model request, a read the policy decides on, and a relay with an enforcement of its own.
AskKinds == {"model.request", "memory.read", "relay"}
Terminals == {"completed", "failed", "ambiguous"}
\* assertAudience reads, one query after the other.  None of them comes back once it lapsed.
Looks == <<"epoch", "turn", "run">>

VARIABLES
  facts,      \* the members of Looks that hold
  turnOf,     \* the profile of the runtime_turns row
  admission,  \* how far each caller of register is
  policies,   \* the kinds each revision of the policy denies
  ask,        \* the request: where it is, and what it has seen and done
  journal,    \* the states of its effect in security_events
  breaks

BrokerVars == <<facts, turnOf, admission, policies, ask, journal, breaks>>
world == <<facts, turnOf, admission, policies>>

Revision == Len(policies)
Denied(kind, revision) == kind \in policies[revision]
AudienceHolds == facts = {"epoch", "turn", "run"}

NotAsking ==
  [at |-> "idle", kind |-> "relay", look |-> 1, decided |-> 0, traced |-> FALSE,
   started |-> FALSE, preparedUnder |-> 0, called |-> FALSE, calledLate |-> FALSE,
   reply |-> "none", given |-> 0, late |-> 0, whole |-> FALSE]

BrokerInit ==
  /\ facts = {"epoch", "run"} /\ turnOf = NoTurn
  /\ admission = [c \in Admitter |-> "idle"] /\ policies = <<{}>>
  /\ ask = NotAsking /\ journal = {} /\ breaks = 0

----------------------------------------------------------------------------
(* The turn, the owner's policy.                                           *)

\* assertAudience sees a row there is already: closed, or of another profile.
RegisterLook(c) ==
  /\ admission[c] = "idle"
  /\ admission' = [admission EXCEPT ![c] =
       IF /\ {"epoch", "run"} \subseteq facts
          /\ turnOf # NoTurn => turnOf = ProfileOf[c] /\ "turn" \in facts
       THEN "looked" ELSE "refused"]
  /\ UNCHANGED <<facts, turnOf, policies, ask, journal, breaks>>

\* The row is inserted unless there is one, and has to be the one that was meant.
RegisterInsert(c) ==
  /\ admission[c] = "looked"
  /\ IF turnOf = NoTurn
     THEN turnOf' = ProfileOf[c] /\ facts' = facts \cup {"turn"}
     ELSE UNCHANGED <<turnOf, facts>>
  /\ admission' = [admission EXCEPT ![c] =
       IF turnOf' = ProfileOf[c] /\ "turn" \in facts' THEN "inserted" ELSE "refused"]
  /\ UNCHANGED <<policies, ask, journal, breaks>>

RegisterConfirm(c) ==
  /\ admission[c] = "inserted"
  /\ admission' = [admission EXCEPT ![c] = IF AudienceHolds THEN "admitted" ELSE "refused"]
  /\ UNCHANGED <<facts, turnOf, policies, ask, journal, breaks>>

\* The turn is closed, its run cancelled or its lease run out, the guard epoch moved on.
Lapse(fact) ==
  /\ fact \in facts /\ facts' = facts \ {fact}
  /\ UNCHANGED <<turnOf, admission, policies, ask, journal, breaks>>

\* validatePolicy: of what is routine a rule may only deny, never ask.
Deniable == SUBSET (AskKinds \ {"relay"})
ChangePolicy(denied) ==
  /\ Revision < MaxPolicies /\ denied # policies[Revision]
  /\ policies' = Append(policies, denied)
  /\ UNCHANGED <<facts, turnOf, admission, ask, journal, breaks>>

----------------------------------------------------------------------------
(* The request.                                                            *)

Goes(to) == ask' = [ask EXCEPT !.at = to, !.look = 1] /\ UNCHANGED <<world, journal, breaks>>

\* The catch of handle: an effect that is not closed yet is, by what was begun.
Caught(a) == [a EXCEPT !.at = IF a.traced THEN "closing" ELSE "over"]
Throws == ask' = Caught(ask) /\ UNCHANGED <<world, journal, breaks>>

\* recordEffect.  When the database does not answer the state may be entered or not.
Records(state, after, thrown) ==
  /\ \/ /\ journal' = journal \cup {state} /\ ask' = after /\ UNCHANGED breaks
     \/ /\ breaks < MaxBreaks /\ breaks' = breaks + 1
        /\ journal' \in {journal, journal \cup {state}} /\ ask' = thrown
  /\ UNCHANGED world

\* The turn's credential is signed for a caller of register.
Ask(kind) ==
  /\ \E c \in Admitter : admission[c] = "admitted"
  /\ ask.at = "idle" /\ ask' = [NotAsking EXCEPT !.at = "binding", !.kind = kind]
  /\ UNCHANGED <<world, journal, breaks>>

\* checkSpace: the turn's message is not of the space the reader stands in.
SpaceDenied == ask.at = "binding" /\ Throws

\* Where a look at the audience leads when every fact of it held.
AfterLooks ==
  [binding |-> IF ask.kind = "relay" THEN "calling" ELSE "deciding",
   recheck |-> "reconsider", opening |-> "streaming", checking |-> "giving"]
\* assertAudience: the next query.
Look ==
  /\ ask.at \in DOMAIN AfterLooks
  /\ IF Looks[ask.look] \notin facts
     THEN Throws
     ELSE IF ask.look = Len(Looks)
     THEN Goes(AfterLooks[ask.at])
     ELSE ask' = [ask EXCEPT !.look = @ + 1] /\ UNCHANGED <<world, journal, breaks>>

\* authorizeEffect: the policy of this moment, then the proposal and the decision in the journal.
Decide ==
  /\ ask.at = "deciding"
  /\ ask' = [ask EXCEPT !.at = "proposing", !.decided = Revision, !.traced = TRUE]
  /\ UNCHANGED <<world, journal, breaks>>
\* providerPayload: hosted tools and remote context are no one's to allow.
Forbidden ==
  /\ ask.at = "deciding" /\ ask.kind = "model.request"
  /\ ask' = [ask EXCEPT !.at = "forbidding", !.decided = Revision]
  /\ UNCHANGED <<world, journal, breaks>>
ProposeEffect ==
  /\ ask.at \in {"proposing", "forbidding"}
  /\ Records("proposed", [ask EXCEPT !.at = IF ask.traced THEN "permitting" ELSE "blocking"],
             Caught(ask))
Permit ==
  /\ ask.at = "permitting" /\ ~Denied(ask.kind, ask.decided)
  /\ Records("allowed",
             [ask EXCEPT !.at = IF ask.kind = "model.request" THEN "preparing" ELSE "calling"],
             Caught(ask))
Block ==
  /\ \/ ask.at = "permitting" /\ Denied(ask.kind, ask.decided)
     \/ ask.at = "blocking"
  /\ Records("blocked", [ask EXCEPT !.at = "over"], Caught(ask))

\* The transport and the guarded payload; both may be refused or not come.
Prepare ==
  /\ ask.at = "preparing"
  /\ ask' = [ask EXCEPT !.at = "recheck", !.look = 1, !.preparedUnder = Revision]
  /\ UNCHANGED <<world, journal, breaks>>
\* Every attempt repeats the audience's enforcement and the policy's.
Stands == ~Denied(ask.kind, Revision) /\ Revision = ask.decided
Reconsider ==
  /\ ask.at = "reconsider" /\ (IF Stands THEN Goes("starting") ELSE Throws)
RecordStart ==
  /\ ask.at = "starting"
  /\ Records("started", [ask EXCEPT !.at = "calling", !.started = TRUE], Caught(ask))

Call ==
  /\ ask.at = "calling"
  /\ ask' = [ask EXCEPT !.at = "awaiting", !.called = TRUE, !.calledLate = ~AudienceHolds]
  /\ UNCHANGED <<world, journal, breaks>>
BeginAnswer ==
  /\ ask.at = "awaiting"
  /\ ask' = [ask EXCEPT !.at = "opening", !.look = 1, !.reply = "ok"]
  /\ UNCHANGED <<world, journal, breaks>>
\* The provider's refusal closes the effect; the archive's is thrown.
Refuse ==
  /\ ask.at = "awaiting"
  /\ LET refused == [ask EXCEPT !.reply = "refused"]
     IN IF ask.kind = "model.request"
        THEN Records("failed", [refused EXCEPT !.at = "over"], Caught(refused))
        ELSE ask' = Caught(refused) /\ UNCHANGED <<world, journal, breaks>>

\* stream: every part is given after a look of its own.
PartArrives == ask.at = "streaming" /\ ask.given < MaxParts /\ Goes("checking")
Give ==
  /\ ask.at = "giving"
  /\ ask' = [ask EXCEPT !.at = "streaming", !.given = @ + 1,
                        !.late = IF AudienceHolds THEN @ ELSE @ + 1]
  /\ UNCHANGED <<world, journal, breaks>>
EndOfAnswer ==
  /\ ask.at = "streaming"
  /\ ask' = [ask EXCEPT !.whole = TRUE, !.at = IF ask.traced THEN "completing" ELSE "over"]
  /\ UNCHANGED <<world, journal, breaks>>
Complete ==
  /\ ask.at = "completing"
  /\ Records("completed", [ask EXCEPT !.at = "over"], Caught(ask))

\* The reader goes away, a deadline passes, a connection is lost, an answer is too long.
Broken == ask.at \in {"preparing", "awaiting", "streaming", "giving"} /\ Throws
Unanswered == IF ask.started THEN "ambiguous" ELSE "failed"
Close ==
  /\ ask.at = "closing"
  /\ LET over == [ask EXCEPT !.at = "over"] IN Records(Unanswered, over, over)

\* The broker stops: no one goes on with the request or closes its effect.
BrokerStops ==
  /\ ask.at \notin {"idle", "over", "gone"} /\ breaks < MaxBreaks
  /\ breaks' = breaks + 1 /\ ask' = [ask EXCEPT !.at = "gone"]
  /\ UNCHANGED <<world, journal>>

BrokerNext ==
  \/ \E c \in Admitter : RegisterLook(c) \/ RegisterInsert(c) \/ RegisterConfirm(c)
  \/ \E fact \in facts : Lapse(fact)
  \/ \E denied \in Deniable : ChangePolicy(denied)
  \/ \E kind \in AskKinds : Ask(kind)
  \/ SpaceDenied \/ Look \/ Decide \/ Forbidden \/ ProposeEffect \/ Permit \/ Block
  \/ Prepare \/ Reconsider \/ RecordStart \/ Call \/ BeginAnswer \/ Refuse
  \/ PartArrives \/ Give \/ EndOfAnswer \/ Complete \/ Broken \/ Close \/ BrokerStops

----------------------------------------------------------------------------
(* What is right about it.                                                 *)

\* Callers that register a turn for two profiles are not both told it is admitted.
OneProfile == \A c \in Admitter : admission[c] = "admitted" => turnOf = ProfileOf[c]

\* An effect that was blocked or not entered as started was not tried, one entered as failed
\* gave the turn nothing of a model's answer, and one that is completed gave the whole of it.
JournalAgrees ==
  /\ "blocked" \in journal => ~ask.called
  /\ ask.called /\ ask.kind = "model.request" => {"proposed", "allowed", "started"} \subseteq journal
  /\ "failed" \in journal /\ ask.kind = "model.request" => ask.reply # "ok"
  /\ "completed" \in journal => ask.whole
\* A request that ended leaves one outcome of what it was allowed, unless something broke.
OneOutcome ==
  ask.at = "over" /\ breaks = 0 /\ "allowed" \in journal =>
    \E s \in Terminals : journal \cap Terminals = {s}

\* Of an answer that was asked for after its audience was gone nothing is given, and of any
\* other at most the part that was on its way.
AudienceKept == ask.late <= 1 /\ (ask.calledLate => ask.given = 0)

\* The model is asked under the policy that decided, which stood when all was prepared.
PolicyKept ==
  ask.called /\ ask.kind # "relay" =>
    /\ ~Denied(ask.kind, ask.decided)
    /\ ask.kind = "model.request" => ask.preparedUnder = ask.decided

BrokerAgrees == OneProfile /\ JournalAgrees /\ OneOutcome /\ AudienceKept /\ PolicyKept
=============================================================================
