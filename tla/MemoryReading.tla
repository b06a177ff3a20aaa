---------------------------- MODULE MemoryReading ----------------------------
(***************************************************************************)
(* A turn reads long-term memory: the context of its conversation, a       *)
(* recall, and the prefetch that prepares a context before a turn needs    *)
(* it, while the owner decides, the refresh rebuilds sessions and spent    *)
(* summaries are pruned.                                                   *)
(* (src/src/stores/native-memory.ts, honcho-provenance.ts, guards.ts,      *)
(* src/src/workflows/retention.ts)                                         *)
(*                                                                         *)
(* MemoryCorrection has the refresh page by page; here it is one step, and *)
(* a write is one step with the look at its evidence.  What Honcho says is *)
(* any part of what the sessions it may use were given.                    *)
(***************************************************************************)
EXTENDS Integers, FiniteSets

CONSTANTS
  Memory,       \* memories that Honcho may be given
  Place,        \* conversations
  HeardAt,      \* the conversation of a memory
  OwnerSaid,    \* memories that are active owner corrections of their conversation
  MaxJudgement, \* bound: owner decisions, each a guard epoch
  MaxTaking,    \* bound: revisions of a session
  MaxKept       \* bound: copies that are kept at a time

ASSUME ReadingAssumption ==
  /\ HeardAt \in [Memory -> Place] /\ OwnerSaid \subseteq Memory
  /\ MaxJudgement \in Nat /\ MaxTaking \in Nat \ {0} /\ MaxKept \in Nat

Everywhere == "owner"   \* the audience that spans the workspace
ASSUME AudienceAssumption == Everywhere \notin Place

VARIABLES
  judged,     \* guard_state.epoch
  withdrawn,  \* memories whose evidence is retired
  taking,     \* memory_sessions.revision
  given,      \* Honcho: the memories of each session that is not deleted
  refreshed,  \* the refresh of this epoch has passed every receipt
  kept,       \* guarded copies of what Honcho said for a context
  asking      \* a read under way

ReadingVars == <<judged, withdrawn, taking, given, refreshed, kept, asking>>

NoCopy == [of |-> {}, text |-> {}]
NotAsking == [at |-> "none", kind |-> "recall", audience |-> Everywhere, under |-> 0, scope |-> {},
              calls |-> 0, heard |-> {}, corrections |-> {}, copy |-> NoCopy, young |-> FALSE,
              late |-> FALSE]

ReadingInit ==
  /\ judged = 0 /\ withdrawn = {} /\ taking = [p \in Place |-> 1] /\ given = {}
  /\ refreshed = TRUE /\ kept = {} /\ asking = NotAsking

Now(p) == <<p, taking[p]>>
\* Sessions of Honcho: the current ones and those that are still to be deleted.
Sessions == {g[2] : g \in given} \cup {Now(p) : p \in Place}
Told(sessions) == {g[1] : g \in {x \in given : x[2] \in sessions}}
Written(p) == Told({Now(p)})
\* Nothing withdrawn is left in a session that the audience can read.
Clean(audience) ==
  refreshed /\ Told(IF audience = Everywhere THEN Sessions ELSE {Now(audience)}) \cap withdrawn = {}

----------------------------------------------------------------------------
(* What the rest of Nocheh and Honcho do meanwhile.                        *)

Judge(m) ==
  /\ judged < MaxJudgement /\ judged' = judged + 1 /\ refreshed' = FALSE
  /\ withdrawn' = IF m \in withdrawn THEN withdrawn \ {m} ELSE withdrawn \cup {m}
  /\ UNCHANGED <<taking, given, kept, asking>>
\* rebuild: a session that holds a withdrawn memory gets a new, empty revision.
Refresh ==
  LET dirty == {p \in Place : Written(p) \cap withdrawn # {}} IN
  /\ ~refreshed /\ refreshed' = TRUE /\ \A p \in dirty : taking[p] < MaxTaking
  /\ taking' = [p \in Place |-> IF p \in dirty THEN taking[p] + 1 ELSE taking[p]]
  /\ UNCHANGED <<judged, withdrawn, given, kept, asking>>
DeleteTaking(s) ==
  /\ s \in Sessions \ {Now(p) : p \in Place} /\ given' = {g \in given : g[2] # s}
  /\ UNCHANGED <<judged, withdrawn, taking, refreshed, kept, asking>>
Give(m) ==
  /\ m \notin withdrawn /\ m \notin Written(HeardAt[m])
  /\ given' = given \cup {<<m, Now(HeardAt[m])>>}
  /\ UNCHANGED <<judged, withdrawn, taking, refreshed, kept, asking>>
\* pruneMemorySummaries: a copy that is not young.
PruneCopy(c) ==
  /\ c \in kept /\ ~(asking.young /\ asking.copy = c) /\ kept' = kept \ {c}
  /\ UNCHANGED <<judged, withdrawn, taking, given, refreshed, asking>>

----------------------------------------------------------------------------
(* Reads.  `under' is the epoch of the turn's token.                       *)

Reads == UNCHANGED <<judged, withdrawn, taking, given, refreshed>>

\* A fault: the epoch of the turn is not looked at again.
StillBoundAlways == TRUE
\* audience.assert and guards.assertCurrent.
StillBound == judged = asking.under

\* The sessions an answer may use.  The owner's spans the workspace, whatever it then has.
Usable == IF asking.audience = Everywhere THEN Sessions ELSE asking.scope

Start(kind, audience, scope, calls, corrections) ==
  asking' = [NotAsking EXCEPT !.at = "asking", !.kind = kind, !.audience = audience,
    !.under = judged, !.scope = scope, !.calls = calls, !.corrections = corrections,
    !.late = ~Clean(audience)]

\* connectedPeers: people whose evidence the audience can read.
SomeoneKnown(p, audience) == IF audience = Everywhere THEN given # {} ELSE Written(p) # {}
\* sessionContext: of a turn in conversation p, or prefetched for its latest speaker.  Only the
\* owner's audience may ask for what is known elsewhere when p has nothing written.
BeginContext(p, audience, kind) ==
  /\ asking.at = "none" /\ audience \in {p, Everywhere}
  /\ Written(p) # {} \/ (kind # "prefetch" /\ audience = Everywhere /\ given # {})
  /\ Start(kind, audience, IF Written(p) # {} THEN {Now(p)} ELSE {}, 1, {})
  /\ Reads /\ UNCHANGED kept
\* learned.read, of the owner's corrections of the conversation: none that is retired or whose
\* evidence can no longer be read.
CorrectionsAt(p) == {m \in OwnerSaid \ withdrawn : HeardAt[m] = p}
\* recall: the owner's corrections of the conversation, then up to two of the people that
\* something the audience may read is known about.
BeginRecall(p, audience) ==
  /\ asking.at = "none" /\ audience \in {p, Everywhere}
  /\ \E corrections \in SUBSET CorrectionsAt(p), people \in 0..2 :
       /\ people > 0 => SomeoneKnown(p, audience)
       /\ Start("recall", audience, {Now(p)}, people, corrections)
  /\ Reads /\ UNCHANGED kept

\* A session that was deleted meanwhile fails the call of a context.
AskHoncho ==
  /\ asking.at = "asking" /\ asking.calls > 0
  /\ asking.kind # "recall" => asking.scope \subseteq Sessions
  /\ \E said \in SUBSET Told(Usable) :
       asking' = [asking EXCEPT !.heard = @ \cup said, !.calls = @ - 1]
  /\ Reads /\ UNCHANGED kept

\* The copy is named by its text and configuration, and one that exists is used again.
CopyOf == [of |-> asking.scope, text |-> asking.heard]

\* The answer is recorded and guarded, under the epoch of the read.  That of a recall has an
\* identity of its own; an empty context needs no copy.
GuardAnswer ==
  /\ asking.at = "asking" /\ asking.calls = 0 /\ StillBound
  /\ IF asking.kind = "recall" \/ asking.heard = {}
     THEN asking' = [asking EXCEPT !.at = "read"] /\ UNCHANGED kept
     ELSE /\ asking' = [asking EXCEPT !.at = "guarded", !.copy = CopyOf, !.young = CopyOf \notin kept]
          /\ kept' = kept \cup {CopyOf} /\ Cardinality(kept') <= MaxKept
  /\ Reads
\* guards.read: a copy that was pruned meanwhile cannot be read.
ReadCopy ==
  /\ asking.at = "guarded" /\ asking.copy \in kept /\ StillBound
  /\ asking' = [asking EXCEPT !.at = "read", !.heard = asking.copy.text, !.copy = NoCopy,
                              !.young = FALSE]
  /\ Reads /\ UNCHANGED kept

\* The last look at the epoch, then the turn has the answer.
Deliver ==
  /\ asking.at = "read" /\ asking.kind # "prefetch" /\ StillBound
  /\ asking' = NotAsking /\ Reads /\ UNCHANGED kept
EndPrefetch ==
  /\ asking.at = "read" /\ asking.kind = "prefetch" /\ asking' = NotAsking
  /\ Reads /\ UNCHANGED kept
\* A read that fails still gives a turn of this epoch the corrections.
DeliverLimited ==
  /\ asking.at # "none" /\ asking.kind # "prefetch" /\ StillBound
  /\ asking' = NotAsking /\ Reads /\ UNCHANGED kept
\* Another epoch, or a core that stopped.
AbandonRead == asking.at # "none" /\ asking' = NotAsking /\ Reads /\ UNCHANGED kept

ReadingNext ==
  \/ Refresh \/ AskHoncho \/ GuardAnswer \/ ReadCopy \/ Deliver \/ EndPrefetch
  \/ DeliverLimited \/ AbandonRead
  \/ \E m \in Memory : Judge(m) \/ Give(m)
  \/ \E s \in Place \X (1..MaxTaking) : DeleteTaking(s)
  \/ \E c \in kept : PruneCopy(c)
  \/ \E p \in Place, audience \in Place \cup {Everywhere} :
       \/ \E kind \in {"context", "prefetch"} : BeginContext(p, audience, kind)
       \/ BeginRecall(p, audience)

ReadingSpec == ReadingInit /\ [][ReadingNext]_ReadingVars

----------------------------------------------------------------------------
\* A turn that began when nothing withdrawn was left to read is given nothing that is withdrawn
\* by then, whatever was decided, rebuilt, reused or pruned while it read, and a conversation's
\* turn nothing of another conversation.
ReadsClean ==
  Deliver =>
    /\ ~asking.late => asking.heard \cap withdrawn = {}
    /\ asking.audience # Everywhere => \A m \in asking.heard : HeardAt[m] = asking.audience
\* The corrections a turn is given stand when it is given them, also with a failed read.
CorrectionsClean == Deliver \/ DeliverLimited => asking.corrections \cap withdrawn = {}
CleanReads == ReadsClean /\ CorrectionsClean
=============================================================================
