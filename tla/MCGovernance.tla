---------------------------- MODULE MCGovernance ----------------------------
(***************************************************************************)
(* Model checking of what the owner governs: controlled actions, approved  *)
(* messages, knowledge proposals, shared knowledge, imports, the           *)
(* dashboard, the background reviews, texts prepared for an audience, and  *)
(* the broker between a turn and the model.                                *)
(* The components share no variable, so one run holds an instance of each: *)
(* `part' chooses in the initial state which one of them moves, and never  *)
(* changes.                                                                *)
(***************************************************************************)
EXTENDS ControlledExecution, ApprovedDelivery, KnowledgeProposals, HostImports, Dashboard,
        BackgroundWork, Sharing, PreparedContext, Broker, TLC

CONSTANTS a1, a2, m1, p1

VARIABLE part

\* Two actions, workers, requests or callbacks: only one component moves.
Pair == {a1, a2}
OneMessage == {m1}
OneProposal == {p1}
ChatOrBoth == {{"chat"}, {"chat", "topic"}}
TwoMappings == {m1, p1}
\* Two calls of one process, one of another.
ThreeCalls == Pair \cup OneMessage
ProfileOfAdmitter == [c \in TwoMappings |-> c]
ProcessOfCall == (a1 :> m1) @@ (a2 :> m1) @@ (m1 :> p1)
Symmetry == Permutations(Pair)

GovernanceVars ==
  <<part, ActionVars, DeliveryVars, KnowledgeVars, ImportVars, DashboardVars, BackgroundVars,
    SharingVars, PreparedVars, BrokerVars>>

Init ==
  /\ part \in {"actions", "delivery", "knowledge", "imports", "dashboard", "background",
              "sharing", "prepared", "broker"}
  /\ ActionInit /\ DeliveryInit /\ KnowledgeInit /\ ImportInit /\ DashboardInit
  /\ SharingInit /\ PreparedInit /\ BrokerInit
  /\ BackgroundInit /\ (part # "background" => consent)
  /\ part # "sharing" => rule.mode = "approved"

Next ==
  /\ UNCHANGED part
  /\ \/ /\ part = "actions" /\ ActionNext
        /\ UNCHANGED <<DeliveryVars, KnowledgeVars, ImportVars, DashboardVars, BackgroundVars,
                       SharingVars, PreparedVars, BrokerVars>>
     \/ /\ part = "delivery" /\ DeliveryNext
        /\ UNCHANGED <<ActionVars, KnowledgeVars, ImportVars, DashboardVars, BackgroundVars,
                       SharingVars, PreparedVars, BrokerVars>>
     \/ /\ part = "knowledge" /\ KnowledgeNext
        /\ UNCHANGED <<ActionVars, DeliveryVars, ImportVars, DashboardVars, BackgroundVars,
                       SharingVars, PreparedVars, BrokerVars>>
     \/ /\ part = "imports" /\ ImportNext
        /\ UNCHANGED <<ActionVars, DeliveryVars, KnowledgeVars, DashboardVars, BackgroundVars,
                       SharingVars, PreparedVars, BrokerVars>>
     \/ /\ part = "dashboard" /\ DashboardNext
        /\ UNCHANGED <<ActionVars, DeliveryVars, KnowledgeVars, ImportVars, BackgroundVars,
                       SharingVars, PreparedVars, BrokerVars>>
     \/ /\ part = "background" /\ BackgroundNext
        /\ UNCHANGED <<ActionVars, DeliveryVars, KnowledgeVars, ImportVars, DashboardVars,
                       SharingVars, PreparedVars, BrokerVars>>
     \/ /\ part = "sharing" /\ SharingNext
        /\ UNCHANGED <<ActionVars, DeliveryVars, KnowledgeVars, ImportVars, DashboardVars,
                       BackgroundVars, PreparedVars, BrokerVars>>
     \/ /\ part = "prepared" /\ PreparedNext
        /\ UNCHANGED <<ActionVars, DeliveryVars, KnowledgeVars, ImportVars, DashboardVars,
                       BackgroundVars, SharingVars, BrokerVars>>
     \/ /\ part = "broker" /\ BrokerNext
        /\ UNCHANGED <<ActionVars, DeliveryVars, KnowledgeVars, ImportVars, DashboardVars,
                       BackgroundVars, SharingVars, PreparedVars>>

Spec == Init /\ [][Next]_GovernanceVars

\* A component that does not move stays in its first state: each property looks at the states
\* and steps of its own.  What a controlled action promises: authority for every effect, and
\* results that stay as they were first settled.
ActionsGoverned ==
  /\ [](part = "actions" => ActionTypeOK /\ EffectHasAuthority)
  /\ [][part = "actions" => SettlementIsFinal]_ActionVars

\* What leaves is what was approved and said so, what was prepared for its audience, and what
\* the policy and the audience of the moment allow a turn.
SaidAgrees ==
  /\ part = "delivery" => DeliveryAgrees
  /\ part = "prepared" => PreparedAgrees
  /\ part = "broker" => BrokerAgrees

\* What is done about a proposal is what its outcome says, and what the owner chose stands.
ChangesStand ==
  /\ [](part = "knowledge" => KnowledgeTypeOK /\ AppliedOnce)
  /\ [][part = "knowledge" => OwnerChoiceStands]_KnowledgeVars

\* What is released was finished, and what is delivered is still released: between them the
\* owner, an editor and an expiry may move anything.
SharingStands == [][part = "sharing" => DeliversReleased /\ ReleasesStand]_SharingVars

\* An import's row, workflow, messages and checkpoint tell one story.
ImportsStand == part = "imports" => ImportsAgree

\* What is admitted beside other work is admitted for as long as it runs: the dashboard's
\* requests and operations, and the callbacks and reviews of the storage families.
AdmissionAgrees ==
  /\ part = "dashboard" => DashboardAgrees
  /\ part = "background" => BackgroundAgrees
=============================================================================
