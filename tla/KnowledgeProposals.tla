------------------------- MODULE KnowledgeProposals -------------------------
(***************************************************************************)
(* Typed changes the runtime proposes and the trusted side applies: a      *)
(* conversation is given a project because the owner approved it, or       *)
(* because a standing delegation covers it and nothing the owner chose     *)
(* stands in the way.  Two spaces, a chat and a topic of it; a topic       *)
(* without an assignment of its own inherits the chat's.                   *)
(* (src/src/stores/knowledge-management.ts, projects.ts,                   *)
(*  owner-commands.ts, knowledge-contract.ts, knowledge-schema.ts)         *)
(*                                                                         *)
(* An organization proposal is applied in the transaction that decides     *)
(* about it.  A reviewed proposal is an owner command of its own, and the  *)
(* outcome is recorded after that command has committed.                   *)
(***************************************************************************)
EXTENDS Integers, FiniteSets

CONSTANTS
  Proposal,
  Scopes,       \* the sets of spaces the owner gives a delegation for
  MaxPolicyEpoch,
  MaxDelegation \* bounds: epochs, and revisions of the delegation

ASSUME KnowledgeAssumption ==
  Scopes \subseteq SUBSET {"chat", "topic"} /\ MaxPolicyEpoch \in Nat /\ MaxDelegation \in Nat

VARIABLES
  proposal,     \* knowledge_proposals
  applying,     \* who holds the advisory lock of a proposal, and the epoch it validated under
  assignment,   \* project_assignments
  delegation,   \* the one row of organization_delegations
  ownerCommand, \* owner_commands with the identity 'knowledge-apply:<proposal>'
  sourceTurn,   \* the turn, run or learning job a proposal came from; 'retired' when its
                \* evidence or an owner rule it rests on is no longer what it was
  policyEpoch,  \* guard_state
  applications, \* how often the change of a proposal was committed
  accepted      \* spaces whose assignment the owner knew of when the delegation was last
                \* given or resumed for them, or that changed since only under it

KnowledgeVars == <<proposal, applying, assignment, delegation, ownerCommand, sourceTurn,
                   policyEpoch, applications, accepted>>

Space == {"chat", "topic"}
NoRow == 0
NoBaseline == -1
NoProposal == [state |-> "none", organization |-> TRUE, approved |-> FALSE,
               origin |-> "turn", space |-> "chat",
               expected |-> 0, topics |-> {}, required |-> NoRow,
               before |-> "inherit", after |-> NoRow]
Free == [at |-> "free", under |-> 0]
Unassigned == [mode |-> "inherit", revision |-> NoRow]
NoDelegation == [enabled |-> FALSE, scopes |-> {}, revision |-> NoRow,
                 baseline |-> [s \in Space |-> NoBaseline], parent |-> NoBaseline]

KnowledgeInit ==
  /\ proposal = [p \in Proposal |-> NoProposal] /\ applying = [p \in Proposal |-> Free]
  /\ assignment = [s \in Space |-> Unassigned] /\ delegation = NoDelegation
  /\ ownerCommand = {} /\ sourceTurn = [p \in Proposal |-> "open"]
  /\ policyEpoch = 0 /\ applications = [p \in Proposal |-> 0] /\ accepted = {}

activeStates == {"queued", "waiting"}
decidableStates == {"review", "queued", "waiting", "stale", "failed"}

----------------------------------------------------------------------------
(* Assignments.                                                            *)

Inherits == assignment["topic"].mode = "inherit"
affectedTopics(s) == IF s = "chat" /\ Inherits THEN {"topic"} ELSE {}
\* The spaces whose effective project a change of s changes.
Reaches(s) == {s} \cup affectedTopics(s)
writeAssignment(s, mode) ==
  assignment' = [assignment EXCEPT ![s] = [mode |-> mode, revision |-> @.revision + 1]]

\* ProjectRepository.assign: the owner's own command.
Assign(s, mode) ==
  /\ policyEpoch < MaxPolicyEpoch
  /\ writeAssignment(s, mode) /\ policyEpoch' = policyEpoch + 1
  /\ accepted' = accepted \ Reaches(s)
  /\ UNCHANGED <<proposal, applying, delegation, ownerCommand, sourceTurn, applications>>

----------------------------------------------------------------------------
(* The delegation.                                                         *)

\* What a topic without an assignment of its own was given with its parent's revision.
ParentBaseline(scopes, kept) ==
  IF "topic" \notin scopes \/ ~Inherits THEN NoBaseline
  ELSE IF "topic" \in kept /\ delegation.parent # NoBaseline THEN delegation.parent
  ELSE assignment["chat"].revision

\* A fault: an edit of the delegation takes every assignment as known to the owner.
BaselineFresh(s, kept) == assignment[s].revision
Baseline(s, kept) == IF s \in kept THEN delegation.baseline[s] ELSE assignment[s].revision

\* A scope keeps the baseline it had unless the owner resumes it; proposals that wait for
\* the old permission go to review.
saveDelegation(enabled, scopes, resumed) ==
  LET kept == (delegation.scopes \cap scopes) \ resumed IN
  /\ delegation.revision < MaxDelegation
  /\ delegation' =
       [enabled |-> enabled, scopes |-> scopes, revision |-> delegation.revision + 1,
        baseline |-> [s \in Space |-> IF s \in scopes THEN Baseline(s, kept) ELSE NoBaseline],
        parent |-> ParentBaseline(scopes, kept)]
  /\ proposal' = [p \in Proposal |->
       [proposal[p] EXCEPT !.origin = IF @ = "turn" THEN @ ELSE "learned before",
          !.state = IF @ \in activeStates /\ ~proposal[p].approved /\ proposal[p].required # NoRow
                    THEN "review" ELSE @]]
  /\ accepted' = (accepted \cap kept) \cup (scopes \ kept)
  /\ UNCHANGED <<applying, assignment, ownerCommand, sourceTurn, policyEpoch, applications>>

\* The time of a delegation runs out; nothing is written.
DelegationExpires ==
  /\ delegation.enabled /\ delegation' = [delegation EXCEPT !.enabled = FALSE]
  /\ UNCHANGED <<proposal, applying, assignment, ownerCommand, sourceTurn,
                 policyEpoch, applications, accepted>>

baselineMatches(s) ==
  /\ assignment[s].revision = delegation.baseline[s]
  /\ s = "topic" /\ Inherits => delegation.parent = assignment["chat"].revision

\* Evidence of a conversation's purpose comes from that conversation.
matchDelegation(row) ==
  /\ delegation.enabled /\ row.required \in {NoRow, delegation.revision}
  /\ row.origin # "learned before"
  /\ assignment[row.space].revision = row.expected
  /\ \A s \in Reaches(row.space) : s \in delegation.scopes /\ baselineMatches(s)

----------------------------------------------------------------------------
(* Proposals.                                                              *)

\* persist: the delegation is looked for before the transaction, which holds only if no
\* epoch passed since.
Draft(organization, origin, s) ==
  [NoProposal EXCEPT !.state = "drafted", !.organization = organization, !.origin = origin,
     !.space = s, !.expected = assignment[s].revision, !.topics = affectedTopics(s)]
\* learning: what a learning job says about organization is proposed only while a delegation
\* covers the conversation it learned from.
FromLearning(origin, organization) ==
  origin = "learning" => organization /\ delegation.enabled /\ delegation.scopes # {}
Propose(p, organization, origin, s) ==
  /\ proposal[p].state = "none" /\ FromLearning(origin, organization)
  /\ LET draft == Draft(organization, origin, s) IN
     proposal' = [proposal EXCEPT ![p] =
       IF organization /\ matchDelegation(draft)
       THEN [draft EXCEPT !.required = delegation.revision] ELSE draft]
  /\ applying' = [applying EXCEPT ![p] = [at |-> "drafting", under |-> policyEpoch]]
  /\ UNCHANGED <<assignment, delegation, ownerCommand, sourceTurn, policyEpoch,
                 applications, accepted>>
Persist(p) ==
  /\ applying[p].at = "drafting"
  /\ applying' = [applying EXCEPT ![p] = Free]
  /\ proposal' = [proposal EXCEPT ![p] =
       IF applying[p].under # policyEpoch THEN NoProposal
       ELSE [@ EXCEPT !.state = IF proposal[p].required = NoRow THEN "review" ELSE "queued"]]
  /\ UNCHANGED <<assignment, delegation, ownerCommand, sourceTurn, policyEpoch,
                 applications, accepted>>

\* completed: the turn a proposal was made in must have ended well.  Later its source may be
\* retired, consent withdrawn or an owner rule edited.
TurnEnds(p, how) ==
  /\ proposal[p].state # "none"
  /\ sourceTurn[p] = (IF how = "retired" THEN "done" ELSE "open")
  /\ sourceTurn' = [sourceTurn EXCEPT ![p] = how]
  /\ UNCHANGED <<proposal, applying, assignment, delegation, ownerCommand,
                 policyEpoch, applications, accepted>>

----------------------------------------------------------------------------
(* process.                                                                *)

outcome(p, state) == [proposal[p] EXCEPT !.state = state]
Settle(p, state) ==
  /\ proposal' = [proposal EXCEPT ![p] = outcome(p, state)]
  /\ applying' = [applying EXCEPT ![p] = Free]

\* completed, validate: the source turn is done, and its evidence, consent, dependencies and
\* owner rules are what they were.
Rejection(p) ==
  [open |-> "waiting", failed |-> "cancelled", retired |-> "stale"][sourceTurn[p]]
\* A command that committed just before its worker stopped is not given again.
Take(p) ==
  /\ applying[p].at = "free" /\ proposal[p].state \in activeStates
  /\ IF p \in ownerCommand /\ proposal[p].approved THEN Settle(p, "applied")
     ELSE IF sourceTurn[p] # "done" THEN Settle(p, Rejection(p))
     ELSE /\ applying' = [applying EXCEPT ![p] = [at |-> "validated", under |-> policyEpoch]]
          /\ UNCHANGED proposal
  /\ UNCHANGED <<assignment, delegation, ownerCommand, sourceTurn, policyEpoch,
                 applications, accepted>>

\* applyOrganization: the change, the baselines it moves and the outcome in one commit.
AdvanceBaselines(s) ==
  [delegation EXCEPT !.baseline[s] = assignment'[s].revision,
     !.parent = IF s = "topic" THEN NoBaseline
                ELSE IF @ # NoBaseline THEN assignment'["chat"].revision ELSE @]
applyOrganization(p, delegated) ==
  LET s == proposal[p].space IN
  IF assignment[s].mode = "assigned"
  THEN /\ Settle(p, "applied") /\ applications' = [applications EXCEPT ![p] = @ + 1]
       /\ UNCHANGED <<assignment, delegation, policyEpoch, accepted>>
  ELSE /\ policyEpoch < MaxPolicyEpoch /\ policyEpoch' = policyEpoch + 1
       /\ writeAssignment(s, "assigned")
       /\ delegation' = IF delegated THEN AdvanceBaselines(s) ELSE delegation
       /\ accepted' = IF delegated THEN accepted ELSE accepted \ Reaches(s)
       /\ applications' = [applications EXCEPT ![p] = @ + 1]
       /\ applying' = [applying EXCEPT ![p] = Free]
       /\ proposal' = [proposal EXCEPT ![p] =
            [outcome(p, "applied") EXCEPT !.before = assignment[s].mode,
                                          !.after = assignment'[s].revision]]

\* A foreground reply of the same context comes first: the proposal waits.
Apply(p) ==
  LET row == proposal[p]
      delegated == proposal[p].organization /\ ~row.approved /\ matchDelegation(row)
      unchanged == <<assignment, delegation, policyEpoch, applications, accepted>> IN
  /\ applying[p].at = "validated"
  /\ UNCHANGED <<ownerCommand, sourceTurn>>
  /\ \/ applying[p].under # policyEpoch /\ Settle(p, "waiting") /\ UNCHANGED unchanged
     \/ applying[p].under = policyEpoch /\ row.state \notin activeStates
        /\ Settle(p, row.state) /\ UNCHANGED unchanged
     \/ applying[p].under = policyEpoch /\ row.state \in activeStates
        /\ \/ Settle(p, "waiting") /\ UNCHANGED unchanged
           \/ /\ proposal[p].organization
              /\ \/ row.topics # affectedTopics(row.space)
                 \/ row.approved /\ assignment[row.space].revision # row.expected
              /\ Settle(p, "stale") /\ UNCHANGED unchanged
           \/ /\ row.topics = affectedTopics(row.space) /\ ~row.approved /\ ~delegated
              /\ Settle(p, "review") /\ UNCHANGED unchanged
           \/ /\ proposal[p].organization /\ row.topics = affectedTopics(row.space)
              /\ row.approved \/ delegated
              /\ assignment[row.space].revision = row.expected
              /\ applyOrganization(p, delegated)
           \/ /\ ~proposal[p].organization /\ row.topics = affectedTopics(row.space) /\ row.approved
              /\ applying' = [applying EXCEPT ![p].at = "command"]
              /\ UNCHANGED <<proposal, unchanged>>

\* applyReviewed, OwnerCommands.run: a command of that identity is replayed, and holds only
\* in the context it was approved for.
applyReviewed(p) ==
  LET s == proposal[p].space IN
  /\ applying[p].at = "command"
  /\ UNCHANGED <<delegation, sourceTurn>>
  /\ IF p \in ownerCommand
     THEN /\ applying' = [applying EXCEPT ![p].at = "applied"]
          /\ UNCHANGED <<proposal, assignment, ownerCommand, policyEpoch, applications, accepted>>
     ELSE IF applying[p].under # policyEpoch \/ assignment[s].revision # proposal[p].expected
     THEN /\ Settle(p, IF applying[p].under # policyEpoch THEN "waiting" ELSE "stale")
          /\ UNCHANGED <<assignment, ownerCommand, policyEpoch, applications, accepted>>
     ELSE /\ policyEpoch < MaxPolicyEpoch /\ policyEpoch' = policyEpoch + 1
          /\ writeAssignment(s, "assigned") /\ accepted' = accepted \ Reaches(s)
          /\ ownerCommand' = ownerCommand \cup {p}
          /\ applications' = [applications EXCEPT ![p] = @ + 1]
          /\ applying' = [applying EXCEPT ![p].at = "applied"]
          /\ UNCHANGED proposal

RecordOutcome(p) ==
  /\ applying[p].at = "applied" /\ Settle(p, "applied")
  /\ UNCHANGED <<assignment, delegation, ownerCommand, sourceTurn, policyEpoch,
                 applications, accepted>>

\* The process stops: its advisory lock goes with its session, a draft was never a row.
Stop(p) ==
  /\ applying[p].at # "free" /\ applying' = [applying EXCEPT ![p] = Free]
  /\ proposal' = [proposal EXCEPT ![p] = IF @.state = "drafted" THEN NoProposal ELSE @]
  /\ UNCHANGED <<assignment, delegation, ownerCommand, sourceTurn, policyEpoch,
                 applications, accepted>>

----------------------------------------------------------------------------
(* The owner's decisions.                                                  *)

decide(p, approve) ==
  /\ applying[p].at = "free" /\ proposal[p].state \in decidableStates
  /\ approve => sourceTurn[p] # "retired"
  /\ proposal' = [proposal EXCEPT ![p] =
       [proposal[p] EXCEPT !.approved = @ \/ approve, !.state = IF approve THEN "queued" ELSE "cancelled"]]
  /\ UNCHANGED <<applying, assignment, delegation, ownerCommand, sourceTurn,
                 policyEpoch, applications, accepted>>

\* Only what is still as the proposal left it is put back.
undo(p) ==
  LET row == proposal[p] IN
  /\ applying[p].at = "free" /\ proposal[p].organization /\ row.state = "applied"
  /\ IF row.after = NoRow THEN UNCHANGED <<assignment, policyEpoch, accepted>>
     ELSE /\ assignment[row.space].revision = row.after
          /\ policyEpoch < MaxPolicyEpoch /\ policyEpoch' = policyEpoch + 1
          /\ writeAssignment(row.space, row.before)
          /\ accepted' = accepted \ Reaches(row.space)
  /\ proposal' = [proposal EXCEPT ![p].state = "undone"]
  /\ applications' = [applications EXCEPT ![p] = @ - 1]
  /\ UNCHANGED <<applying, delegation, ownerCommand, sourceTurn>>

KnowledgeNext ==
  \/ DelegationExpires
  \/ \E s \in Space, mode \in {"inherit", "none", "assigned"} :
       (s = "chat" => mode # "inherit") /\ Assign(s, mode)
  \/ \E enabled \in BOOLEAN, scopes \in Scopes, resumed \in SUBSET Space :
       resumed \in {{}, scopes} /\ saveDelegation(enabled, scopes, resumed)
  \/ \E p \in Proposal :
       \/ Persist(p) \/ Take(p) \/ Apply(p) \/ applyReviewed(p) \/ RecordOutcome(p)
       \/ Stop(p) \/ undo(p)
       \/ \E organization \in BOOLEAN, origin \in {"turn", "learning"}, s \in Space :
            Propose(p, organization, origin, s)
       \/ \E how \in {"done", "failed", "retired"} : TurnEnds(p, how)
       \/ \E approve \in BOOLEAN : decide(p, approve)

KnowledgeSpec == KnowledgeInit /\ [][KnowledgeNext]_KnowledgeVars

----------------------------------------------------------------------------
ProposalRow ==
  [state : {"none", "drafted", "applied", "undone", "cancelled"} \cup decidableStates,
   organization : BOOLEAN, approved : BOOLEAN,
   origin : {"turn", "learning", "learned before"}, space : Space,
   expected : 0..MaxPolicyEpoch, topics : SUBSET {"topic"}, required : 0..MaxDelegation,
   before : {"inherit", "none", "assigned"}, after : 0..MaxPolicyEpoch]
ApplyingRow ==
  [at : {"free", "drafting", "validated", "command", "applied"}, under : 0..MaxPolicyEpoch]
AssignmentRow == [mode : {"inherit", "none", "assigned"}, revision : 0..MaxPolicyEpoch]
DelegationRow ==
  [enabled : BOOLEAN, scopes : SUBSET Space, revision : 0..MaxDelegation,
   baseline : [Space -> NoBaseline..MaxPolicyEpoch], parent : NoBaseline..MaxPolicyEpoch]

KnowledgeTypeOK ==
  /\ proposal \in [Proposal -> ProposalRow] /\ applying \in [Proposal -> ApplyingRow]
  /\ assignment \in [Space -> AssignmentRow] /\ delegation \in DelegationRow
  /\ ownerCommand \subseteq Proposal /\ sourceTurn \in [Proposal -> {"open", "done", "failed", "retired"}]
  /\ policyEpoch \in 0..MaxPolicyEpoch
  /\ applications \in [Proposal -> 0..1] /\ accepted \subseteq Space

\* A proposal says applied exactly when its change was committed, once, and not taken back,
\* though the process may stop between an owner's command and its outcome, be run again, and
\* be decided about meanwhile.  (A reviewed proposal whose outcome is still missing is open,
\* or was cancelled by the owner after its command committed.)
AppliedOnce ==
  \A p \in Proposal :
    /\ applications[p] \in {0, 1}
    /\ proposal[p].state = "applied" => applications[p] = 1
    /\ proposal[p].organization /\ proposal[p].state # "applied" => applications[p] = 0
    /\ ~proposal[p].organization => (applications[p] = 1) = (p \in ownerCommand)

\* A change is committed only while its proposal is open: not after the owner cancelled it,
\* nor after a new delegation sent it to review.  And a change made under a delegation never
\* displaces an assignment the owner made, approved or restored since the delegation was given
\* or resumed for that space, nor the inherited project of a topic that the owner chose since.
OwnerChoiceStands ==
  \A p \in Proposal : applications'[p] > applications[p] =>
    /\ proposal[p].state \in activeStates
    /\ proposal[p].organization /\ ~proposal[p].approved /\ assignment' # assignment =>
         Reaches(proposal[p].space) \subseteq accepted
=============================================================================
