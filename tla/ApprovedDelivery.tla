-------------------------- MODULE ApprovedDelivery --------------------------
(***************************************************************************)
(* An approved Telegram message outside a conversation, from its proposal  *)
(* to its settled receipt, and the memory grant that may stage one: a fact *)
(* suggested to a conversation, the owner's decision, the grant for one    *)
(* exact wording, and the follow-up message that delivers it.              *)
(* (src/src/stores/telegram-actions.ts, memory-access.ts,                  *)
(*  owner-commands.ts, action-commands.ts, send_action in                  *)
(*  src/services/hermes/assistant_gateway.py)                              *)
(*                                                                         *)
(* A message's run holds its advisory lock; it may die at any step.  The   *)
(* runtime handles one execute call at a time, may handle it after the     *)
(* caller has given up, and may restart at any step.                       *)
(***************************************************************************)
EXTENDS Integers

CONSTANTS
  Message,    \* rows of telegram_action_requests
  MaxBinding  \* bound: changes of the guard epoch

Nobody == "nobody"

ASSUME DeliveryAssumption == MaxBinding \in Nat /\ Nobody \notin Message

VARIABLES
  message,    \* telegram_action_requests: state and binding
  sendRun,    \* the run of the message: where it is, the outcome it holds
  sentResult, \* the durable `telegram-action-result' of the derived store
  execCalls,  \* execute calls the runtime has accepted and not handled
  intent, runtimeResult, \* the runtime's action-<id>.intent and .result
  sender,     \* the message the runtime is sending, under action_lock
  sent,       \* history: how often the message went out
  epochNow,   \* guard_state.epoch
  sendDenied, \* a policy rule that denies the message
  memoryRequest, memoryGrant, \* memory_access_requests, memory_fact_grants
  factNow     \* the active revision of the fact

DeliveryVars == <<message, sendRun, sentResult, execCalls, intent, runtimeResult, sender, sent,
                  epochNow, sendDenied, memoryRequest, memoryGrant, factNow>>
runtimeVars == <<execCalls, intent, runtimeResult, sender, sent>>
policyVars == <<epochNow, sendDenied>>
memoryVars == <<memoryRequest, memoryGrant, factNow>>

Answers == {"done", "denied", "ambiguous", "not_started"}
NoRequest == [state |-> "none", bound |-> 0, fact |-> 0, link |-> Nobody]
NoGrant == [state |-> "none", bound |-> 0, fact |-> 0, mode |-> "none"]
Resting == [at |-> "idle", holds |-> "none"]

DeliveryInit ==
  /\ message = [m \in Message |-> [state |-> "none", bound |-> 0]]
  /\ sendRun = [m \in Message |-> Resting]
  /\ sentResult = [m \in Message |-> "none"]
  /\ execCalls = [m \in Message |-> 0]
  /\ intent = [m \in Message |-> FALSE]
  /\ runtimeResult = [m \in Message |-> "none"]
  /\ sender = Nobody
  /\ sent = [m \in Message |-> 0]
  /\ epochNow = 0 /\ sendDenied = FALSE /\ factNow = 0
  /\ memoryRequest = NoRequest /\ memoryGrant = NoGrant

----------------------------------------------------------------------------
(* Proposals, decisions and the authority they leave.                      *)

\* request and requestScheduled: an exact proposal; under the freedom setting the
\* owner's own request approves itself unless a rule denies it.
ProposeMessage(m) ==
  /\ message[m].state = "none"
  /\ \E autonomy \in BOOLEAN :
       message' = [message EXCEPT ![m] = [bound |-> epochNow,
                     state |-> IF autonomy /\ ~sendDenied THEN "approved" ELSE "proposed"]]
  /\ UNCHANGED <<sendRun, sentResult, runtimeVars, policyVars, memoryVars>>

\* decide: once, of a proposed message; approval needs the current binding.
DecideMessage(m) ==
  /\ message[m].state = "proposed"
  /\ \E verdict \in {"approved", "rejected"} :
       /\ verdict = "approved" => message[m].bound = epochNow
       /\ message' = [message EXCEPT ![m].state = verdict]
  /\ UNCHANGED <<sendRun, sentResult, runtimeVars, policyVars, memoryVars>>

\* stageSystem: a message of the installation itself is approved when it is staged.
Staged(m) == [message EXCEPT ![m] = [state |-> "approved", bound |-> epochNow]]
Unused == {m \in Message : message[m].state = "none"}

\* suggest: a related fact the conversation may not read, and holds no grant for, becomes
\* a request; the owner may be told by a message that is staged with it.
SuggestFact ==
  /\ memoryRequest.state = "none" /\ memoryGrant.state # "active"
  /\ memoryRequest' = [NoRequest EXCEPT !.state = "pending", !.bound = epochNow, !.fact = factNow]
  /\ \/ UNCHANGED message
     \/ \E m \in Unused : message' = Staged(m)
  /\ UNCHANGED <<sendRun, sentResult, runtimeVars, policyVars, memoryGrant, factNow>>

RequestCurrent == memoryRequest.bound = epochNow /\ memoryRequest.fact = factNow

\* decide: reject, or grant for the fact and context of the request; the follow-up is
\* committed with the grant.  A stale request is suspended instead.
DecideMemory ==
  /\ memoryRequest.state = "pending"
  /\ \/ /\ memoryRequest' = [memoryRequest EXCEPT !.state = "rejected"]
        /\ UNCHANGED <<message, memoryGrant>>
     \/ /\ ~RequestCurrent
        /\ memoryRequest' = [memoryRequest EXCEPT !.state = "suspended"]
        /\ UNCHANGED <<message, memoryGrant>>
     \/ \E mode \in {"one_time", "persistent"}, m \in Unused \cup {Nobody} :
          /\ RequestCurrent /\ (m # Nobody => ~sendDenied)
          /\ memoryRequest' = [memoryRequest EXCEPT !.state = "approved", !.link = m]
          /\ memoryGrant' = [state |-> "active", bound |-> epochNow, fact |-> factNow, mode |-> mode]
          /\ message' = IF m = Nobody THEN message ELSE Staged(m)
  /\ UNCHANGED <<sendRun, sentResult, runtimeVars, policyVars, factNow>>

GrantCurrent == memoryGrant.bound = epochNow /\ memoryGrant.fact = factNow

\* grant: the owner grants a fact that nobody asked for (one grant is modelled at a time).
GrantFact ==
  /\ memoryRequest.state = "none" /\ memoryGrant.state = "none"
  /\ memoryGrant' = [state |-> "active", bound |-> epochNow, fact |-> factNow, mode |-> "persistent"]
  /\ UNCHANGED <<message, sendRun, sentResult, runtimeVars, policyVars, memoryRequest, factNow>>

\* recoverFollowup: a replay of the same command after auto_followup was switched on.
RecoverFollowUp ==
  /\ memoryRequest.state = "approved" /\ memoryRequest.link = Nobody /\ ~sendDenied
  /\ memoryGrant.state = "active" /\ GrantCurrent /\ memoryRequest.bound = epochNow
  /\ \E m \in Unused : message' = Staged(m) /\ memoryRequest' = [memoryRequest EXCEPT !.link = m]
  /\ UNCHANGED <<sendRun, sentResult, runtimeVars, policyVars, memoryGrant, factNow>>

\* revoke is an owner command: it changes the guard epoch in the same commit.
RevokeGrant ==
  /\ memoryGrant.state \in {"active", "suspended"} /\ epochNow < MaxBinding
  /\ memoryGrant' = [memoryGrant EXCEPT !.state = "revoked"]
  /\ epochNow' = epochNow + 1
  /\ UNCHANGED <<message, sendRun, sentResult, runtimeVars, sendDenied, memoryRequest, factNow>>

\* validateGrant, when a conversation's context is read: a stale grant is suspended.
ValidateGrant ==
  /\ memoryGrant.state = "active" /\ memoryGrant.mode = "persistent" /\ ~GrantCurrent
  /\ memoryGrant' = [memoryGrant EXCEPT !.state = "suspended"]
  /\ UNCHANGED <<message, sendRun, sentResult, runtimeVars, policyVars, memoryRequest, factNow>>

\* reconcile: requests and the owner's own grants expire; a confirmed message marks its
\* request delivered and consumes a one-time grant.
ReconcileMemory ==
  LET delivered == \E m \in Message : m = memoryRequest.link /\ message[m].state = "done" IN
  /\ \E expired \in BOOLEAN :
       /\ memoryRequest' = [memoryRequest EXCEPT !.state =
            CASE memoryRequest.state = "pending" /\ expired -> "expired"
              [] memoryRequest.state = "approved" /\ delivered -> "delivered"
              [] OTHER -> memoryRequest.state]
       /\ memoryGrant' = [memoryGrant EXCEPT !.state =
            CASE memoryGrant.state = "active" /\ delivered /\ memoryGrant.mode = "one_time" -> "consumed"
              [] memoryGrant.state = "active" /\ memoryRequest.state = "none" /\ expired -> "expired"
              [] OTHER -> memoryGrant.state]
  /\ UNCHANGED <<message, sendRun, sentResult, runtimeVars, policyVars, factNow>>

\* saveSettings, or any other owner command or publication; a new policy; a correction of the fact.
ChangeEpoch ==
  /\ epochNow < MaxBinding /\ epochNow' = epochNow + 1
  /\ UNCHANGED <<message, sendRun, sentResult, runtimeVars, sendDenied, memoryVars>>
DenySend ==
  /\ ~sendDenied /\ sendDenied' = TRUE
  /\ UNCHANGED <<message, sendRun, sentResult, runtimeVars, epochNow, memoryVars>>
\* The claim a fact stands for gets another revision, by learning or by the owner.
CorrectFact ==
  /\ factNow = 0 /\ factNow' = 1
  /\ UNCHANGED <<message, sendRun, sentResult, runtimeVars, policyVars, memoryRequest, memoryGrant>>

----------------------------------------------------------------------------
(* The run of a message.                                                   *)

\* memoryAuthority: the grant is active and still names the fact as it is.
MemoryAllows(m) == m = memoryRequest.link => memoryGrant.state = "active" /\ memoryGrant.fact = factNow
\* text and authorizeDelivery: binding, grant and policy, at the moment they are asked.
Deliverable(m) == message[m].bound = epochNow /\ MemoryAllows(m)

\* memoryAuthority also suspends an active grant whose fact has changed.
AfterCheck(m) ==
  IF m = memoryRequest.link /\ message[m].bound = epochNow /\ memoryGrant.state = "active"
     /\ memoryGrant.fact # factNow
  THEN [memoryGrant EXCEPT !.state = "suspended"] ELSE memoryGrant

RunTo(m, at, holds) == sendRun' = [sendRun EXCEPT ![m] = [at |-> at, holds |-> holds]]

\* run, under the lock of the message: a durable result is finished first, a started
\* message is only observed, an approved one is checked.
BeginSend(m) ==
  /\ sendRun[m].at = "idle" /\ message[m].state \in {"approved", "running", "ambiguous"}
  /\ \/ /\ sentResult[m] # "none"
        /\ RunTo(m, "finish", sentResult[m])
        /\ UNCHANGED <<message, memoryGrant>>
     \/ /\ sentResult[m] = "none" /\ message[m].state # "approved"
        /\ RunTo(m, "observe", "none")
        /\ UNCHANGED <<message, memoryGrant>>
     \/ /\ sentResult[m] = "none" /\ message[m].state = "approved" /\ Deliverable(m)
        /\ RunTo(m, "claim", "none")
        /\ UNCHANGED <<message, memoryGrant>>
     \/ /\ sentResult[m] = "none" /\ message[m].state = "approved" /\ ~Deliverable(m)
        /\ message' = [message EXCEPT ![m].state = "cancelled"]
        /\ memoryGrant' = AfterCheck(m)
        /\ UNCHANGED sendRun
  /\ UNCHANGED <<sentResult, runtimeVars, policyVars, memoryRequest, factNow>>

\* The claim: binding and policy are asked again under their locks.
ClaimSend(m) ==
  /\ sendRun[m].at = "claim" /\ message[m].bound = epochNow
  /\ message' = [message EXCEPT ![m].state = IF sendDenied THEN "rejected" ELSE "running"]
  /\ IF sendDenied THEN RunTo(m, "idle", "none") /\ UNCHANGED execCalls
     ELSE RunTo(m, "calling", "none") /\ execCalls' = [execCalls EXCEPT ![m] = @ + 1]
  /\ UNCHANGED <<sentResult, intent, runtimeResult, sender, sent, policyVars, memoryVars>>

\* A fault: a call that was given up is taken for one that was never made.
GiveUpCallAsUnstarted(m) ==
  /\ sendRun[m].at = "calling" /\ RunTo(m, "record", "not_started")
  /\ UNCHANGED <<message, sentResult, runtimeVars, policyVars, memoryVars>>

\* The answer is lost or late; to an observation the runtime tells what it has kept.
GiveUpCall(m) ==
  /\ sendRun[m].at = "calling" /\ RunTo(m, "record", "ambiguous")
  /\ UNCHANGED <<message, sentResult, runtimeVars, policyVars, memoryVars>>
ObserveSend(m) ==
  /\ sendRun[m].at = "observe"
  /\ \E kept \in {runtimeResult[m], "none"} :
       RunTo(m, "record", IF kept = "none" THEN "ambiguous" ELSE kept)
  /\ UNCHANGED <<message, sentResult, runtimeVars, policyVars, memoryVars>>

\* A refusal before any intent returns the message to the approved queue.
Unstarted(m) == message[m].state = "running" /\ sendRun[m].holds = "not_started"
ReturnUnstarted(m) ==
  /\ sendRun[m].at = "record" /\ sendRun[m].holds = "not_started"
  /\ message' = IF Unstarted(m) THEN [message EXCEPT ![m].state = "approved"] ELSE message
  /\ RunTo(m, "idle", "none")
  /\ UNCHANGED <<sentResult, runtimeVars, policyVars, memoryVars>>

\* The result is recorded in the derived store, then the row is finished.
RecordSend(m) ==
  /\ sendRun[m].at = "record" /\ sendRun[m].holds \in {"done", "denied", "ambiguous"}
  /\ sentResult' = IF sendRun[m].holds = "ambiguous" THEN sentResult
                   ELSE [sentResult EXCEPT ![m] = sendRun[m].holds]
  /\ RunTo(m, "finish", sendRun[m].holds)
  /\ UNCHANGED <<message, runtimeVars, policyVars, memoryVars>>
FinishSend(m) ==
  /\ sendRun[m].at = "finish"
  /\ message' = [message EXCEPT ![m].state = IF sendRun[m].holds = "denied" THEN "rejected"
                                             ELSE sendRun[m].holds]
  /\ RunTo(m, "idle", "none")
  /\ UNCHANGED <<sentResult, runtimeVars, policyVars, memoryVars>>
LoseSendRun(m) ==
  /\ sendRun[m].at # "idle" /\ RunTo(m, "idle", "none")
  /\ UNCHANGED <<message, sentResult, runtimeVars, policyVars, memoryVars>>

----------------------------------------------------------------------------
(* The runtime.                                                            *)

Answer(m, answer) ==
  sendRun' = IF sendRun[m].at = "calling"
             THEN [sendRun EXCEPT ![m] = [at |-> "record", holds |-> answer]] ELSE sendRun

\* authorizeDelivery: only a running row is delivered, and a failed check denies.
Authorized(m) == message[m].state = "running" /\ Deliverable(m) /\ ~sendDenied

\* send_action, up to the intent: kept receipts answer first; a refusal leaves nothing.
HandleExecute(m) ==
  /\ execCalls[m] > 0 /\ sender = Nobody
  /\ execCalls' = [execCalls EXCEPT ![m] = @ - 1]
  /\ \/ /\ runtimeResult[m] # "none" \/ intent[m]
        /\ Answer(m, IF runtimeResult[m] # "none" THEN runtimeResult[m] ELSE "ambiguous")
        /\ UNCHANGED <<intent, runtimeResult, sender, memoryGrant>>
     \/ /\ runtimeResult[m] = "none" /\ ~intent[m]
        /\ Answer(m, "not_started")                      \* Telegram is not connected
        /\ UNCHANGED <<intent, runtimeResult, sender, memoryGrant>>
     \/ /\ runtimeResult[m] = "none" /\ ~intent[m]       \* denied, or the check failed
        /\ runtimeResult' = [runtimeResult EXCEPT ![m] = "denied"]
        /\ memoryGrant' \in {memoryGrant, AfterCheck(m)}
        /\ Answer(m, "denied") /\ UNCHANGED <<intent, sender>>
     \/ /\ runtimeResult[m] = "none" /\ ~intent[m] /\ Authorized(m)
        /\ intent' = [intent EXCEPT ![m] = TRUE] /\ sender' = m
        /\ UNCHANGED <<runtimeResult, sendRun, memoryGrant>>
  /\ UNCHANGED <<message, sentResult, sent, policyVars, memoryRequest, factNow>>

\* adapter.send with its outbound check: the answer of Telegram may be lost.
TransmitMessage ==
  /\ sender # Nobody
  /\ LET m == sender IN
     \E result \in {"done", "ambiguous"}, out \in {0, 1} :
       /\ (result = "done" => out = 1) /\ (out = 1 => Authorized(m))
       /\ sent' = [sent EXCEPT ![m] = @ + out]
       /\ runtimeResult' = [runtimeResult EXCEPT ![m] = result]
       /\ memoryGrant' \in {memoryGrant, IF out = 0 THEN AfterCheck(m) ELSE memoryGrant}
       /\ Answer(m, result)
  /\ sender' = Nobody
  /\ UNCHANGED <<message, sentResult, execCalls, intent, policyVars, memoryRequest, factNow>>

\* The runtime restarts: accepted calls are gone, a send in progress may have gone out.
RestartSender ==
  /\ sender # Nobody \/ \E m \in Message : execCalls[m] > 0
  /\ execCalls' = [m \in Message |-> 0] /\ sender' = Nobody
  /\ \/ UNCHANGED sent
     \/ sender # Nobody /\ Authorized(sender) /\ sent' = [sent EXCEPT ![sender] = @ + 1]
  /\ UNCHANGED <<message, sendRun, sentResult, intent, runtimeResult, policyVars, memoryVars>>

DeliveryNext ==
  \/ SuggestFact \/ DecideMemory \/ GrantFact \/ RecoverFollowUp \/ RevokeGrant \/ ValidateGrant
  \/ ReconcileMemory \/ ChangeEpoch \/ DenySend \/ CorrectFact
  \/ TransmitMessage \/ RestartSender
  \/ \E m \in Message :
       \/ ProposeMessage(m) \/ DecideMessage(m) \/ BeginSend(m) \/ ClaimSend(m)
       \/ GiveUpCall(m) \/ ObserveSend(m) \/ ReturnUnstarted(m) \/ RecordSend(m)
       \/ FinishSend(m) \/ LoseSendRun(m) \/ HandleExecute(m)

DeliverySpec == DeliveryInit /\ [][DeliveryNext]_DeliveryVars

----------------------------------------------------------------------------
DeliveryTypeOK ==
  /\ message \in [Message -> [state : {"none", "proposed", "approved", "running", "ambiguous",
                                       "done", "rejected", "cancelled"}, bound : 0..MaxBinding]]
  /\ sendRun \in [Message -> [at : {"idle", "claim", "calling", "observe", "record", "finish"},
                              holds : Answers \cup {"none"}]]
  /\ sentResult \in [Message -> {"none", "done", "denied"}]
  /\ execCalls \in [Message -> 0..1] /\ intent \in [Message -> BOOLEAN]
  /\ runtimeResult \in [Message -> {"none", "done", "denied", "ambiguous"}]
  /\ sender \in Message \cup {Nobody} /\ sent \in [Message -> Nat]
  /\ epochNow \in 0..MaxBinding /\ sendDenied \in BOOLEAN /\ factNow \in 0..1
  /\ memoryRequest \in [state : {"none", "pending", "approved", "rejected", "suspended", "expired",
                                 "delivered"}, bound : 0..MaxBinding, fact : 0..1, link : Message \cup {Nobody}]
  /\ memoryGrant \in [state : {"none", "active", "suspended", "revoked", "consumed", "expired"},
                      bound : 0..MaxBinding, fact : 0..1, mode : {"none", "one_time", "persistent"}]

\* A message goes out at most once; a row that still waits, was rejected or cancelled
\* never went out, one that says `done' did, and a grant is consumed or a request
\* called delivered only by a message that went out.
DeliveryIsHonest ==
  /\ \A m \in Message :
       /\ sent[m] <= 1
       /\ message[m].state \in {"proposed", "approved", "rejected", "cancelled"} => sent[m] = 0
       /\ message[m].state = "done" => sent[m] = 1
  /\ memoryGrant.state = "consumed" \/ memoryRequest.state = "delivered" => sent[memoryRequest.link] = 1

\* What an approved message, its grant and its request say is what happened to the message,
\* whoever crashed and whatever answer was lost.
DeliveryAgrees == DeliveryTypeOK /\ DeliveryIsHonest
=============================================================================
