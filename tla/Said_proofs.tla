---------------------------- MODULE Said_proofs ----------------------------
(***************************************************************************)
(* Proofs about what leaves: an approved message and the memory it may     *)
(* carry, texts prepared for an audience, and what the broker lets a turn  *)
(* ask and read.  The theorems hold for any number of messages, calls,     *)
(* processes, texts and revisions.                                         *)
(***************************************************************************)
EXTENDS MCGovernance, SequenceTheorems, TLAPS

----------------------------------------------------------------------------
(* Approved messages.                                                      *)
(*                                                                         *)
(* A message that may still be handed to the runtime has left no trace     *)
(* there; every answer a run or the derived store holds is the one the     *)
(* runtime keeps; and the runtime keeps `done' only of what went out.      *)

\* Nothing of the message has reached the runtime.
Bare(m) ==
  /\ execCalls[m] = 0 /\ intent[m] = FALSE /\ runtimeResult[m] = "none" /\ sentResult[m] = "none"
  /\ sender # m /\ sent[m] = 0

MessageStands(m) ==
  /\ message[m].state \in {"none", "proposed", "approved"} => Bare(m) /\ sendRun[m].at \in {"idle", "claim"}
  /\ message[m].state \in {"rejected", "cancelled"} =>
       execCalls[m] = 0 /\ intent[m] = FALSE /\ sendRun[m].at = "idle"
  /\ message[m].state = "done" => runtimeResult[m] = "done" /\ sendRun[m].at = "idle"
  /\ sendRun[m].at = "claim" => message[m].state = "approved"
  /\ sendRun[m].at = "calling" => message[m].state = "running"
  /\ sendRun[m].at \in {"record", "finish"} => sendRun[m].holds # "none"
  /\ sendRun[m].holds \in {"none", "ambiguous", "not_started", runtimeResult[m]}
  /\ sendRun[m].holds = "not_started" =>
       sendRun[m].at = "record" /\ message[m].state = "running" /\ Bare(m)
  /\ sentResult[m] \in {"none", runtimeResult[m]}
  /\ execCalls[m] = 1 => intent[m] = FALSE /\ runtimeResult[m] = "none"
  /\ sender = m => intent[m] = TRUE /\ runtimeResult[m] = "none" /\ sent[m] = 0
  /\ sent[m] = 0 \/ (sent[m] = 1 /\ intent[m] = TRUE)
  /\ runtimeResult[m] = "done" => sent[m] = 1
  /\ runtimeResult[m] = "denied" => intent[m] = FALSE

\* A one-time grant answers a request, and is consumed with its delivery.
RequestStands ==
  /\ memoryGrant.mode = "one_time" => memoryRequest.state \in {"approved", "delivered"}
  /\ memoryGrant.state = "consumed" => memoryGrant.mode = "one_time" /\ memoryRequest.state = "delivered"
  /\ memoryRequest.state = "delivered" => memoryRequest.link # Nobody /\ sent[memoryRequest.link] = 1

\* The rows of DeliveryTypeOK.
MessageRow == [state : {"none", "proposed", "approved", "running", "ambiguous", "done", "rejected",
                        "cancelled"}, bound : 0..MaxBinding]
RunRow == [at : {"idle", "claim", "calling", "observe", "record", "finish"}, holds : Answers \cup {"none"}]
RequestRow == [state : {"none", "pending", "approved", "rejected", "suspended", "expired", "delivered"},
               bound : 0..MaxBinding, fact : 0..1, link : Message \cup {Nobody}]
GrantRow == [state : {"none", "active", "suspended", "revoked", "consumed", "expired"},
             bound : 0..MaxBinding, fact : 0..1, mode : {"none", "one_time", "persistent"}]

DeliveryInv == DeliveryTypeOK /\ RequestStands /\ \A m \in Message : MessageStands(m)

LEMMA DeliveryTyped ==
  DeliveryTypeOK <=>
    /\ message \in [Message -> MessageRow] /\ sendRun \in [Message -> RunRow]
    /\ sentResult \in [Message -> {"none", "done", "denied"}]
    /\ execCalls \in [Message -> 0..1] /\ intent \in [Message -> BOOLEAN]
    /\ runtimeResult \in [Message -> {"none", "done", "denied", "ambiguous"}]
    /\ sender \in Message \cup {Nobody} /\ sent \in [Message -> Nat]
    /\ epochNow \in 0..MaxBinding /\ sendDenied \in BOOLEAN /\ factNow \in 0..1
    /\ memoryRequest \in RequestRow /\ memoryGrant \in GrantRow
BY DEF DeliveryTypeOK, MessageRow, RunRow, RequestRow, GrantRow

LEMMA DeliveryStarts == DeliveryInit => DeliveryInv
<1> SUFFICES ASSUME DeliveryInit PROVE DeliveryInv
  OBVIOUS
<1>1. DeliveryTypeOK
  <2>1. 0 \in 0..MaxBinding
    BY DeliveryAssumption
  <2>2. NoRequest \in RequestRow
    BY <2>1 DEF NoRequest, RequestRow
  <2>3. NoGrant \in GrantRow
    BY <2>1 DEF NoGrant, GrantRow
  <2>4. [state |-> "none", bound |-> 0] \in MessageRow /\ Resting \in RunRow
    BY <2>1 DEF Resting, MessageRow, RunRow, Answers
  <2>5. message \in [Message -> MessageRow] /\ sendRun \in [Message -> RunRow]
    BY <2>4 DEF DeliveryInit
  <2>6. /\ sentResult \in [Message -> {"none", "done", "denied"}] /\ execCalls \in [Message -> 0..1]
        /\ intent \in [Message -> BOOLEAN] /\ sent \in [Message -> Nat]
        /\ runtimeResult \in [Message -> {"none", "done", "denied", "ambiguous"}]
    BY DEF DeliveryInit
  <2>7. /\ sender \in Message \cup {Nobody} /\ epochNow \in 0..MaxBinding /\ sendDenied \in BOOLEAN
        /\ factNow \in 0..1 /\ memoryRequest \in RequestRow /\ memoryGrant \in GrantRow
    <3>1. /\ sender = Nobody /\ epochNow = 0 /\ sendDenied = FALSE /\ factNow = 0
          /\ memoryRequest = NoRequest /\ memoryGrant = NoGrant
      BY DEF DeliveryInit
    <3>2. 0 \in 0..1 /\ FALSE \in BOOLEAN
      OBVIOUS
    <3> QED
      BY <2>1, <2>2, <2>3, <3>1, <3>2
  <2> QED
    BY <2>5, <2>6, <2>7, DeliveryTyped
<1>2. RequestStands
  BY DEF DeliveryInit, RequestStands, NoRequest, NoGrant
<1>3. ASSUME NEW m \in Message PROVE MessageStands(m)
  BY DeliveryAssumption DEF DeliveryInit, MessageStands, Bare, Resting
<1> QED
  BY <1>1, <1>2, <1>3 DEF DeliveryInv

\* A message that a step does not touch stands as it stood.
LEMMA MessageKept ==
  ASSUME NEW n \in Message, MessageStands(n),
         message'[n] = message[n], sendRun'[n] = sendRun[n], sentResult'[n] = sentResult[n],
         execCalls'[n] = execCalls[n], intent'[n] = intent[n], runtimeResult'[n] = runtimeResult[n],
         sender' = n <=> sender = n, sent'[n] = sent[n]
  PROVE  MessageStands(n)'
BY DEF MessageStands, Bare


\* A message that was not handed over may be proposed, approved, rejected or cancelled.
LEMMA MessageDecided ==
  ASSUME DeliveryInv, NEW m \in Message, NEW row \in MessageRow,
         row.state \in {"proposed", "approved", "rejected", "cancelled"},
         message[m].state \in {"none", "proposed", "approved"}, sendRun[m].at = "idle",
         message' = [message EXCEPT ![m] = row],
         UNCHANGED <<sendRun, sentResult, runtimeVars>>
  PROVE  message' \in [Message -> MessageRow] /\ \A n \in Message : MessageStands(n)'
<1>1. message \in [Message -> MessageRow]
  BY DeliveryTyped DEF DeliveryInv
<1>2. message'[m] = row /\ \A n \in Message : n # m => message'[n] = message[n]
  BY <1>1
<1>3. UNCHANGED <<sendRun, sentResult, execCalls, intent, runtimeResult, sender, sent>>
  BY DEF runtimeVars
<1>4. ASSUME NEW n \in Message PROVE MessageStands(n)'
  <2>1. MessageStands(n)
    BY DEF DeliveryInv
  <2>2. CASE n = m
    <3>1. Bare(m)
      BY <2>1, <2>2 DEF MessageStands
    <3> QED
      BY <1>2, <1>3, <2>1, <2>2, <3>1 DEF MessageStands, Bare
  <2>3. CASE n # m
    BY <1>2, <1>3, <2>1, <2>3, MessageKept
  <2> QED
    BY <2>2, <2>3
<1> QED
  BY <1>1, <1>4

\* Proposals and decisions of a message.
LEMMA DecisionStep ==
  ASSUME DeliveryInv, NEW m \in Message, ProposeMessage(m) \/ DecideMessage(m)
  PROVE  DeliveryInv'
<1>t. /\ message \in [Message -> MessageRow] /\ epochNow \in 0..MaxBinding
      /\ RequestStands /\ MessageStands(m)
  BY DeliveryTyped DEF DeliveryInv
<1>1. UNCHANGED <<sendRun, sentResult, execCalls, intent, runtimeResult, sender, sent, epochNow,
                  sendDenied, memoryRequest, memoryGrant, factNow>>
  BY DEF ProposeMessage, DecideMessage, runtimeVars, policyVars, memoryVars
<1>2. message[m].state \in {"none", "proposed"}
  BY DEF ProposeMessage, DecideMessage
<1>3. sendRun[m].at = "idle"
  BY <1>t, <1>2 DEF MessageStands
<1>4. PICK row \in MessageRow : /\ message' = [message EXCEPT ![m] = row]
                                /\ row.state \in {"proposed", "approved", "rejected"}
  <2>1. CASE ProposeMessage(m)
    <3>1. PICK s \in {"approved", "proposed"} : message' = [message EXCEPT ![m] = [bound |-> epochNow, state |-> s]]
      BY <2>1 DEF ProposeMessage
    <3>2. [bound |-> epochNow, state |-> s] \in MessageRow
      BY <1>t DEF MessageRow
    <3> QED
      BY <3>1, <3>2
  <2>2. CASE DecideMessage(m)
    <3>1. PICK verdict \in {"approved", "rejected"} : message' = [message EXCEPT ![m].state = verdict]
      BY <2>2 DEF DecideMessage
    <3>2. PICK row : row = [message[m] EXCEPT !.state = verdict]
      OBVIOUS
    <3>3. row \in MessageRow /\ row.state = verdict
      BY <1>t, <3>2 DEF MessageRow
    <3>4. message' = [message EXCEPT ![m] = row]
      BY <1>t, <3>1, <3>2
    <3> QED
      BY <3>3, <3>4
  <2> QED
    BY <2>1, <2>2
<1>5. message' \in [Message -> MessageRow] /\ \A n \in Message : MessageStands(n)'
  BY <1>1, <1>2, <1>3, <1>4, MessageDecided DEF runtimeVars
<1>6. DeliveryTypeOK'
  BY <1>1, <1>5, DeliveryTyped DEF DeliveryInv, DeliveryTypeOK, MessageRow
<1>7. RequestStands'
  BY <1>t, <1>1 DEF RequestStands
<1> QED
  BY <1>5, <1>6, <1>7 DEF DeliveryInv

\* What the owner's actions may do to messages: stage an unused one, as approved.
LEMMA MessageStaged ==
  ASSUME DeliveryInv, UNCHANGED <<sendRun, sentResult, runtimeVars>>,
         UNCHANGED message \/ \E m \in Unused : message' = Staged(m)
  PROVE  message' \in [Message -> MessageRow] /\ \A n \in Message : MessageStands(n)'
<1>t. message \in [Message -> MessageRow] /\ epochNow \in 0..MaxBinding
  BY DeliveryTyped DEF DeliveryInv
<1>1. CASE UNCHANGED message
  <2>1. ASSUME NEW n \in Message PROVE MessageStands(n)'
    BY <1>1, MessageKept DEF runtimeVars, DeliveryInv
  <2> QED
    BY <1>t, <1>1, <2>1
<1>2. ASSUME NEW m \in Unused, message' = Staged(m) PROVE message' \in [Message -> MessageRow] /\ \A n \in Message : MessageStands(n)'
  <2>1. m \in Message /\ message[m].state = "none" /\ MessageStands(m)
    BY DEF Unused, DeliveryInv
  <2>2. sendRun[m].at = "idle"
    BY <2>1 DEF MessageStands
  <2>3. PICK row : row = [state |-> "approved", bound |-> epochNow]
    OBVIOUS
  <2>4. row \in MessageRow /\ row.state = "approved"
    BY <1>t, <2>3 DEF MessageRow
  <2>5. message' = [message EXCEPT ![m] = row]
    BY <1>2, <2>3 DEF Staged
  <2> QED
    BY <2>1, <2>2, <2>4, <2>5, MessageDecided
<1> QED
  BY <1>1, <1>2

\* ... and to the request and the grant.
LEMMA OwnerChange ==
  ASSUME DeliveryInv, UNCHANGED <<sendRun, sentResult, runtimeVars>>,
         UNCHANGED message \/ \E m \in Unused : message' = Staged(m),
         epochNow' \in 0..MaxBinding, sendDenied' \in BOOLEAN, factNow' \in 0..1,
         memoryRequest' \in RequestRow, memoryGrant' \in GrantRow, RequestStands'
  PROVE  DeliveryInv'
<1>1. message' \in [Message -> MessageRow] /\ \A n \in Message : MessageStands(n)'
  BY MessageStaged
<1>2. DeliveryTypeOK'
  <2>1. /\ sendRun' \in [Message -> RunRow] /\ sentResult' \in [Message -> {"none", "done", "denied"}]
        /\ execCalls' \in [Message -> 0..1] /\ intent' \in [Message -> BOOLEAN]
        /\ runtimeResult' \in [Message -> {"none", "done", "denied", "ambiguous"}]
        /\ sender' \in Message \cup {Nobody} /\ sent' \in [Message -> Nat]
    BY DeliveryTyped DEF DeliveryInv, runtimeVars
  <2> QED
    BY <1>1, <2>1 DEF DeliveryTypeOK, MessageRow, RunRow, RequestRow, GrantRow
<1> QED
  BY <1>1, <1>2 DEF DeliveryInv

LEMMA OwnerTypes ==
  DeliveryInv => /\ epochNow \in 0..MaxBinding /\ sendDenied \in BOOLEAN /\ factNow \in 0..1
                 /\ memoryRequest \in RequestRow /\ memoryGrant \in GrantRow /\ RequestStands
BY DeliveryTyped DEF DeliveryInv

\* Requests and grants: asked for, decided, followed up, revoked, checked, reconciled.
LEMMA MemoryStep ==
  ASSUME DeliveryInv,
         SuggestFact \/ DecideMemory \/ GrantFact \/ RecoverFollowUp \/ RevokeGrant \/ ValidateGrant
  PROVE  DeliveryInv'
<1>t. /\ epochNow \in 0..MaxBinding /\ sendDenied \in BOOLEAN /\ factNow \in 0..1
      /\ memoryRequest \in RequestRow /\ memoryGrant \in GrantRow /\ RequestStands
  BY OwnerTypes
<1>m. \A m \in Unused : m \in Message /\ m # Nobody
  BY DeliveryAssumption DEF Unused
<1>1. CASE SuggestFact
  <2>1. memoryRequest' \in RequestRow /\ memoryRequest'.state = "pending" /\ memoryRequest.state = "none"
    BY <1>t, <1>1 DEF SuggestFact, NoRequest, RequestRow
  <2>2. RequestStands'
    BY <1>t, <1>1, <2>1 DEF RequestStands, SuggestFact
  <2> QED
    BY <1>t, <1>1, <2>1, <2>2, OwnerChange DEF SuggestFact, policyVars
<1>2. CASE DecideMemory
  <2>1. /\ memoryRequest.state = "pending"
        /\ UNCHANGED <<sendRun, sentResult, runtimeVars, epochNow, sendDenied, factNow>>
    BY <1>2 DEF DecideMemory, policyVars
  <2>2. CASE /\ memoryRequest' = [memoryRequest EXCEPT !.state = "rejected"] \/ memoryRequest' = [memoryRequest EXCEPT !.state = "suspended"]
             /\ UNCHANGED <<message, memoryGrant>>
    <3>1. memoryRequest' \in RequestRow /\ memoryRequest'.state \in {"rejected", "suspended"}
      BY <1>t, <2>2 DEF RequestRow
    <3>2. RequestStands'
      BY <1>t, <2>1, <2>2, <3>1 DEF RequestStands
    <3> QED
      BY <1>t, <2>1, <2>2, <3>1, <3>2, OwnerChange
  <2>3. ASSUME NEW mode \in {"one_time", "persistent"}, NEW m \in Unused \cup {Nobody},
               memoryRequest' = [memoryRequest EXCEPT !.state = "approved", !.link = m],
               memoryGrant' = [state |-> "active", bound |-> epochNow, fact |-> factNow, mode |-> mode],
               message' = IF m = Nobody THEN message ELSE Staged(m)
        PROVE  DeliveryInv'
    <3>1. memoryRequest' \in RequestRow /\ memoryRequest'.state = "approved"
      BY <1>t, <1>m, <2>3 DEF RequestRow
    <3>2. memoryGrant' \in GrantRow /\ memoryGrant'.state = "active"
      BY <1>t, <2>3 DEF GrantRow
    <3>3. RequestStands'
      BY <3>1, <3>2 DEF RequestStands
    <3>4. UNCHANGED message \/ \E n \in Unused : message' = Staged(n)
      BY <2>3
    <3> QED
      BY <1>t, <2>1, <3>1, <3>2, <3>3, <3>4, OwnerChange
  <2> QED
    BY <1>2, <2>2, <2>3 DEF DecideMemory
<1>3. CASE GrantFact
  <2>1. memoryGrant' \in GrantRow /\ memoryGrant'.mode = "persistent" /\ memoryGrant'.state = "active"
    BY <1>t, <1>3 DEF GrantFact, GrantRow
  <2>2. RequestStands'
    BY <1>t, <1>3, <2>1 DEF RequestStands, GrantFact, runtimeVars
  <2> QED
    BY <1>t, <1>3, <2>1, <2>2, OwnerChange DEF GrantFact, policyVars
<1>4. CASE RecoverFollowUp
  <2>1. PICK m \in Unused : message' = Staged(m) /\ memoryRequest' = [memoryRequest EXCEPT !.link = m]
    BY <1>4 DEF RecoverFollowUp
  <2>2. memoryRequest' \in RequestRow /\ memoryRequest'.state = "approved"
    BY <1>t, <1>4, <1>m, <2>1 DEF RequestRow, RecoverFollowUp
  <2>3. RequestStands'
    BY <1>t, <1>4, <2>2 DEF RequestStands, RecoverFollowUp
  <2> QED
    BY <1>t, <1>4, <2>1, <2>2, <2>3, OwnerChange DEF RecoverFollowUp, policyVars
<1>5. CASE RevokeGrant \/ ValidateGrant
  <2>1. memoryGrant' \in GrantRow /\ memoryGrant'.state \in {"revoked", "suspended"} /\ memoryGrant'.mode = memoryGrant.mode
    BY <1>t, <1>5 DEF RevokeGrant, ValidateGrant, GrantRow
  <2>2. RequestStands'
    BY <1>t, <1>5, <2>1 DEF RequestStands, RevokeGrant, ValidateGrant, runtimeVars
  <2>3. epochNow' \in 0..MaxBinding
    BY <1>t, <1>5, DeliveryAssumption DEF RevokeGrant, ValidateGrant, policyVars
  <2> QED
    BY <1>t, <1>5, <2>1, <2>2, <2>3, OwnerChange DEF RevokeGrant, ValidateGrant, policyVars
<1> QED
  BY <1>1, <1>2, <1>3, <1>4, <1>5

LEMMA ReconcileStep == ASSUME DeliveryInv, ReconcileMemory PROVE DeliveryInv'
<1>t. /\ epochNow \in 0..MaxBinding /\ sendDenied \in BOOLEAN /\ factNow \in 0..1
      /\ memoryRequest \in RequestRow /\ memoryGrant \in GrantRow /\ RequestStands
  BY OwnerTypes
<1>f. /\ UNCHANGED <<message, sendRun, sentResult, runtimeVars, epochNow, sendDenied, factNow>>
  BY DEF ReconcileMemory, policyVars
<1> DEFINE delivered == \E m \in Message : m = memoryRequest.link /\ message[m].state = "done"
<1>1. PICK expired \in BOOLEAN :
        /\ memoryRequest' = [memoryRequest EXCEPT !.state =
             CASE memoryRequest.state = "pending" /\ expired -> "expired"
               [] memoryRequest.state = "approved" /\ delivered -> "delivered"
               [] OTHER -> memoryRequest.state]
        /\ memoryGrant' = [memoryGrant EXCEPT !.state =
             CASE memoryGrant.state = "active" /\ delivered /\ memoryGrant.mode = "one_time" -> "consumed"
               [] memoryGrant.state = "active" /\ memoryRequest.state = "none" /\ expired -> "expired"
               [] OTHER -> memoryGrant.state]
  BY DEF ReconcileMemory
<1>2. delivered => memoryRequest.link # Nobody /\ sent[memoryRequest.link] = 1
  BY DeliveryAssumption DEF DeliveryInv, MessageStands
<1> HIDE DEF delivered
<1>3. PICK asks : asks = CASE memoryRequest.state = "pending" /\ expired -> "expired"
                            [] memoryRequest.state = "approved" /\ delivered -> "delivered"
                            [] OTHER -> memoryRequest.state
  OBVIOUS
<1>4. PICK gives : gives = CASE memoryGrant.state = "active" /\ delivered /\ memoryGrant.mode = "one_time" -> "consumed"
                             [] memoryGrant.state = "active" /\ memoryRequest.state = "none" /\ expired -> "expired"
                             [] OTHER -> memoryGrant.state
  OBVIOUS
<1>5. /\ memoryRequest' = [memoryRequest EXCEPT !.state = asks]
      /\ memoryGrant' = [memoryGrant EXCEPT !.state = gives]
  BY <1>1, <1>3, <1>4
<1>6. /\ asks \in {"expired", "delivered", memoryRequest.state}
      /\ asks = "expired" => memoryRequest.state \in {"pending", "expired"}
      /\ memoryRequest.state = "approved" => asks = IF delivered THEN "delivered" ELSE "approved"
      /\ asks = "delivered" => delivered \/ memoryRequest.state = "delivered"
      /\ memoryRequest.state = "delivered" => asks = "delivered"
  BY <1>3
<1>7. /\ gives \in {"consumed", "expired", memoryGrant.state}
      /\ gives = "consumed" => memoryGrant.state = "consumed" \/ (delivered /\ memoryGrant.mode = "one_time")
  BY <1>4
<1>8. /\ memoryRequest' \in RequestRow /\ memoryRequest'.state = asks /\ memoryRequest'.link = memoryRequest.link
      /\ memoryGrant' \in GrantRow /\ memoryGrant'.state = gives /\ memoryGrant'.mode = memoryGrant.mode
  BY <1>t, <1>5, <1>6, <1>7 DEF RequestRow, GrantRow
<1>9. RequestStands'
  BY <1>t, <1>f, <1>2, <1>6, <1>7, <1>8 DEF RequestStands, runtimeVars
<1> QED
  BY <1>t, <1>f, <1>8, <1>9, OwnerChange

\* The guard epoch, the policy and the fact.
LEMMA PolicyStep == ASSUME DeliveryInv, ChangeEpoch \/ DenySend \/ CorrectFact PROVE DeliveryInv'
<1>t. /\ epochNow \in 0..MaxBinding /\ sendDenied \in BOOLEAN /\ factNow \in 0..1
      /\ memoryRequest \in RequestRow /\ memoryGrant \in GrantRow /\ RequestStands
  BY OwnerTypes
<1>1. UNCHANGED <<message, sendRun, sentResult, runtimeVars, memoryRequest, memoryGrant>>
  BY DEF ChangeEpoch, DenySend, CorrectFact, memoryVars
<1>2. epochNow' \in 0..MaxBinding /\ sendDenied' \in BOOLEAN /\ factNow' \in 0..1
  <2>1. CASE ChangeEpoch
    BY <1>t, <2>1, DeliveryAssumption DEF ChangeEpoch, memoryVars
  <2>2. CASE DenySend
    BY <1>t, <2>2 DEF DenySend, memoryVars
  <2>3. CASE CorrectFact
    BY <1>t, <2>3 DEF CorrectFact, policyVars
  <2> QED
    BY <2>1, <2>2, <2>3
<1>3. RequestStands'
  BY <1>t, <1>1 DEF RequestStands, runtimeVars
<1> QED
  BY <1>t, <1>1, <1>2, <1>3, OwnerChange

----------------------------------------------------------------------------
(* The run of a message and the runtime.                                   *)

\* A step of one message: the others are as they were.
LEMMA OneMessageMoves ==
  ASSUME DeliveryInv, NEW m \in Message, DeliveryTypeOK', RequestStands', MessageStands(m)',
         \A n \in Message : n # m =>
           /\ message'[n] = message[n] /\ sendRun'[n] = sendRun[n] /\ sentResult'[n] = sentResult[n]
           /\ execCalls'[n] = execCalls[n] /\ intent'[n] = intent[n]
           /\ runtimeResult'[n] = runtimeResult[n] /\ sent'[n] = sent[n] /\ (sender' = n <=> sender = n)
  PROVE  DeliveryInv'
<1>1. ASSUME NEW n \in Message, n # m PROVE MessageStands(n)'
  <2>1. MessageStands(n)
    BY DEF DeliveryInv
  <2>2. /\ message'[n] = message[n] /\ sendRun'[n] = sendRun[n] /\ sentResult'[n] = sentResult[n]
        /\ execCalls'[n] = execCalls[n] /\ intent'[n] = intent[n]
        /\ runtimeResult'[n] = runtimeResult[n] /\ sent'[n] = sent[n] /\ (sender' = n <=> sender = n)
    BY <1>1
  <2> QED
    BY <2>1, <2>2, MessageKept
<1> QED
  BY <1>1 DEF DeliveryInv

\* A step of the core moves the run, the row or the durable result of one message, and may
\* hand the runtime a call.
LEMMA RunMoves ==
  ASSUME DeliveryInv, NEW m \in Message, NEW run \in RunRow, NEW row \in MessageRow,
         NEW kept \in {"none", "done", "denied"}, NEW calls \in 0..1,
         sendRun' = [sendRun EXCEPT ![m] = run], message' = [message EXCEPT ![m] = row],
         sentResult' = [sentResult EXCEPT ![m] = kept], execCalls' = [execCalls EXCEPT ![m] = calls],
         UNCHANGED <<intent, runtimeResult, sender, sent, policyVars, memoryRequest, factNow>>,
         memoryGrant' = memoryGrant \/ memoryGrant' = [memoryGrant EXCEPT !.state = "suspended"]
  PROVE  /\ sendRun'[m] = run /\ message'[m] = row /\ sentResult'[m] = kept /\ execCalls'[m] = calls
         /\ MessageStands(m)' => DeliveryInv'
<1>t. /\ message \in [Message -> MessageRow] /\ sendRun \in [Message -> RunRow]
      /\ sentResult \in [Message -> {"none", "done", "denied"}] /\ execCalls \in [Message -> 0..1]
      /\ intent \in [Message -> BOOLEAN]
      /\ runtimeResult \in [Message -> {"none", "done", "denied", "ambiguous"}]
      /\ sender \in Message \cup {Nobody} /\ sent \in [Message -> Nat]
      /\ epochNow \in 0..MaxBinding /\ sendDenied \in BOOLEAN /\ factNow \in 0..1
      /\ memoryRequest \in RequestRow /\ memoryGrant \in GrantRow /\ RequestStands
  BY DeliveryTyped DEF DeliveryInv
<1>1. /\ sendRun'[m] = run /\ message'[m] = row /\ sentResult'[m] = kept /\ execCalls'[m] = calls
  BY <1>t
<1>2. memoryGrant' \in GrantRow /\ memoryGrant'.mode = memoryGrant.mode
      /\ memoryGrant'.state \in {"suspended", memoryGrant.state}
  BY <1>t DEF GrantRow
<1>3. RequestStands'
  BY <1>t, <1>2 DEF RequestStands
<1>4. /\ message' \in [Message -> MessageRow] /\ sendRun' \in [Message -> RunRow]
      /\ sentResult' \in [Message -> {"none", "done", "denied"}] /\ execCalls' \in [Message -> 0..1]
  BY <1>t
<1>5. DeliveryTypeOK'
  BY <1>t, <1>2, <1>4 DEF DeliveryTypeOK, MessageRow, RunRow, RequestRow, GrantRow, policyVars
<1>6. \A n \in Message : n # m =>
           /\ message'[n] = message[n] /\ sendRun'[n] = sendRun[n] /\ sentResult'[n] = sentResult[n]
           /\ execCalls'[n] = execCalls[n] /\ intent'[n] = intent[n]
           /\ runtimeResult'[n] = runtimeResult[n] /\ sent'[n] = sent[n] /\ (sender' = n <=> sender = n)
  BY <1>t
<1> QED
  BY <1>1, <1>3, <1>5, <1>6, OneMessageMoves

\* What is known of one message when a step of it begins.
LEMMA MessageTypes ==
  ASSUME DeliveryInv, NEW m \in Message
  PROVE  /\ MessageStands(m) /\ message[m] \in MessageRow /\ sendRun[m] \in RunRow
         /\ sentResult[m] \in {"none", "done", "denied"} /\ execCalls[m] \in 0..1
         /\ runtimeResult[m] \in {"none", "done", "denied", "ambiguous"}
         /\ message = [message EXCEPT ![m] = message[m]] /\ sentResult = [sentResult EXCEPT ![m] = sentResult[m]]
         /\ sendRun = [sendRun EXCEPT ![m] = sendRun[m]] /\ execCalls = [execCalls EXCEPT ![m] = execCalls[m]]
BY DeliveryTyped DEF DeliveryInv

\* The same run, with the row, the durable result and the calls as they are.
LEMMA OnlyRunMoves ==
  ASSUME DeliveryInv, NEW m \in Message, NEW run \in RunRow, sendRun' = [sendRun EXCEPT ![m] = run],
         UNCHANGED <<message, sentResult, runtimeVars, policyVars, memoryVars>>
  PROVE  sendRun'[m] = run /\ (MessageStands(m)' => DeliveryInv')
<1>1. PICK row \in MessageRow, kept \in {"none", "done", "denied"}, calls \in 0..1 :
        /\ message = [message EXCEPT ![m] = row] /\ sentResult = [sentResult EXCEPT ![m] = kept]
        /\ execCalls = [execCalls EXCEPT ![m] = calls]
  BY MessageTypes
<1>2. /\ message' = [message EXCEPT ![m] = row] /\ sentResult' = [sentResult EXCEPT ![m] = kept]
      /\ execCalls' = [execCalls EXCEPT ![m] = calls]
      /\ UNCHANGED <<intent, runtimeResult, sender, sent, policyVars, memoryRequest, factNow, memoryGrant>>
  BY <1>1 DEF runtimeVars, memoryVars
<1> QED
  BY <1>2, RunMoves

\* A run that loses its answer, looks at what the runtime keeps, or dies.
LEMMA RunGoesOn ==
  ASSUME DeliveryInv, NEW m \in Message, GiveUpCall(m) \/ ObserveSend(m) \/ LoseSendRun(m)
  PROVE  DeliveryInv'
<1>t. MessageStands(m) /\ message[m] \in MessageRow /\ sendRun[m] \in RunRow
      /\ runtimeResult[m] \in {"none", "done", "denied", "ambiguous"}
  BY MessageTypes
<1>1. UNCHANGED <<message, sentResult, runtimeVars, policyVars, memoryVars>>
  BY DEF GiveUpCall, ObserveSend, LoseSendRun
<1>2. PICK at \in {"idle", "record"}, holds \in {"none", "done", "denied", "ambiguous"} :
        /\ sendRun' = [sendRun EXCEPT ![m] = [at |-> at, holds |-> holds]]
        /\ at = "idle" => holds = "none"
        /\ at = "record" => holds \in {"ambiguous", runtimeResult[m]} \ {"none"} /\ sendRun[m].at \in {"calling", "observe"}
  <2>1. CASE GiveUpCall(m)
    BY <2>1 DEF GiveUpCall, RunTo
  <2>2. CASE ObserveSend(m)
    <3>1. PICK kept \in {runtimeResult[m], "none"} :
            RunTo(m, "record", IF kept = "none" THEN "ambiguous" ELSE kept)
      BY <2>2 DEF ObserveSend
    <3>2. PICK holds \in {"done", "denied", "ambiguous"} : holds = IF kept = "none" THEN "ambiguous" ELSE kept
      BY <1>t, <3>1
    <3>3. sendRun' = [sendRun EXCEPT ![m] = [at |-> "record", holds |-> holds]]
      BY <3>1, <3>2 DEF RunTo
    <3>4. holds \in {"ambiguous", runtimeResult[m]} \ {"none"} /\ sendRun[m].at = "observe"
      BY <2>2, <3>1, <3>2 DEF ObserveSend
    <3> QED
      BY <3>3, <3>4
  <2>3. CASE LoseSendRun(m)
    BY <2>3 DEF LoseSendRun, RunTo
  <2> QED
    BY <2>1, <2>2, <2>3
<1>3. PICK run : run = [at |-> at, holds |-> holds]
  OBVIOUS
<1>4. run \in RunRow /\ run.at = at /\ run.holds = holds
  BY <1>3 DEF RunRow, Answers
<1>5. sendRun'[m] = run /\ (MessageStands(m)' => DeliveryInv')
  BY <1>1, <1>2, <1>3, <1>4, OnlyRunMoves
<1>6. MessageStands(m)'
  BY <1>t, <1>1, <1>2, <1>4, <1>5 DEF MessageStands, Bare, runtimeVars
<1> QED
  BY <1>5, <1>6

\* A run begins: a durable result first, then the row.
LEMMA RunBegins == ASSUME DeliveryInv, NEW m \in Message, BeginSend(m) PROVE DeliveryInv'
<1>t. MessageStands(m) /\ message[m] \in MessageRow /\ sendRun[m] \in RunRow
      /\ sentResult[m] \in {"none", "done", "denied"}
  BY MessageTypes
<1>f. /\ UNCHANGED <<sentResult, runtimeVars, policyVars, memoryRequest, factNow>> /\ sendRun[m].at = "idle"
      /\ message[m].state \in {"approved", "running", "ambiguous"}
  BY DEF BeginSend
<1>1. ASSUME NEW at \in {"claim", "observe", "finish"}, NEW holds \in {"none", "done", "denied"},
             RunTo(m, at, holds), UNCHANGED <<message, memoryGrant>>,
             at = "finish" => holds = sentResult[m] /\ holds # "none", at # "finish" => holds = "none",
             at = "claim" <=> message[m].state = "approved"
      PROVE  DeliveryInv'
  <2>1. PICK run : run = [at |-> at, holds |-> holds]
    OBVIOUS
  <2>2. run \in RunRow /\ run.at = at /\ run.holds = holds
    BY <2>1 DEF RunRow, Answers
  <2>3. sendRun'[m] = run /\ (MessageStands(m)' => DeliveryInv')
    BY <1>1, <1>f, <2>1, <2>2, OnlyRunMoves DEF RunTo, memoryVars
  <2>4. MessageStands(m)'
    BY <1>t, <1>f, <1>1, <2>2, <2>3 DEF MessageStands, Bare, runtimeVars
  <2> QED
    BY <2>3, <2>4
<1>2. ASSUME message[m].state = "approved", message' = [message EXCEPT ![m].state = "cancelled"],
             UNCHANGED sendRun, memoryGrant' = AfterCheck(m)
      PROVE  DeliveryInv'
  <2>1. PICK row, kept, run, calls :
          /\ row = [message[m] EXCEPT !.state = "cancelled"] /\ kept = sentResult[m]
          /\ run = sendRun[m] /\ calls = execCalls[m]
    OBVIOUS
  <2>2. row \in MessageRow /\ row.state = "cancelled"
    BY <1>t, <2>1 DEF MessageRow
  <2>3. message' = [message EXCEPT ![m] = row]
    BY <1>2, <2>1, MessageTypes
  <2>4. memoryGrant' = memoryGrant \/ memoryGrant' = [memoryGrant EXCEPT !.state = "suspended"]
    BY <1>2 DEF AfterCheck
  <2>5. /\ sendRun' = [sendRun EXCEPT ![m] = run] /\ run \in RunRow /\ kept \in {"none", "done", "denied"}
        /\ sentResult' = [sentResult EXCEPT ![m] = kept] /\ calls \in 0..1
        /\ execCalls' = [execCalls EXCEPT ![m] = calls]
        /\ UNCHANGED <<intent, runtimeResult, sender, sent, policyVars, memoryRequest, factNow>>
    BY <1>2, <1>f, <2>1, MessageTypes DEF runtimeVars
  <2>6. message'[m] = row /\ sendRun'[m] = run /\ (MessageStands(m)' => DeliveryInv')
    BY <2>2, <2>3, <2>4, <2>5, RunMoves
  <2>7. MessageStands(m)'
    BY <1>t, <1>f, <1>2, <2>1, <2>2, <2>6 DEF MessageStands, Bare, runtimeVars
  <2> QED
    BY <2>6, <2>7
<1>3. CASE sentResult[m] # "none" /\ RunTo(m, "finish", sentResult[m]) /\ UNCHANGED <<message, memoryGrant>>
  <2>1. message[m].state # "approved"
    BY <1>t, <1>3 DEF MessageStands, Bare
  <2>2. PICK holds \in {"done", "denied"} : holds = sentResult[m]
    BY <1>t, <1>3
  <2> QED
    BY <1>1, <1>3, <2>1, <2>2
<1> QED
  BY <1>1, <1>2, <1>3 DEF BeginSend

\* The claim, and the call that follows it.
LEMMA RunClaims == ASSUME DeliveryInv, NEW m \in Message, ClaimSend(m) PROVE DeliveryInv'
<1>t. MessageStands(m) /\ message[m] \in MessageRow /\ sendRun[m] \in RunRow
      /\ sentResult[m] \in {"none", "done", "denied"} /\ execCalls[m] \in 0..1
  BY MessageTypes
<1>f. /\ UNCHANGED <<sentResult, intent, runtimeResult, sender, sent, policyVars, memoryRequest, memoryGrant, factNow>>
      /\ sendRun[m].at = "claim" /\ message[m].state = "approved" /\ Bare(m)
  BY <1>t DEF ClaimSend, memoryVars, MessageStands
<1>1. PICK state, at, calls :
        /\ message' = [message EXCEPT ![m].state = state] /\ execCalls' = [execCalls EXCEPT ![m] = calls]
        /\ RunTo(m, at, "none")
        /\ \/ state = "rejected" /\ at = "idle" /\ calls = 0
           \/ state = "running" /\ at = "calling" /\ calls = 1
  <2>1. CASE sendDenied
    <3>1. execCalls = [execCalls EXCEPT ![m] = execCalls[m]] /\ execCalls[m] = 0
      BY <1>f, MessageTypes DEF Bare
    <3> QED
      BY <2>1, <3>1 DEF ClaimSend
  <2>2. CASE ~sendDenied
    <3>1. execCalls[m] + 1 = 1
      BY <1>f DEF Bare
    <3> QED
      BY <2>2, <3>1 DEF ClaimSend
  <2> QED
    BY <2>1, <2>2
<1>2. PICK row, kept, run :
        /\ row = [message[m] EXCEPT !.state = state] /\ kept = sentResult[m] /\ run = [at |-> at, holds |-> "none"]
  OBVIOUS
<1>3. row \in MessageRow /\ row.state = state /\ run \in RunRow /\ run.at = at /\ run.holds = "none"
  BY <1>t, <1>1, <1>2 DEF MessageRow, RunRow, Answers
<1>4. /\ message' = [message EXCEPT ![m] = row] /\ sendRun' = [sendRun EXCEPT ![m] = run]
      /\ kept \in {"none", "done", "denied"} /\ sentResult' = [sentResult EXCEPT ![m] = kept] /\ calls \in 0..1
  BY <1>f, <1>t, <1>1, <1>2, MessageTypes DEF RunTo
<1>5. /\ sendRun'[m] = run /\ message'[m] = row /\ execCalls'[m] = calls
      /\ MessageStands(m)' => DeliveryInv'
  <2>1. execCalls' = [execCalls EXCEPT ![m] = calls]
    BY <1>1
  <2>2. row \in MessageRow /\ run \in RunRow
    BY <1>3
  <2> QED
    BY <1>f, <1>4, <2>1, <2>2, RunMoves
<1>6. MessageStands(m)'
  BY <1>t, <1>f, <1>1, <1>3, <1>5 DEF MessageStands, Bare
<1> QED
  BY <1>5, <1>6

\* The outcome: back to the queue, into the derived store, or onto the row.
LEMMA RunEnds ==
  ASSUME DeliveryInv, NEW m \in Message, ReturnUnstarted(m) \/ RecordSend(m) \/ FinishSend(m)
  PROVE  DeliveryInv'
<1>t. MessageStands(m) /\ message[m] \in MessageRow /\ sendRun[m] \in RunRow
      /\ sentResult[m] \in {"none", "done", "denied"} /\ execCalls[m] \in 0..1
      /\ runtimeResult[m] \in {"none", "done", "denied", "ambiguous"}
  BY MessageTypes
<1>f. UNCHANGED <<runtimeVars, policyVars, memoryRequest, memoryGrant, factNow>>
  BY DEF ReturnUnstarted, RecordSend, FinishSend, memoryVars
<1>1. PICK row, kept, run :
        /\ message' = [message EXCEPT ![m] = row] /\ sentResult' = [sentResult EXCEPT ![m] = kept]
        /\ sendRun' = [sendRun EXCEPT ![m] = run] /\ row \in MessageRow
        /\ kept \in {"none", "done", "denied"} /\ run \in RunRow
        /\ \/ /\ ReturnUnstarted(m) /\ row.state = "approved" /\ kept = sentResult[m]
              /\ run.at = "idle" /\ run.holds = "none"
           \/ /\ RecordSend(m) /\ row = message[m] /\ run.at = "finish" /\ run.holds = sendRun[m].holds
              /\ kept = IF sendRun[m].holds = "ambiguous" THEN sentResult[m] ELSE sendRun[m].holds
           \/ /\ FinishSend(m) /\ kept = sentResult[m] /\ run.at = "idle" /\ run.holds = "none"
              /\ row.state = IF sendRun[m].holds = "denied" THEN "rejected" ELSE sendRun[m].holds
  <2>1. CASE ReturnUnstarted(m)
    <3>1. PICK row, run : row = [message[m] EXCEPT !.state = "approved"] /\ run = [at |-> "idle", holds |-> "none"]
      OBVIOUS
    <3>2. row \in MessageRow /\ row.state = "approved" /\ run \in RunRow /\ run.at = "idle" /\ run.holds = "none"
      BY <1>t, <3>1 DEF MessageRow, RunRow, Answers
    <3>3. Unstarted(m)
      BY <1>t, <2>1 DEF ReturnUnstarted, Unstarted, MessageStands
    <3>4. message' = [message EXCEPT ![m] = row] /\ sendRun' = [sendRun EXCEPT ![m] = run]
      BY <2>1, <3>1, <3>3, MessageTypes DEF ReturnUnstarted, RunTo
    <3>5. sentResult' = [sentResult EXCEPT ![m] = sentResult[m]]
      BY <2>1, MessageTypes DEF ReturnUnstarted
    <3> QED
      BY <1>t, <2>1, <3>2, <3>4, <3>5
  <2>2. CASE RecordSend(m)
    <3>1. PICK kept, run : /\ kept = IF sendRun[m].holds = "ambiguous" THEN sentResult[m] ELSE sendRun[m].holds
                           /\ run = [at |-> "finish", holds |-> sendRun[m].holds]
      OBVIOUS
    <3>2. /\ sendRun[m].holds \in {"done", "denied", "ambiguous"} /\ UNCHANGED message
          /\ RunTo(m, "finish", sendRun[m].holds)
      BY <2>2 DEF RecordSend
    <3>3. run \in RunRow /\ run.at = "finish" /\ run.holds = sendRun[m].holds /\ kept \in {"none", "done", "denied"}
      BY <1>t, <3>1, <3>2 DEF RunRow, Answers
    <3>4. message' = [message EXCEPT ![m] = message[m]] /\ sendRun' = [sendRun EXCEPT ![m] = run]
      BY <3>1, <3>2, MessageTypes DEF RunTo
    <3>5. sentResult' = [sentResult EXCEPT ![m] = kept]
      BY <2>2, <3>1, MessageTypes DEF RecordSend
    <3> QED
      BY <1>t, <2>2, <3>1, <3>3, <3>4, <3>5
  <2>3. CASE FinishSend(m)
    <3>1. PICK state : state = IF sendRun[m].holds = "denied" THEN "rejected" ELSE sendRun[m].holds
      OBVIOUS
    <3>2. PICK row, run : row = [message[m] EXCEPT !.state = state] /\ run = [at |-> "idle", holds |-> "none"]
      OBVIOUS
    <3>3. sendRun[m].holds \in {"done", "denied", "ambiguous"}
      BY <1>t, <2>3 DEF FinishSend, MessageStands
    <3>4. row \in MessageRow /\ row.state = state /\ run \in RunRow /\ run.at = "idle" /\ run.holds = "none"
      BY <1>t, <3>1, <3>2, <3>3 DEF MessageRow, RunRow, Answers
    <3>5. message' = [message EXCEPT ![m] = row] /\ sendRun' = [sendRun EXCEPT ![m] = run]
      BY <2>3, <3>1, <3>2, MessageTypes DEF FinishSend, RunTo
    <3>6. sentResult' = [sentResult EXCEPT ![m] = sentResult[m]]
      BY <2>3, MessageTypes DEF FinishSend
    <3> QED
      BY <1>t, <2>3, <3>1, <3>4, <3>5, <3>6
  <2> QED
    BY <2>1, <2>2, <2>3
<1>2. PICK calls \in 0..1 : calls = execCalls[m] /\ execCalls' = [execCalls EXCEPT ![m] = calls]
  BY <1>t, <1>f, MessageTypes DEF runtimeVars
<1>3. UNCHANGED <<intent, runtimeResult, sender, sent>>
  BY <1>f DEF runtimeVars
<1>4. /\ sendRun'[m] = run /\ message'[m] = row /\ sentResult'[m] = kept /\ execCalls'[m] = execCalls[m]
      /\ MessageStands(m)' => DeliveryInv'
  BY <1>f, <1>1, <1>2, <1>3, RunMoves, ZenonT(60)
<1>5. MessageStands(m)'
  <2>1. CASE ReturnUnstarted(m) /\ row.state = "approved" /\ kept = sentResult[m] /\ run.at = "idle" /\ run.holds = "none"
    BY <1>t, <1>3, <1>4, <2>1 DEF MessageStands, Bare, ReturnUnstarted
  <2>2. CASE /\ RecordSend(m) /\ row = message[m] /\ run.at = "finish" /\ run.holds = sendRun[m].holds
             /\ kept = IF sendRun[m].holds = "ambiguous" THEN sentResult[m] ELSE sendRun[m].holds
    BY <1>t, <1>3, <1>4, <2>2 DEF MessageStands, Bare, RecordSend
  <2>3. CASE /\ FinishSend(m) /\ kept = sentResult[m] /\ run.at = "idle" /\ run.holds = "none"
             /\ row.state = IF sendRun[m].holds = "denied" THEN "rejected" ELSE sendRun[m].holds
    BY <1>t, <1>3, <1>4, <2>3 DEF MessageStands, Bare, FinishSend
  <2> QED
    BY <1>1, <2>1, <2>2, <2>3
<1> QED
  BY <1>4, <1>5

\* The runtime handles a call of one message, or ends its send.
LEMMA RuntimeMoves ==
  ASSUME DeliveryInv, NEW m \in Message, NEW run \in RunRow, NEW calls \in 0..1, NEW started \in BOOLEAN,
         NEW told \in {"none", "done", "denied", "ambiguous"}, NEW out \in Nat,
         sendRun' = [sendRun EXCEPT ![m] = run], execCalls' = [execCalls EXCEPT ![m] = calls],
         intent' = [intent EXCEPT ![m] = started], runtimeResult' = [runtimeResult EXCEPT ![m] = told],
         sent' = [sent EXCEPT ![m] = out], sent[m] = 1 => out = 1,
         sender \in {m, Nobody}, sender' \in {m, Nobody},
         UNCHANGED <<message, sentResult, policyVars, memoryRequest, factNow>>,
         memoryGrant' = memoryGrant \/ memoryGrant' = [memoryGrant EXCEPT !.state = "suspended"]
  PROVE  /\ sendRun'[m] = run /\ execCalls'[m] = calls /\ intent'[m] = started
         /\ runtimeResult'[m] = told /\ sent'[m] = out
         /\ MessageStands(m)' => DeliveryInv'
<1>t. /\ message \in [Message -> MessageRow] /\ sendRun \in [Message -> RunRow]
      /\ sentResult \in [Message -> {"none", "done", "denied"}] /\ execCalls \in [Message -> 0..1]
      /\ intent \in [Message -> BOOLEAN]
      /\ runtimeResult \in [Message -> {"none", "done", "denied", "ambiguous"}]
      /\ sender \in Message \cup {Nobody} /\ sent \in [Message -> Nat]
      /\ epochNow \in 0..MaxBinding /\ sendDenied \in BOOLEAN /\ factNow \in 0..1
      /\ memoryRequest \in RequestRow /\ memoryGrant \in GrantRow /\ RequestStands
  BY DeliveryTyped DEF DeliveryInv
<1>1. /\ sendRun'[m] = run /\ execCalls'[m] = calls /\ runtimeResult'[m] = told /\ sent'[m] = out
  BY <1>t
<1>b. intent'[m] = started
  BY <1>t, Zenon
<1>2. memoryGrant' \in GrantRow /\ memoryGrant'.mode = memoryGrant.mode
      /\ memoryGrant'.state \in {"suspended", memoryGrant.state}
  BY <1>t DEF GrantRow
<1>3. RequestStands'
  <2>1. memoryRequest.state = "delivered" => sent'[memoryRequest.link] = 1
    <3>1. memoryRequest.state = "delivered" => memoryRequest.link \in Message /\ sent[memoryRequest.link] = 1
      BY <1>t DEF RequestStands, RequestRow
    <3> QED
      BY <1>t, <3>1
  <2> QED
    BY <1>t, <1>2, <2>1 DEF RequestStands
<1>4. /\ sendRun' \in [Message -> RunRow] /\ execCalls' \in [Message -> 0..1] /\ sent' \in [Message -> Nat]
      /\ runtimeResult' \in [Message -> {"none", "done", "denied", "ambiguous"}]
  BY <1>t
<1>5. intent' \in [Message -> BOOLEAN]
  BY <1>t, Zenon
<1>6. DeliveryTypeOK'
  <2>1. sender' \in Message \cup {Nobody}
    OBVIOUS
  <2> QED
    BY <1>t, <1>2, <1>4, <1>5, <2>1 DEF DeliveryTypeOK, MessageRow, RunRow, RequestRow, GrantRow, policyVars
<1>7. ASSUME NEW n \in Message, n # m
      PROVE  /\ message'[n] = message[n] /\ sendRun'[n] = sendRun[n] /\ sentResult'[n] = sentResult[n]
             /\ execCalls'[n] = execCalls[n] /\ intent'[n] = intent[n]
             /\ runtimeResult'[n] = runtimeResult[n] /\ sent'[n] = sent[n] /\ (sender' = n <=> sender = n)
  <2>1. intent'[n] = intent[n]
    BY <1>t, <1>7, Zenon
  <2>2. n # Nobody
    BY DeliveryAssumption
  <2>3. sender' = n <=> sender = n
    BY <1>7, <2>2
  <2> QED
    BY <1>t, <1>7, <2>1, <2>3
<1> QED
  BY <1>1, <1>b, <1>3, <1>6, <1>7, OneMessageMoves

\* The run takes the answer if it still waits for it.
LEMMA AnswerTaken ==
  ASSUME NEW m \in Message, NEW answer \in Answers, sendRun \in [Message -> RunRow], Answer(m, answer)
  PROVE  \E run \in RunRow : /\ sendRun' = [sendRun EXCEPT ![m] = run]
                             /\ IF sendRun[m].at = "calling" THEN run.at = "record" /\ run.holds = answer
                                ELSE run = sendRun[m]
<1>1. CASE sendRun[m].at = "calling"
  <2>1. PICK run : run = [at |-> "record", holds |-> answer]
    OBVIOUS
  <2>2. run \in RunRow /\ run.at = "record" /\ run.holds = answer
    BY <2>1 DEF RunRow
  <2>3. sendRun' = [sendRun EXCEPT ![m] = run]
    BY <1>1, <2>1 DEF Answer
  <2> QED
    BY <1>1, <2>2, <2>3
<1>2. CASE sendRun[m].at # "calling"
  <2>1. sendRun' = [sendRun EXCEPT ![m] = sendRun[m]] /\ sendRun[m] \in RunRow
    BY <1>2 DEF Answer
  <2> QED
    BY <1>2, <2>1
<1> QED
  BY <1>1, <1>2

\* A call is handled: answered, refused, denied, or its send begins.
LEMMA CallHandled == ASSUME DeliveryInv, NEW m \in Message, HandleExecute(m) PROVE DeliveryInv'
<1>t. /\ MessageStands(m) /\ execCalls[m] = 1 /\ sender = Nobody /\ m # Nobody
      /\ runtimeResult[m] = "none" /\ intent[m] = FALSE /\ sent[m] = 0
  <2>1. execCalls[m] = 1
    BY MessageTypes DEF HandleExecute
  <2> QED
    BY <2>1, MessageTypes, DeliveryAssumption DEF HandleExecute, MessageStands
<1>s. /\ sendRun \in [Message -> RunRow] /\ execCalls \in [Message -> 0..1] /\ sent \in [Message -> Nat]
      /\ intent \in [Message -> BOOLEAN]
      /\ runtimeResult \in [Message -> {"none", "done", "denied", "ambiguous"}]
  BY DeliveryTyped DEF DeliveryInv
<1>f. /\ UNCHANGED <<message, sentResult, sent, policyVars, memoryRequest, factNow>>
      /\ execCalls' = [execCalls EXCEPT ![m] = 0] /\ sent' = [sent EXCEPT ![m] = 0]
  <2>1. UNCHANGED <<message, sentResult, sent, policyVars, memoryRequest, factNow>> /\ execCalls' = [execCalls EXCEPT ![m] = @ - 1]
    BY DEF HandleExecute
  <2>2. execCalls[m] - 1 = 0
    BY <1>t
  <2> QED
    BY <1>t, <1>s, <2>1, <2>2
<1>k. intent = [intent EXCEPT ![m] = FALSE] /\ runtimeResult = [runtimeResult EXCEPT ![m] = "none"]
  BY <1>t, <1>s
<1>g. ASSUME memoryGrant' \in {memoryGrant, AfterCheck(m)}
      PROVE  memoryGrant' = memoryGrant \/ memoryGrant' = [memoryGrant EXCEPT !.state = "suspended"]
  BY <1>g DEF AfterCheck
<1>1. CASE Answer(m, "not_started") /\ UNCHANGED <<intent, runtimeResult, sender, memoryGrant>>
  <2>1. PICK run \in RunRow : /\ sendRun' = [sendRun EXCEPT ![m] = run]
                              /\ IF sendRun[m].at = "calling" THEN run.at = "record" /\ run.holds = "not_started"
                                 ELSE run = sendRun[m]
    BY <1>1, <1>s, AnswerTaken DEF Answers
  <2>o. PICK calls, started, told, out : calls = 0 /\ started = FALSE /\ told = "none" /\ out = 0
    OBVIOUS
  <2>b. started \in BOOLEAN
    BY <2>o, Zenon
  <2>p. calls \in 0..1 /\ told \in {"none", "done", "denied", "ambiguous"} /\ out \in Nat
    BY <2>o
  <2>m. /\ sendRun' = [sendRun EXCEPT ![m] = run] /\ execCalls' = [execCalls EXCEPT ![m] = calls]
        /\ intent' = [intent EXCEPT ![m] = started] /\ runtimeResult' = [runtimeResult EXCEPT ![m] = told]
        /\ sent' = [sent EXCEPT ![m] = out] /\ (sent[m] = 1 => out = 1)
        /\ sender \in {m, Nobody} /\ sender' \in {m, Nobody}
        /\ UNCHANGED <<message, sentResult, policyVars, memoryRequest, factNow>>
        /\ memoryGrant' = memoryGrant \/ memoryGrant' = [memoryGrant EXCEPT !.state = "suspended"]
    BY <2>o, <1>t, <1>f, <1>k, <1>g, <1>1, <2>1, <2>p
  <2>2. /\ sendRun'[m] = run /\ execCalls'[m] = 0 /\ intent'[m] = FALSE /\ runtimeResult'[m] = "none"
        /\ sent'[m] = 0
        /\ MessageStands(m)' => DeliveryInv'
    BY <2>o, <2>b, <2>p, <2>m, RuntimeMoves
  <2>3. MessageStands(m)'
    BY <1>t, <1>f, <1>1, <2>1, <2>2 DEF MessageStands, Bare
  <2> QED
    BY <2>2, <2>3
<1>2. CASE /\ runtimeResult' = [runtimeResult EXCEPT ![m] = "denied"] /\ memoryGrant' \in {memoryGrant, AfterCheck(m)}
           /\ Answer(m, "denied") /\ UNCHANGED <<intent, sender>>
  <2>1. PICK run \in RunRow : /\ sendRun' = [sendRun EXCEPT ![m] = run]
                              /\ IF sendRun[m].at = "calling" THEN run.at = "record" /\ run.holds = "denied"
                                 ELSE run = sendRun[m]
    BY <1>2, <1>s, AnswerTaken DEF Answers
  <2>o. PICK calls, started, told, out : calls = 0 /\ started = FALSE /\ told = "denied" /\ out = 0
    OBVIOUS
  <2>b. started \in BOOLEAN
    BY <2>o, Zenon
  <2>p. calls \in 0..1 /\ told \in {"none", "done", "denied", "ambiguous"} /\ out \in Nat
    BY <2>o
  <2>m. /\ sendRun' = [sendRun EXCEPT ![m] = run] /\ execCalls' = [execCalls EXCEPT ![m] = calls]
        /\ intent' = [intent EXCEPT ![m] = started] /\ runtimeResult' = [runtimeResult EXCEPT ![m] = told]
        /\ sent' = [sent EXCEPT ![m] = out] /\ (sent[m] = 1 => out = 1)
        /\ sender \in {m, Nobody} /\ sender' \in {m, Nobody}
        /\ UNCHANGED <<message, sentResult, policyVars, memoryRequest, factNow>>
        /\ memoryGrant' = memoryGrant \/ memoryGrant' = [memoryGrant EXCEPT !.state = "suspended"]
    BY <2>o, <1>t, <1>f, <1>k, <1>g, <1>2, <2>1, <2>p
  <2>2. /\ sendRun'[m] = run /\ execCalls'[m] = 0 /\ intent'[m] = FALSE /\ runtimeResult'[m] = "denied"
        /\ sent'[m] = 0
        /\ MessageStands(m)' => DeliveryInv'
    BY <2>o, <2>b, <2>p, <2>m, RuntimeMoves
  <2>3. MessageStands(m)'
    BY <1>t, <1>f, <1>2, <2>1, <2>2 DEF MessageStands, Bare
  <2> QED
    BY <2>2, <2>3
<1>3. CASE /\ Authorized(m) /\ intent' = [intent EXCEPT ![m] = TRUE] /\ sender' = m
           /\ UNCHANGED <<runtimeResult, sendRun, memoryGrant>>
  <2>1. PICK run \in RunRow : run = sendRun[m] /\ sendRun' = [sendRun EXCEPT ![m] = run]
    BY <1>3, <1>s
  <2>o. PICK calls, started, told, out : calls = 0 /\ started = TRUE /\ told = "none" /\ out = 0
    OBVIOUS
  <2>b. started \in BOOLEAN
    BY <2>o, Zenon
  <2>p. calls \in 0..1 /\ told \in {"none", "done", "denied", "ambiguous"} /\ out \in Nat
    BY <2>o
  <2>m. /\ sendRun' = [sendRun EXCEPT ![m] = run] /\ execCalls' = [execCalls EXCEPT ![m] = calls]
        /\ intent' = [intent EXCEPT ![m] = started] /\ runtimeResult' = [runtimeResult EXCEPT ![m] = told]
        /\ sent' = [sent EXCEPT ![m] = out] /\ (sent[m] = 1 => out = 1)
        /\ sender \in {m, Nobody} /\ sender' \in {m, Nobody}
        /\ UNCHANGED <<message, sentResult, policyVars, memoryRequest, factNow>>
        /\ memoryGrant' = memoryGrant \/ memoryGrant' = [memoryGrant EXCEPT !.state = "suspended"]
    BY <2>o, <1>t, <1>f, <1>k, <1>g, <1>3, <2>1, <2>p
  <2>2. /\ sendRun'[m] = run /\ execCalls'[m] = 0 /\ intent'[m] = TRUE /\ runtimeResult'[m] = "none"
        /\ sent'[m] = 0
        /\ MessageStands(m)' => DeliveryInv'
    BY <2>o, <2>b, <2>p, <2>m, RuntimeMoves
  <2>3. message[m].state = "running"
    BY <1>3 DEF Authorized
  <2>4. MessageStands(m)'
    <3>1. sendRun[m].holds # "not_started"
      BY <1>t DEF MessageStands, Bare
    <3> QED
      BY <1>t, <1>f, <1>3, <2>1, <2>2, <2>3, <3>1 DEF MessageStands, Bare
  <2> QED
    BY <2>2, <2>4
<1> QED
  BY <1>t, <1>1, <1>2, <1>3 DEF HandleExecute

\* A send ends: what went out is kept as `done', or as not known.
LEMMA MessageTransmitted == ASSUME DeliveryInv, TransmitMessage PROVE DeliveryInv'
<1>1. PICK m \in Message : sender = m
  BY DeliveryTyped DEF TransmitMessage, DeliveryInv
<1>2. PICK told \in {"done", "ambiguous"}, went \in {0, 1} :
        /\ told = "done" => went = 1
        /\ sent' = [sent EXCEPT ![m] = @ + went] /\ runtimeResult' = [runtimeResult EXCEPT ![m] = told]
        /\ memoryGrant' \in {memoryGrant, IF went = 0 THEN AfterCheck(m) ELSE memoryGrant}
        /\ Answer(m, told)
  BY <1>1 DEF TransmitMessage
<1>f. /\ sender' = Nobody /\ m # Nobody
      /\ UNCHANGED <<message, sentResult, execCalls, intent, policyVars, memoryRequest, factNow>>
  BY DeliveryAssumption DEF TransmitMessage
<1>t. /\ MessageStands(m) /\ execCalls[m] = 0
      /\ runtimeResult[m] = "none" /\ intent[m] = TRUE /\ sent[m] = 0
  <2>1. MessageStands(m) /\ execCalls[m] \in 0..1
    BY MessageTypes
  <2> QED
    BY <1>1, <2>1 DEF MessageStands
<1>s. /\ sendRun \in [Message -> RunRow] /\ execCalls \in [Message -> 0..1] /\ sent \in [Message -> Nat]
      /\ intent \in [Message -> BOOLEAN]
  BY DeliveryTyped DEF DeliveryInv
<1>3. PICK run \in RunRow : /\ sendRun' = [sendRun EXCEPT ![m] = run]
                            /\ IF sendRun[m].at = "calling" THEN run.at = "record" /\ run.holds = told
                               ELSE run = sendRun[m]
  BY <1>2, <1>s, AnswerTaken DEF Answers
<1>4. PICK calls, started, out : calls = 0 /\ started = TRUE /\ out = went
  OBVIOUS
<1>5. started \in BOOLEAN
  BY <1>4, Zenon
<1>6. calls \in 0..1 /\ told \in {"none", "done", "denied", "ambiguous"} /\ out \in Nat
  BY <1>4
<1>7. /\ execCalls' = [execCalls EXCEPT ![m] = calls] /\ intent' = [intent EXCEPT ![m] = started]
      /\ sent' = [sent EXCEPT ![m] = out] /\ (sent[m] = 1 => out = 1)
      /\ memoryGrant' = memoryGrant \/ memoryGrant' = [memoryGrant EXCEPT !.state = "suspended"]
  <2>1. execCalls = [execCalls EXCEPT ![m] = 0] /\ intent = [intent EXCEPT ![m] = TRUE]
    BY <1>t, <1>s
  <2>2. sent[m] + went = went
    BY <1>t
  <2> QED
    BY <1>2, <1>f, <1>t, <1>4, <2>1, <2>2 DEF AfterCheck
<1>8. /\ sendRun'[m] = run /\ execCalls'[m] = calls /\ intent'[m] = started /\ runtimeResult'[m] = told
      /\ sent'[m] = out
      /\ MessageStands(m)' => DeliveryInv'
  <2>1. sender \in {m, Nobody} /\ sender' \in {m, Nobody}
    BY <1>1, <1>f
  <2>2. runtimeResult' = [runtimeResult EXCEPT ![m] = told]
    BY <1>2
  <2> QED
    <3>1. UNCHANGED <<message, sentResult, policyVars, memoryRequest, factNow>>
      BY <1>f
    <3>2. execCalls' = [execCalls EXCEPT ![m] = calls] /\ calls \in 0..1
      BY <1>6, <1>7
    <3>3. intent' = [intent EXCEPT ![m] = started] /\ started \in BOOLEAN
      BY <1>5, <1>7
    <3>4. sent' = [sent EXCEPT ![m] = out] /\ out \in Nat /\ (sent[m] = 1 => out = 1)
      BY <1>6, <1>7
    <3>5. told \in {"none", "done", "denied", "ambiguous"}
      BY <1>6
    <3>6. memoryGrant' = memoryGrant \/ memoryGrant' = [memoryGrant EXCEPT !.state = "suspended"]
      BY <1>7
    <3>7. run \in RunRow /\ sendRun' = [sendRun EXCEPT ![m] = run]
      BY <1>3
    <3> QED
      BY <2>1, <2>2, <3>1, <3>2, <3>3, <3>4, <3>5, <3>6, <3>7, RuntimeMoves, ZenonT(60)
<1>9. MessageStands(m)'
  <2>1. message[m].state \in {"running", "ambiguous"} \/ message[m].state \notin
          {"none", "proposed", "approved", "rejected", "cancelled", "done"}
    BY <1>1, <1>t DEF MessageStands, Bare
  <2>2. sendRun[m].holds # "not_started"
    BY <1>1, <1>t DEF MessageStands, Bare
  <2> QED
    BY <1>2, <1>f, <1>t, <1>3, <1>4, <1>8, <2>1, <2>2 DEF MessageStands, Bare
<1> QED
  BY <1>8, <1>9

\* The runtime restarts: calls are gone, and the send it was in may have gone out.
LEMMA RuntimeRestarts == ASSUME DeliveryInv, RestartSender PROVE DeliveryInv'
<1>t. /\ execCalls \in [Message -> 0..1] /\ sent \in [Message -> Nat] /\ RequestStands
      /\ memoryRequest \in RequestRow /\ sender \in Message \cup {Nobody}
  BY DeliveryTyped DEF DeliveryInv
<1>f. /\ UNCHANGED <<message, sendRun, sentResult, intent, runtimeResult, epochNow, sendDenied,
                     memoryRequest, memoryGrant, factNow>>
      /\ execCalls' = [m \in Message |-> 0] /\ sender' = Nobody
  BY DEF RestartSender, policyVars, memoryVars
<1>1. /\ sent' \in [Message -> Nat]
      /\ \A n \in Message : \/ sent'[n] = sent[n]
                            \/ sender = n /\ sent[n] = 0 /\ sent'[n] = 1
  <2>1. CASE UNCHANGED sent
    BY <1>t, <2>1
  <2>2. CASE sender # Nobody /\ sent' = [sent EXCEPT ![sender] = @ + 1]
    <3>1. PICK m \in Message : sender = m
      BY <1>t, <2>2
    <3>2. sent[m] = 0
      BY <3>1 DEF DeliveryInv, MessageStands
    <3> QED
      BY <1>t, <2>2, <3>1, <3>2
  <2> QED
    BY <2>1, <2>2 DEF RestartSender
<1>2. ASSUME NEW n \in Message PROVE MessageStands(n)'
  <2>1. MessageStands(n)
    BY DEF DeliveryInv
  <2>2. execCalls'[n] = 0 /\ sender' # n
    BY <1>f, DeliveryAssumption
  <2>3. CASE sent'[n] = sent[n]
    BY <1>f, <2>1, <2>2, <2>3 DEF MessageStands, Bare
  <2>4. CASE sender = n /\ sent[n] = 0 /\ sent'[n] = 1
    BY <1>f, <2>1, <2>2, <2>4 DEF MessageStands, Bare
  <2> QED
    BY <1>1, <2>3, <2>4
<1>3. RequestStands'
  <2>1. memoryRequest.state = "delivered" => memoryRequest.link \in Message /\ sent[memoryRequest.link] = 1
    BY <1>t DEF RequestStands, RequestRow
  <2> QED
    BY <1>t, <1>f, <1>1, <2>1 DEF RequestStands
<1>4. DeliveryTypeOK'
  <2>1. execCalls' \in [Message -> 0..1] /\ sender' \in Message \cup {Nobody}
    BY <1>f
  <2> QED
    BY <1>1, <1>f, <2>1, DeliveryTyped DEF DeliveryInv, DeliveryTypeOK
<1> QED
  BY <1>2, <1>3, <1>4 DEF DeliveryInv

LEMMA DeliveryStep == DeliveryInv /\ [DeliveryNext]_DeliveryVars => DeliveryInv'
<1> SUFFICES ASSUME DeliveryInv, [DeliveryNext]_DeliveryVars PROVE DeliveryInv'
  OBVIOUS
<1>1. CASE UNCHANGED DeliveryVars
  <2>1. UNCHANGED <<message, sendRun, sentResult, runtimeVars, epochNow, sendDenied, memoryRequest, memoryGrant, factNow>>
    BY <1>1 DEF DeliveryVars, runtimeVars
  <2>2. RequestStands'
    BY <2>1, OwnerTypes DEF RequestStands, runtimeVars
  <2> QED
    BY <2>1, <2>2, OwnerTypes, OwnerChange
<1>2. CASE DeliveryNext
  <2>1. ASSUME NEW m \in Message,
               \/ ProposeMessage(m) \/ DecideMessage(m) \/ BeginSend(m) \/ ClaimSend(m)
               \/ GiveUpCall(m) \/ ObserveSend(m) \/ ReturnUnstarted(m) \/ RecordSend(m)
               \/ FinishSend(m) \/ LoseSendRun(m) \/ HandleExecute(m)
        PROVE  DeliveryInv'
    BY <2>1, DecisionStep, RunBegins, RunClaims, RunGoesOn, RunEnds, CallHandled
  <2> QED
    BY <1>2, <2>1, MemoryStep, ReconcileStep, PolicyStep, MessageTransmitted, RuntimeRestarts DEF DeliveryNext
<1> QED
  BY <1>1, <1>2

LEMMA DeliveryInvariant == DeliverySpec => []DeliveryInv
BY DeliveryStarts, DeliveryStep, PTL DEF DeliverySpec

LEMMA DeliveryKeeps == DeliveryInv => DeliveryAgrees
<1> SUFFICES ASSUME DeliveryInv PROVE DeliveryAgrees
  OBVIOUS
<1>1. ASSUME NEW m \in Message
      PROVE  /\ sent[m] <= 1
             /\ message[m].state \in {"proposed", "approved", "rejected", "cancelled"} => sent[m] = 0
             /\ message[m].state = "done" => sent[m] = 1
  BY DEF DeliveryInv, MessageStands, Bare
<1>2. memoryGrant.state = "consumed" \/ memoryRequest.state = "delivered" => sent[memoryRequest.link] = 1
  BY DEF DeliveryInv, RequestStands
<1> QED
  BY <1>1, <1>2 DEF DeliveryAgrees, DeliveryIsHonest, DeliveryInv

\* An approved message goes out at most once and its row, its grant and its request say what
\* happened to it, whatever crashes, is lost or is changed by the owner meanwhile.
THEOREM DeliveryAlwaysAgrees == DeliverySpec => []DeliveryAgrees
BY DeliveryInvariant, DeliveryKeeps, PTL

----------------------------------------------------------------------------
(* Texts prepared for an audience.                                         *)
(*                                                                         *)
(* A detection, once saved, is what every copy and every prepared answer   *)
(* of its key says; and only the first of a queue is past it.              *)

PreparePlaces == {"none", "queued", "detecting", "publishing", "reading", "answering"}
CallRow == [at : PreparePlaces, text : RawText \cup {NoCall.text}, under : Moment,
            finding : Said \cup {NoFinding}, prepared : BOOLEAN]

PreparedTypes ==
  /\ moment \in Moment /\ detected \in [Key -> Said \cup {NoFinding}]
  /\ published \in [Key -> Said \cup {NoFinding}] /\ cached \subseteq Key
  /\ queue \in [Process \X Moment -> Seq(Asker)] /\ call \in [Asker -> CallRow]

\* The calls of one queue, each once; those behind the first one wait.
QueueStands(p, e) ==
  \A i \in 1..Len(queue[<<p, e>>]) :
    LET a == queue[<<p, e>>][i] IN
      /\ call[a].at # "none" /\ ProcessOf[a] = p /\ call[a].under = e
      /\ i > 1 => call[a].at = "queued"
      /\ \A j \in 1..Len(queue[<<p, e>>]) : queue[<<p, e>>][j] = a => j = i
\* A call is in its queue.
InQueue(a) ==
  call[a].at # "none" =>
    \E i \in 1..Len(QueueOf(a)) : QueueOf(a)[i] = a
QueuesStand ==
  (\A p \in Process, e \in Moment : QueueStands(p, e)) /\ \A a \in Asker : InQueue(a)

\* A call has published and may read, or is answered with, what the saved detection says.
CallStands(a) ==
  /\ call[a].at # "none" => call[a].text \in RawText
  /\ call[a].at \in {"publishing", "reading"} => detected[KeyOfCall(a)] # NoFinding
  /\ call[a].at = "publishing" => call[a].finding = detected[KeyOfCall(a)]
  /\ call[a].at = "reading" => published[KeyOfCall(a)] # NoFinding
  /\ call[a].at = "answering" /\ call[a].prepared =>
       detected[KeyOfCall(a)] # NoFinding /\ call[a].finding = detected[KeyOfCall(a)]
CopiesStand ==
  /\ CopyIsDetected /\ \A k \in cached : published[k] # NoFinding
  /\ \A x \in said : x.prepared => x.key \in Key /\ x.answer = detected[x.key] /\ x.answer # NoFinding

PreparedInv == PreparedTypes /\ QueuesStand /\ CopiesStand /\ \A a \in Asker : CallStands(a)

LEMMA NoCallIs ==
  NoCall \in CallRow /\ NoCall.at = "none" /\ NoCall.under = 0 /\ NoCall.prepared = TRUE
<1>1. 0 \in Moment
  BY PreparedAssumption DEF Moment
<1>2. PICK text : text = CHOOSE t \in RawText : TRUE
  OBVIOUS
<1>3. NoCall = [at |-> "none", text |-> text, under |-> 0, finding |-> NoFinding, prepared |-> TRUE]
  BY <1>2 DEF NoCall
<1>4. NoCall.text = text
  BY <1>3
<1>5. NoCall \in [at : PreparePlaces, text : RawText \cup {text}, under : Moment,
                  finding : Said \cup {NoFinding}, prepared : BOOLEAN]
  BY <1>1, <1>3 DEF PreparePlaces
<1> QED
  BY <1>3, <1>4, <1>5 DEF CallRow

LEMMA QueueTypes ==
  ASSUME PreparedTypes, NEW a \in Asker
  PROVE  /\ ProcessOf[a] \in Process /\ call[a].under \in Moment /\ call[a] \in CallRow
         /\ \A p \in Process, e \in Moment : queue[<<p, e>>] \in Seq(Asker)
         /\ call[a].at # "none" /\ CallStands(a) => KeyOfCall(a) \in Key
BY PreparedAssumption DEF PreparedTypes, CallRow, CallStands, KeyOfCall, Key

\* A call that is past the queue, or is let in, is the first of it.
LEMMA FirstOfQueue ==
  ASSUME PreparedTypes, QueuesStand, NEW a \in Asker, call[a].at # "none",
         call[a].at = "queued" => Head(QueueOf(a)) = a
  PROVE  Len(QueueOf(a)) > 0 /\ QueueOf(a)[1] = a
<1>t. ProcessOf[a] \in Process /\ call[a].under \in Moment
  BY QueueTypes
<1>1. PICK p \in Process, e \in Moment : p = ProcessOf[a] /\ e = call[a].under
  BY <1>t
<1>2. PICK q \in Seq(Asker) : q = queue[<<p, e>>]
  BY QueueTypes
<1>3. PICK i \in 1..Len(q) : q[i] = a
  BY <1>1, <1>2 DEF QueuesStand, InQueue, QueueOf
<1>4. q = QueueOf(a)
  BY <1>1, <1>2 DEF QueueOf
<1>5. Len(q) \in Nat /\ Len(q) > 0
  BY <1>2, <1>3
<1>6. q[1] = a
  <2>1. CASE call[a].at # "queued"
    <3>1. QueueStands(p, e)
      BY DEF QueuesStand
    <3>2. ~(i > 1)
      BY <1>2, <1>3, <2>1, <3>1 DEF QueueStands
    <3>3. i = 1
      BY <1>3, <1>5, <3>2
    <3> QED
      BY <1>3, <3>3
  <2>2. CASE call[a].at = "queued"
    BY <1>4, <1>5, <2>2
  <2> QED
    BY <2>1, <2>2
<1> QED
  BY <1>4, <1>5, <1>6

\* The first of a queue moves on.
LEMMA QueueKept ==
  ASSUME PreparedTypes, QueuesStand, NEW a \in Asker, NEW row \in CallRow, call[a].at # "none",
         call[a].at = "queued" => Head(QueueOf(a)) = a,
         row.at # "none", row.under = call[a].under,
         call' = [call EXCEPT ![a] = row], queue' = queue
  PROVE  QueuesStand'
<1>1. Len(QueueOf(a)) > 0 /\ QueueOf(a)[1] = a
  BY FirstOfQueue
<1>2. call'[a] = row /\ \A b \in Asker : b # a => call'[b] = call[b]
  BY DEF PreparedTypes
<1>3. ASSUME NEW p \in Process, NEW e \in Moment PROVE QueueStands(p, e)'
  <2>1. PICK q \in Seq(Asker) : q = queue[<<p, e>>]
    BY QueueTypes
  <2>2. SUFFICES ASSUME NEW i \in 1..Len(q)
                 PROVE  /\ call'[q[i]].at # "none" /\ ProcessOf[q[i]] = p /\ call'[q[i]].under = e
                        /\ i > 1 => call'[q[i]].at = "queued"
                        /\ \A j \in 1..Len(q) : q[j] = q[i] => j = i
    BY <2>1 DEF QueueStands
  <2>3. /\ call[q[i]].at # "none" /\ ProcessOf[q[i]] = p /\ call[q[i]].under = e
        /\ i > 1 => call[q[i]].at = "queued"
        /\ \A j \in 1..Len(q) : q[j] = q[i] => j = i
    BY <2>1, <2>2 DEF QueuesStand, QueueStands
  <2>4. CASE q[i] # a
    BY <1>2, <2>2, <2>3, <2>4
  <2>5. CASE q[i] = a
    <3>1. q = QueueOf(a)
      BY <2>1, <2>3, <2>5 DEF QueueOf
    <3>2. 1 \in 1..Len(q) /\ q[1] = a
      BY <1>1, <2>2, <3>1
    <3>3. i = 1
      BY <2>3, <2>5, <3>2
    <3> QED
      BY <1>2, <2>3, <2>5, <3>3
  <2> QED
    BY <2>4, <2>5
<1>4. ASSUME NEW b \in Asker PROVE InQueue(b)'
  <2>1. call'[b].under = call[b].under /\ (call'[b].at # "none" <=> call[b].at # "none")
    BY <1>2
  <2> QED
    BY <2>1 DEF QueuesStand, InQueue, QueueOf
<1> QED
  BY <1>3, <1>4 DEF QueuesStand

\* ... or leaves it.
LEMMA QueueLeft ==
  ASSUME PreparedTypes, QueuesStand, NEW a \in Asker, call[a].at # "none",
         call[a].at = "queued" => Head(QueueOf(a)) = a, LeaveQueue(a)
  PROVE  QueuesStand' /\ queue' \in [Process \X Moment -> Seq(Asker)] /\ call' \in [Asker -> CallRow]
<1>t. ProcessOf[a] \in Process /\ call[a].under \in Moment
  BY QueueTypes
<1>1. PICK o \in Process, m \in Moment : o = ProcessOf[a] /\ m = call[a].under
  BY <1>t
<1>2. PICK s \in Seq(Asker) : s = queue[<<o, m>>]
  BY QueueTypes
<1>3. Len(s) > 0 /\ s[1] = a /\ s = QueueOf(a)
  BY <1>1, <1>2, FirstOfQueue DEF QueueOf
<1>4. PICK r : r = Tail(s)
  OBVIOUS
<1>5. r \in Seq(Asker) /\ Len(r) = Len(s) - 1 /\ \A i \in 1..Len(r) : r[i] = s[i + 1]
  <2>1. s # <<>>
    BY <1>3
  <2> QED
    BY <1>4, <2>1, HeadTailProperties
<1>6. /\ queue' = [queue EXCEPT ![<<o, m>>] = r] /\ call' = [call EXCEPT ![a] = NoCall]
      /\ <<o, m>> \in Process \X Moment
  BY <1>1, <1>2, <1>4 DEF LeaveQueue
<1>7. /\ call'[a].at = "none" /\ \A b \in Asker : b # a => call'[b] = call[b]
      /\ queue'[<<o, m>>] = r
      /\ \A p \in Process, e \in Moment : <<p, e>> # <<o, m>> => queue'[<<p, e>>] = queue[<<p, e>>]
      /\ queue' \in [Process \X Moment -> Seq(Asker)] /\ call' \in [Asker -> CallRow]
  BY <1>5, <1>6, NoCallIs DEF PreparedTypes
<1>8. \A i \in 1..Len(s) : /\ call[s[i]].at # "none" /\ ProcessOf[s[i]] = o /\ call[s[i]].under = m
                           /\ i > 1 => call[s[i]].at = "queued"
                           /\ \A j \in 1..Len(s) : s[j] = s[i] => j = i
  BY <1>2 DEF QueuesStand, QueueStands
<1>9. ASSUME NEW p \in Process, NEW e \in Moment PROVE QueueStands(p, e)'
  <2>1. CASE <<p, e>> = <<o, m>>
    <3>1. p = o /\ e = m
      BY <2>1
    <3>2. ASSUME NEW i \in 1..Len(r)
          PROVE  /\ call'[r[i]].at # "none" /\ ProcessOf[r[i]] = o /\ call'[r[i]].under = m
                 /\ i > 1 => call'[r[i]].at = "queued"
                 /\ \A j \in 1..Len(r) : r[j] = r[i] => j = i
      <4>1. i + 1 \in 1..Len(s) /\ r[i] = s[i + 1] /\ i + 1 > 1 /\ i + 1 # 1 /\ 1 \in 1..Len(s)
        <5>1. r[i] = s[i + 1]
          BY <1>5, <3>2
        <5>2. Len(s) \in Nat /\ Len(r) = Len(s) - 1 /\ i \in 1..Len(r)
          BY <1>2, <1>5, <3>2
        <5>3. i + 1 \in 1..Len(s) /\ i + 1 > 1 /\ i + 1 # 1 /\ 1 \in 1..Len(s)
          BY <5>2
        <5> QED
          BY <5>1, <5>3
      <4>2. s[i + 1] # a /\ s[i + 1] \in Asker
        BY <1>2, <1>3, <1>8, <4>1
      <4>3. call'[r[i]] = call[s[i + 1]]
        BY <1>7, <4>1, <4>2
      <4>4. ASSUME NEW j \in 1..Len(r), r[j] = r[i] PROVE j = i
        <5>1. j + 1 \in 1..Len(s) /\ r[j] = s[j + 1]
          BY <1>2, <1>5, <4>4
        <5>2. j + 1 = i + 1
          BY <1>8, <4>1, <4>4, <5>1
        <5> QED
          BY <5>2
      <4> QED
        BY <1>8, <4>1, <4>3, <4>4
    <3>3. queue'[<<p, e>>] = r
      BY <1>7, <3>1
    <3> QED
      BY <3>1, <3>2, <3>3 DEF QueueStands
  <2>2. CASE <<p, e>> # <<o, m>>
    <3>1. PICK q \in Seq(Asker) : q = queue[<<p, e>>]
      BY QueueTypes
    <3>2. ASSUME NEW i \in 1..Len(q)
          PROVE  /\ call'[q[i]].at # "none" /\ ProcessOf[q[i]] = p /\ call'[q[i]].under = e
                 /\ i > 1 => call'[q[i]].at = "queued"
                 /\ \A j \in 1..Len(q) : q[j] = q[i] => j = i
      <4>1. /\ call[q[i]].at # "none" /\ ProcessOf[q[i]] = p /\ call[q[i]].under = e
            /\ i > 1 => call[q[i]].at = "queued"
            /\ \A j \in 1..Len(q) : q[j] = q[i] => j = i
        BY <3>1, <3>2 DEF QueuesStand, QueueStands
      <4>2. q[i] # a
        BY <1>1, <2>2, <4>1
      <4>3. q[i] \in Asker
        BY <3>2
      <4> QED
        BY <1>7, <4>1, <4>2, <4>3
    <3>3. queue'[<<p, e>>] = q
      BY <1>7, <2>2, <3>1
    <3> QED
      BY <3>2, <3>3 DEF QueueStands
  <2> QED
    BY <2>1, <2>2
<1>10. ASSUME NEW b \in Asker, call'[b].at # "none"
       PROVE  \E i \in 1..Len(queue'[<<ProcessOf[b], call'[b].under>>]) :
                queue'[<<ProcessOf[b], call'[b].under>>][i] = b
  <2>1. b # a /\ call'[b] = call[b]
    BY <1>7, <1>10
  <2>2. PICK p \in Process, e \in Moment : p = ProcessOf[b] /\ e = call[b].under
    BY QueueTypes
  <2>3. PICK q \in Seq(Asker) : q = queue[<<p, e>>]
    BY QueueTypes
  <2>4. PICK i \in 1..Len(q) : q[i] = b
    BY <1>10, <2>1, <2>2, <2>3 DEF QueuesStand, InQueue, QueueOf
  <2>5. CASE <<p, e>> = <<o, m>>
    <3>1. q = s /\ queue'[<<p, e>>] = r
      BY <1>2, <1>7, <2>3, <2>5
    <3>2. i # 1
      BY <1>3, <2>1, <2>4, <3>1
    <3>3. i - 1 \in 1..Len(r)
      BY <1>5, <2>3, <2>4, <3>1, <3>2
    <3>4. r[i - 1] = s[(i - 1) + 1]
      BY <1>5, <3>3
    <3>5. (i - 1) + 1 = i
      OBVIOUS
    <3> QED
      BY <2>1, <2>2, <2>4, <3>1, <3>3, <3>4, <3>5
  <2>6. CASE <<p, e>> # <<o, m>>
    BY <1>7, <2>1, <2>2, <2>3, <2>4, <2>6
  <2> QED
    BY <2>5, <2>6
<1> QED
  BY <1>7, <1>9, <1>10 DEF QueuesStand, InQueue, QueueOf

\* A new call waits behind the others.
Joins(a) == queue' = [queue EXCEPT ![<<ProcessOf[a], moment>>] = Append(@, a)]
LEMMA QueueJoined ==
  ASSUME PreparedTypes, QueuesStand, NEW a \in Asker, NEW row \in CallRow, call[a].at = "none",
         row.at = "queued", row.under = moment, call' = [call EXCEPT ![a] = row],
         Joins(a)
  PROVE  QueuesStand' /\ queue' \in [Process \X Moment -> Seq(Asker)]
<1>t. ProcessOf[a] \in Process /\ moment \in Moment
  BY QueueTypes DEF PreparedTypes
<1>1. PICK o \in Process, m \in Moment : o = ProcessOf[a] /\ m = moment
  BY <1>t
<1>2. PICK s \in Seq(Asker) : s = queue[<<o, m>>]
  BY QueueTypes
<1>3. PICK r : r = Append(s, a)
  OBVIOUS
<1>4. r \in Seq(Asker) /\ Len(r) = Len(s) + 1 /\ r[Len(s) + 1] = a /\ \A i \in 1..Len(s) : r[i] = s[i]
  BY <1>3, AppendProperties
<1>5. queue' = [queue EXCEPT ![<<o, m>>] = r] /\ <<o, m>> \in Process \X Moment
  BY <1>1, <1>2, <1>3 DEF Joins
<1>6. /\ call'[a] = row /\ \A b \in Asker : b # a => call'[b] = call[b]
      /\ queue'[<<o, m>>] = r
      /\ \A p \in Process, e \in Moment : <<p, e>> # <<o, m>> => queue'[<<p, e>>] = queue[<<p, e>>]
      /\ queue' \in [Process \X Moment -> Seq(Asker)]
  <2>1. queue \in [Process \X Moment -> Seq(Asker)] /\ call \in [Asker -> CallRow]
    BY DEF PreparedTypes
  <2>2. call'[a] = row /\ \A b \in Asker : b # a => call'[b] = call[b]
    BY <2>1
  <2>3. /\ queue'[<<o, m>>] = r
        /\ \A p \in Process, e \in Moment : <<p, e>> # <<o, m>> => queue'[<<p, e>>] = queue[<<p, e>>]
        /\ queue' \in [Process \X Moment -> Seq(Asker)]
    BY <1>4, <1>5, <2>1
  <2> QED
    BY <2>2, <2>3
<1> DEFINE StandsIn(p, e, q) ==
      \A i \in 1..Len(q) :
        /\ q[i] # a /\ call'[q[i]].at # "none" /\ ProcessOf[q[i]] = p /\ call'[q[i]].under = e
        /\ i > 1 => call'[q[i]].at = "queued"
        /\ \A j \in 1..Len(q) : q[j] = q[i] => j = i
<1>7. ASSUME NEW p \in Process, NEW e \in Moment, NEW q \in Seq(Asker), q = queue[<<p, e>>]
      PROVE  StandsIn(p, e, q)
  <2> SUFFICES ASSUME NEW i \in 1..Len(q)
               PROVE  /\ q[i] # a /\ call'[q[i]].at # "none" /\ ProcessOf[q[i]] = p /\ call'[q[i]].under = e
                      /\ i > 1 => call'[q[i]].at = "queued"
                      /\ \A j \in 1..Len(q) : q[j] = q[i] => j = i
    OBVIOUS
  <2>1. /\ call[q[i]].at # "none" /\ ProcessOf[q[i]] = p /\ call[q[i]].under = e
        /\ i > 1 => call[q[i]].at = "queued"
        /\ \A j \in 1..Len(q) : q[j] = q[i] => j = i
    BY <1>7, SMTT(30) DEF QueuesStand, QueueStands
  <2>2. q[i] \in Asker /\ q[i] # a
    BY <2>1
  <2> QED
    BY <1>6, <2>1, <2>2
<1> HIDE DEF StandsIn
<1>s. StandsIn(o, m, s)
  BY <1>2, <1>7
<1>8. ASSUME NEW p \in Process, NEW e \in Moment PROVE QueueStands(p, e)'
  <2>1. CASE <<p, e>> = <<o, m>>
    <3>1. p = o /\ e = m /\ queue'[<<p, e>>] = r /\ Len(s) \in Nat
      BY <1>2, <1>6, <2>1
    <3>2. ASSUME NEW i \in 1..Len(r)
          PROVE  /\ call'[r[i]].at # "none" /\ ProcessOf[r[i]] = o /\ call'[r[i]].under = m
                 /\ i > 1 => call'[r[i]].at = "queued"
                 /\ \A j \in 1..Len(r) : r[j] = r[i] => j = i
      <4>1. \A j \in 1..Len(r) : j \in 1..Len(s) \/ j = Len(s) + 1
        BY <1>4, <3>1
      <4>2. \A j \in 1..Len(s) : r[j] = s[j] /\ s[j] # a
        BY <1>4, <1>s DEF StandsIn
      <4>3. CASE i = Len(s) + 1
        <5>1. r[i] = a
          BY <1>4, <4>3
        <5>2. \A j \in 1..Len(r) : r[j] = a => j = i
          BY <4>1, <4>2, <4>3
        <5> QED
          BY <1>1, <1>6, <5>1, <5>2
      <4>4. CASE i \in 1..Len(s)
        <5>1. r[i] = s[i] /\ s[i] # a
          BY <4>2, <4>4
        <5>2. /\ call'[s[i]].at # "none" /\ ProcessOf[s[i]] = o /\ call'[s[i]].under = m
              /\ i > 1 => call'[s[i]].at = "queued"
              /\ \A j \in 1..Len(s) : s[j] = s[i] => j = i
          BY <1>s, <4>4 DEF StandsIn
        <5>3. \A j \in 1..Len(r) : r[j] = r[i] => j = i
          BY <1>4, <4>1, <4>2, <5>1, <5>2
        <5> QED
          BY <5>1, <5>2, <5>3
      <4> QED
        BY <3>2, <4>1, <4>3, <4>4
    <3> QED
      BY <3>1, <3>2 DEF QueueStands
  <2>2. CASE <<p, e>> # <<o, m>>
    <3>1. PICK q \in Seq(Asker) : q = queue[<<p, e>>]
      BY QueueTypes
    <3>2. queue'[<<p, e>>] = q
      BY <1>6, <2>2, <3>1
    <3>3. \A i \in 1..Len(q) :
             /\ call'[q[i]].at # "none" /\ ProcessOf[q[i]] = p /\ call'[q[i]].under = e
             /\ i > 1 => call'[q[i]].at = "queued"
             /\ \A j \in 1..Len(q) : q[j] = q[i] => j = i
      <4>1. StandsIn(p, e, q)
        BY <1>7, <3>1
      <4> QED
        BY <4>1 DEF StandsIn
    <3> QED
      BY <3>2, <3>3 DEF QueueStands
  <2> QED
    BY <2>1, <2>2
<1>9. ASSUME NEW b \in Asker, call'[b].at # "none"
      PROVE  \E i \in 1..Len(queue'[<<ProcessOf[b], call'[b].under>>]) :
               queue'[<<ProcessOf[b], call'[b].under>>][i] = b
  <2>1. CASE b = a
    <3>1. Len(s) + 1 \in 1..Len(r)
      BY <1>2, <1>4
    <3>2. queue'[<<ProcessOf[b], call'[b].under>>] = r
      BY <1>1, <1>6, <2>1
    <3> QED
      BY <1>4, <2>1, <3>1, <3>2
  <2>2. CASE b # a
    <3>1. call'[b] = call[b]
      BY <1>6, <2>2
    <3>2. PICK p \in Process, e \in Moment : p = ProcessOf[b] /\ e = call[b].under
      BY QueueTypes
    <3>3. PICK q \in Seq(Asker) : q = queue[<<p, e>>]
      BY QueueTypes
    <3>4. PICK i \in 1..Len(q) : q[i] = b
      BY <1>9, <3>1, <3>2, <3>3 DEF QueuesStand, InQueue, QueueOf
    <3>5. CASE <<p, e>> = <<o, m>>
      <4>1. q = s /\ queue'[<<p, e>>] = r /\ i \in 1..Len(s)
        BY <1>2, <1>6, <3>3, <3>4, <3>5
      <4>2. r[i] = b
        BY <1>4, <3>4, <4>1
      <4>3. i \in 1..Len(r)
        BY <1>2, <1>4, <4>1
      <4> QED
        BY <3>1, <3>2, <4>1, <4>2, <4>3
    <3>6. CASE <<p, e>> # <<o, m>>
      <4>1. queue'[<<p, e>>] = q
        BY <1>6, <3>3, <3>6
      <4> QED
        BY <3>1, <3>2, <3>4, <4>1
    <3> QED
      BY <3>5, <3>6
  <2> QED
    BY <2>1, <2>2
<1> QED
  BY <1>6, <1>8, <1>9 DEF QueuesStand, InQueue, QueueOf

\* A process stops, and its queues with it.
LEMMA QueuesStopped ==
  ASSUME PreparedTypes, QueuesStand, NEW p \in Process, StopProcess(p)
  PROVE  /\ QueuesStand' /\ queue' \in [Process \X Moment -> Seq(Asker)]
         /\ call' \in [Asker -> CallRow] /\ \A b \in Asker : call'[b].at = "none" \/ call'[b] = call[b]
<1>1. /\ \A b \in Asker : call'[b] = IF ProcessOf[b] = p THEN NoCall ELSE call[b]
      /\ call' \in [Asker -> CallRow]
  BY NoCallIs DEF StopProcess, PreparedTypes
<1>2. \A o \in Process, e \in Moment : queue'[<<o, e>>] = IF o = p THEN <<>> ELSE queue[<<o, e>>]
  BY DEF StopProcess
<1>3. queue' \in [Process \X Moment -> Seq(Asker)]
  <2>1. <<>> \in Seq(Asker) /\ queue \in [Process \X Moment -> Seq(Asker)]
    BY DEF PreparedTypes
  <2> QED
    BY <2>1 DEF StopProcess
<1>4. ASSUME NEW o \in Process, NEW e \in Moment PROVE QueueStands(o, e)'
  <2>1. CASE o = p
    <3>1. queue'[<<o, e>>] = <<>>
      BY <1>2, <2>1
    <3> QED
      BY <3>1 DEF QueueStands
  <2>2. CASE o # p
    <3>1. PICK q \in Seq(Asker) : q = queue[<<o, e>>]
      BY DEF PreparedTypes
    <3>2. queue'[<<o, e>>] = q
      BY <1>2, <2>2, <3>1
    <3>3. \A i \in 1..Len(q) :
             LET a == q[i] IN
               /\ call[a].at # "none" /\ ProcessOf[a] = o /\ call[a].under = e
               /\ i > 1 => call[a].at = "queued"
               /\ \A j \in 1..Len(q) : q[j] = a => j = i
      BY <3>1 DEF QueuesStand, QueueStands
    <3>4. \A i \in 1..Len(q) : call'[q[i]] = call[q[i]]
      BY <1>1, <2>2, <3>3
    <3> QED
      BY <3>2, <3>3, <3>4 DEF QueueStands
  <2> QED
    BY <2>1, <2>2
<1>5. ASSUME NEW b \in Asker, call'[b].at # "none"
      PROVE  \E i \in 1..Len(queue'[<<ProcessOf[b], call'[b].under>>]) :
               queue'[<<ProcessOf[b], call'[b].under>>][i] = b
  <2>1. ProcessOf[b] # p /\ call'[b] = call[b]
    BY <1>1, <1>5, NoCallIs
  <2>2. PICK o \in Process, e \in Moment : o = ProcessOf[b] /\ e = call[b].under
    BY QueueTypes
  <2>3. queue'[<<o, e>>] = queue[<<o, e>>]
    BY <1>2, <2>1, <2>2
  <2>4. \E i \in 1..Len(queue[<<o, e>>]) : queue[<<o, e>>][i] = b
    BY <1>5, <2>1, <2>2 DEF QueuesStand, InQueue, QueueOf
  <2> QED
    BY <2>1, <2>2, <2>3, <2>4
<1>6. \A b \in Asker : call'[b].at = "none" \/ call'[b] = call[b]
  BY <1>1, NoCallIs
<1> QED
  BY <1>1, <1>3, <1>4, <1>5, <1>6 DEF QueuesStand, InQueue, QueueOf

\* What was found and published is not taken back.
Grows ==
  \A k \in Key : /\ detected[k] # NoFinding => detected'[k] = detected[k]
                 /\ published[k] # NoFinding => published'[k] = published[k]

\* A call that a step does not touch, or that ends, stands.
LEMMA CallKept ==
  ASSUME PreparedTypes, NEW b \in Asker, CallStands(b), Grows, call'[b].at = "none" \/ call'[b] = call[b]
  PROVE  CallStands(b)'
<1>1. CASE call'[b].at = "none"
  BY <1>1 DEF CallStands
<1>2. CASE call'[b] = call[b] /\ call[b].at # "none"
  <2>1. KeyOfCall(b) \in Key /\ KeyOfCall(b)' = KeyOfCall(b)
    BY <1>2, QueueTypes DEF KeyOfCall
  <2> QED
    BY <1>2, <2>1 DEF CallStands, Grows
<1> QED
  BY <1>1, <1>2

\* The steps that leave what was detected, published, cached and said.
LEMMA OnlyCalls ==
  ASSUME PreparedInv, UNCHANGED <<detected, published, cached>>, said' \in {said, {}},
         moment' \in Moment, QueuesStand', queue' \in [Process \X Moment -> Seq(Asker)],
         call' \in [Asker -> CallRow],
         \A b \in Asker : call'[b].at = "none" \/ call'[b] = call[b] \/ CallStands(b)'
  PROVE  PreparedInv'
<1>1. Grows
  BY DEF Grows
<1>2. \A b \in Asker : CallStands(b)'
  BY <1>1, CallKept DEF PreparedInv
<1>3. PreparedTypes' /\ CopiesStand'
  BY DEF PreparedInv, PreparedTypes, CopiesStand, CopyIsDetected
<1> QED
  BY <1>2, <1>3 DEF PreparedInv

LEMMA PreparedStarts == PreparedInit => PreparedInv
<1> SUFFICES ASSUME PreparedInit PROVE PreparedInv
  OBVIOUS
<1>1. PreparedTypes
  <2>1. 0 \in Moment /\ <<>> \in Seq(Asker) /\ NoCall \in CallRow
    BY PreparedAssumption, NoCallIs DEF Moment
  <2> QED
    BY <2>1 DEF PreparedInit, PreparedTypes
<1>2. \A a \in Asker : call[a].at = "none"
  BY NoCallIs DEF PreparedInit
<1>3. \A p \in Process, e \in Moment : QueueStands(p, e)
  <2>1. \A p \in Process, e \in Moment : queue[<<p, e>>] = <<>>
    BY DEF PreparedInit
  <2> QED
    BY <2>1 DEF QueueStands
<1>4. CopiesStand /\ \A a \in Asker : CallStands(a)
  BY <1>2 DEF PreparedInit, CopiesStand, CopyIsDetected, CallStands
<1> QED
  BY <1>1, <1>2, <1>3, <1>4 DEF PreparedInv, QueuesStand, InQueue

\* A call joins its queue, fails, or is gone with its process; the epoch moves.
LEMMA WaitingStep ==
  ASSUME PreparedInv,
         \/ NextMoment \/ \E p \in Process : StopProcess(p)
         \/ \E t \in RawText : TrustedAllow(t)
         \/ \E a \in Asker : FailPrepare(a) \/ \E t \in RawText : CallPrepare(a, t)
  PROVE  PreparedInv'
<1>t. PreparedTypes /\ QueuesStand /\ moment \in Moment
  BY DEF PreparedInv, PreparedTypes
<1>1. CASE NextMoment \/ \E t \in RawText : TrustedAllow(t)
  <2>1. UNCHANGED <<detected, published, cached, queue, call>> /\ said' \in {said, {}}
    BY <1>1 DEF NextMoment, TrustedAllow
  <2>2. moment' \in Moment
    BY <1>1, <1>t, PreparedAssumption DEF NextMoment, TrustedAllow, Moment
  <2>3. QueuesStand'
    BY <1>t, <2>1 DEF QueuesStand, QueueStands, InQueue, QueueOf
  <2> QED
    BY <1>t, <2>1, <2>2, <2>3, OnlyCalls DEF PreparedTypes
<1>2. ASSUME NEW p \in Process, StopProcess(p) PROVE PreparedInv'
  <2>1. UNCHANGED <<moment, detected, published, cached, said>>
    BY <1>2 DEF StopProcess
  <2> QED
    BY <1>t, <1>2, <2>1, QueuesStopped, OnlyCalls
<1>3. ASSUME NEW a \in Asker, FailPrepare(a) PROVE PreparedInv'
  <2>1. UNCHANGED <<moment, detected, published, cached, said>> /\ LeaveQueue(a)
    BY <1>3 DEF FailPrepare
  <2>2. QueuesStand' /\ queue' \in [Process \X Moment -> Seq(Asker)] /\ call' \in [Asker -> CallRow]
    BY <1>t, <1>3, <2>1, QueueLeft DEF FailPrepare
  <2>3. \A b \in Asker : call'[b].at = "none" \/ call'[b] = call[b]
    BY <1>t, <2>1, NoCallIs DEF LeaveQueue, PreparedTypes
  <2> QED
    BY <1>t, <2>1, <2>2, <2>3, OnlyCalls
<1>4. ASSUME NEW a \in Asker, NEW t \in RawText, CallPrepare(a, t) PROVE PreparedInv'
  <2>1. UNCHANGED <<moment, detected, published, cached, said>> /\ call[a].at = "none" /\ Joins(a)
    BY <1>4 DEF CallPrepare, Joins
  <2>2. PICK row : row = [NoCall EXCEPT !.at = "queued", !.text = t, !.under = moment]
    OBVIOUS
  <2>3. row \in CallRow /\ row.at = "queued" /\ row.under = moment /\ row.text = t
    <3>1. PICK none \in CallRow : none = NoCall
      BY NoCallIs
    <3> QED
      BY <1>t, <2>2, <3>1 DEF CallRow, PreparePlaces
  <2>4. call' = [call EXCEPT ![a] = row]
    BY <1>4, <2>2 DEF CallPrepare
  <2>5. QueuesStand' /\ queue' \in [Process \X Moment -> Seq(Asker)]
    BY <1>t, <2>1, <2>3, <2>4, QueueJoined
  <2>6. call' \in [Asker -> CallRow] /\ call'[a] = row /\ \A b \in Asker : b # a => call'[b] = call[b]
    BY <1>t, <2>3, <2>4 DEF PreparedTypes
  <2>7. CallStands(a)'
    BY <2>3, <2>6 DEF CallStands
  <2> QED
    BY <1>t, <2>1, <2>5, <2>6, <2>7, OnlyCalls
<1> QED
  BY <1>1, <1>2, <1>3, <1>4

\* The call lets the detector run, or finds an answer that is ready or can be made.
LEMMA EnteringStep == ASSUME PreparedInv, NEW a \in Asker, EnterPrepare(a) PROVE PreparedInv'
<1>t. /\ PreparedTypes /\ QueuesStand /\ CopiesStand /\ CallStands(a) /\ moment \in Moment
      /\ call[a].at = "queued" /\ Head(QueueOf(a)) = a
      /\ UNCHANGED <<moment, allowed, detected, published, cached, queue, said>>
  BY DEF PreparedInv, PreparedTypes, EnterPrepare, Preparations
<1>k. PICK k \in Key : k = KeyOfCall(a)
  BY <1>t, QueueTypes
<1>c. call[a] \in CallRow /\ call[a].text \in RawText
  BY <1>t, QueueTypes DEF CallStands
<1>1. PICK at, finding, prepared :
        /\ at = IF Ready(a) THEN "answering" ELSE IF detected[k] # NoFinding THEN "publishing" ELSE "detecting"
        /\ finding = IF k \in allowed THEN call[a].text ELSE IF k \in cached THEN published[k] ELSE detected[k]
        /\ prepared = (k \notin allowed)
  OBVIOUS
<1>2. PICK row : row = [call[a] EXCEPT !.at = at, !.finding = finding, !.prepared = prepared]
  OBVIOUS
<1>3. call' = [call EXCEPT ![a] = row]
  BY <1>k, <1>1, <1>2 DEF EnterPrepare
<1>4. /\ at \in {"answering", "publishing", "detecting"} /\ finding \in Said \cup {NoFinding}
      /\ prepared \in BOOLEAN
  <2>1. prepared \in BOOLEAN
    BY <1>1
  <2>2. detected[k] \in Said \cup {NoFinding} /\ published[k] \in Said \cup {NoFinding}
    BY <1>t DEF PreparedTypes
  <2>3. finding \in Said \cup {NoFinding}
    BY <1>1, <1>c, <2>2 DEF Said
  <2>4. at \in {"answering", "publishing", "detecting"}
    BY <1>1
  <2> QED
    BY <2>1, <2>3, <2>4
<1>5. /\ row \in CallRow /\ row.at = at /\ row.finding = finding /\ (row.prepared <=> k \notin allowed)
      /\ row.under = call[a].under /\ row.text = call[a].text
  BY <1>1, <1>2, <1>4, <1>c DEF CallRow, PreparePlaces
<1>6. QueuesStand'
  BY <1>t, <1>3, <1>4, <1>5, QueueKept
<1>7. call' \in [Asker -> CallRow] /\ call'[a] = row /\ \A b \in Asker : b # a => call'[b] = call[b]
  BY <1>t, <1>3, <1>5 DEF PreparedTypes
<1>8. CallStands(a)'
  <2>1. KeyOfCall(a)' = k
    BY <1>k, <1>5, <1>7 DEF KeyOfCall
  <2>2. published[k] \in {NoFinding, detected[k]} /\ (k \in cached => published[k] # NoFinding)
    BY <1>t DEF CopiesStand, CopyIsDetected
  <2>3. Ready(a) <=> k \in allowed \/ k \in cached
    BY <1>k DEF Ready, KeyOfCall
  <2>4. CASE Ready(a)
    BY <1>t, <1>1, <1>5, <1>7, <1>c, <2>1, <2>2, <2>3, <2>4 DEF CallStands
  <2>5. CASE ~Ready(a)
    BY <1>t, <1>1, <1>5, <1>7, <1>c, <2>1, <2>3, <2>5 DEF CallStands
  <2> QED
    BY <2>4, <2>5
<1> QED
  BY <1>t, <1>6, <1>7, <1>8, OnlyCalls DEF PreparedTypes

\* A call that is past its queue goes on: its place changes, and its finding may.
LEMMA CallMoves ==
  ASSUME PreparedInv, NEW a \in Asker, NEW at \in PreparePlaces \ {"none", "queued"},
         NEW finding \in Said \cup {NoFinding}, call[a].at \notin {"none", "queued"},
         call' = [call EXCEPT ![a] = [call[a] EXCEPT !.at = at, !.finding = finding]], queue' = queue
  PROVE  /\ QueuesStand' /\ call' \in [Asker -> CallRow] /\ \A b \in Asker : b # a => call'[b] = call[b]
         /\ call'[a].at = at /\ call'[a].finding = finding /\ call'[a].text = call[a].text
         /\ call'[a].prepared = call[a].prepared /\ KeyOfCall(a)' = KeyOfCall(a)
<1>t. PreparedTypes /\ QueuesStand
  BY DEF PreparedInv
<1>1. PICK row : row = [call[a] EXCEPT !.at = at, !.finding = finding]
  OBVIOUS
<1>2. call[a] \in CallRow
  BY <1>t, QueueTypes
<1>3. /\ row \in CallRow /\ row.at = at /\ row.finding = finding /\ row.text = call[a].text
      /\ row.under = call[a].under /\ row.prepared = call[a].prepared
  BY <1>1, <1>2 DEF CallRow
<1>4. call' = [call EXCEPT ![a] = row]
  BY <1>1
<1>5. QueuesStand'
  BY <1>t, <1>3, <1>4, QueueKept
<1>6. call' \in [Asker -> CallRow] /\ call'[a] = row /\ \A b \in Asker : b # a => call'[b] = call[b]
  BY <1>t, <1>3, <1>4 DEF PreparedTypes
<1> QED
  BY <1>3, <1>5, <1>6 DEF KeyOfCall

\* The detection is saved, the copy is published, and read.
LEMMA CopyStep ==
  ASSUME PreparedInv, NEW a \in Asker,
         PublishCopy(a) \/ CacheCopy(a) \/ \E f \in SafeText \cup {call[a].text} : Detect(a, f)
  PROVE  PreparedInv'
<1>t. /\ PreparedTypes /\ QueuesStand /\ CopiesStand /\ \A b \in Asker : CallStands(b)
      /\ moment \in Moment /\ detected \in [Key -> Said \cup {NoFinding}]
      /\ published \in [Key -> Said \cup {NoFinding}] /\ cached \subseteq Key
  BY DEF PreparedInv, PreparedTypes
<1>p. call[a].at \in {"detecting", "publishing", "reading"}
  BY DEF PublishCopy, CacheCopy, Detect
<1>k. PICK k \in Key : k = KeyOfCall(a)
  BY <1>t, <1>p, QueueTypes
<1>c. call[a] \in CallRow /\ call[a].text \in RawText /\ call[a].finding \in Said \cup {NoFinding}
  BY <1>t, <1>p, QueueTypes DEF CallStands, CallRow
<1>d. published[k] \in {NoFinding, detected[k]}
  BY <1>t DEF CopiesStand, CopyIsDetected
<1>1. ASSUME NEW f \in SafeText \cup {call[a].text}, Detect(a, f) PROVE PreparedInv'
  <2>f. f \in Said /\ f # NoFinding
    BY <1>c, PreparedAssumption DEF Said
  <2>1. CASE DetectionConflict(a, f)
    <3>1. UNCHANGED <<moment, detected, published, cached, said>> /\ LeaveQueue(a)
      BY <1>1, <2>1 DEF Detect
    <3>2. QueuesStand' /\ queue' \in [Process \X Moment -> Seq(Asker)] /\ call' \in [Asker -> CallRow]
      BY <1>t, <1>p, <3>1, QueueLeft
    <3>3. \A b \in Asker : call'[b].at = "none" \/ call'[b] = call[b]
      BY <1>t, <3>1, NoCallIs DEF LeaveQueue, PreparedTypes
    <3> QED
      BY <1>t, <3>1, <3>2, <3>3, OnlyCalls
  <2>2. CASE ~DetectionConflict(a, f)
    <3>1. /\ call' = [call EXCEPT ![a] = [call[a] EXCEPT !.at = "publishing", !.finding = f]]
          /\ UNCHANGED <<moment, published, cached, queue, said>>
          /\ detected' = [detected EXCEPT ![k] = IF detected[k] = NoFinding THEN f ELSE detected[k]]
          /\ detected[k] \in {NoFinding, f}
      BY <1>1, <1>k, <2>2 DEF Detect, DetectionConflict
    <3>2. detected' = [detected EXCEPT ![k] = f]
      BY <3>1
    <3>3. /\ detected'[k] = f /\ detected' \in [Key -> Said \cup {NoFinding}]
          /\ \A x \in Key : x # k => detected'[x] = detected[x]
      BY <1>t, <2>f, <3>2
    <3>4. /\ QueuesStand' /\ call' \in [Asker -> CallRow] /\ \A b \in Asker : b # a => call'[b] = call[b]
          /\ call'[a].at = "publishing" /\ call'[a].finding = f /\ call'[a].text = call[a].text
          /\ KeyOfCall(a)' = k
      BY <1>p, <1>k, <2>f, <3>1, CallMoves, ZenonT(60) DEF PreparePlaces
    <3>5. Grows
      BY <3>1, <3>3 DEF Grows
    <3>6. CallStands(a)'
      BY <1>c, <2>f, <3>3, <3>4 DEF CallStands
    <3>7. CopiesStand'
      BY <1>t, <1>d, <3>1, <3>3 DEF CopiesStand, CopyIsDetected
    <3>8. PreparedTypes'
      BY <1>t, <3>1, <3>3, <3>4 DEF PreparedTypes
    <3>9. \A b \in Asker : CallStands(b)'
      BY <1>t, <3>4, <3>5, <3>6, CallKept
    <3> QED
      BY <3>4, <3>7, <3>8, <3>9 DEF PreparedInv
  <2> QED
    BY <2>1, <2>2
<1>2. CASE PublishCopy(a)
  <2>1. /\ call[a].at = "publishing" /\ UNCHANGED <<moment, detected, cached, queue, said>>
        /\ call[a].finding = detected[k] /\ detected[k] # NoFinding
    BY <1>t, <1>k, <1>2 DEF PublishCopy, CallStands
  <2>2. published' = [published EXCEPT ![k] = detected[k]]
    <3>1. published' = [published EXCEPT ![k] = IF published[k] = NoFinding THEN detected[k] ELSE published[k]]
      BY <1>k, <1>2, <2>1 DEF PublishCopy
    <3> QED
      BY <1>d, <3>1
  <2>3. /\ published'[k] = detected[k] /\ published' \in [Key -> Said \cup {NoFinding}]
        /\ \A x \in Key : x # k => published'[x] = published[x]
    BY <1>t, <2>2
  <2>4. call' = [call EXCEPT ![a] = [call[a] EXCEPT !.at = "reading", !.finding = call[a].finding]]
    <3>1. call' = [call EXCEPT ![a].at = "reading"]
      BY <1>2 DEF PublishCopy, Enters
    <3>2. [call[a] EXCEPT !.at = "reading", !.finding = call[a].finding] = [call[a] EXCEPT !.at = "reading"]
      BY <1>c DEF CallRow
    <3> QED
      BY <3>1, <3>2
  <2>5. /\ QueuesStand' /\ call' \in [Asker -> CallRow] /\ \A b \in Asker : b # a => call'[b] = call[b]
        /\ call'[a].at = "reading" /\ call'[a].text = call[a].text /\ KeyOfCall(a)' = k
    <3>1. "reading" \in PreparePlaces \ {"none", "queued"}
      BY DEF PreparePlaces
    <3> QED
      BY <1>c, <1>k, <2>1, <2>4, <3>1, CallMoves
  <2>6. Grows
    BY <1>d, <1>t, <2>1, <2>3 DEF Grows
  <2>7. CallStands(a)'
    BY <1>c, <2>1, <2>3, <2>5 DEF CallStands
  <2>8. CopiesStand'
    BY <1>t, <2>1, <2>3 DEF CopiesStand, CopyIsDetected
  <2>9. PreparedTypes'
    BY <1>t, <2>1, <2>3, <2>5 DEF PreparedTypes
  <2>10. \A b \in Asker : CallStands(b)'
    BY <1>t, <2>5, <2>6, <2>7, CallKept
  <2> QED
    BY <2>5, <2>8, <2>9, <2>10 DEF PreparedInv
<1>3. CASE CacheCopy(a)
  <2>1. /\ call[a].at = "reading" /\ UNCHANGED <<moment, detected, published, queue, said>>
        /\ cached' = cached \cup {k} /\ published[k] # NoFinding /\ published[k] = detected[k]
        /\ call' = [call EXCEPT ![a] = [call[a] EXCEPT !.at = "answering", !.finding = published[k]]]
    BY <1>t, <1>d, <1>k, <1>3 DEF CacheCopy, CallStands
  <2>2. published[k] \in Said \cup {NoFinding} /\ "answering" \in PreparePlaces \ {"none", "queued"}
    BY <1>t DEF PreparePlaces
  <2>3. /\ QueuesStand' /\ call' \in [Asker -> CallRow] /\ \A b \in Asker : b # a => call'[b] = call[b]
        /\ call'[a].at = "answering" /\ call'[a].finding = published[k] /\ call'[a].text = call[a].text
        /\ KeyOfCall(a)' = k
    <3>1. PICK f \in Said \cup {NoFinding} : f = published[k]
      BY <2>2
    <3>2. call' = [call EXCEPT ![a] = [call[a] EXCEPT !.at = "answering", !.finding = f]] /\ queue' = queue
      BY <2>1, <3>1
    <3>3. call[a].at \notin {"none", "queued"}
      BY <2>1
    <3>4. PICK at \in PreparePlaces \ {"none", "queued"} : at = "answering"
      BY <2>2
    <3>5. call' = [call EXCEPT ![a] = [call[a] EXCEPT !.at = at, !.finding = f]]
      BY <3>2, <3>4
    <3>6. queue' = queue /\ at \in PreparePlaces \ {"none", "queued"} /\ f \in Said \cup {NoFinding}
      BY <2>1, <3>1, <3>4
    <3>7. /\ QueuesStand' /\ call' \in [Asker -> CallRow] /\ \A b \in Asker : b # a => call'[b] = call[b]
          /\ call'[a].at = at /\ call'[a].finding = f /\ call'[a].text = call[a].text
          /\ KeyOfCall(a)' = KeyOfCall(a)
      BY <3>3, <3>5, <3>6, CallMoves
    <3> QED
      BY <1>k, <3>1, <3>4, <3>7
  <2>4. Grows
    BY <2>1 DEF Grows
  <2>5. CallStands(a)'
    BY <1>c, <2>1, <2>3 DEF CallStands
  <2>6. CopiesStand'
    BY <1>t, <2>1 DEF CopiesStand, CopyIsDetected
  <2>7. PreparedTypes'
    BY <1>t, <2>1, <2>3 DEF PreparedTypes
  <2>8. \A b \in Asker : CallStands(b)'
    BY <1>t, <2>3, <2>4, <2>5, CallKept
  <2> QED
    BY <2>3, <2>6, <2>7, <2>8 DEF PreparedInv
<1> QED
  BY <1>1, <1>2, <1>3

\* The answer is given.
LEMMA AnswerStep == ASSUME PreparedInv, NEW a \in Asker, AnswerCall(a) PROVE PreparedInv'
<1>t. /\ PreparedTypes /\ QueuesStand /\ CopiesStand /\ \A b \in Asker : CallStands(b)
      /\ call[a].at = "answering" /\ LeaveQueue(a)
      /\ UNCHANGED <<moment, detected, published, cached>>
      /\ said' = said \cup {[key |-> KeyOfCall(a), answer |-> call[a].finding, prepared |-> call[a].prepared]}
  BY DEF PreparedInv, AnswerCall
<1>k. PICK k \in Key : k = KeyOfCall(a)
  BY <1>t, QueueTypes
<1>1. QueuesStand' /\ queue' \in [Process \X Moment -> Seq(Asker)] /\ call' \in [Asker -> CallRow]
  BY <1>t, QueueLeft
<1>2. \A b \in Asker : call'[b].at = "none" \/ call'[b] = call[b]
  BY <1>t, NoCallIs DEF LeaveQueue, PreparedTypes
<1>3. Grows
  BY <1>t DEF Grows
<1>4. \A b \in Asker : CallStands(b)'
  BY <1>t, <1>2, <1>3, CallKept
<1>5. PICK new : new = [key |-> k, answer |-> call[a].finding, prepared |-> call[a].prepared]
  OBVIOUS
<1>6. said' = said \cup {new}
  BY <1>t, <1>k, <1>5
<1>7. new.prepared => new.key \in Key /\ new.answer = detected[new.key] /\ new.answer # NoFinding
  <2>1. call[a].prepared => detected[k] # NoFinding /\ call[a].finding = detected[k]
    BY <1>t, <1>k DEF CallStands
  <2>2. new.key = k /\ new.answer = call[a].finding /\ (new.prepared <=> call[a].prepared)
    BY <1>5
  <2> QED
    BY <2>1, <2>2
<1>8. CopiesStand'
  BY <1>t, <1>6, <1>7 DEF CopiesStand, CopyIsDetected
<1>9. PreparedTypes'
  BY <1>t, <1>1 DEF PreparedTypes
<1> QED
  BY <1>1, <1>4, <1>8, <1>9 DEF PreparedInv

LEMMA PreparedStep == PreparedInv /\ [PreparedNext]_PreparedVars => PreparedInv'
<1> SUFFICES ASSUME PreparedInv, [PreparedNext]_PreparedVars PROVE PreparedInv'
  OBVIOUS
<1>1. CASE UNCHANGED PreparedVars
  BY <1>1 DEF PreparedVars, PreparedInv, PreparedTypes, QueuesStand, QueueStands, InQueue, QueueOf,
              CopiesStand, CopyIsDetected, CallStands, KeyOfCall
<1>2. CASE PreparedNext
  BY <1>2, WaitingStep, EnteringStep, CopyStep, AnswerStep DEF PreparedNext
<1> QED
  BY <1>1, <1>2

LEMMA PreparedInvariant == PreparedSpec => []PreparedInv
BY PreparedStarts, PreparedStep, PTL DEF PreparedSpec

LEMMA PreparedKeeps == PreparedInv => PreparedAgrees
<1> SUFFICES ASSUME PreparedInv PROVE PreparedAgrees
  OBVIOUS
<1>1. OneAnswer /\ CopyIsDetected
  BY DEF PreparedInv, CopiesStand, OneAnswer
<1>2. ASSUME NEW a \in Asker, call[a].at # "none" PROVE \E i \in DOMAIN QueueOf(a) : QueueOf(a)[i] = a
  <2>1. PICK q \in Seq(Asker) : q = QueueOf(a)
    BY QueueTypes DEF PreparedInv, QueueOf
  <2>2. PICK i \in 1..Len(q) : q[i] = a
    BY <1>2, <2>1 DEF PreparedInv, QueuesStand, InQueue
  <2>3. DOMAIN q = 1..Len(q)
    OBVIOUS
  <2> QED
    BY <2>1, <2>2, <2>3
<1> QED
  BY <1>1, <1>2 DEF PreparedAgrees, NobodyLost

\* Who is answered for a text under one epoch and audience is answered the same, with the copy
\* the saved detection gives, and no call is lost from its queue: for any number of calls,
\* processes and texts, whatever stops, fails or is retried.
THEOREM PreparedAlwaysAgrees == PreparedSpec => []PreparedAgrees
BY PreparedInvariant, PreparedKeeps, PTL

----------------------------------------------------------------------------
(* The broker.                                                             *)
(*                                                                         *)
(* What is entered in the journal follows from where the request is, the   *)
(* policy that allowed it still does until it is called, and a fact of the *)
(* audience that is gone stays gone and is still to be looked at.          *)

\* The way of a request: asked, decided, prepared, called, answered; and how it ends.
Asking == {"idle", "binding", "deciding", "proposing", "forbidding"}
Permitting == {"permitting", "blocking"}
Readying == {"preparing", "recheck", "reconsider", "starting"}
Answering == {"awaiting", "opening", "streaming", "checking", "giving", "completing"}
Ended == {"closing", "over", "gone"}
AskPlaces == Asking \cup Permitting \cup Readying \cup {"calling"} \cup Answering \cup Ended
AskRow ==
  [at : AskPlaces, kind : AskKinds, look : 1..3, decided : Nat, traced : BOOLEAN, started : BOOLEAN,
   preparedUnder : Nat, called : BOOLEAN, calledLate : BOOLEAN, reply : {"none", "ok", "refused"},
   given : Nat, late : Nat, whole : BOOLEAN]
JournalStates == {"proposed", "allowed", "blocked", "started"} \cup Terminals

BrokerTypes ==
  /\ facts \subseteq {"epoch", "turn", "run"} /\ ask \in AskRow /\ journal \subseteq JournalStates
  /\ policies \in Seq(SUBSET AskKinds) /\ Len(policies) > 0 /\ breaks \in Nat
  /\ admission \in [Admitter -> {"idle", "looked", "inserted", "admitted", "refused"}]

\* Whom the turn was registered for, and that a request has a turn.
TurnStands ==
  /\ \A c \in Admitter : admission[c] \in {"inserted", "admitted"} => turnOf = ProfileOf[c]
  /\ ask.at # "idle" => turnOf # NoTurn

\* What has been entered for the request where it is.
EnteredOnWay ==
  /\ ask.at \in Asking => journal = {}
  /\ ask.at \in Permitting => journal = {"proposed"}
  /\ ask.at \in Readying => journal = {"proposed", "allowed"}
  /\ ask.at \in {"calling"} \cup Answering =>
       journal = CASE ask.kind = "model.request" -> {"proposed", "allowed", "started"}
                   [] ask.kind = "memory.read" -> {"proposed", "allowed"}
                   [] OTHER -> {}
EnteredStands ==
  /\ EnteredOnWay
  /\ breaks = 0 /\ ask.at = "closing" => journal \cap Terminals = {}
  /\ JournalAgrees /\ OneOutcome
\* What the request has done where it is.
WayStands ==
  /\ ask.at \in {"deciding", "proposing", "permitting"} => ask.kind # "relay"
  /\ ask.at \in {"forbidding", "blocking"} \cup Readying => ask.kind = "model.request"
  /\ ask.at \in {"idle", "binding", "deciding", "forbidding", "blocking"} => ~ask.traced
  /\ ask.at \in {"proposing", "permitting", "completing", "closing"} \cup Readying => ask.traced
  /\ ask.at \in {"calling"} \cup Answering => (ask.traced <=> ask.kind # "relay")
                                           /\ (ask.started <=> ask.kind = "model.request")
  /\ ask.at \in Asking \cup Permitting \cup Readying => ~ask.started
  /\ ask.at \in Asking \cup Permitting \cup Readying \cup {"calling"} =>
       ~ask.called /\ ~ask.calledLate /\ ask.reply = "none" /\ ask.given = 0 /\ ask.late = 0 /\ ~ask.whole
  /\ ask.at \in Answering => ask.called
  /\ ask.at = "completing" => ask.whole
  /\ ask.reply = "ok" /\ ask.kind = "model.request" => ask.started

\* Under which policy it was decided, prepared and called.
DecisionStands ==
  /\ ask.at \in {"proposing", "permitting"} \cup Readying => ask.decided \in 1..Revision
  /\ (ask.at = "calling" \/ ask.called) /\ ask.kind # "relay" => ask.decided \in 1..Revision
  /\ ask.at \in {"calling"} \cup Readying /\ ask.kind # "relay" => ~Denied(ask.kind, ask.decided)
  /\ ask.at \in {"recheck", "reconsider"} => ask.decided <= ask.preparedUnder /\ ask.preparedUnder <= Revision
  /\ ask.at \in {"starting", "calling"} /\ ask.kind = "model.request" => ask.preparedUnder = ask.decided
  /\ PolicyKept

\* Of an audience that is gone one look still tells.
AudienceStands ==
  /\ ask.late <= 1 /\ (ask.calledLate => ask.given = 0)
  /\ ask.calledLate => ask.at \notin {"streaming", "checking", "completing"}
  /\ ask.calledLate \/ ask.late = 1 =>
       /\ ~AudienceHolds /\ ask.at # "giving"
       /\ ask.at \in {"opening", "checking"} => \E j \in ask.look..3 : Looks[j] \notin facts

BrokerInv == BrokerTypes /\ TurnStands /\ EnteredStands /\ WayStands /\ DecisionStands /\ AudienceStands

\* What a step leaves of the request; and of its trace and answer.
SameCall ==
  /\ ask'.kind = ask.kind /\ ask'.decided = ask.decided /\ ask'.preparedUnder = ask.preparedUnder
  /\ (ask'.called <=> ask.called) /\ (ask'.calledLate <=> ask.calledLate)
  /\ ask'.given = ask.given /\ ask'.late = ask.late
SameAnswer == ask'.reply = ask.reply /\ (ask'.whole <=> ask.whole)
SameTrace == (ask'.traced <=> ask.traced) /\ (ask'.started <=> ask.started)

LEMMA BrokerStarts == BrokerInit => BrokerInv
<1> SUFFICES ASSUME BrokerInit PROVE BrokerInv
  OBVIOUS
<1>1. /\ NotAsking \in AskRow /\ NotAsking.at = "idle" /\ ~NotAsking.traced /\ ~NotAsking.started
      /\ ~NotAsking.called /\ ~NotAsking.calledLate /\ NotAsking.reply = "none" /\ NotAsking.given = 0
      /\ NotAsking.late = 0 /\ ~NotAsking.whole
  BY DEF NotAsking, AskRow, AskPlaces, Asking, AskKinds
<1>2. /\ ask = NotAsking /\ journal = {} /\ breaks = 0 /\ facts = {"epoch", "run"} /\ policies = <<{}>>
      /\ admission = [c \in Admitter |-> "idle"]
  BY DEF BrokerInit
<1>3. BrokerTypes
  <2>1. policies \in Seq(SUBSET AskKinds) /\ Len(policies) = 1
    BY <1>2
  <2>2. admission \in [Admitter -> {"idle", "looked", "inserted", "admitted", "refused"}]
    BY <1>2
  <2> QED
    BY <1>1, <1>2, <2>1, <2>2 DEF BrokerTypes
<1>4. TurnStands /\ AudienceStands
  BY <1>1, <1>2 DEF TurnStands, AudienceStands
<1>5. EnteredStands
  BY <1>1, <1>2 DEF EnteredStands, EnteredOnWay, JournalAgrees, OneOutcome, Asking, Permitting, Readying, Answering
<1>6. WayStands
  BY <1>1, <1>2 DEF WayStands, Asking, Permitting, Readying, Answering
<1>7. DecisionStands
  BY <1>1, <1>2 DEF DecisionStands, PolicyKept, Asking, Permitting, Readying, Answering
<1> QED
  BY <1>3, <1>4, <1>5, <1>6, <1>7 DEF BrokerInv

\* A request ends, with the journal to be accounted for.
LEMMA RequestEnds ==
  ASSUME BrokerInv, ask.at # "idle", UNCHANGED world, ask' \in AskRow, ask'.at \in Ended, SameCall,
         ask'.traced <=> ask.traced, ask'.started <=> ask.started,
         ask'.at = "closing" => ask.traced, ask'.reply \in {ask.reply, "refused"},
         journal' \subseteq JournalStates, breaks' \in Nat, JournalAgrees', OneOutcome',
         breaks' = 0 /\ ask'.at = "closing" => journal' \cap Terminals = {}
  PROVE  BrokerInv'
<1>f. /\ BrokerTypes /\ TurnStands /\ WayStands /\ DecisionStands /\ AudienceStands
      /\ UNCHANGED <<facts, turnOf, admission, policies>>
  BY DEF BrokerInv, world
<1>1. BrokerTypes' /\ TurnStands'
  BY <1>f DEF BrokerTypes, TurnStands
<1>2. EnteredStands'
  BY DEF EnteredStands, EnteredOnWay, Asking, Permitting, Readying, Answering, Ended
<1>3. WayStands'
  BY <1>f DEF WayStands, Asking, Permitting, Readying, Answering, Ended, SameCall
<1>4. DecisionStands'
  BY <1>f DEF DecisionStands, PolicyKept, Denied, Revision, Asking, Permitting, Readying, Answering, Ended, SameCall
<1>5. AudienceStands'
  BY <1>f DEF AudienceStands, AudienceHolds, Ended, SameCall
<1> QED
  BY <1>1, <1>2, <1>3, <1>4, <1>5 DEF BrokerInv

LEMMA CaughtIs ==
  ASSUME ask \in AskRow, ask' = Caught(ask)
  PROVE  /\ ask' \in AskRow /\ ask'.at = (IF ask.traced THEN "closing" ELSE "over")
         /\ SameCall /\ SameAnswer /\ SameTrace
BY DEF Caught, AskRow, AskPlaces, Ended, SameCall, SameAnswer, SameTrace

\* What the journal has of a request that has not ended.
LEMMA EnteredSoFar ==
  BrokerInv /\ ask.at \notin Ended =>
    /\ journal \subseteq {"proposed", "allowed", "started"} /\ journal \cap Terminals = {}
    /\ ~ask.traced => "allowed" \notin journal
<1> SUFFICES ASSUME BrokerInv, ask.at \notin Ended
             PROVE  /\ journal \subseteq {"proposed", "allowed", "started"} /\ journal \cap Terminals = {}
                    /\ ~ask.traced => "allowed" \notin journal
  OBVIOUS
<1>f. EnteredStands /\ WayStands /\ ask.at \in AskPlaces
  BY DEF BrokerInv, BrokerTypes, AskRow
<1>1. journal \subseteq {"proposed", "allowed", "started"} /\ (~ask.traced => "allowed" \notin journal)
  <2>1. CASE ask.at \in Asking \cup Permitting \cup Readying
    BY <1>f, <2>1 DEF EnteredStands, EnteredOnWay, WayStands, Asking, Permitting, Readying
  <2>2. CASE ask.at \in {"calling"} \cup Answering
    BY <1>f, <2>2 DEF EnteredStands, EnteredOnWay, WayStands
  <2> QED
    BY <1>f, <2>1, <2>2 DEF AskPlaces
<1> QED
  BY <1>1 DEF Terminals

\* A request that is thrown out is closed if it was traced, and is over if not.
LEMMA ThrownOut ==
  ASSUME BrokerInv, ask.at \notin Ended, ask.at # "idle", Throws
  PROVE  BrokerInv'
<1>f. BrokerTypes /\ ask \in AskRow /\ JournalAgrees /\ UNCHANGED <<world, journal, breaks>> /\ ask' = Caught(ask)
  BY DEF BrokerInv, BrokerTypes, EnteredStands, EnteredOnWay, Throws
<1>1. /\ ask' \in AskRow /\ ask'.at = (IF ask.traced THEN "closing" ELSE "over")
      /\ SameCall /\ SameAnswer /\ SameTrace
  BY <1>f, CaughtIs
<1>2. JournalAgrees'
  BY <1>f, <1>1 DEF JournalAgrees, SameCall, SameAnswer
<1>3. OneOutcome'
  BY <1>f, <1>1, EnteredSoFar DEF OneOutcome
<1>4. breaks' = 0 /\ ask'.at = "closing" => journal' \cap Terminals = {}
  BY <1>f, EnteredSoFar
<1>5. ask'.at \in Ended /\ (ask'.at = "closing" => ask.traced)
  BY <1>1 DEF Ended
<1>6. journal' \subseteq JournalStates /\ breaks' \in Nat
  BY <1>f DEF BrokerTypes
<1>7. ask'.reply \in {ask.reply, "refused"} /\ (ask'.traced <=> ask.traced) /\ (ask'.started <=> ask.started)
  BY <1>1 DEF SameAnswer, SameTrace
<1> QED
  BY <1>f, <1>1, <1>2, <1>3, <1>4, <1>5, <1>6, <1>7, RequestEnds

\* An entry the database did not answer for may be there, and the request is thrown out.
LEMMA EntryLost ==
  ASSUME BrokerInv, ask.at \notin Ended, ask.at # "idle", NEW state \in JournalStates,
         UNCHANGED world, ask' = Caught(ask), breaks' = breaks + 1,
         journal' \in {journal, journal \cup {state}},
         state \in {"proposed", "allowed", "started"} \/ (state = "blocked" /\ ~ask.called)
           \/ (state = "completed" /\ ask.whole)
  PROVE  BrokerInv'
<1>f. BrokerTypes /\ ask \in AskRow /\ JournalAgrees /\ breaks \in Nat
  BY DEF BrokerInv, BrokerTypes, EnteredStands, EnteredOnWay
<1>1. /\ ask' \in AskRow /\ ask'.at = (IF ask.traced THEN "closing" ELSE "over")
      /\ SameCall /\ SameAnswer /\ SameTrace
  BY <1>f, CaughtIs
<1>2. JournalAgrees'
  BY <1>f, <1>1 DEF JournalAgrees, SameCall, SameAnswer
<1>3. breaks' # 0 /\ breaks' \in Nat
  BY <1>f
<1>4. OneOutcome'
  BY <1>3 DEF OneOutcome
<1>5. ask'.at \in Ended /\ (ask'.at = "closing" => ask.traced)
  BY <1>1 DEF Ended
<1>6. journal' \subseteq JournalStates
  BY <1>f DEF BrokerTypes
<1>7. ask'.reply \in {ask.reply, "refused"} /\ (ask'.traced <=> ask.traced) /\ (ask'.started <=> ask.started)
  BY <1>1 DEF SameAnswer, SameTrace
<1> QED
  BY <1>1, <1>2, <1>3, <1>4, <1>5, <1>6, <1>7, RequestEnds

\* The checks that refuse, a reader that goes away, a broker that stops.
LEMMA GivingUp == ASSUME BrokerInv, SpaceDenied \/ Broken \/ BrokerStops PROVE BrokerInv'
<1>1. CASE SpaceDenied \/ Broken
  BY <1>1, ThrownOut DEF SpaceDenied, Broken, Ended
<1>2. CASE BrokerStops
  <2>f. BrokerTypes /\ ask \in AskRow /\ JournalAgrees /\ breaks \in Nat
    BY DEF BrokerInv, BrokerTypes, EnteredStands, EnteredOnWay
  <2>1. /\ ask.at # "idle" /\ ask' = [ask EXCEPT !.at = "gone"] /\ breaks' = breaks + 1
        /\ UNCHANGED <<world, journal>>
    BY <1>2 DEF BrokerStops
  <2>2. ask' \in AskRow /\ ask'.at = "gone" /\ SameCall /\ SameAnswer /\ SameTrace
    BY <2>f, <2>1 DEF AskRow, AskPlaces, Ended, SameCall, SameAnswer, SameTrace
  <2>3. JournalAgrees' /\ OneOutcome'
    BY <2>f, <2>1, <2>2 DEF JournalAgrees, OneOutcome, SameCall, SameAnswer
  <2>4. breaks' \in Nat /\ journal' \subseteq JournalStates
    BY <2>f, <2>1 DEF BrokerTypes
  <2>5. ask'.reply \in {ask.reply, "refused"} /\ (ask'.traced <=> ask.traced) /\ (ask'.started <=> ask.started)
    BY <2>2 DEF SameAnswer, SameTrace
  <2>6. ask'.at \in Ended /\ ask'.at # "closing"
    BY <2>2 DEF Ended
  <2> QED
    BY <2>1, <2>2, <2>3, <2>4, <2>5, <2>6, RequestEnds
<1> QED
  BY <1>1, <1>2

\* The outcome is entered: blocked, refused, completed, or closed.
LEMMA OutcomeEntered ==
  ASSUME BrokerInv, NEW state \in JournalStates, ask.at \notin {"idle", "over", "gone"},
         UNCHANGED <<world, breaks>>, ask' \in AskRow, ask'.at = "over", SameCall, SameTrace,
         ask'.reply \in {ask.reply, "refused"}, ask'.whole <=> ask.whole,
         journal' = journal \cup {state},
         \/ state = "blocked" /\ ask.at \in Permitting
         \/ state = "completed" /\ ask.whole /\ ask.at # "closing"
         \/ state = "failed" /\ (ask.kind = "model.request" => ask'.reply # "ok")
         \/ state = "ambiguous"
  PROVE  BrokerInv'
<1>f. BrokerTypes /\ EnteredStands /\ WayStands /\ breaks \in Nat /\ JournalAgrees
  BY DEF BrokerInv, BrokerTypes, EnteredStands, EnteredOnWay
<1>1. JournalAgrees'
  BY <1>f DEF JournalAgrees, SameCall, WayStands, Permitting
<1>2. OneOutcome'
  <2>1. ASSUME breaks = 0, "allowed" \in journal' PROVE journal' \cap Terminals = {state} /\ state \in Terminals
    <3>1. journal \cap Terminals = {}
      BY <1>f, <2>1, EnteredSoFar DEF EnteredStands, EnteredOnWay, Ended
    <3>2. state # "blocked"
      BY <1>f, <2>1 DEF EnteredStands, EnteredOnWay
    <3> QED
      BY <3>1, <3>2 DEF Terminals, JournalStates
  <2> QED
    BY <2>1 DEF OneOutcome
<1>3. breaks' \in Nat /\ journal' \subseteq JournalStates
  BY <1>f DEF BrokerTypes
<1>4. ask'.at \in Ended /\ ask'.at # "closing" /\ ask.at # "idle"
  BY DEF Ended
<1>5. (ask'.traced <=> ask.traced) /\ (ask'.started <=> ask.started)
  BY DEF SameTrace
<1> QED
  BY <1>1, <1>2, <1>3, <1>4, <1>5, RequestEnds

\* The world moves on under the request: the turn is registered before there is one.
LEMMA WorldMoves ==
  ASSUME BrokerInv, UNCHANGED <<ask, journal, breaks>>, BrokerTypes', TurnStands',
         facts' \subseteq facts \/ ask.at = "idle",
         Len(policies') >= Len(policies), \A r \in 1..Len(policies) : policies'[r] = policies[r]
  PROVE  BrokerInv'
<1>f. BrokerTypes /\ EnteredStands /\ WayStands /\ DecisionStands /\ AudienceStands /\ Revision \in Nat
  BY DEF BrokerInv, BrokerTypes, Revision
<1>1. EnteredStands'
  BY <1>f DEF EnteredStands, EnteredOnWay, JournalAgrees, OneOutcome
<1>2. WayStands'
  BY <1>f DEF WayStands
<1>3. DecisionStands'
  <2>1. Revision <= Revision' /\ Revision' \in Nat
    BY <1>f DEF Revision, BrokerTypes
  <2>2. ask.decided \in 1..Revision => (Denied(ask.kind, ask.decided)' <=> Denied(ask.kind, ask.decided))
    BY DEF Denied, Revision
  <2>3. ask.decided \in 1..Revision => ask.decided \in 1..Revision'
    BY <1>f, <2>1
  <2>4. ask.preparedUnder \in Nat
    BY <1>f DEF BrokerTypes, AskRow
  <2> QED
    BY <1>f, <2>1, <2>2, <2>3, <2>4 DEF DecisionStands, PolicyKept, Readying
<1>4. AudienceStands'
  <2>1. CASE ask.at = "idle"
    BY <1>f, <2>1 DEF AudienceStands, WayStands, Asking
  <2>2. CASE facts' \subseteq facts
    BY <1>f, <2>2 DEF AudienceStands, AudienceHolds, BrokerTypes
  <2> QED
    BY <2>1, <2>2
<1> QED
  BY <1>1, <1>2, <1>3, <1>4 DEF BrokerInv

LEMMA Registering ==
  ASSUME BrokerInv, NEW c \in Admitter, RegisterLook(c) \/ RegisterInsert(c) \/ RegisterConfirm(c)
  PROVE  BrokerInv'
<1>f. BrokerTypes /\ TurnStands /\ UNCHANGED <<ask, journal, breaks, policies>>
  BY DEF BrokerInv, RegisterLook, RegisterInsert, RegisterConfirm
<1>1. /\ UNCHANGED <<facts, turnOf>>
         \/ (turnOf = NoTurn /\ turnOf' = ProfileOf[c] /\ facts' = facts \cup {"turn"})
      /\ \E a \in {"looked", "inserted", "admitted", "refused"} :
           /\ admission' = [admission EXCEPT ![c] = a]
           /\ a = "inserted" => turnOf' = ProfileOf[c]
           /\ a = "admitted" => admission[c] = "inserted" /\ turnOf' = turnOf
  <2>1. CASE RegisterLook(c)
    BY <2>1 DEF RegisterLook
  <2>2. CASE RegisterInsert(c)
    BY <2>2 DEF RegisterInsert
  <2>3. CASE RegisterConfirm(c)
    BY <2>3 DEF RegisterConfirm
  <2> QED
    BY <2>1, <2>2, <2>3
<1>2. BrokerTypes'
  BY <1>f, <1>1 DEF BrokerTypes
<1>3. \A d \in Admitter : ProfileOf[d] # NoTurn
  BY BrokerAssumption
<1>4. TurnStands'
  BY <1>f, <1>1, <1>3 DEF TurnStands, BrokerTypes
<1>5. facts' \subseteq facts \/ ask.at = "idle"
  BY <1>f, <1>1 DEF TurnStands
<1> QED
  BY <1>f, <1>2, <1>4, <1>5, WorldMoves DEF BrokerTypes

LEMMA Lapsing == ASSUME BrokerInv, NEW fact \in facts, Lapse(fact) PROVE BrokerInv'
<1>f. BrokerTypes /\ TurnStands
  BY DEF BrokerInv
<1>1. facts' \subseteq facts /\ UNCHANGED <<turnOf, admission, policies, ask, journal, breaks>>
  BY DEF Lapse
<1>2. BrokerTypes' /\ TurnStands'
  BY <1>f, <1>1 DEF BrokerTypes, TurnStands
<1> QED
  BY <1>f, <1>1, <1>2, WorldMoves DEF BrokerTypes

LEMMA PolicyChanges == ASSUME BrokerInv, NEW denied \in Deniable, ChangePolicy(denied) PROVE BrokerInv'
<1>f. BrokerTypes /\ TurnStands /\ denied \in SUBSET AskKinds
  BY DEF BrokerInv, Deniable
<1>1. policies' = Append(policies, denied) /\ UNCHANGED <<facts, turnOf, admission, ask, journal, breaks>>
  BY DEF ChangePolicy
<1>2. policies \in Seq(SUBSET AskKinds) /\ Len(policies) > 0
  BY <1>f DEF BrokerTypes
<1>3. /\ policies' \in Seq(SUBSET AskKinds) /\ Len(policies') = Len(policies) + 1
      /\ \A r \in 1..Len(policies) : policies'[r] = policies[r]
  BY <1>f, <1>1, <1>2, AppendProperties
<1>4. Len(policies) \in Nat
  BY <1>2
<1>5. BrokerTypes' /\ TurnStands'
  BY <1>f, <1>1, <1>3, <1>4 DEF BrokerTypes, TurnStands
<1> QED
  BY <1>1, <1>3, <1>4, <1>5, WorldMoves

\* The request goes on: of its journal no outcome is to be accounted for.
LEMMA RequestMoves ==
  ASSUME BrokerInv, turnOf # NoTurn, UNCHANGED <<world, breaks>>, ask' \in AskRow, ask'.at \notin Ended,
         journal' \in {journal, journal \cup {"proposed"}, journal \cup {"allowed"}, journal \cup {"started"}},
         EnteredOnWay', WayStands', DecisionStands', AudienceStands'
  PROVE  BrokerInv'
<1>f. BrokerTypes /\ TurnStands
  BY DEF BrokerInv
<1>1. BrokerTypes' /\ TurnStands'
  BY <1>f DEF BrokerTypes, TurnStands, JournalStates, world
<1>2. ask'.at \in AskPlaces
  BY DEF AskRow
<1>3. JournalAgrees'
  <2>1. CASE ask'.at \in Asking \cup Permitting \cup Readying
    BY <2>1 DEF EnteredOnWay, WayStands, JournalAgrees, Asking, Permitting, Readying
  <2>2. CASE ask'.at \in {"calling"} \cup Answering
    BY <2>2 DEF EnteredOnWay, JournalAgrees
  <2> QED
    BY <1>2, <2>1, <2>2 DEF AskPlaces
<1>4. EnteredStands'
  BY <1>3 DEF EnteredStands, OneOutcome, Ended
<1> QED
  BY <1>1, <1>4 DEF BrokerInv

\* The moves that leave the row of the request but its place and its look, and its journal.
LEMMA PlaceMoves ==
  ASSUME BrokerInv, ask.at # "idle", ask.at \notin Ended, UNCHANGED <<world, breaks, journal>>,
         ask' \in AskRow, SameCall, SameAnswer, SameTrace, AudienceStands',
         \/ ask'.at = ask.at
         \/ ask.at = "binding" /\ ask.kind # "relay" /\ ask'.at = "deciding"
         \/ ask.at = "binding" /\ ask.kind = "relay" /\ ask'.at = "calling"
         \/ ask.at = "recheck" /\ ask'.at = "reconsider"
         \/ ask.at = "reconsider" /\ Stands /\ ask'.at = "starting"
         \/ ask.at \in {"opening", "checking", "streaming"} /\ ask'.at \in {"streaming", "giving", "checking"}
  PROVE  BrokerInv'
<1>f. /\ BrokerTypes /\ TurnStands /\ EnteredOnWay /\ WayStands /\ DecisionStands
      /\ UNCHANGED <<facts, turnOf, admission, policies>> /\ ask \in AskRow /\ Revision \in Nat
  BY DEF BrokerInv, BrokerTypes, EnteredStands, world, Revision
<1>1. turnOf # NoTurn /\ ask'.at \notin Ended
  BY <1>f DEF TurnStands, Ended
<1>2. EnteredOnWay'
  BY <1>f DEF EnteredOnWay, SameCall, Asking, Permitting, Readying, Answering
<1>3. WayStands'
  BY <1>f DEF WayStands, SameCall, SameAnswer, SameTrace, Asking, Permitting, Readying, Answering
<1>4. DecisionStands'
  <2>1. /\ UNCHANGED Revision /\ ask'.kind = ask.kind /\ ask'.decided = ask.decided
        /\ ask'.preparedUnder = ask.preparedUnder /\ (ask'.called <=> ask.called)
        /\ (Denied(ask.kind, ask.decided)' <=> Denied(ask.kind, ask.decided))
    BY <1>f DEF SameCall, Revision, Denied
  <2>2. ask.decided \in Nat /\ ask.preparedUnder \in Nat
    BY <1>f DEF AskRow
  <2> QED
    BY <1>f, <2>1, <2>2 DEF DecisionStands, PolicyKept, WayStands, Stands, Asking, Permitting, Readying, Answering
<1> QED
  BY <1>f, <1>1, <1>2, <1>3, <1>4, RequestMoves

LEMMA LooksAre ==
  /\ Len(Looks) = 3 /\ \A j \in 1..3 : Looks[j] \in {"epoch", "turn", "run"}
  /\ BrokerTypes /\ ~AudienceHolds => \E j \in 1..3 : Looks[j] \notin facts
BY DEF Looks, BrokerTypes, AudienceHolds

\* A look at the audience, and where all three lead.
LEMMA Looking == ASSUME BrokerInv, Look PROVE BrokerInv'
<1>f. /\ BrokerTypes /\ WayStands /\ AudienceStands /\ ask \in AskRow
      /\ ask.at \in {"binding", "recheck", "opening", "checking"}
  BY DEF BrokerInv, BrokerTypes, Look, AfterLooks
<1>1. ask.at # "idle" /\ ask.at \notin Ended /\ ask.look \in 1..3
  BY <1>f DEF Ended, AskRow
<1>2. CASE Looks[ask.look] \notin facts
  BY <1>1, <1>2, ThrownOut DEF Look
<1>3. CASE Looks[ask.look] \in facts /\ ask.look # 3
  <2>1. ask' = [ask EXCEPT !.look = @ + 1] /\ UNCHANGED <<world, journal, breaks>>
    BY <1>3, LooksAre DEF Look
  <2>2. ask' \in AskRow /\ ask'.at = ask.at /\ ask'.look = ask.look + 1 /\ SameCall /\ SameAnswer /\ SameTrace
    BY <1>f, <1>1, <1>3, <2>1 DEF AskRow, SameCall, SameAnswer, SameTrace
  <2>3. \A j \in ask.look..3 : Looks[j] \notin facts => j \in (ask.look + 1)..3
    BY <1>1, <1>3
  <2>4. AudienceStands'
    BY <1>f, <1>1, <2>1, <2>2, <2>3 DEF AudienceStands, AudienceHolds, SameCall, world
  <2> QED
    BY <1>1, <2>1, <2>2, <2>4, PlaceMoves
<1>4. CASE Looks[ask.look] \in facts /\ ask.look = 3
  <2>1. /\ ask' = [ask EXCEPT !.at = AfterLooks[ask.at], !.look = 1] /\ UNCHANGED <<world, journal, breaks>>
    BY <1>4, LooksAre DEF Look, Goes
  <2>2. PICK to : to = AfterLooks[ask.at]
    OBVIOUS
  <2>3. /\ ask.at = "binding" /\ ask.kind = "relay" => to = "calling"
        /\ ask.at = "binding" /\ ask.kind # "relay" => to = "deciding"
        /\ ask.at = "recheck" => to = "reconsider"
        /\ ask.at = "opening" => to = "streaming"
        /\ ask.at = "checking" => to = "giving"
    BY <2>2 DEF AfterLooks
  <2>4. to \in {"calling", "deciding", "reconsider", "streaming", "giving"}
    <3>1. ask.at \in {"binding", "recheck", "opening", "checking"}
      BY <1>f
    <3> QED
      BY <2>3, <3>1
  <2>5. ask' \in AskRow /\ ask'.at = to /\ SameCall /\ SameAnswer /\ SameTrace
    <3>1. ask' = [ask EXCEPT !.at = to, !.look = 1]
      BY <2>1, <2>2
    <3>2. to \in AskPlaces
      BY <2>4 DEF AskPlaces, Asking, Readying, Answering
    <3>3. 1 \in 1..3
      OBVIOUS
    <3> QED
      BY <1>f, <3>1, <3>2, <3>3, Zenon DEF AskRow, SameCall, SameAnswer, SameTrace
  <2>6. AudienceStands'
    <3>1. ask.at \in {"opening", "checking"} => ~(\E j \in ask.look..3 : Looks[j] \notin facts)
      BY <1>4
    <3> QED
      BY <1>f, <2>1, <2>3, <2>5, <3>1
         DEF AudienceStands, AudienceHolds, SameCall, world, WayStands, Asking, Readying
  <2>7. \/ ask.at = "binding" /\ ask.kind # "relay" /\ ask'.at = "deciding"
        \/ ask.at = "binding" /\ ask.kind = "relay" /\ ask'.at = "calling"
        \/ ask.at = "recheck" /\ ask'.at = "reconsider"
        \/ ask.at \in {"opening", "checking"} /\ ask'.at \in {"streaming", "giving"}
    <3>1. ask.at \in {"binding", "recheck", "opening", "checking"} /\ ask'.at = to
      BY <1>f, <2>5
    <3> QED
      BY <2>3, <3>1
  <2>8. UNCHANGED <<world, breaks, journal>>
    BY <2>1
  <2> QED
    BY <1>1, <2>5, <2>6, <2>7, <2>8, PlaceMoves
<1> QED
  BY <1>2, <1>3, <1>4

\* The turn's request is taken up: its caller was admitted, so there is a turn.
LEMMA Asks == ASSUME BrokerInv, NEW kind \in AskKinds, Ask(kind) PROVE BrokerInv'
<1>f. /\ BrokerTypes /\ TurnStands /\ EnteredOnWay /\ WayStands /\ DecisionStands /\ Revision \in Nat
      /\ ask.at = "idle" /\ UNCHANGED <<world, journal, breaks>>
  BY DEF BrokerInv, BrokerTypes, EnteredStands, Revision, Ask
<1>1. turnOf # NoTurn
  BY <1>f, BrokerAssumption DEF Ask, TurnStands
<1>2. /\ ask' \in AskRow /\ ask'.at = "binding" /\ ~ask'.traced /\ ~ask'.started
      /\ ~ask'.called /\ ~ask'.calledLate /\ ask'.reply = "none" /\ ask'.given = 0
      /\ ask'.late = 0 /\ ~ask'.whole
  <2>1. PICK n : n = NotAsking
    OBVIOUS
  <2>2. /\ n \in AskRow /\ ~n.traced /\ ~n.started /\ ~n.called /\ ~n.calledLate /\ n.reply = "none"
        /\ n.given = 0 /\ n.late = 0 /\ ~n.whole
    BY <2>1 DEF NotAsking, AskRow, AskPlaces, Asking, AskKinds
  <2>3. ask' = [n EXCEPT !.at = "binding", !.kind = kind]
    BY <2>1 DEF Ask
  <2> QED
    BY <2>2, <2>3 DEF AskRow, AskPlaces, Asking
<1>3. EnteredOnWay'
  BY <1>f, <1>2 DEF EnteredOnWay, Asking, Permitting, Readying, Answering
<1>4. WayStands'
  BY <1>2 DEF WayStands, Asking, Permitting, Readying, Answering
<1>5. DecisionStands'
  BY <1>2 DEF DecisionStands, PolicyKept, Asking, Permitting, Readying, Answering
<1>6. AudienceStands'
  BY <1>2 DEF AudienceStands
<1> QED
  BY <1>f, <1>1, <1>2, <1>3, <1>4, <1>5, <1>6, RequestMoves DEF Ended

\* The audience of a request that was not called is not yet in question.
LEMMA NotYetCalled ==
  ASSUME ~ask'.calledLate, ask'.late = 0, ask'.at # "giving"
  PROVE  AudienceStands'
BY DEF AudienceStands

\* The policy decides, or the payload is forbidden; the payload is prepared.
LEMMA Deciding == ASSUME BrokerInv, Decide \/ Forbidden \/ Prepare PROVE BrokerInv'
<1>f. /\ BrokerTypes /\ TurnStands /\ EnteredOnWay /\ WayStands /\ DecisionStands /\ Revision \in Nat
      /\ Revision > 0 /\ UNCHANGED <<world, journal, breaks>> /\ ask \in AskRow
      /\ ask.at \in {"deciding", "preparing"}
  BY DEF BrokerInv, BrokerTypes, EnteredStands, Revision, Decide, Forbidden, Prepare
<1>1. turnOf # NoTurn /\ ask.decided \in Nat
  BY <1>f DEF TurnStands, AskRow
<1>2. /\ ask' \in AskRow /\ ask'.kind = ask.kind /\ SameAnswer /\ (ask'.started <=> ask.started)
      /\ (ask'.called <=> ask.called) /\ (ask'.calledLate <=> ask.calledLate)
      /\ ask'.given = ask.given /\ ask'.late = ask.late
      /\ \/ /\ ask.at = "deciding" /\ ask'.at = "proposing" /\ ask'.traced /\ ask'.decided = Revision
         \/ /\ ask.at = "deciding" /\ ask'.at = "forbidding" /\ ask.kind = "model.request"
            /\ (ask'.traced <=> ask.traced)
         \/ /\ ask.at = "preparing" /\ ask'.at = "recheck" /\ (ask'.traced <=> ask.traced)
            /\ ask'.decided = ask.decided /\ ask'.preparedUnder = Revision
  <2>1. CASE Decide
    BY <1>f, <2>1 DEF Decide, AskRow, AskPlaces, Asking, SameAnswer
  <2>2. CASE Forbidden
    BY <1>f, <2>2 DEF Forbidden, AskRow, AskPlaces, Asking, SameAnswer
  <2>3. CASE Prepare
    <3>1. 1 \in 1..3
      OBVIOUS
    <3> QED
      BY <1>f, <2>3, <3>1, Zenon DEF Prepare, AskRow, AskPlaces, Readying, SameAnswer
  <2> QED
    BY <2>1, <2>2, <2>3
<1>3. EnteredOnWay'
  BY <1>f, <1>2 DEF EnteredOnWay, Asking, Permitting, Readying, Answering
<1>4. WayStands'
  BY <1>f, <1>2 DEF WayStands, SameAnswer, Asking, Permitting, Readying, Answering
<1>5. ~ask'.called /\ ask'.at \in {"proposing", "forbidding", "recheck"}
  BY <1>f, <1>2 DEF WayStands, Asking, Readying
<1>6. DecisionStands'
  <2>1. UNCHANGED Revision /\ (ask'.decided = ask.decided => (Denied(ask.kind, ask.decided)' <=> Denied(ask.kind, ask.decided)))
    BY <1>f, <1>2 DEF Revision, Denied, world
  <2> QED
    BY <1>f, <1>1, <1>2, <1>5, <2>1 DEF DecisionStands, PolicyKept, Readying
<1>7. AudienceStands'
  BY <1>f, <1>2, <1>5, NotYetCalled DEF WayStands, Asking, Readying
<1> QED
  BY <1>f, <1>1, <1>2, <1>3, <1>4, <1>5, <1>6, <1>7, RequestMoves DEF Ended

\* What is entered before the call: the proposal, what the policy allows, the start.
LEMMA Entering == ASSUME BrokerInv, ProposeEffect \/ Permit \/ RecordStart PROVE BrokerInv'
<1>f. /\ BrokerTypes /\ TurnStands /\ EnteredOnWay /\ WayStands /\ DecisionStands /\ Revision \in Nat
      /\ UNCHANGED world /\ ask \in AskRow
      /\ ask.at \in {"proposing", "forbidding", "permitting", "starting"}
  BY DEF BrokerInv, BrokerTypes, EnteredStands, Revision, ProposeEffect, Permit, RecordStart, Records
<1>1. turnOf # NoTurn /\ ask.at # "idle" /\ ask.at \notin Ended
  BY <1>f DEF TurnStands, Ended
<1>2. PICK state \in {"proposed", "allowed", "started"} :
        /\ \/ /\ journal' = journal \cup {state} /\ UNCHANGED breaks
              /\ \/ state = "proposed" /\ ask.at \in {"proposing", "forbidding"}
                   /\ ask' = [ask EXCEPT !.at = IF ask.traced THEN "permitting" ELSE "blocking"]
                 \/ state = "allowed" /\ ask.at = "permitting" /\ ~Denied(ask.kind, ask.decided)
                   /\ ask' = [ask EXCEPT !.at = IF ask.kind = "model.request" THEN "preparing" ELSE "calling"]
                 \/ state = "started" /\ ask.at = "starting"
                   /\ ask' = [ask EXCEPT !.at = "calling", !.started = TRUE]
           \/ /\ breaks' = breaks + 1 /\ journal' \in {journal, journal \cup {state}} /\ ask' = Caught(ask)
  BY DEF ProposeEffect, Permit, RecordStart, Records
<1>3. CASE breaks' = breaks + 1 /\ journal' \in {journal, journal \cup {state}} /\ ask' = Caught(ask)
  <2>1. state \in JournalStates
    BY <1>2 DEF JournalStates
  <2> QED
    BY <1>f, <1>1, <1>2, <1>3, <2>1, EntryLost
<1>4. CASE /\ journal' = journal \cup {state} /\ UNCHANGED breaks
           /\ \/ state = "proposed" /\ ask.at \in {"proposing", "forbidding"}
                /\ ask' = [ask EXCEPT !.at = IF ask.traced THEN "permitting" ELSE "blocking"]
              \/ state = "allowed" /\ ask.at = "permitting" /\ ~Denied(ask.kind, ask.decided)
                /\ ask' = [ask EXCEPT !.at = IF ask.kind = "model.request" THEN "preparing" ELSE "calling"]
              \/ state = "started" /\ ask.at = "starting"
                /\ ask' = [ask EXCEPT !.at = "calling", !.started = TRUE]
  <2>1. /\ ask' \in AskRow /\ SameCall /\ SameAnswer /\ (ask'.traced <=> ask.traced)
        /\ \/ /\ state = "proposed" /\ ask.at \in {"proposing", "forbidding"}
              /\ ask'.at = (IF ask.traced THEN "permitting" ELSE "blocking") /\ (ask'.started <=> ask.started)
           \/ /\ state = "allowed" /\ ask.at = "permitting" /\ ~Denied(ask.kind, ask.decided)
              /\ ask'.at = (IF ask.kind = "model.request" THEN "preparing" ELSE "calling")
              /\ (ask'.started <=> ask.started)
           \/ /\ state = "started" /\ ask.at = "starting" /\ ask'.at = "calling" /\ ask'.started
    BY <1>f, <1>4, ZenonT(60) DEF AskRow, AskPlaces, Permitting, Readying, SameCall, SameAnswer
  <2>2. /\ ask'.at \in {"permitting", "blocking", "preparing", "calling"}
        /\ (ask.traced <=> ask.at # "forbidding") /\ ~ask.called /\ ~ask.started /\ ~ask.calledLate
        /\ ask.late = 0 /\ ask.kind \in AskKinds
    BY <1>f, <2>1 DEF WayStands, Asking, Permitting, Readying, AskRow
  <2>3. EnteredOnWay'
    BY <1>f, <1>4, <2>1, <2>2 DEF EnteredOnWay, WayStands, SameCall, AskKinds, Asking, Permitting, Readying, Answering
  <2>4. WayStands'
    BY <1>f, <2>1, <2>2 DEF WayStands, SameCall, SameAnswer, Asking, Permitting, Readying, Answering
  <2>5. DecisionStands'
    <3>1. UNCHANGED Revision /\ (Denied(ask.kind, ask.decided)' <=> Denied(ask.kind, ask.decided))
      BY <1>f, <2>1 DEF Revision, Denied, world, SameCall
    <3> QED
      BY <1>f, <2>1, <2>2, <3>1 DEF DecisionStands, PolicyKept, SameCall, Readying, WayStands
  <2>6. AudienceStands'
    BY <2>1, <2>2, NotYetCalled DEF SameCall
  <2> QED
    BY <1>f, <1>1, <1>2, <1>4, <2>1, <2>2, <2>3, <2>4, <2>5, <2>6, RequestMoves DEF Ended
<1> QED
  BY <1>2, <1>3, <1>4

LEMMA GoesOn ==
  ASSUME ask \in AskRow, NEW to \in AskPlaces, Goes(to)
  PROVE  /\ ask' \in AskRow /\ ask'.at = to /\ ask'.look = 1 /\ SameCall /\ SameAnswer /\ SameTrace
         /\ UNCHANGED <<world, journal, breaks>>
<1>1. 1 \in 1..3
  OBVIOUS
<1> QED
  BY <1>1, Zenon DEF Goes, AskRow, SameCall, SameAnswer, SameTrace

\* The attempt is considered once more; a part of the answer has come.
LEMMA Considering == ASSUME BrokerInv, Reconsider \/ PartArrives PROVE BrokerInv'
<1>f. BrokerTypes /\ WayStands /\ AudienceStands /\ ask \in AskRow
  BY DEF BrokerInv, BrokerTypes
<1>1. CASE Reconsider /\ Stands
  <2>1. ask.at = "reconsider" /\ Goes("starting") /\ "starting" \in AskPlaces
    BY <1>1 DEF Reconsider, AskPlaces, Readying
  <2>2. /\ ask' \in AskRow /\ ask'.at = "starting" /\ SameCall /\ SameAnswer /\ SameTrace
        /\ UNCHANGED <<world, journal, breaks>>
    BY <1>f, <2>1, GoesOn
  <2>3. AudienceStands'
    BY <1>f, <2>1, <2>2, NotYetCalled DEF WayStands, Readying, SameCall
  <2>4. ask.at # "idle" /\ ask.at \notin Ended
    BY <2>1 DEF Ended
  <2> QED
    BY <1>1, <2>1, <2>2, <2>3, <2>4, PlaceMoves
<1>2. CASE Reconsider /\ ~Stands
  BY <1>2, ThrownOut DEF Reconsider, Ended
<1>3. CASE PartArrives
  <2>1. ask.at = "streaming" /\ Goes("checking") /\ "checking" \in AskPlaces
    BY <1>3 DEF PartArrives, AskPlaces, Answering
  <2>2. /\ ask' \in AskRow /\ ask'.at = "checking" /\ ask'.look = 1 /\ SameCall /\ SameAnswer /\ SameTrace
        /\ UNCHANGED <<world, journal, breaks>>
    BY <1>f, <2>1, GoesOn
  <2>3. AudienceStands'
    BY <1>f, <2>1, <2>2, LooksAre DEF AudienceStands, AudienceHolds, SameCall, world
  <2>4. ask.at # "idle" /\ ask.at \notin Ended
    BY <2>1 DEF Ended
  <2> QED
    BY <2>1, <2>2, <2>3, <2>4, PlaceMoves
<1> QED
  BY <1>1, <1>2, <1>3 DEF Reconsider

\* The call goes out; the answer begins, is given part by part, and ends.
Onward ==
  \/ /\ ask.at = "calling" /\ ask'.at = "awaiting" /\ ask'.called /\ (ask'.calledLate <=> ~AudienceHolds)
     /\ SameAnswer /\ ask'.given = ask.given /\ ask'.late = ask.late
  \/ /\ ask.at = "awaiting" /\ ask'.at = "opening" /\ ask'.look = 1 /\ ask'.reply = "ok"
     /\ SameCall /\ (ask'.whole <=> ask.whole)
  \/ /\ ask.at = "giving" /\ ask'.at = "streaming" /\ SameAnswer /\ (ask'.called <=> ask.called)
     /\ (ask'.calledLate <=> ask.calledLate) /\ ask'.given = ask.given + 1
     /\ ask'.late = IF AudienceHolds THEN ask.late ELSE ask.late + 1
  \/ /\ ask.at = "streaming" /\ ask.traced /\ ask'.at = "completing" /\ ask'.whole
     /\ SameCall /\ ask'.reply = ask.reply

LEMMA GoingOnward ==
  ASSUME BrokerInv, UNCHANGED <<world, journal, breaks>>, ask' \in AskRow, Onward, SameTrace,
         ask'.kind = ask.kind, ask'.decided = ask.decided, ask'.preparedUnder = ask.preparedUnder
  PROVE  BrokerInv'
<1>f. /\ BrokerTypes /\ TurnStands /\ EnteredOnWay /\ WayStands /\ DecisionStands /\ AudienceStands
      /\ ask \in AskRow
  BY DEF BrokerInv, BrokerTypes, EnteredStands
<1>1. /\ ask.at \in {"calling", "awaiting", "giving", "streaming"} /\ turnOf # NoTurn
      /\ ask'.at \in {"awaiting", "opening", "streaming", "completing"}
      /\ ask'.at \notin Ended
  BY <1>f DEF Onward, TurnStands, Ended
<1>2. EnteredOnWay'
  BY <1>f, <1>1 DEF EnteredOnWay, Asking, Permitting, Readying, Answering
<1>3. WayStands'
  BY <1>f, <1>1 DEF WayStands, Onward, SameCall, SameAnswer, SameTrace, Asking, Permitting, Readying, Answering
<1>4. DecisionStands'
  <2>1. /\ UNCHANGED Revision /\ (Denied(ask.kind, ask.decided)' <=> Denied(ask.kind, ask.decided))
        /\ ask.at = "calling" \/ ask.called
    BY <1>f, <1>1 DEF Revision, Denied, world, WayStands, Answering
  <2> QED
    BY <1>f, <1>1, <2>1 DEF DecisionStands, PolicyKept, Readying
<1>5. AudienceStands'
  <2>1. UNCHANGED facts /\ ask.late \in Nat /\ ask.given \in Nat
    BY <1>f DEF world, AskRow
  <2>2. ask.at = "calling" => ask.given = 0 /\ ask.late = 0
    BY <1>f DEF WayStands
  <2> QED
    BY <1>f, <2>1, <2>2, LooksAre DEF AudienceStands, AudienceHolds, Onward, SameCall
<1> QED
  BY <1>1, <1>2, <1>3, <1>4, <1>5, RequestMoves

LEMMA AnswerGoesOn ==
  ASSUME BrokerInv, Call \/ BeginAnswer \/ Give \/ (EndOfAnswer /\ ask.traced)
  PROVE  BrokerInv'
<1>f. ask \in AskRow /\ UNCHANGED <<world, journal, breaks>> /\ 1 \in 1..3
  BY DEF BrokerInv, BrokerTypes, Call, BeginAnswer, Give, EndOfAnswer
<1>1. /\ ask' \in AskRow /\ Onward /\ SameTrace
      /\ ask'.kind = ask.kind /\ ask'.decided = ask.decided /\ ask'.preparedUnder = ask.preparedUnder
  <2>1. CASE Call
    BY <1>f, <2>1 DEF Call, Onward, AskRow, AskPlaces, Answering, SameAnswer, SameTrace
  <2>2. CASE BeginAnswer
    BY <1>f, <2>2, Zenon DEF BeginAnswer, Onward, AskRow, AskPlaces, Answering, SameCall, SameTrace
  <2>3. CASE Give
    <3>1. PICK given \in Nat, late \in Nat :
            given = ask.given + 1 /\ late = IF AudienceHolds THEN ask.late ELSE ask.late + 1
      BY <1>f DEF AskRow
    <3>2. ask.at = "giving" /\ ask' = [ask EXCEPT !.at = "streaming", !.given = given, !.late = late]
      BY <2>3, <3>1 DEF Give
    <3>3. /\ ask' \in AskRow /\ ask'.at = "streaming" /\ SameAnswer /\ SameTrace
          /\ (ask'.called <=> ask.called) /\ (ask'.calledLate <=> ask.calledLate)
          /\ ask'.given = given /\ ask'.late = late
          /\ ask'.kind = ask.kind /\ ask'.decided = ask.decided /\ ask'.preparedUnder = ask.preparedUnder
      BY <1>f, <3>1, <3>2, Zenon DEF AskRow, AskPlaces, Answering, SameAnswer, SameTrace
    <3> QED
      BY <3>1, <3>2, <3>3 DEF Onward
  <2>4. CASE EndOfAnswer /\ ask.traced
    BY <1>f, <2>4 DEF EndOfAnswer, Onward, AskRow, AskPlaces, Answering, SameCall, SameTrace
  <2> QED
    BY <2>1, <2>2, <2>3, <2>4
<1> QED
  BY <1>f, <1>1, GoingOnward

\* A relay's answer ends: of it nothing was entered.
LEMMA RelayEnds == ASSUME BrokerInv, EndOfAnswer, ~ask.traced PROVE BrokerInv'
<1>f. /\ BrokerTypes /\ JournalAgrees /\ ask \in AskRow /\ UNCHANGED <<world, journal, breaks>>
      /\ ask.at = "streaming" /\ ask.at # "idle" /\ ask.at \notin Ended
  BY DEF BrokerInv, BrokerTypes, EnteredStands, EndOfAnswer, Ended
<1>1. /\ ask' \in AskRow /\ ask'.at = "over" /\ SameCall /\ SameTrace /\ ask'.reply = ask.reply
      /\ ask'.whole
  BY <1>f DEF EndOfAnswer, AskRow, AskPlaces, Ended, SameCall, SameTrace
<1>2. JournalAgrees' /\ OneOutcome'
  BY <1>f, <1>1, EnteredSoFar DEF JournalAgrees, OneOutcome, SameCall
<1>3. ask'.at \in Ended /\ ask'.at # "closing" /\ journal' \subseteq JournalStates /\ breaks' \in Nat
  BY <1>f, <1>1 DEF Ended, BrokerTypes
<1>4. (ask'.traced <=> ask.traced) /\ (ask'.started <=> ask.started)
  BY <1>1 DEF SameTrace
<1> QED
  BY <1>f, <1>1, <1>2, <1>3, <1>4, RequestEnds

\* What is blocked, what is completed.
LEMMA Outcomes == ASSUME BrokerInv, Block \/ Complete PROVE BrokerInv'
<1>f. ask \in AskRow /\ WayStands /\ UNCHANGED world
  BY DEF BrokerInv, BrokerTypes, Block, Complete, Records
<1>1. PICK state \in {"blocked", "completed"} :
        /\ state = "blocked" => ask.at \in Permitting
        /\ state = "completed" => ask.at = "completing"
        /\ \/ journal' = journal \cup {state} /\ UNCHANGED breaks /\ ask' = [ask EXCEPT !.at = "over"]
           \/ /\ breaks' = breaks + 1 /\ journal' \in {journal, journal \cup {state}} /\ ask' = Caught(ask)
  <2>1. CASE Block
    <3>1. ask.at \in Permitting
      BY <2>1 DEF Block, Permitting
    <3> QED
      BY <2>1, <3>1 DEF Block, Records
  <2>2. CASE Complete
    BY <2>2 DEF Complete, Records
  <2> QED
    BY <2>1, <2>2
<1>2. /\ ask.at # "idle" /\ ask.at \notin Ended /\ state \in JournalStates
      /\ state = "blocked" => ~ask.called
      /\ state = "completed" => ask.whole
  BY <1>f, <1>1 DEF Permitting, Ended, JournalStates, Terminals, WayStands
<1>3. CASE breaks' = breaks + 1 /\ journal' \in {journal, journal \cup {state}} /\ ask' = Caught(ask)
  BY <1>f, <1>1, <1>2, <1>3, EntryLost
<1>4. CASE journal' = journal \cup {state} /\ UNCHANGED breaks /\ ask' = [ask EXCEPT !.at = "over"]
  <2>1. ask' \in AskRow /\ ask'.at = "over" /\ SameCall /\ SameTrace /\ SameAnswer
    BY <1>f, <1>4 DEF AskRow, AskPlaces, Ended, SameCall, SameTrace, SameAnswer
  <2>2. ask'.reply \in {ask.reply, "refused"} /\ (ask'.whole <=> ask.whole)
    BY <2>1 DEF SameAnswer
  <2>3. ask.at \notin {"idle", "over", "gone"} /\ ask.at # "closing"
    BY <1>2 DEF Ended
  <2> QED
    BY <1>f, <1>1, <1>2, <1>4, <2>1, <2>2, <2>3, OutcomeEntered
<1> QED
  BY <1>1, <1>3, <1>4

\* The catch closes the effect, or its entry is lost and the request is over all the same.
LEMMA Closing == ASSUME BrokerInv, Close PROVE BrokerInv'
<1>f. /\ BrokerTypes /\ ask \in AskRow /\ WayStands /\ JournalAgrees /\ UNCHANGED world /\ ask.at = "closing"
      /\ breaks \in Nat
  BY DEF BrokerInv, BrokerTypes, EnteredStands, Close, Records
<1>1. PICK state : state = Unanswered
  OBVIOUS
<1>2. /\ ask' = [ask EXCEPT !.at = "over"]
      /\ \/ journal' = journal \cup {state} /\ UNCHANGED breaks
         \/ breaks' = breaks + 1 /\ journal' \in {journal, journal \cup {state}}
  BY <1>1 DEF Close, Records
<1>3. ask' \in AskRow /\ ask'.at = "over" /\ SameCall /\ SameTrace /\ SameAnswer
  BY <1>f, <1>2 DEF AskRow, AskPlaces, Ended, SameCall, SameTrace, SameAnswer
<1>4. /\ state \in {"failed", "ambiguous"} /\ state \in JournalStates
      /\ state = "failed" => (ask.kind = "model.request" => ask.reply # "ok")
  BY <1>f, <1>1 DEF Unanswered, WayStands, JournalStates, Terminals
<1>5. /\ ask'.reply \in {ask.reply, "refused"} /\ ask'.reply = ask.reply /\ (ask'.whole <=> ask.whole)
      /\ (ask'.traced <=> ask.traced) /\ (ask'.started <=> ask.started)
  BY <1>3 DEF SameAnswer, SameTrace
<1>6. CASE journal' = journal \cup {state} /\ UNCHANGED breaks
  BY <1>f, <1>3, <1>4, <1>5, <1>6, OutcomeEntered
<1>7. CASE breaks' = breaks + 1 /\ journal' \in {journal, journal \cup {state}}
  <2>1. breaks' \in Nat /\ breaks' # 0 /\ journal' \subseteq JournalStates
    BY <1>f, <1>4, <1>7 DEF BrokerTypes
  <2>2. JournalAgrees' /\ OneOutcome'
    BY <1>f, <1>3, <1>4, <1>5, <1>7, <2>1 DEF JournalAgrees, OneOutcome, SameCall
  <2>3. ask'.at \in Ended /\ ask'.at # "closing"
    BY <1>3 DEF Ended
  <2> QED
    BY <1>f, <1>3, <1>5, <2>1, <2>2, <2>3, RequestEnds
<1> QED
  BY <1>2, <1>6, <1>7

\* The provider's refusal closes the effect; another is thrown.
LEMMA Refusing == ASSUME BrokerInv, Refuse PROVE BrokerInv'
<1>f. /\ BrokerTypes /\ ask \in AskRow /\ WayStands /\ JournalAgrees /\ EnteredOnWay /\ UNCHANGED world
      /\ ask.at = "awaiting" /\ ask.at # "idle" /\ ask.at \notin Ended /\ breaks \in Nat
      /\ ask.at # "closing"
  BY DEF BrokerInv, BrokerTypes, EnteredStands, Refuse, Records, Ended
<1>1. PICK refused : refused = [ask EXCEPT !.reply = "refused"]
  OBVIOUS
<1>2. /\ refused \in AskRow /\ refused.reply = "refused" /\ refused.kind = ask.kind
      /\ refused.decided = ask.decided /\ refused.preparedUnder = ask.preparedUnder
      /\ (refused.called <=> ask.called) /\ (refused.calledLate <=> ask.calledLate)
      /\ refused.given = ask.given /\ refused.late = ask.late /\ (refused.whole <=> ask.whole)
      /\ (refused.traced <=> ask.traced) /\ (refused.started <=> ask.started)
  BY <1>f, <1>1 DEF AskRow
<1>3. \/ /\ ask.kind = "model.request" /\ ask' = [refused EXCEPT !.at = "over"]
         /\ journal' = journal \cup {"failed"} /\ UNCHANGED breaks
      \/ /\ ask.kind = "model.request" /\ ask' = Caught(refused) /\ breaks' = breaks + 1
         /\ journal' \in {journal, journal \cup {"failed"}}
      \/ /\ ask.kind # "model.request" /\ ask' = Caught(refused) /\ UNCHANGED <<journal, breaks>>
  BY <1>1 DEF Refuse, Records
<1>4. PICK to \in {"closing", "over"} :
        /\ ask' = [refused EXCEPT !.at = to]
        /\ to = "closing" => ask.traced
        /\ \/ /\ ask.kind = "model.request" /\ to = "over"
              /\ journal' = journal \cup {"failed"} /\ UNCHANGED breaks
           \/ /\ ask.kind = "model.request" /\ breaks' = breaks + 1 /\ to = (IF ask.traced THEN "closing" ELSE "over")
              /\ journal' \in {journal, journal \cup {"failed"}}
           \/ /\ ask.kind # "model.request" /\ to = (IF ask.traced THEN "closing" ELSE "over")
              /\ UNCHANGED <<journal, breaks>>
  BY <1>2, <1>3 DEF Caught
<1>5. /\ ask' \in AskRow /\ ask'.at = to /\ SameCall /\ SameTrace /\ ask'.reply = "refused"
      /\ (ask'.whole <=> ask.whole)
  BY <1>2, <1>4 DEF AskRow, AskPlaces, Ended, SameCall, SameTrace
<1>6. CASE ask.kind = "model.request" /\ to = "over" /\ journal' = journal \cup {"failed"} /\ UNCHANGED breaks
  <2>1. "failed" \in JournalStates
    BY DEF JournalStates, Terminals
  <2> QED
    BY <1>f, <1>5, <1>6, <2>1, OutcomeEntered DEF Ended
<1>7. CASE ~(ask.kind = "model.request" /\ to = "over" /\ journal' = journal \cup {"failed"} /\ UNCHANGED breaks)
  <2>1. /\ breaks' \in Nat /\ journal' \in {journal, journal \cup {"failed"}}
        /\ ask.kind # "model.request" => journal' = journal
        /\ breaks' = 0 => journal' = journal
    BY <1>f, <1>4, <1>7
  <2>2. JournalAgrees'
    BY <1>f, <1>5, <2>1 DEF JournalAgrees, SameCall
  <2>3. journal \cap Terminals = {} /\ (~ask.traced => "allowed" \notin journal)
    BY <1>f, EnteredSoFar
  <2>4. ask'.at = "over" => ~ask.traced
    BY <1>4, <1>5, <1>7
  <2>5. OneOutcome'
    BY <2>1, <2>3, <2>4 DEF OneOutcome
  <2>6. journal' \subseteq JournalStates
    BY <1>f, <2>1 DEF BrokerTypes, JournalStates, Terminals
  <2>7. /\ ask'.at \in Ended /\ ask'.reply \in {ask.reply, "refused"}
        /\ (ask'.traced <=> ask.traced) /\ (ask'.started <=> ask.started)
        /\ ask'.at = "closing" => ask.traced
        /\ breaks' = 0 /\ ask'.at = "closing" => journal' \cap Terminals = {}
    BY <1>4, <1>5, <2>1, <2>3 DEF Ended, SameTrace
  <2> QED
    BY <1>f, <1>5, <2>1, <2>2, <2>5, <2>6, <2>7, RequestEnds
<1> QED
  BY <1>6, <1>7

LEMMA BrokerStep == ASSUME BrokerInv, BrokerNext PROVE BrokerInv'
<1>1. CASE \E c \in Admitter : RegisterLook(c) \/ RegisterInsert(c) \/ RegisterConfirm(c)
  BY <1>1, Registering
<1>2. CASE \E fact \in facts : Lapse(fact)
  BY <1>2, Lapsing
<1>3. CASE \E denied \in Deniable : ChangePolicy(denied)
  BY <1>3, PolicyChanges
<1>4. CASE \E kind \in AskKinds : Ask(kind)
  BY <1>4, Asks
<1>5. CASE SpaceDenied \/ Broken \/ BrokerStops
  BY <1>5, GivingUp
<1>6. CASE Look
  BY <1>6, Looking
<1>7. CASE Decide \/ Forbidden \/ Prepare
  BY <1>7, Deciding
<1>8. CASE ProposeEffect \/ Permit \/ RecordStart
  BY <1>8, Entering
<1>9. CASE Reconsider \/ PartArrives
  BY <1>9, Considering
<1>10. CASE Call \/ BeginAnswer \/ Give \/ EndOfAnswer
  BY <1>10, AnswerGoesOn, RelayEnds
<1>11. CASE Block \/ Complete
  BY <1>11, Outcomes
<1>12. CASE Refuse \/ Close
  BY <1>12, Refusing, Closing
<1> QED
  BY <1>1, <1>2, <1>3, <1>4, <1>5, <1>6, <1>7, <1>8, <1>9, <1>10, <1>11, <1>12 DEF BrokerNext

BrokerSpec == BrokerInit /\ [][BrokerNext]_BrokerVars

LEMMA BrokerStutters == ASSUME BrokerInv, UNCHANGED BrokerVars PROVE BrokerInv'
<1>f. /\ BrokerTypes /\ TurnStands /\ UNCHANGED <<facts, turnOf, admission, policies, ask, journal, breaks>>
  BY DEF BrokerInv, BrokerVars
<1>1. BrokerTypes' /\ TurnStands'
  BY <1>f DEF BrokerTypes, TurnStands
<1> QED
  BY <1>f, <1>1, WorldMoves DEF BrokerTypes

\* The invariant holds in every state of the broker.
LEMMA BrokerInvariant == BrokerSpec => []BrokerInv
<1>1. BrokerInv /\ [BrokerNext]_BrokerVars => BrokerInv'
  BY BrokerStep, BrokerStutters
<1> QED
  BY <1>1, BrokerStarts, PTL DEF BrokerSpec

LEMMA BrokerKeeps == BrokerInv => BrokerAgrees
<1> SUFFICES ASSUME BrokerInv PROVE BrokerAgrees
  OBVIOUS
<1> QED
  BY DEF BrokerInv, TurnStands, EnteredStands, DecisionStands, AudienceStands, AudienceKept, OneProfile, BrokerAgrees

\* BrokerAgrees: a turn is admitted under one profile, a request's journal tells what was done and
\* one outcome of it, nothing but the part on its way is given to an audience that is gone, and the
\* model is asked under the policy that decided, whatever changes between the steps of broker.ts.
THEOREM BrokerAlwaysAgrees == BrokerSpec => []BrokerAgrees
BY BrokerInvariant, BrokerKeeps, PTL

----------------------------------------------------------------------------
(* The runs TLC checks a small instance of.                                *)

LEMMA DeliveryRun == Spec => DeliverySpec
<1>1. Init => DeliveryInit
  BY DEF Init
<1>2. [Next]_GovernanceVars => [DeliveryNext]_DeliveryVars
  BY DEF Next, GovernanceVars
<1> QED
  BY <1>1, <1>2, PTL DEF Spec, DeliverySpec

LEMMA PreparedRun == Spec => PreparedSpec
<1>1. Init => PreparedInit
  BY DEF Init
<1>2. [Next]_GovernanceVars => [PreparedNext]_PreparedVars
  BY DEF Next, GovernanceVars
<1> QED
  BY <1>1, <1>2, PTL DEF Spec, PreparedSpec

LEMMA BrokerRun == Spec => BrokerSpec
<1>1. Init => BrokerInit
  BY DEF Init
<1>2. [Next]_GovernanceVars => [BrokerNext]_BrokerVars
  BY DEF Next, GovernanceVars
<1> QED
  BY <1>1, <1>2, PTL DEF Spec, BrokerSpec

\* SaidAgrees: what leaves was approved and is said so, what was prepared for an audience is the
\* same for every caller of it, and a turn is given and asks what policy and audience allow.
THEOREM SaidAlwaysAgrees == Spec => []SaidAgrees
<1>1. DeliveryAgrees /\ PreparedAgrees /\ BrokerAgrees => SaidAgrees
  BY DEF SaidAgrees
<1> QED
  BY <1>1, DeliveryRun, PreparedRun, BrokerRun, DeliveryAlwaysAgrees, PreparedAlwaysAgrees, BrokerAlwaysAgrees, PTL
=============================================================================
