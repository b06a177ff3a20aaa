--------------------------- MODULE PreparedContext ---------------------------
(***************************************************************************)
(* Texts are prepared for one audience: a detector finds what must not be  *)
(* said, checkpoints fix what it found, a guarded copy is published, and   *)
(* the answer is allowed to leave through the model proxy.                 *)
(* (src/src/stores/prepared-context.ts, audience.ts, derived.ts, guards.ts)*)
(*                                                                         *)
(* Callers of one process wait for each other in a queue per audience and  *)
(* epoch; processes share only the database.  A text stands for the part   *)
(* of an input that is not known yet, and what the detector finds in it    *)
(* for the text that is left: the text itself if it finds nothing.         *)
(* GuardPublication has the publication of a copy, one step here.          *)
(***************************************************************************)
EXTENDS Integers, Sequences

CONSTANTS
  Asker,       \* calls of prepare
  Process,     \* core processes
  ProcessOf,   \* the process of a call
  RawText,    \* texts, none of them guarded
  SafeText,     \* what is left of a text after a detection that found something
  NoFinding,   \* no checkpoint yet
  MaxMoment    \* bound: guard epochs

ASSUME PreparedAssumption ==
  /\ ProcessOf \in [Asker -> Process] /\ MaxMoment \in Nat
  /\ RawText \cap SafeText = {} /\ NoFinding \notin RawText \cup SafeText

Said == RawText \cup SafeText
Moment == 0..MaxMoment
Key == RawText \X Moment      \* digest of audience, binding and text

VARIABLES
  moment,      \* guard_state.epoch
  allowed,     \* runtime_prepared_values
  detected,    \* checkpoint `context-detection' of each key
  published,   \* guarded copies
  cached,      \* runtime_prepared_inputs
  queue,       \* preparing: who waits and who runs, for each process and epoch
  call,        \* a call under way
  said         \* history: the answers given under the current epoch

PreparedVars == <<moment, allowed, detected, published, cached, queue, call, said>>

NoCall == [at |-> "none", text |-> CHOOSE t \in RawText : TRUE, under |-> 0, finding |-> NoFinding,
           prepared |-> TRUE]

PreparedInit ==
  /\ moment = 0 /\ allowed = {} /\ detected = [k \in Key |-> NoFinding]
  /\ published = [k \in Key |-> NoFinding] /\ cached = {}
  /\ queue = [x \in Process \X Moment |-> <<>>] /\ call = [a \in Asker |-> NoCall] /\ said = {}

KeyOfCall(a) == <<call[a].text, call[a].under>>
QueueOf(a) == queue[<<ProcessOf[a], call[a].under>>]
\* audience.assert.
Asserted(a) == moment = call[a].under
Enters(a, place) == call' = [call EXCEPT ![a].at = place]
Preparations == UNCHANGED <<moment, allowed, detected, published, cached, queue, said>>
\* finally: the queue of its process and epoch lets the next call in; only its first one leaves.
LeaveQueue(a) ==
  /\ queue' = [queue EXCEPT ![<<ProcessOf[a], call[a].under>>] = Tail(@)]
  /\ call' = [call EXCEPT ![a] = NoCall]

----------------------------------------------------------------------------
CallPrepare(a, t) ==
  /\ call[a].at = "none"
  /\ call' = [call EXCEPT ![a] = [NoCall EXCEPT !.at = "queued", !.text = t, !.under = moment]]
  /\ queue' = [queue EXCEPT ![<<ProcessOf[a], moment>>] = Append(@, a)]
  /\ UNCHANGED <<moment, allowed, detected, published, cached, said>>

\* What a call is answered with if it need not detect: a text that is allowed is left as it is,
\* and a cached copy is read again.
Ready(a) == <<call[a].text, call[a].under>> \in allowed \/ KeyOfCall(a) \in cached
EnterPrepare(a) ==
  LET k == KeyOfCall(a)  known == k \in allowed IN
  /\ call[a].at = "queued" /\ Head(QueueOf(a)) = a /\ Asserted(a)
  /\ call' = [call EXCEPT
       ![a].at = IF Ready(a) THEN "answering"
                 ELSE IF detected[k] # NoFinding THEN "publishing" ELSE "detecting",
       ![a].finding = IF known THEN call[a].text
                      ELSE IF k \in cached THEN published[k] ELSE detected[k],
       ![a].prepared = ~known]
  /\ Preparations

\* record: one operation, one content; derivative_identity_conflict.
DetectionConflict(a, f) == detected[KeyOfCall(a)] \notin {NoFinding, f}

\* The detector finds f, and one transaction keeps what was found.
Detect(a, f) ==
  /\ call[a].at = "detecting" /\ Asserted(a)
  /\ IF DetectionConflict(a, f) THEN LeaveQueue(a) /\ UNCHANGED detected
     ELSE /\ call' = [call EXCEPT ![a].at = "publishing", ![a].finding = f]
          /\ detected' = [detected EXCEPT ![KeyOfCall(a)] = IF @ = NoFinding THEN f ELSE @]
          /\ UNCHANGED queue
  /\ UNCHANGED <<moment, allowed, published, cached, said>>
\* guards.prepare leaves a copy that is published as it is.
PublishCopy(a) ==
  /\ call[a].at = "publishing" /\ Enters(a, "reading")
  /\ published' = [published EXCEPT ![KeyOfCall(a)] = IF @ = NoFinding THEN call[a].finding ELSE @]
  /\ UNCHANGED <<moment, allowed, detected, cached, queue, said>>
\* guards.read, under the epoch of the call, and the row that names the copy.
CacheCopy(a) ==
  /\ call[a].at = "reading" /\ Asserted(a) /\ cached' = cached \cup {KeyOfCall(a)}
  /\ call' = [call EXCEPT ![a].at = "answering", ![a].finding = published[KeyOfCall(a)]]
  /\ UNCHANGED <<moment, allowed, detected, published, queue, said>>
\* allow: the last looks at the epoch, and the answer may pass the proxy.
AnswerCall(a) ==
  /\ call[a].at = "answering" /\ Asserted(a)
  /\ said' = said \cup {[key |-> KeyOfCall(a), answer |-> call[a].finding,
                         prepared |-> call[a].prepared]}
  /\ allowed' = allowed \cup {<<call[a].finding, call[a].under>>} /\ LeaveQueue(a)
  /\ UNCHANGED <<moment, detected, published, cached>>
\* A step that fails: the epoch has moved, the detector or a database is away.
FailPrepare(a) ==
  /\ call[a].at # "none" /\ (call[a].at = "queued" => Head(QueueOf(a)) = a)
  /\ LeaveQueue(a) /\ UNCHANGED <<moment, allowed, detected, published, cached, said>>

\* allow, by a trusted caller that says a text as it is.
TrustedAllow(t) ==
  /\ allowed' = allowed \cup {<<t, moment>>}
  /\ UNCHANGED <<moment, detected, published, cached, queue, call, said>>
NextMoment ==
  /\ moment < MaxMoment /\ moment' = moment + 1 /\ said' = {}
  /\ UNCHANGED <<allowed, detected, published, cached, queue, call>>
\* A process stops: its calls and queues are gone, the database is not.
StopProcess(p) ==
  /\ call' = [a \in Asker |-> IF ProcessOf[a] = p THEN NoCall ELSE call[a]]
  /\ queue' = [x \in Process \X Moment |-> IF x[1] = p THEN <<>> ELSE queue[x]]
  /\ UNCHANGED <<moment, allowed, detected, published, cached, said>>

PreparedNext ==
  \/ NextMoment \/ \E p \in Process : StopProcess(p)
  \/ \E t \in RawText : TrustedAllow(t)
  \/ \E a \in Asker :
       \/ EnterPrepare(a) \/ PublishCopy(a) \/ CacheCopy(a) \/ AnswerCall(a) \/ FailPrepare(a)
       \/ \E t \in RawText : CallPrepare(a, t)
       \/ \E f \in SafeText \cup {call[a].text} : Detect(a, f)

PreparedSpec == PreparedInit /\ [][PreparedNext]_PreparedVars

----------------------------------------------------------------------------
\* Everyone who is answered for a text under one epoch and audience is answered the same, over
\* processes, crashes and retries, unless a trusted caller had it allowed as it is.
OneAnswer ==
  \A x, y \in said : x.key = y.key /\ x.prepared /\ y.prepared => x.answer = y.answer
\* ... and the copy it is answered with is the one that the saved detection gives.
CopyIsDetected == \A k \in Key : published[k] \in {NoFinding, detected[k]}
\* A queue that lost nobody: a call that waits is in its queue.
NobodyLost ==
  \A a \in Asker : call[a].at # "none" =>
    \E i \in DOMAIN QueueOf(a) : QueueOf(a)[i] = a
PreparedAgrees == OneAnswer /\ CopyIsDetected /\ NobodyLost
=============================================================================
