---------------------------- MODULE NativeMemory ----------------------------
(***************************************************************************)
(* Long-term memory in Honcho: documents written once each to a session of *)
(* the installation's workspace under a receipt, sessions replaced when    *)
(* what they hold is no longer valid, replaced sessions and workspaces     *)
(* deleted from Honcho, and the workspace's readiness.                     *)
(* (src/src/stores/native-memory.ts, honcho-provenance.ts)                 *)
(*                                                                         *)
(* Writes and deletions hold one advisory lock; a rebuild of a session and *)
(* a fresh start do not.  A call to Honcho may fail, or be handled with    *)
(* its answer lost, but not be handled after the lock is released.         *)
(***************************************************************************)
EXTENDS Integers, FiniteSets

CONSTANTS
  Document,    \* logical identities of guarded writes
  MaxSession,  \* bound: session identities, one after the other
  MaxWorkspace \* bound: workspaces, one for each fresh start

ASSUME MemoryAssumption == MaxSession \in Nat \ {0} /\ MaxWorkspace \in Nat \ {0}

Session == 1..MaxSession
Workspace == 1..MaxWorkspace

VARIABLES
  workspaceNow,  \* workspace_revision of memory_engine_connection
  generation,    \* memory_generations: state and work_revision of each workspace
  sessionIn,     \* memory_sessions: the workspace of each session identity opened so far
  liveSession,   \* ... and the current one, None before the first
  receipt,       \* memory_ingestion_receipts by document and session
  deletion,      \* memory_session_deletions
  retirement,    \* memory_workspace_deletions
  valid,         \* documents whose evidence, consent and dependencies still hold
  remote,        \* Honcho: which sessions exist, and the documents in them
  worker,        \* the holder of the advisory lock: what it does and where it is
  rebuilding,    \* a rebuild between its validation and its commit
  observer       \* an observation of the workspace between its steps

MemoryVars == <<workspaceNow, generation, sessionIn, liveSession, receipt, deletion,
                retirement, valid, remote, worker, rebuilding, observer>>
workspaceRows == <<workspaceNow, generation, retirement>>
sessionRows == <<sessionIn, liveSession, receipt, deletion>>

None == 0
NoReceipt == [state |-> "none", retired |-> FALSE]
Queued == [state |-> "pending", retired |-> FALSE]
Absent == [exists |-> FALSE, holds |-> {}]
Unlocked == [at |-> "free", on |-> None, doc |-> {}]
NoRebuild == [on |-> None, rejected |-> {}]
NoObserver == [at |-> "idle", on |-> None, work |-> 0, ready |-> FALSE]
Opened == [state |-> "building", work |-> 0]
Unopened == [state |-> "none", work |-> 0]

MemoryInit ==
  /\ workspaceNow = 1 /\ generation = [w \in Workspace |-> Unopened]
  /\ sessionIn = [s \in Session |-> None] /\ liveSession = None
  /\ receipt = [x \in Document \X Session |-> NoReceipt]
  /\ deletion = [s \in Session |-> "none"] /\ retirement = [w \in Workspace |-> "none"]
  /\ valid = Document /\ remote = [s \in Session |-> Absent]
  /\ worker = Unlocked /\ rebuilding = NoRebuild /\ observer = NoObserver

Live(d, s) == receipt[<<d, s>>] # NoReceipt /\ ~receipt[<<d, s>>].retired
NextSession == Cardinality({s \in Session : sessionIn[s] # None}) + 1
\* current: only the workspace of this revision is written to or read from.
IsCurrentWorkspace(w) == w = workspaceNow /\ generation[w].state \in {"building", "ready"}

----------------------------------------------------------------------------
(* Documents and the sessions that hold them.                              *)

\* changed: new work marks the workspace as building.
Changed(w) == [generation EXCEPT ![w] = [state |-> "building", work |-> @.work + 1]]

\* queueSource, queueProjection, queueDocument: workspace and session are opened on the way;
\* the receipt is inserted only while the session is still the current one.
QueueDocument(d) ==
  LET w == workspaceNow
      s == IF liveSession = None THEN NextSession ELSE liveSession IN
  /\ d \in valid /\ s \in Session /\ ~Live(d, s)
  /\ generation[w].state # "retired"
  /\ sessionIn' = [sessionIn EXCEPT ![s] = w] /\ liveSession' = s
  /\ receipt' = [receipt EXCEPT ![<<d, s>>] = Queued]
  /\ generation' = Changed(w)
  /\ UNCHANGED <<workspaceNow, retirement, deletion, valid, remote, worker, rebuilding, observer>>

\* Consent withdrawn, a source retired, a dependency or a learned version replaced.
Invalidate(d) ==
  /\ d \in valid /\ valid' = valid \ {d}
  /\ UNCHANGED <<workspaceRows, sessionRows, remote, worker, rebuilding, observer>>

\* sweep after a guard epoch, or changed evidence: the receipts of the session are validated
\* outside the transaction that replaces it.
BeginRebuild ==
  /\ rebuilding = NoRebuild /\ liveSession # None
  /\ \E d \in Document \ valid : Live(d, liveSession)
  /\ rebuilding' = [on |-> liveSession, rejected |-> Document \ valid]
  /\ UNCHANGED <<workspaceRows, sessionRows, valid, remote, worker, observer>>

\* rebuild: if the session is still the current one, its receipts are retired, those not
\* rejected are carried into the next session, and its deletion is requested.
Rebuilt(s, next) ==
  [x \in Document \X Session |->
     IF x[2] = s /\ Live(x[1], s) THEN [receipt[x] EXCEPT !.retired = TRUE]
     ELSE IF x[2] = next /\ Live(x[1], s) /\ x[1] \notin rebuilding.rejected THEN Queued
     ELSE receipt[x]]
CommitRebuild ==
  LET s == rebuilding.on  next == NextSession IN
  /\ rebuilding # NoRebuild /\ rebuilding' = NoRebuild
  /\ IF s # liveSession THEN UNCHANGED <<sessionRows, generation>>
     ELSE /\ next \in Session
          /\ sessionIn' = [sessionIn EXCEPT ![next] = sessionIn[s]] /\ liveSession' = next
          /\ receipt' = Rebuilt(s, next)
          /\ deletion' = [deletion EXCEPT ![s] = "pending"]
          /\ generation' = IF \E d \in Document \ rebuilding.rejected : Live(d, s)
                           THEN Changed(sessionIn[s]) ELSE generation
  /\ UNCHANGED <<workspaceNow, retirement, valid, remote, worker, observer>>

\* freshStart: the next workspace revision; every earlier workspace is to be deleted.
FreshStart ==
  /\ workspaceNow < MaxWorkspace /\ workspaceNow' = workspaceNow + 1
  /\ generation' = [w \in Workspace |-> IF generation[w].state \in {"building", "ready"}
                                        THEN [generation[w] EXCEPT !.state = "retired"] ELSE generation[w]]
  /\ retirement' = [w \in Workspace |-> IF generation[w].state # "none" /\ retirement[w] = "none"
                                        THEN "pending" ELSE retirement[w]]
  /\ liveSession' = None
  /\ UNCHANGED <<sessionIn, receipt, deletion, valid, remote, worker, rebuilding, observer>>

----------------------------------------------------------------------------
(* Writing a receipt, under the lock.                                      *)

\* authorizedReceipt, before every call that changes Honcho.
AuthorizedReceipt(d, s) == IsCurrentWorkspace(sessionIn[s]) /\ Live(d, s) /\ d \in valid
Step(at) == worker' = [worker EXCEPT !.at = at]
WriterUnchanged ==
  UNCHANGED <<workspaceRows, sessionIn, liveSession, deletion, valid, rebuilding, observer>>

\* syncReceipt: an uncertain receipt is only reconciled.
BeginSync(d, s) ==
  /\ worker = Unlocked /\ receipt[<<d, s>>].state \in {"pending", "uncertain"}
  /\ worker' = [at |-> IF receipt[<<d, s>>].state = "uncertain" THEN "reconcile" ELSE "open",
                on |-> s, doc |-> {d}]
  /\ WriterUnchanged /\ UNCHANGED <<receipt, remote>>

Confirm(d, s) == receipt' = [receipt EXCEPT ![<<d, s>>].state = "done"]
\* reconcileReceipt reads the exact receipt, also of a replaced session.
ReconcileReceipt(d, s) ==
  /\ worker.at = "reconcile" /\ worker.on = s /\ worker.doc = {d}
  /\ IF d \in remote[s].holds THEN Confirm(d, s) ELSE UNCHANGED receipt
  /\ worker' = Unlocked /\ WriterUnchanged /\ UNCHANGED remote

\* Workspace, peers and session are created on the way to the write.
OpenRemote(d, s) ==
  /\ worker.at = "open" /\ worker.on = s /\ worker.doc = {d} /\ AuthorizedReceipt(d, s)
  /\ remote' = [remote EXCEPT ![s].exists = TRUE] /\ Step("look")
  /\ WriterUnchanged /\ UNCHANGED receipt
\* observed: a receipt that Honcho already holds is not written again; the write of another
\* is authorized once more and marked uncertain before the call.
LookForReceipt(d, s) ==
  /\ worker.at = "look" /\ worker.on = s /\ worker.doc = {d}
  /\ IF d \in remote[s].holds THEN Confirm(d, s) /\ worker' = Unlocked
     ELSE /\ AuthorizedReceipt(d, s)
          /\ receipt' = [receipt EXCEPT ![<<d, s>>].state = "uncertain"] /\ Step("write")
  /\ WriterUnchanged /\ UNCHANGED remote
WriteRemote(d, s) ==
  /\ worker.at = "write" /\ worker.on = s /\ worker.doc = {d}
  /\ remote' = [remote EXCEPT ![s].holds = @ \cup {d}]
  /\ \/ worker' = Unlocked /\ UNCHANGED receipt           \* the answer is lost
     \/ worker' = Unlocked /\ Confirm(d, s)
  /\ WriterUnchanged
\* A refusal, a failed call or a crash ends the operation and frees the lock.
ReleaseLock ==
  /\ worker # Unlocked /\ worker' = Unlocked
  /\ UNCHANGED <<workspaceRows, sessionRows, valid, remote, rebuilding, observer>>

----------------------------------------------------------------------------
(* Deletion, under the same lock.                                          *)

BeginDeletion(s) ==
  /\ worker = Unlocked /\ deletion[s] = "pending" /\ IsCurrentWorkspace(sessionIn[s])
  /\ worker' = [at |-> "delete", on |-> s, doc |-> {}]
  /\ WriterUnchanged /\ UNCHANGED <<receipt, remote>>
\* deleteSession: derived conclusions first, then the session; the row is updated after it.
DeleteSession(s) ==
  /\ worker.at = "delete" /\ worker.on = s
  /\ remote' = [remote EXCEPT ![s] = Absent]
  /\ \/ deletion' = [deletion EXCEPT ![s] = "done"] /\ worker' = Unlocked
     \/ UNCHANGED deletion /\ worker' = Unlocked
  /\ UNCHANGED <<workspaceRows, sessionIn, liveSession, receipt, valid, rebuilding, observer>>

BeginRetirement(w) ==
  /\ worker = Unlocked /\ retirement[w] = "pending" /\ generation[w].state \in {"none", "retired"}
  /\ worker' = [at |-> "retire", on |-> w, doc |-> {}]
  /\ WriterUnchanged /\ UNCHANGED <<receipt, remote>>
\* retireWorkspace: each session, then the workspace, then every row of it in one commit.
RetireSession(s) ==
  /\ worker.at = "retire" /\ sessionIn[s] = worker.on /\ remote[s].exists
  /\ remote' = [remote EXCEPT ![s] = Absent]
  /\ WriterUnchanged /\ UNCHANGED <<receipt, worker>>
RetireWorkspace(w) ==
  LET of == {s \in Session : sessionIn[s] = w} IN
  /\ worker.at = "retire" /\ worker.on = w /\ \A s \in of : ~remote[s].exists
  /\ receipt' = [x \in Document \X Session |-> IF x[2] \in of THEN NoReceipt ELSE receipt[x]]
  /\ deletion' = [s \in Session |-> IF s \in of THEN "none" ELSE deletion[s]]
  /\ generation' = [generation EXCEPT ![w] = Unopened]
  /\ retirement' = [retirement EXCEPT ![w] = "done"] /\ worker' = Unlocked
  /\ UNCHANGED <<workspaceNow, sessionIn, liveSession, valid, remote, rebuilding, observer>>

----------------------------------------------------------------------------
(* observe: is everything that was queued written and derived?             *)

Observing == UNCHANGED <<workspaceRows, sessionRows, valid, remote, worker, rebuilding>>
BeginObserve ==
  LET w == workspaceNow IN
  /\ observer = NoObserver /\ IsCurrentWorkspace(w)
  /\ observer' = [at |-> "count", on |-> w, work |-> generation[w].work, ready |-> FALSE]
  /\ Observing
Pending(w) == \E d \in Document, s \in Session :
                sessionIn[s] = w /\ Live(d, s) /\ receipt[<<d, s>>].state # "done"
CountPending ==
  /\ observer.at = "count"
  /\ \E idle \in BOOLEAN :   \* whether Honcho's own queue is empty and healthy
       observer' = [at |-> "save", on |-> observer.on, work |-> observer.work,
                    ready |-> ~Pending(observer.on) /\ idle]
  /\ Observing
SaveObservation ==
  LET w == observer.on IN
  /\ observer.at = "save" /\ observer' = NoObserver
  /\ generation' = IF IsCurrentWorkspace(w) /\ generation[w].work = observer.work
                   THEN [generation EXCEPT ![w].state = IF observer.ready THEN "ready" ELSE "building"]
                   ELSE generation
  /\ UNCHANGED <<workspaceNow, retirement, sessionRows, valid, remote, worker, rebuilding>>

MemoryNext ==
  \/ BeginRebuild \/ CommitRebuild \/ FreshStart \/ ReleaseLock
  \/ BeginObserve \/ CountPending \/ SaveObservation
  \/ \E d \in Document : QueueDocument(d) \/ Invalidate(d)
  \/ \E s \in Session : BeginDeletion(s) \/ DeleteSession(s) \/ RetireSession(s)
  \/ \E w \in Workspace : BeginRetirement(w) \/ RetireWorkspace(w)
  \/ \E d \in Document, s \in Session :
       \/ BeginSync(d, s) \/ ReconcileReceipt(d, s) \/ OpenRemote(d, s)
       \/ LookForReceipt(d, s) \/ WriteRemote(d, s)

MemorySpec == MemoryInit /\ [][MemoryNext]_MemoryVars

----------------------------------------------------------------------------
MemoryTypeOK ==
  /\ workspaceNow \in Workspace
  /\ generation \in [Workspace -> [state : {"none", "building", "ready", "retired"}, work : Nat]]
  /\ sessionIn \in [Session -> Workspace \cup {None}] /\ liveSession \in Session \cup {None}
  /\ receipt \in [Document \X Session ->
                    [state : {"none", "pending", "uncertain", "done"}, retired : BOOLEAN]]
  /\ deletion \in [Session -> {"none", "pending", "done"}]
  /\ retirement \in [Workspace -> {"none", "pending", "done"}] /\ valid \subseteq Document
  /\ remote \in [Session -> [exists : BOOLEAN, holds : SUBSET Document]]
  /\ worker \in [at : {"free", "reconcile", "open", "look", "write", "delete", "retire"},
                 on : 0..(MaxSession + MaxWorkspace), doc : SUBSET Document]
  /\ rebuilding \in [on : Session \cup {None}, rejected : SUBSET Document]
  /\ observer \in [at : {"idle", "count", "save"}, on : Workspace \cup {None}, work : Nat,
                   ready : BOOLEAN]

\* A deleted session or workspace stays deleted: no write that was authorized before a
\* rebuild or a fresh start brings it back.
DeletedStaysDeleted ==
  \A s \in Session :
    deletion[s] = "done" \/ (sessionIn[s] # None /\ retirement[sessionIn[s]] = "done") => remote[s] = Absent
\* A workspace that is called ready has no unwritten document.
ReadyMeansWritten == \A w \in Workspace : generation[w].state = "ready" => ~Pending(w)
\* A rebuild loses no valid document: what was ever queued in the current workspace and is
\* still valid has a live receipt in its current session.
ValidIsKept ==
  \A d \in valid, s \in Session :
    receipt[<<d, s>>] # NoReceipt /\ sessionIn[s] = workspaceNow => Live(d, liveSession)
\* A confirmed live receipt of a session is in Honcho.
DoneIsRemote ==
  \A d \in Document, s \in Session :
    Live(d, s) /\ receipt[<<d, s>>].state = "done" /\ sessionIn[s] = workspaceNow => d \in remote[s].holds

\* Together, what Nocheh says of its memory is what Honcho holds.
MemoryAgrees ==
  MemoryTypeOK /\ DeletedStaysDeleted /\ ReadyMeansWritten /\ ValidIsKept /\ DoneIsRemote
=============================================================================
