----------------------------- MODULE Dashboard -----------------------------
(***************************************************************************)
(* The owner's dashboard process: admitted requests, the lock that starts  *)
(* writers, the one lifecycle operation that may run as a child process,   *)
(* the maintenance window of a backup, proxied sockets, and the shutdown.  *)
(* (src/src/management.ts, src/src/management-maintenance.ts)              *)
(*                                                                         *)
(* Everything but the job files is the memory of the process and is gone   *)
(* when it ends; a child process it started is not.                        *)
(***************************************************************************)
EXTENDS Naturals, FiniteSets

CONSTANTS
  Request,     \* requests under way at the same time
  NobodyAsks

ASSUME RequestAssumption == NobodyAsks \notin Request

VARIABLES
  request,       \* requests the server tracks, and how far each has come
  writerLock,    \* exclusive('writer-start')
  operationBusy, \* operationBusy
  opChild,       \* active: the job whose operation runs, with its coordinator
  window,        \* ManagementMaintenance.current, with the requests it waits for
  jobFile,       \* state in job.json of the operation a request starts
  socket,        \* a proxied socket
  stopping       \* stop, and what it waits for

DashboardVars ==
  <<request, writerLock, operationBusy, opChild, window, jobFile, socket, stopping>>

\* Requests that start an operation, that write under the lock, and that only take their time.
Operations == {"backup", "operation"}
Kind == Operations \cup {"writer", "other"}
Idle == [kind |-> "none", at |-> "idle"]
NoChildRuns == [job |-> NobodyAsks, coordinated |-> FALSE]
NoWindow == [job |-> NobodyAsks, ready |-> FALSE, awaited |-> {}]
Running == [at |-> "no", awaited |-> {}, child |-> NobodyAsks]

DashboardInit ==
  /\ request = [r \in Request |-> Idle] /\ writerLock = NobodyAsks /\ operationBusy = FALSE
  /\ opChild = NoChildRuns /\ window = NoWindow
  /\ jobFile = [r \in Request |-> "none"]
  /\ socket = "none" /\ stopping = Running

RequestAt(r, place) == request[r].at = place
InFlight == {r \in Request : request[r] # Idle}
MoveTo(r, place) == request' = [request EXCEPT ![r].at = place]
InWindow == window # NoWindow
Alive == stopping.at # "down"

----------------------------------------------------------------------------
(* Requests.                                                               *)

\* createServer's handler: tracked, then refused during maintenance or shutdown.  (A refused
\* request, and a read of the progress, changes nothing.)
Enter(r, k) ==
  /\ stopping.at = "no" /\ request[r] = Idle /\ ~InWindow
  /\ k \in Operations => jobFile[r] = "none"
  /\ request' = [request EXCEPT ![r] = [kind |-> k, at |-> "entered"]]
  /\ UNCHANGED <<writerLock, operationBusy, opChild, window, jobFile, socket, stopping>>

\* finish: the handler is through and the response is written, or its connection closed.
Finish(r) ==
  /\ \/ RequestAt(r, "entered") /\ request[r].kind = "other"
     \/ RequestAt(r, "responding")
  /\ request' = [request EXCEPT ![r] = Idle]
  /\ UNCHANGED <<writerLock, operationBusy, opChild, window, jobFile, socket, stopping>>

\* exclusive, and the check under it: busy is an answer.
Refused(r) ==
  /\ \/ RequestAt(r, "entered") /\ request[r].kind # "other" /\ writerLock # NobodyAsks
        /\ UNCHANGED writerLock
     \/ RequestAt(r, "locked") /\ (operationBusy \/ (request[r].kind \in Operations /\ opChild # NoChildRuns))
        /\ writerLock' = NobodyAsks
  /\ MoveTo(r, "responding")
  /\ UNCHANGED <<operationBusy, opChild, window, jobFile, socket, stopping>>

TakeLock(r) ==
  /\ RequestAt(r, "entered") /\ request[r].kind # "other" /\ writerLock = NobodyAsks
  /\ writerLock' = r /\ MoveTo(r, "locked")
  /\ UNCHANGED <<operationBusy, opChild, window, jobFile, socket, stopping>>

\* settings, preferences and the start of an import: the write is made under the lock.
BeginWriter(r) ==
  /\ RequestAt(r, "locked") /\ request[r].kind = "writer" /\ ~operationBusy
  /\ MoveTo(r, "writing")
  /\ UNCHANGED <<writerLock, operationBusy, opChild, window, jobFile, socket, stopping>>

EndWriter(r) ==
  /\ RequestAt(r, "writing") /\ writerLock' = NobodyAsks /\ MoveTo(r, "responding")
  /\ UNCHANGED <<operationBusy, opChild, window, jobFile, socket, stopping>>

\* operations and settings/apply: busy before the first await, then newJob and putJob.
BeginOperation(r) ==
  /\ RequestAt(r, "locked") /\ request[r].kind \in Operations /\ ~operationBusy /\ opChild = NoChildRuns
  /\ operationBusy' = TRUE /\ jobFile' = [jobFile EXCEPT ![r] = "running"]
  /\ MoveTo(r, "created")
  /\ UNCHANGED <<writerLock, opChild, window, socket, stopping>>

\* begin: nothing is admitted any more; what was admitted before is awaited.
BeginMaintenance(r) ==
  /\ RequestAt(r, "created") /\ request[r].kind = "backup" /\ ~InWindow
  /\ window' = [job |-> r, ready |-> FALSE, awaited |-> InFlight \ {r}]
  /\ MoveTo(r, "draining")
  /\ UNCHANGED <<writerLock, operationBusy, opChild, jobFile, socket, stopping>>

\* The drain: the awaited requests have all finished; sockets are destroyed, logins quiesced.
Drained(r) ==
  /\ RequestAt(r, "draining") /\ window.awaited \cap InFlight = {}
  /\ socket' = IF socket = "none" THEN "none" ELSE "destroyed"
  /\ window' = [window EXCEPT !.ready = TRUE] /\ MoveTo(r, "drained")
  /\ UNCHANGED <<writerLock, operationBusy, opChild, jobFile, stopping>>

\* The start fails: a file cannot be written, the drain times out, a login cannot be closed.
\* The job keeps the state it had in its file.
StartFails(r) ==
  /\ RequestAt(r, "created") \/ RequestAt(r, "draining")
  /\ operationBusy' = FALSE /\ writerLock' = NobodyAsks /\ MoveTo(r, "responding")
  /\ window' = IF window.job = r THEN NoWindow ELSE window
  /\ UNCHANGED <<opChild, jobFile, socket, stopping>>

\* launch, and the answer.
Launch(r) ==
  /\ RequestAt(r, "drained") \/ (RequestAt(r, "created") /\ request[r].kind = "operation")
  /\ opChild' = [job |-> r, coordinated |-> window.job = r]
  /\ writerLock' = NobodyAsks /\ MoveTo(r, "responding")
  /\ UNCHANGED <<operationBusy, window, jobFile, socket, stopping>>

\* launch's finally: the child closed; the last write of its file may fail, the rest does not.
ChildEnds ==
  /\ Alive /\ opChild # NoChildRuns
  /\ \E s \in {"complete", "failed", jobFile[opChild.job]} :
       jobFile' = [jobFile EXCEPT ![opChild.job] = s]
  /\ opChild' = NoChildRuns /\ operationBusy' = FALSE
  /\ window' = IF opChild.coordinated THEN NoWindow ELSE window
  /\ UNCHANGED <<request, writerLock, socket, stopping>>

\* upgrade: the socket counts before its proxy is asked for; a destroyed one is not proxied.
OpenSocket ==
  /\ stopping.at = "no" /\ ~InWindow /\ socket \in {"none", "destroyed"} /\ socket' = "opening"
  /\ UNCHANGED <<request, writerLock, operationBusy, opChild, window, jobFile, stopping>>

MoveSocket ==
  /\ socket' = CASE socket = "opening" -> "proxied" [] OTHER -> "none"
  /\ socket # "none"
  /\ UNCHANGED <<request, writerLock, operationBusy, opChild, window, jobFile, stopping>>

----------------------------------------------------------------------------
(* The end of the process.                                                 *)

\* stop: no more requests; those in flight are awaited.
StopDashboard ==
  /\ stopping.at = "no" /\ stopping' = [at |-> "draining", awaited |-> InFlight, child |-> NobodyAsks]
  /\ socket' = IF socket = "none" THEN "none" ELSE "destroyed"
  /\ UNCHANGED <<request, writerLock, operationBusy, opChild, window, jobFile>>

\* server.close's callback, when every connection ended or was closed: the tasks that run now
\* are awaited too.
ConnectionsClosed ==
  /\ stopping.at = "draining"
  /\ stopping' = [stopping EXCEPT !.at = "closed", !.child = opChild.job]
  /\ UNCHANGED <<request, writerLock, operationBusy, opChild, window, jobFile, socket>>

GoDown ==
  /\ request' = [r \in Request |-> Idle] /\ writerLock' = NobodyAsks /\ operationBusy' = FALSE
  /\ opChild' = NoChildRuns /\ window' = NoWindow /\ socket' = "none"
  /\ stopping' = [Running EXCEPT !.at = "down"]
  /\ UNCHANGED jobFile

Exit ==
  /\ stopping.at = "closed" /\ stopping.awaited \cap InFlight = {}
  /\ stopping.child # NobodyAsks => opChild.job # stopping.child
  /\ GoDown

Crash == Alive /\ GoDown

\* startManagement: what ran is interrupted.
Restart ==
  /\ ~Alive /\ stopping' = Running
  /\ jobFile' = [r \in Request |-> IF jobFile[r] = "running" THEN "interrupted" ELSE jobFile[r]]
  /\ UNCHANGED <<request, writerLock, operationBusy, opChild, window, socket>>

DashboardNext ==
  \/ \E r \in Request :
       \/ \E k \in Kind : Enter(r, k)
       \/ Finish(r) \/ Refused(r) \/ TakeLock(r) \/ BeginWriter(r) \/ EndWriter(r)
       \/ BeginOperation(r) \/ BeginMaintenance(r) \/ Drained(r) \/ StartFails(r) \/ Launch(r)
  \/ ChildEnds \/ OpenSocket \/ MoveSocket
  \/ StopDashboard \/ ConnectionsClosed \/ Exit \/ Crash \/ Restart

DashboardSpec == DashboardInit /\ [][DashboardNext]_DashboardVars

----------------------------------------------------------------------------
(* What must hold.                                                         *)

\* An operation is being started by r.
Starting(r) == RequestAt(r, "created") \/ RequestAt(r, "draining") \/ RequestAt(r, "drained")

\* While maintenance is ready, nothing that was admitted before still works, and no socket is
\* proxied: the request that asked for it is the only one.
WindowIsQuiet ==
  window.ready => /\ InFlight \subseteq {window.job}
                  /\ socket # "proxied"

\* Operations exclude one another and the writers; nothing is left locked or closed behind a
\* start that failed or an operation that ended.
OneOperation ==
  /\ Cardinality({r \in Request : Starting(r)} \cup ({opChild.job} \ {NobodyAsks})) <= 1
  /\ operationBusy = (opChild # NoChildRuns \/ \E r \in Request : Starting(r))
  /\ operationBusy => ~\E r \in Request : RequestAt(r, "writing")
  /\ writerLock = NobodyAsks =>
       ~\E r \in Request : Starting(r) \/ RequestAt(r, "locked") \/ RequestAt(r, "writing")
  /\ InWindow => (opChild.job = window.job /\ opChild.coordinated)
                 \/ RequestAt(window.job, "draining") \/ RequestAt(window.job, "drained")

\* The dashboard keeps its operations apart, and a backup from everything.
DashboardAgrees == WindowIsQuiet /\ OneOperation
=============================================================================
