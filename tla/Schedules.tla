------------------------------- MODULE Schedules -------------------------------
(***************************************************************************)
(* One schedule: its native job in the runtime's job store, the cursor the *)
(* control service keeps of it, the workflows requested for its cursors,   *)
(* and the runs of its occurrences.                                        *)
(* (src/services/hermes/scheduler.py, native_cron.py,                      *)
(*  src/src/stores/schedules.ts, operations.ts, scheduled-runs.ts)         *)
(*                                                                         *)
(* The runtime changes the job only under the profile's file lock and      *)
(* calls the control service while it holds it: `input' captures an        *)
(* occurrence, `definition' publishes the job and its cursor. Either call  *)
(* may fail, lose its answer, or be handled after the caller gave up, and  *)
(* the runtime may die between any two writes. A captured occurrence is    *)
(* started, cancelled, interrupted and published on its own.               *)
(*                                                                         *)
(* Occurrences are the slots 1, 2, ... of an interval schedule and the     *)
(* owner's requests. Time has two instants for each slot: at 2k - 1 slot k *)
(* is on time, at 2k it is more than 60 seconds late.                      *)
(***************************************************************************)
EXTENDS Naturals, FiniteSets

CONSTANTS
  Request,      \* identities of the owner's requests (trigger, catch-up)
  Times,        \* repeats of the job
  MaxTime,      \* bound of the clock
  MaxVersion,   \* bound of the definition's execution versions
  None          \* no occurrence, no cursor, no operation, no call

ASSUME RequestAssumption == Request \cap (1..MaxTime) = {}
ASSUME TimesAssumption == Times \in Nat \ {0}
ASSUME TimeAssumption == MaxTime \in Nat
ASSUME VersionAssumption == MaxVersion \in Nat \ {0}

VARIABLES
  now,       \* clock
  job,       \* cron/jobs.json: the job
  row,       \* workflow_schedules.cursor
  asked,     \* cursors with a row in workflow_registry
  open,      \* ... whose workflow is open
  op,        \* content_operations: input of an occurrence's operation
  run,       \* managed_runs
  receipts,  \* unpublished receipts of native runs
  pc,        \* holder of the file lock: its place
  reply,     \* ... the capture's answer
  at,        \* ... the time its step took
  call,      \* the capture at the control service
  late       \* a definition call its caller gave up
vars == <<now, job, row, asked, open, op, run, receipts, pc, reply, at, call, late>>

Slot == 1..MaxTime
Fire == Slot \cup Request
Version == 1..MaxVersion
OpenStates == {"captured", "running"}
RunStates == {"absent", "closed"} \cup OpenStates
Reasons == {"scheduled", "manual", "missed", "overlap"}
Skipped == {"missed", "overlap"}
JobStates == {"scheduled", "paused", "completed", "removed"}

Cursor == [version : Version, state : JobStates, next : 0..(MaxTime + 1),
           pending : Request \cup {None}, running : Fire \cup {None}, completed : 0..Times]
Job == [version : Version, state : JobStates, next : 0..(MaxTime + 1),
        pending : Request \cup {None}, running : Fire \cup {None}, completed : 0..Times,
        registered : BOOLEAN, synced : BOOLEAN, last : Request \cup {None}]

\* workflow_cursor. The definition is its execution version and the state.
CursorOf(j) == [version |-> j.version, state |-> j.state, next |-> j.next,
                pending |-> j.pending, running |-> j.running, completed |-> j.completed]

\* What the operation of an occurrence is identified by, apart from its fire.
Inputs == [reason : Reasons, version : Version, state : JobStates]

ASSUME NoneAssumption == None \notin Inputs

TypeOK ==
  /\ now \in 0..MaxTime
  /\ job \in Job
  /\ row \in Cursor \cup {None} /\ asked \subseteq Cursor /\ open \subseteq asked
  /\ op \in [Fire -> Inputs \cup {None}]
  /\ run \in [Fire -> [state : RunStates, reason : Reasons \cup {None}]]
  /\ receipts \subseteq Fire
  /\ pc \in {"idle", "capture", "save", "define", "mark"}
  /\ at \in 0..MaxTime
  /\ reply \in [fire : Fire, reason : Reasons] \cup {None}
  /\ call \in [fire : Fire, input : Inputs, recorded : BOOLEAN] \cup {None}
  /\ late \in Cursor \cup {None}

\* A job the control service does not know yet; its versions, which are
\* arbitrary names, count from here.
Init ==
  /\ now = 0
  /\ \E s \in {"scheduled", "paused"} :
       job = [version |-> 1, state |-> s, next |-> 1, pending |-> None,
              running |-> None, completed |-> 0, registered |-> FALSE, synced |-> FALSE,
              last |-> None]
  /\ row = None /\ asked = {} /\ open = {}
  /\ op = [f \in Fire |-> None]
  /\ run = [f \in Fire |-> [state |-> "absent", reason |-> None]]
  /\ receipts = {}
  /\ pc = "idle" /\ reply = None /\ at = 0 /\ call = None /\ late = None

\* The file lock is free.
Release == pc' = "idle" /\ at' = 0

controlVars == <<row, asked, open, op, run>>
lockVars == <<pc, reply, at>>

-----------------------------------------------------------------------------
(* Time.                                                                   *)

OnTime(k) == 2 * k - 1
Due(k) == k # 0 /\ now >= OnTime(k)
MissedBy(k) == now > OnTime(k)
\* The first slot after t, in the schedule's cadence.
SlotAfter(t) == (t + 1) \div 2 + 1

Tick ==
  /\ now < MaxTime /\ now' = now + 1
  /\ UNCHANGED <<job, controlVars, receipts, lockVars, call, late>>

-----------------------------------------------------------------------------
(* The definition is published: sync_job under the lock, `definition' at   *)
(* the control service.                                                    *)

\* An edit of the execution version revokes its captured runs.
Revoked(cursor) ==
  [f \in Fire |-> IF run[f].state = "captured" /\ row # None /\ row.version # cursor.version
                  THEN [run[f] EXCEPT !.state = "closed"] ELSE run[f]]

\* The job of a cursor never has an earlier version or count again, so the
\* workflows of those cursors, which only have their end before them, are
\* forgotten.
Recurring(cursors, c) == {d \in cursors : d.version = c.version /\ d.completed = c.completed}

\* The transaction. A workflow is requested once for a cursor; the idle ones
\* of other cursors are superseded, one whose step is in progress survives
\* until that step ends.
Published(cursor) ==
  /\ row' = cursor /\ run' = Revoked(cursor)
  /\ asked' = Recurring(asked \cup {cursor}, cursor)
  /\ \E working \in {{}, open} :
       open' = Recurring(working \cup (open \cap {cursor}) \cup ({cursor} \ asked), cursor)
  /\ UNCHANGED op

\* Mutant: the sequence is not compared.
DefineAnyOrder ==
  /\ pc = "define"
  /\ Published(CursorOf(job))
  /\ pc' = "mark" /\ reply' = None /\ UNCHANGED at
  /\ UNCHANGED <<now, job, receipts, call, late>>

\* The job's sequence is raised on disk before each call, so an earlier call
\* that is still to come is older and will change nothing.
Define ==
  /\ pc = "define"
  /\ Published(CursorOf(job)) /\ late' = None
  /\ pc' = "mark" /\ reply' = None /\ UNCHANGED at
  /\ UNCHANGED <<now, job, receipts, call>>

Mark ==
  /\ pc = "mark"
  /\ job' = [job EXCEPT !.registered = TRUE, !.synced = TRUE]
  /\ Release
  /\ UNCHANGED <<now, controlVars, receipts, reply, call, late>>

\* The call is refused or lost; it may still arrive.
DefineLost ==
  /\ pc = "define" /\ Release /\ reply' = None
  /\ \/ UNCHANGED late
     \/ late = None /\ late' = CursorOf(job)
  /\ UNCHANGED <<now, job, controlVars, receipts, call>>

LateDefine ==
  /\ late # None /\ late' = None
  /\ Published(late)
  /\ UNCHANGED <<now, job, receipts, lockVars, call>>

\* The supervisor's sync.
Sync ==
  /\ pc = "idle" /\ ~job.synced
  /\ pc' = "define"
  /\ UNCHANGED <<now, job, controlVars, receipts, reply, at, call, late>>

-----------------------------------------------------------------------------
(* An occurrence: _advance under the lock, `capture' at the control        *)
(* service.                                                                *)

Pending == job.pending # None

\* Does the step of the current cursor have an occurrence to capture?
Occurs == /\ job.registered /\ job.state # "removed"
          /\ Pending \/ (job.state = "scheduled" /\ Due(job.next))

\* Why it fires.
Reason == IF job.running # None THEN "overlap"
          ELSE IF Pending THEN "manual"
          ELSE IF MissedBy(job.next) THEN "missed" ELSE "scheduled"

\* A step whose cursor is no longer the job's ends its workflow.
Skip(c) ==
  /\ row # c \/ (pc = "idle" /\ CursorOf(job) # c)
  /\ open' = open \ {c}
  /\ UNCHANGED <<now, job, row, asked, op, run, receipts, lockVars, call, late>>

\* ... so does one without a next occurrence; others wait.
Exhausted(c) ==
  /\ pc = "idle" /\ row = c /\ CursorOf(job) = c
  /\ job.registered /\ ~Pending /\ job.state # "scheduled"
  /\ open' = open \ {c}
  /\ UNCHANGED <<now, job, row, asked, op, run, receipts, lockVars, call, late>>

Advance(c) ==
  /\ pc = "idle" /\ call = None
  /\ row = c /\ CursorOf(job) = c /\ Occurs
  /\ call' = [fire |-> IF Pending THEN job.pending ELSE job.next, recorded |-> FALSE,
              input |-> [reason |-> Reason, version |-> job.version, state |-> job.state]]
  /\ pc' = "capture" /\ at' = now
  /\ UNCHANGED <<now, job, controlVars, receipts, reply, late>>

\* The answer, if the caller still waits for it.
Answer(answer) ==
  /\ call' = None
  /\ IF pc # "capture" THEN UNCHANGED lockVars
     ELSE /\ reply' = answer
          /\ IF answer = None THEN Release ELSE pc' = "save" /\ UNCHANGED at

\* OperationRepository.record: one operation for a fire, with its first
\* input; the same fire with another input is refused.
Record ==
  /\ call # None /\ ~call.recorded
  /\ IF op[call.fire] \in {None, call.input}
     THEN /\ op' = [op EXCEPT ![call.fire] = call.input]
          /\ call' = [call EXCEPT !.recorded = TRUE]
          /\ UNCHANGED lockVars
     ELSE Answer(None) /\ UNCHANGED op
  /\ UNCHANGED <<now, job, row, asked, open, run, receipts, late>>

\* Mutant: only a run that has started counts.
BusyRunning == \E f \in Fire : run[f].state = "running"

Busy == \E f \in Fire : run[f].state \in OpenStates

\* The definition is the one the control service knows.
Known(input) ==
  /\ row.version = input.version /\ row.state = input.state
  /\ ~(input.state # "scheduled" /\ input.reason = "scheduled")

\* The run of the occurrence, inserted once; what was missed or overlaps is
\* born cancelled.
Insert ==
  /\ call # None /\ call.recorded
  /\ LET f == call.fire
         reason == IF Busy THEN "overlap" ELSE call.input.reason
     IN IF run[f].state # "absent"
        THEN Answer([fire |-> f, reason |-> run[f].reason]) /\ UNCHANGED run
        ELSE IF ~Known(call.input) THEN Answer(None) /\ UNCHANGED run
        ELSE /\ run' = [run EXCEPT ![f] =
                  [state |-> IF reason \in Skipped THEN "closed" ELSE "captured",
                   reason |-> reason]]
             /\ Answer([fire |-> f, reason |-> reason])
  /\ UNCHANGED <<now, job, row, asked, open, op, receipts, late>>

\* Refused by the guard, or a query failed.
CaptureFails ==
  /\ call # None /\ Answer(None)
  /\ UNCHANGED <<now, job, controlVars, receipts, late>>

\* Mutant: every occurrence consumes a repeat.
ConsumedAlways ==
  LET completed == job.completed + 1
      next == IF reply.reason = "missed" THEN SlotAfter(at) ELSE job.next + 1
  IN [job EXCEPT !.completed = completed,
        !.next = IF completed >= Times THEN 0 ELSE IF Pending THEN @ ELSE next,
        !.state = IF completed >= Times THEN "completed" ELSE @]

\* The job past an observed slot or missed range; requests consume nothing.
Consumed ==
  IF Pending THEN job
  ELSE LET completed == job.completed + 1
           next == IF reply.reason = "missed" THEN SlotAfter(at) ELSE job.next + 1
       IN [job EXCEPT !.completed = completed,
             !.next = IF completed >= Times THEN 0 ELSE next,
             !.state = IF completed >= Times THEN "completed" ELSE @]

\* The job follows the capture; sync_job begins.
Save ==
  /\ pc = "save"
  /\ job' = [Consumed EXCEPT !.pending = None, !.synced = FALSE,
               !.running = IF reply.reason \in Skipped THEN @ ELSE reply.fire]
  /\ pc' = "define" /\ reply' = None /\ at' = 0
  /\ UNCHANGED <<now, controlVars, receipts, call, late>>

\* The caller stops waiting, or the runtime dies; the file lock is free.
Crash ==
  /\ pc # "idle" /\ Release /\ reply' = None
  /\ UNCHANGED <<now, job, controlVars, receipts, call, late>>

-----------------------------------------------------------------------------
(* The owner: manage, under the lock. A definition that is not registered  *)
(* gets a new execution version.                                           *)

\* Mutant: the version names the prompt only.
ManageKeepsVersion(changed) ==
  /\ pc = "idle" /\ job.state # "removed"
  /\ changed.registered \/ job.version < MaxVersion
  /\ job' = [changed EXCEPT !.synced = FALSE]
  /\ pc' = "define"
  /\ UNCHANGED <<now, row, asked, open, op, receipts, reply, at, call, late>>

Manage(changed) ==
  /\ pc = "idle" /\ job.state # "removed"
  /\ changed.registered \/ job.version < MaxVersion
  /\ job' = [changed EXCEPT !.synced = FALSE,
               !.version = IF changed.registered THEN @ ELSE @ + 1]
  /\ pc' = "define"
  /\ UNCHANGED <<now, row, asked, open, op, receipts, reply, at, call, late>>

\* An identity is used for one request only.
Trigger(r) ==
  /\ job.registered /\ ~Pending /\ job.running = None
  /\ job.last # r /\ op[r] = None
  /\ Manage([job EXCEPT !.pending = r, !.last = r]) /\ UNCHANGED run

Edit == Manage([job EXCEPT !.registered = FALSE]) /\ UNCHANGED run

Pause ==
  /\ job.state = "scheduled"
  /\ Manage([job EXCEPT !.registered = FALSE, !.state = "paused"]) /\ UNCHANGED run

Resume ==
  /\ job.state = "paused"
  /\ Manage([job EXCEPT !.registered = FALSE, !.state = "scheduled"]) /\ UNCHANGED run

\* A captured run is cancelled at once, a running one ends with its receipt.
CancelledRun ==
  [f \in Fire |-> IF f = job.running /\ run[f].state = "captured"
                  THEN [run[f] EXCEPT !.state = "closed"] ELSE run[f]]

CancelJob == Manage([job EXCEPT !.pending = None]) /\ run' = CancelledRun

Remove ==
  /\ Manage([job EXCEPT !.pending = None, !.registered = FALSE, !.state = "removed"])
  /\ run' = CancelledRun

-----------------------------------------------------------------------------
(* The runs (module ManagedRun tells their story in full).                 *)

SetRun(f, s) == run' = [run EXCEPT ![f].state = s]
RunStep == UNCHANGED <<now, row, asked, open, op, reply, at, call, late>>

\* context, then claim: the job store names the run and holds its version,
\* and so does the control service.
RunStart(f) ==
  /\ pc = "idle" /\ run[f].state = "captured"
  /\ job.version = op[f].version /\ job.state # "removed" /\ job.running = f
  /\ row.version = op[f].version
  /\ SetRun(f, "running")
  /\ RunStep /\ UNCHANGED <<job, receipts, pc>>

\* context: the definition changed before the start.
RunDenied(f) ==
  /\ pc = "idle" /\ run[f].state = "captured"
  /\ job.version # op[f].version \/ job.state = "removed"
  /\ SetRun(f, "closed")
  /\ RunStep /\ UNCHANGED <<job, receipts, pc>>

\* The step of the run finds its guard binding withdrawn.
RunWithdrawn(f) ==
  /\ run[f].state = "captured" /\ SetRun(f, "closed")
  /\ RunStep /\ UNCHANGED <<job, receipts, pc>>

\* The native run ends and writes its receipt.
RunEnds(f) ==
  /\ run[f].state = "running" /\ f \notin receipts
  /\ receipts' = receipts \cup {f}
  /\ RunStep /\ UNCHANGED <<job, run, pc>>

\* The native run dies, or its lease runs out: interrupted.
RunDies(f) ==
  /\ run[f].state = "running" /\ SetRun(f, "closed")
  /\ RunStep /\ UNCHANGED <<job, receipts, pc>>

\* publish: `finish' closes the run ...
Finish(f) ==
  /\ f \in receipts /\ run[f].state = "running"
  /\ SetRun(f, "closed")
  /\ RunStep /\ UNCHANGED <<job, receipts, pc>>

\* ... and the job forgets it, under the lock.
Publish(f) ==
  /\ f \in receipts /\ run[f].state = "closed" /\ pc = "idle"
  /\ receipts' = receipts \ {f}
  /\ job' = IF job.running = f THEN [job EXCEPT !.running = None, !.synced = FALSE] ELSE job
  /\ RunStep /\ UNCHANGED <<run, pc>>

-----------------------------------------------------------------------------
Workflow == \E c \in open : Skip(c) \/ Exhausted(c) \/ Advance(c)
Lock == Define \/ Mark \/ Save \/ Sync
Capture == Record \/ Insert
Faults == DefineLost \/ CaptureFails \/ Crash
Owner == (\E r \in Request : Trigger(r)) \/ Edit \/ Pause \/ Resume \/ CancelJob \/ Remove
Runs == \E f \in Fire : \/ RunStart(f) \/ RunDenied(f) \/ RunWithdrawn(f) \/ RunEnds(f)
                        \/ RunDies(f) \/ Finish(f) \/ Publish(f)

Next == Tick \/ Workflow \/ Lock \/ Capture \/ LateDefine \/ Faults \/ Owner \/ Runs

Spec == Init /\ [][Next]_vars

-----------------------------------------------------------------------------
(* Properties.                                                             *)

\* Once the job is marked synced the control service knows exactly this job,
\* although definition calls are lost, repeated and arrive late (sync_job,
\* `definition').
SyncedAgrees == (pc = "idle" /\ job.synced) => row = CursorOf(job)

\* A job never has two runs under way, although the run that was captured
\* may be unknown to the job store, its capture may be handled late, and the
\* owner may ask for another one meanwhile (capture's busy check).
OneRunOpen ==
  \A f, g \in Fire : run[f].state \in OpenStates /\ run[g].state \in OpenStates => f = g

\* "Each observed scheduled slot or missed range consumes one repeat;
\* explicit manual/catch-up runs do not consume repeats": the count in the
\* job store is that of the slots captured in the control store, except for
\* one the job has not moved past yet.
RepeatsCounted ==
  job.completed = Cardinality({k \in Slot : run[k].state # "absent" /\ job.next # k})

\* "Pause stops future starts", and so does a removal: a slot captured
\* before, whose start was still to come, does not start (context).
PauseStops ==
  [][\A k \in Slot : (run[k].state = "captured" /\ run'[k].state = "running")
                        => job.state \notin {"paused", "removed"}]_vars

\* The cursors of a schedule are driven: as long as the job waits for a slot
\* and its present cursor is published, that cursor's workflow is open.
\* (`definition' requests the workflow of each cursor.)
CursorIsDriven ==
  (pc = "idle" /\ job.synced /\ job.state = "scheduled") => row \in open

\* "Overlapping slots are recorded as skipped": an occurrence the scheduler
\* takes for an overlap meets a run under way, or one whose receipt is still
\* to be published.
OverlapIsReal ==
  [][(call = None /\ call' # None /\ call'.input.reason = "overlap")
       => \E f \in Fire : run[f].state \in OpenStates \/ f \in receipts]_vars
=============================================================================
