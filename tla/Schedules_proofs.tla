--------------------------- MODULE Schedules_proofs ---------------------------
(***************************************************************************)
(* Proofs that a schedule keeps its types, that the control service knows  *)
(* a synced job, that at most one run is under way, and that a paused or   *)
(* removed job starts no slot, for any number of requests, repeats, slots  *)
(* and versions.                                                           *)
(***************************************************************************)
EXTENDS Schedules, FiniteSetTheorems, TLAPS

USE DEF vars, controlVars, lockVars, Release, Fire, Slot, Pending

\* A job that is not finished has a slot before it and repeats left.
JobInv == job.state \in {"scheduled", "paused"} => job.next # 0 /\ job.completed < Times

\* While a slot is captured and saved, the job is the one that was due.
LockInv ==
  /\ pc \in {"capture", "save"} /\ ~Pending => job.state = "scheduled" /\ Due(job.next)
  /\ pc = "save" => reply # None

\* A run comes from a recorded operation.
OperationInv ==
  /\ \A f \in Fire : run[f].state # "absent" => run[f].reason \in Reasons /\ op[f] # None
  /\ call # None /\ call.recorded => op[call.fire] # None

Inv == TypeOK /\ JobInv /\ LockInv /\ OperationInv

-----------------------------------------------------------------------------
(* Types.                                                                  *)

LEMMA TypeInit == Init => Inv
<1> SUFFICES ASSUME Init PROVE Inv
  OBVIOUS
<1>1. TypeOK
  BY TimesAssumption, TimeAssumption, VersionAssumption
  DEF Init, TypeOK, Job, JobStates, Version, RunStates, OpenStates
<1>2. JobInv /\ LockInv /\ OperationInv
  BY TimesAssumption DEF Init, JobInv, LockInv, OperationInv
<1> QED BY <1>1, <1>2 DEF Inv

\* What the job becomes when an occurrence has passed, and when it is saved.
LEMMA ConsumedJob ==
  ASSUME NEW j \in Job, NEW completed \in 0..Times, NEW next \in 0..(MaxTime + 1)
  PROVE  [j EXCEPT !.completed = completed, !.next = IF completed >= Times THEN 0 ELSE next,
                   !.state = IF completed >= Times THEN "completed" ELSE @] \in Job
<1> DEFINE slot == IF completed >= Times THEN 0 ELSE next
           state == IF completed >= Times THEN "completed" ELSE j.state
<1>1. slot \in 0..(MaxTime + 1) /\ state \in JobStates
  BY TimeAssumption DEF Job, JobStates
<1> HIDE DEF slot, state
<1>2. [j EXCEPT !.completed = completed, !.next = slot, !.state = state] \in Job
  BY <1>1 DEF Job
<1> QED BY <1>2 DEF slot, state

LEMMA SavedJob ==
  ASSUME NEW j \in Job, NEW reason, NEW fire \in Fire
  PROVE  [j EXCEPT !.pending = None, !.synced = FALSE,
                   !.running = IF reason \in Skipped THEN @ ELSE fire] \in Job
  BY DEF Job

\* The owner's operations.
LEMMA ManagedJob ==
  ASSUME NEW changed \in Job, changed.version = job.version, Manage(changed)
  PROVE  job' \in Job
<1> DEFINE version == IF changed.registered THEN changed.version ELSE changed.version + 1
<1>1. version \in Version
  BY VersionAssumption DEF Manage, Job, Version
<1> HIDE DEF version
<1>2. [changed EXCEPT !.synced = FALSE, !.version = version] \in Job
  BY <1>1 DEF Job
<1> QED BY <1>2 DEF Manage, version

LEMMA OwnerKeepsJob == TypeOK /\ Owner => job' \in Job
<1> SUFFICES ASSUME TypeOK, Owner PROVE job' \in Job
  OBVIOUS
<1>0. job \in Job
  BY DEF TypeOK
<1>1. ASSUME NEW r \in Request, Trigger(r) PROVE job' \in Job
  <2> DEFINE changed == [job EXCEPT !.pending = r, !.last = r]
  <2>1. changed \in Job /\ changed.version = job.version
    BY <1>0 DEF Job
  <2> QED BY <1>1, <2>1, ManagedJob DEF Trigger
<1>2. CASE Edit
  <2> DEFINE changed == [job EXCEPT !.registered = FALSE]
  <2>1. changed \in Job /\ changed.version = job.version
    BY <1>0 DEF Job
  <2> QED BY <1>2, <2>1, ManagedJob DEF Edit
<1>3. CASE Pause
  <2> DEFINE changed == [job EXCEPT !.registered = FALSE, !.state = "paused"]
  <2>1. changed \in Job /\ changed.version = job.version
    BY <1>0 DEF Job, JobStates
  <2> QED BY <1>3, <2>1, ManagedJob DEF Pause
<1>4. CASE Resume
  <2> DEFINE changed == [job EXCEPT !.registered = FALSE, !.state = "scheduled"]
  <2>1. changed \in Job /\ changed.version = job.version
    BY <1>0 DEF Job, JobStates
  <2> QED BY <1>4, <2>1, ManagedJob DEF Resume
<1>5. CASE CancelJob
  <2> DEFINE changed == [job EXCEPT !.pending = None]
  <2>1. changed \in Job /\ changed.version = job.version
    BY <1>0 DEF Job
  <2> QED BY <1>5, <2>1, ManagedJob DEF CancelJob
<1>6. CASE Remove
  <2> DEFINE changed == [job EXCEPT !.pending = None, !.registered = FALSE, !.state = "removed"]
  <2>1. changed \in Job /\ changed.version = job.version
    BY <1>0 DEF Job, JobStates
  <2> QED BY <1>6, <2>1, ManagedJob DEF Remove
<1> QED BY <1>1, <1>2, <1>3, <1>4, <1>5, <1>6 DEF Owner

LEMMA TypeStep == Inv /\ [Next]_vars => TypeOK'
<1> SUFFICES ASSUME Inv, [Next]_vars PROVE TypeOK'
  OBVIOUS
<1> USE TimesAssumption, TimeAssumption, VersionAssumption DEF Inv, TypeOK
<1>1. CASE Tick
  BY <1>1 DEF Tick
<1>2. CASE Workflow
  <2> PICK c \in open : Skip(c) \/ Exhausted(c) \/ Advance(c)
    BY <1>2 DEF Workflow
  <2>1. CASE Skip(c)
    BY <2>1 DEF Skip
  <2>2. CASE Exhausted(c)
    BY <2>2 DEF Exhausted
  <2>3. CASE Advance(c)
    <3>1. (IF Pending THEN job.pending ELSE job.next) \in Fire
      BY <2>3 DEF Advance, Occurs, Due, OnTime, Job
    <3>2. [reason |-> Reason, version |-> job.version, state |-> job.state] \in Inputs
      BY DEF Reason, Reasons, Inputs, Job
    <3> QED BY <2>3, <3>1, <3>2 DEF Advance
  <2> QED BY <2>1, <2>2, <2>3
<1>3. CASE Define
  BY <1>3 DEF Define, Published, Recurring, Revoked, CursorOf, Cursor, Job, RunStates
<1>4. CASE Mark
  <2>1. job' \in Job
    BY <1>4 DEF Mark, Job
  <2> QED BY <1>4, <2>1 DEF Mark
<1>5. CASE Save
  <2>1. CASE Pending
    <3>1. Consumed \in Job
      BY <2>1 DEF Consumed
    <3>2. reply.fire \in Fire
      BY <1>5 DEF Save, LockInv
    <3>3. job' \in Job
      BY <1>5, <3>1, <3>2, SavedJob DEF Save
    <3> QED BY <1>5, <3>3 DEF Save
  <2>2. CASE ~Pending
    <3>1. job.next # 0 /\ job.next \in Nat /\ 2 * job.next - 1 <= MaxTime
      BY <1>5, <2>2 DEF Save, LockInv, Due, OnTime, Job
    <3>2. reply.fire \in Fire
      BY <1>5 DEF Save, LockInv
    <3>3. job.completed + 1 \in 0..Times
      BY <1>5, <2>2 DEF Save, LockInv, JobInv, Job
    <3>4. SlotAfter(at) \in 0..(MaxTime + 1)
      BY DEF SlotAfter
    <3>5. Consumed \in Job
      <4> DEFINE next == IF reply.reason = "missed" THEN SlotAfter(at) ELSE job.next + 1
      <4>1. next \in 0..(MaxTime + 1)
        BY <3>1, <3>4
      <4> HIDE DEF next
      <4>2. [job EXCEPT !.completed = @ + 1, !.next = IF job.completed + 1 >= Times THEN 0 ELSE next,
                        !.state = IF job.completed + 1 >= Times THEN "completed" ELSE @] \in Job
        BY <3>3, <4>1, ConsumedJob
      <4> QED BY <2>2, <4>2 DEF Consumed, next
    <3>6. job' \in Job
      BY <1>5, <3>2, <3>5, SavedJob DEF Save
    <3> QED BY <1>5, <3>6 DEF Save
  <2> QED BY <2>1, <2>2
<1>6. CASE Sync
  BY <1>6 DEF Sync
<1>7. CASE Record
  <2>1. CASE op[call.fire] \in {None, call.input}
    BY ZenonT(60), <1>7, <2>1 DEF Record
  <2>2. CASE op[call.fire] \notin {None, call.input}
    BY <1>7, <2>2 DEF Record, Answer
  <2> QED BY <2>1, <2>2
<1>8. CASE Insert
  <2> DEFINE f == call.fire
             reason == IF Busy THEN "overlap" ELSE call.input.reason
  <2>0. f \in Fire /\ call.input \in Inputs
    BY <1>8 DEF Insert
  <2>1. reason \in Reasons
    BY <2>0 DEF Inputs, Reasons
  <2> HIDE DEF reason
  <2>2. CASE run[f].state # "absent"
    <3>1. [fire |-> f, reason |-> run[f].reason] \in [fire : Fire, reason : Reasons]
      BY <2>0, <2>2 DEF OperationInv
    <3> QED BY <1>8, <2>2, <3>1 DEF Insert, Answer
  <2>3. CASE run[f].state = "absent" /\ ~Known(call.input)
    BY <1>8, <2>3 DEF Insert, Answer
  <2>4. CASE run[f].state = "absent" /\ Known(call.input)
    <3>1. run' = [run EXCEPT ![f] = [state |-> IF reason \in Skipped THEN "closed" ELSE "captured",
                                     reason |-> reason]]
          /\ Answer([fire |-> f, reason |-> reason])
      BY <1>8, <2>4 DEF Insert, reason
    <3>2. run' \in [Fire -> [state : RunStates, reason : Reasons \cup {None}]]
      BY <2>0, <2>1, <3>1 DEF RunStates, OpenStates
    <3> QED BY <1>8, <2>0, <2>1, <3>1, <3>2 DEF Insert, Answer
  <2> QED BY <2>2, <2>3, <2>4
<1>9. CASE LateDefine
  BY <1>9 DEF LateDefine, Published, Recurring, Revoked, Cursor, RunStates
<1>10. CASE DefineLost
  BY <1>10 DEF DefineLost, CursorOf, Cursor, Job
<1>11. CASE CaptureFails
  BY <1>11 DEF CaptureFails, Answer
<1>12. CASE Crash
  BY <1>12 DEF Crash
<1>13. CASE Owner
  <2>1. job' \in Job
    BY <1>13, OwnerKeepsJob
  <2>2. run' \in [Fire -> [state : RunStates, reason : Reasons \cup {None}]]
    <3>1. CASE run' = CancelledRun
      BY <3>1 DEF CancelledRun, RunStates
    <3>2. CASE UNCHANGED run
      BY <3>2
    <3> QED BY <1>13, <3>1, <3>2 DEF Owner, Trigger, Edit, Pause, Resume, CancelJob, Remove
  <2>3. /\ pc' = "define"
        /\ UNCHANGED <<now, row, asked, open, op, receipts, reply, at, call, late>>
    BY <1>13 DEF Owner, Trigger, Edit, Pause, Resume, CancelJob, Remove, Manage
  <2> QED BY <2>1, <2>2, <2>3
<1>14. CASE Runs
  <2> PICK f \in Fire : \/ RunStart(f) \/ RunDenied(f) \/ RunWithdrawn(f) \/ RunEnds(f)
                        \/ RunDies(f) \/ Finish(f) \/ Publish(f)
    BY <1>14 DEF Runs
  <2>1. CASE RunEnds(f)
    BY <2>1 DEF RunEnds, RunStep
  <2>2. CASE Publish(f)
    BY ZenonT(60), <2>2 DEF Publish, RunStep, Job
  <2>3. CASE RunStart(f) \/ RunDenied(f) \/ RunWithdrawn(f) \/ RunDies(f) \/ Finish(f)
    BY <2>3 DEF RunStart, RunDenied, RunWithdrawn, RunDies, Finish, RunStep, SetRun, RunStates, OpenStates
  <2> QED BY <2>1, <2>2, <2>3
<1>15. CASE UNCHANGED vars
  BY <1>15
<1> QED BY <1>1, <1>2, <1>3, <1>4, <1>5, <1>6, <1>7, <1>8, <1>9, <1>10, <1>11, <1>12, <1>13,
           <1>14, <1>15 DEF Next, Lock, Capture, Faults

-----------------------------------------------------------------------------
(* The rest of the invariant.                                              *)

\* Who changes the job, and what else he leaves alone.
JobSteps == Mark \/ Save \/ Owner \/ \E f \in Fire : Publish(f)

LEMMA JobKept == [Next]_vars /\ ~JobSteps => UNCHANGED job
  BY DEF Next, JobSteps, Tick, Workflow, Skip, Exhausted, Advance, Lock, Define, Sync, Capture,
     Record, Insert, LateDefine, Faults, DefineLost, CaptureFails, Crash, Runs, RunStart,
     RunDenied, RunWithdrawn, RunEnds, RunDies, Finish

LEMMA JobStep == Inv /\ [Next]_vars => JobInv'
<1> SUFFICES ASSUME Inv, [Next]_vars PROVE JobInv'
  OBVIOUS
<1>0. job \in Job /\ JobInv
  BY DEF Inv, TypeOK
<1>1. CASE Mark
  BY <1>0, <1>1 DEF Mark, JobInv, Job
<1>2. CASE Save
  BY <1>0, <1>2, TimesAssumption DEF Inv, TypeOK, Save, Consumed, SlotAfter, JobInv, LockInv, Job
<1>3. CASE Owner
  BY <1>0, <1>3 DEF Owner, Trigger, Edit, Pause, Resume, CancelJob, Remove, Manage, JobInv, Job
<1>4. CASE \E f \in Fire : Publish(f)
  BY <1>0, <1>4 DEF Publish, JobInv, Job
<1>5. CASE UNCHANGED job
  BY <1>0, <1>5 DEF JobInv
<1> QED BY <1>1, <1>2, <1>3, <1>4, <1>5, JobKept DEF JobSteps

LEMMA LockStep == Inv /\ [Next]_vars => LockInv'
<1> SUFFICES ASSUME Inv, [Next]_vars PROVE LockInv'
  OBVIOUS
<1> USE DEF Inv, TypeOK, LockInv
<1>1. CASE pc' \notin {"capture", "save"}
  BY <1>1
<1>2. CASE pc' \in {"capture", "save"} /\ UNCHANGED <<job, pc, reply>> /\ now' \in Nat /\ now' >= now
  <2>1. Due(job.next) => Due(job.next)'
    BY <1>2, TimeAssumption DEF Due, OnTime, Job
  <2> QED BY <1>2, <2>1
<1>3. CASE Tick
  BY <1>1, <1>2, <1>3 DEF Tick
<1>4. CASE Workflow
  <2> PICK c \in open : Skip(c) \/ Exhausted(c) \/ Advance(c)
    BY <1>4 DEF Workflow
  <2>1. CASE Skip(c) \/ Exhausted(c)
    BY <1>1, <1>2, <2>1, TimeAssumption DEF Skip, Exhausted
  <2>2. CASE Advance(c)
    BY <2>2 DEF Advance, Occurs, Due
  <2> QED BY <2>1, <2>2
<1>5. CASE Record \/ Insert \/ CaptureFails
  <2>1. CASE UNCHANGED lockVars
    BY <1>1, <1>2, <1>5, <2>1 DEF Record, Insert, CaptureFails
  <2>2. CASE pc = "capture" /\ reply' # None
    BY <1>5, <2>2 DEF Record, Insert, CaptureFails, Due
  <2> QED BY <1>1, <1>5, <2>1, <2>2 DEF Record, Insert, CaptureFails, Answer
<1>6. CASE Lock \/ DefineLost \/ Crash \/ Owner
  BY <1>1, <1>6 DEF Lock, Define, Mark, Save, Sync, DefineLost, Crash, Owner, Trigger, Edit,
     Pause, Resume, CancelJob, Remove, Manage
<1>7. CASE LateDefine
  BY <1>1, <1>2, <1>7 DEF LateDefine
<1>8. CASE Runs
  <2>1. CASE \E f \in Fire : Publish(f)
    BY <1>1, <2>1 DEF Publish
  <2> QED BY <1>1, <1>2, <1>8, <2>1 DEF Runs, RunStart, RunDenied, RunWithdrawn, RunEnds, RunDies,
             Finish, RunStep
<1>9. CASE UNCHANGED vars
  BY <1>1, <1>2, <1>9
<1> QED BY <1>3, <1>4, <1>5, <1>6, <1>7, <1>8, <1>9 DEF Next, Capture, Faults

LEMMA OperationStep == Inv /\ [Next]_vars => OperationInv'
<1> SUFFICES ASSUME Inv, [Next]_vars PROVE OperationInv'
  OBVIOUS
<1> USE DEF Inv, TypeOK, OperationInv
<1>1. CASE UNCHANGED <<op, call>> /\ \A f \in Fire : run'[f].state # "absent" =>
                                   run[f].state # "absent" /\ run'[f].reason = run[f].reason
  BY <1>1
<1>2. CASE Record
  BY <1>2, NoneAssumption DEF Record, Answer
<1>3. CASE Insert
  BY <1>3 DEF Insert, Answer, Inputs, Reasons
<1>4. CASE CaptureFails
  BY <1>4 DEF CaptureFails, Answer
<1>5. CASE Workflow
  BY <1>5 DEF Workflow, Skip, Exhausted, Advance
<1>6. CASE Tick \/ Lock \/ DefineLost \/ Crash \/ LateDefine
  BY <1>1, <1>6 DEF Tick, Lock, Define, Mark, Save, Sync, DefineLost, Crash, LateDefine, Published, Revoked
<1>7. CASE Owner
  <2>1. CASE run' = CancelledRun /\ UNCHANGED <<op, call>>
    BY <1>1, <2>1 DEF CancelledRun
  <2>2. CASE UNCHANGED <<run, op, call>>
    BY <1>1, <2>2
  <2> QED BY <1>7, <2>1, <2>2 DEF Owner, Trigger, Edit, Pause, Resume, CancelJob, Remove, Manage
<1>8. CASE Runs
  BY <1>1, <1>8 DEF Runs, RunStart, RunDenied, RunWithdrawn, RunEnds, RunDies, Finish, Publish, SetRun, RunStep
<1>9. CASE UNCHANGED vars
  BY <1>1, <1>9
<1> QED BY <1>2, <1>3, <1>4, <1>5, <1>6, <1>7, <1>8, <1>9 DEF Next, Capture, Faults

LEMMA Invariant == Spec => []Inv
<1>1. Inv /\ [Next]_vars => Inv'
  BY TypeStep, JobStep, LockStep, OperationStep DEF Inv
<1> QED BY TypeInit, <1>1, PTL DEF Spec

\* Every reachable state is well typed: no occurrence is outside the
\* schedule, and no repeat is consumed beyond the job's.
THEOREM TypeCorrect == Spec => []TypeOK
<1>1. Inv => TypeOK
  BY DEF Inv
<1> QED BY Invariant, <1>1, PTL

-----------------------------------------------------------------------------
(* The control service knows a synced job.                                 *)

\* A job is marked only after the answer to its own call, which leaves no
\* earlier call to come; every change of the job takes the mark away.
SyncInv ==
  /\ job.synced => late = None /\ row = CursorOf(job)
  /\ pc = "define" => ~job.synced
  /\ pc = "mark" => late = None /\ row = CursorOf(job)

LEMMA SyncStep == Inv /\ SyncInv /\ [Next]_vars => SyncInv'
<1> SUFFICES ASSUME Inv, SyncInv, [Next]_vars PROVE SyncInv'
  OBVIOUS
<1>0. job \in Job
  BY DEF Inv, TypeOK
<1>1. CASE UNCHANGED <<job, row, late>> /\ pc' \in {pc, "idle", "capture", "save"}
  BY <1>1 DEF SyncInv, CursorOf
<1>2. CASE Define
  BY <1>2 DEF Define, Published, SyncInv, CursorOf
<1>3. CASE Mark
  BY <1>0, <1>3 DEF Mark, SyncInv, CursorOf, Job
<1>4. CASE Save
  BY <1>0, <1>4 DEF Save, Consumed, SyncInv, Job
<1>5. CASE Sync
  BY <1>5 DEF Sync, SyncInv, CursorOf
<1>6. CASE DefineLost
  BY <1>6 DEF DefineLost, SyncInv
<1>7. CASE LateDefine
  BY <1>7 DEF LateDefine, SyncInv
<1>8. CASE Owner
  BY <1>0, <1>8 DEF Owner, Trigger, Edit, Pause, Resume, CancelJob, Remove, Manage, SyncInv, Job
<1>9. CASE Runs
  <2>1. CASE \E f \in Fire : Publish(f)
    BY <1>0, <2>1 DEF Publish, RunStep, SyncInv, Job, CursorOf
  <2> QED BY <1>1, <1>9, <2>1 DEF Runs, RunStart, RunDenied, RunWithdrawn, RunEnds, RunDies,
             Finish, RunStep
<1>10. CASE Tick \/ Workflow \/ Crash \/ Capture \/ CaptureFails \/ UNCHANGED vars
  BY <1>1, <1>10 DEF Tick, Workflow, Skip, Exhausted, Advance, Crash, Capture, Record, Insert,
     CaptureFails, Answer
<1> QED BY <1>2, <1>3, <1>4, <1>5, <1>6, <1>7, <1>8, <1>9, <1>10 DEF Next, Lock, Faults

\* A synced job is the one the control service knows, whatever definition
\* calls were lost, repeated or late.
THEOREM CursorKnown == Spec => []SyncedAgrees
<1>1. Init => SyncInv
  BY DEF Init, SyncInv
<1>2. SyncInv => SyncedAgrees
  BY DEF SyncInv, SyncedAgrees
<1> QED BY Invariant, SyncStep, <1>1, <1>2, PTL DEF Spec

-----------------------------------------------------------------------------
(* One run at a time.                                                      *)

LEMMA OneRunStep == Inv /\ OneRunOpen /\ [Next]_vars => OneRunOpen'
<1> SUFFICES ASSUME Inv, OneRunOpen, [Next]_vars PROVE OneRunOpen'
  OBVIOUS
<1> USE DEF Inv, TypeOK, OneRunOpen, OpenStates
<1>1. CASE \A f \in Fire : run'[f].state \in OpenStates => run[f].state \in OpenStates
  BY <1>1
<1>2. CASE Insert
  <2>1. CASE Busy
    BY <1>1, <1>2, <2>1 DEF Insert, Skipped
  <2>2. CASE ~Busy
    BY ZenonT(60), <1>2, <2>2 DEF Insert, Busy
  <2> QED BY <2>1, <2>2
<1>3. CASE Runs
  BY <1>1, <1>3 DEF Runs, RunStart, RunDenied, RunWithdrawn, RunEnds, RunDies, Finish, Publish,
     SetRun, RunStep
<1>4. CASE Owner
  <2>1. CASE run' = CancelledRun
    BY <1>1, <2>1 DEF CancelledRun
  <2> QED BY <1>1, <1>4, <2>1 DEF Owner, Trigger, Edit, Pause, Resume, CancelJob, Remove
<1>5. CASE Tick \/ Workflow \/ Lock \/ Record \/ LateDefine \/ Faults \/ UNCHANGED vars
  BY <1>1, <1>5 DEF Tick, Workflow, Skip, Exhausted, Advance, Lock, Define, Mark, Save, Sync,
     Record, LateDefine, Published, Revoked, Faults, DefineLost, CaptureFails, Crash
<1> QED BY <1>2, <1>3, <1>4, <1>5 DEF Next, Capture

\* A job has at most one run under way, however many requests, slots and
\* late captures there are.
THEOREM OneRun == Spec => []OneRunOpen
<1>1. Init => OneRunOpen
  BY DEF Init, OneRunOpen, OpenStates
<1> QED BY Invariant, OneRunStep, <1>1, PTL DEF Spec

-----------------------------------------------------------------------------
(* Pause and removal.                                                      *)

\* Input of a definition that is over, or of one that is not paused.
Startable(input, j) ==
  /\ input.version <= j.version
  /\ input.version = j.version => j.state \notin {"paused", "removed"}

\* Only a scheduled job has a slot captured, and pausing it makes a new
\* version, so a captured slot never has the version of a paused job.
InputInv ==
  /\ \A k \in Slot : op[k] # None => Startable(op[k], job)
  /\ call # None /\ call.fire \in Slot => Startable(call.input, job)

\* Only a start makes a captured run a running one.
LEMMA OnlyStarts ==
  ASSUME TypeOK, Next, NEW k \in Fire, run[k].state = "captured", run'[k].state = "running"
  PROVE  RunStart(k)
<1> USE DEF TypeOK
<1>1. ~UNCHANGED run
  OBVIOUS
<1>2. run' # CancelledRun
  BY DEF CancelledRun
<1>3. ~Insert
  BY DEF Insert
<1>4. ~Define /\ ~LateDefine
  BY DEF Define, LateDefine, Published, Revoked
<1>5. ~Owner
  BY <1>1, <1>2 DEF Owner, Trigger, Edit, Pause, Resume, CancelJob, Remove
<1>6. Runs
  BY <1>1, <1>3, <1>4, <1>5 DEF Next, Tick, Workflow, Skip, Exhausted, Advance, Lock, Mark, Save,
     Sync, Capture, Record, Faults, DefineLost, CaptureFails, Crash
<1>7. PICK f \in Fire : \/ RunStart(f) \/ RunDenied(f) \/ RunWithdrawn(f) \/ RunEnds(f)
                       \/ RunDies(f) \/ Finish(f) \/ Publish(f)
  BY <1>6 DEF Runs
<1> QED BY <1>7 DEF RunStart, RunDenied, RunWithdrawn, RunEnds, RunDies, Finish, Publish, SetRun,
           RunStep

LEMMA StartableLasts ==
  ASSUME Inv, [Next]_vars, NEW input \in Inputs, Startable(input, job)
  PROVE  Startable(input, job')
<1>0. job \in Job /\ input.version \in Nat /\ job.version \in Nat
  BY DEF Inv, TypeOK, Job, Inputs, Version
<1>1. CASE Mark
  BY <1>0, <1>1 DEF Mark, Startable, Job
<1>2. CASE Save
  BY <1>0, <1>2 DEF Save, Consumed, Startable, Job
<1>3. CASE Owner
  <2>1. \/ job'.version = job.version /\ job'.state = job.state
        \/ job'.version = job.version + 1
    BY <1>0, <1>3 DEF Owner, Trigger, Edit, Pause, Resume, CancelJob, Remove, Manage, Job
  <2> QED BY <1>0, <2>1 DEF Startable
<1>4. CASE \E f \in Fire : Publish(f)
  BY <1>0, <1>4 DEF Publish, Startable, Job
<1>5. CASE UNCHANGED job
  BY <1>5
<1> QED BY <1>1, <1>2, <1>3, <1>4, <1>5, JobKept DEF JobSteps

LEMMA InputStep == Inv /\ InputInv /\ [Next]_vars => InputInv'
<1> SUFFICES ASSUME Inv, InputInv, [Next]_vars PROVE InputInv'
  OBVIOUS
<1> USE DEF Inv, TypeOK
<1>1. \A k \in Slot : op[k] # None => Startable(op[k], job')
  BY StartableLasts DEF InputInv
<1>2. call # None /\ call.fire \in Slot => Startable(call.input, job')
  BY StartableLasts DEF InputInv
<1>3. CASE UNCHANGED <<op, call>>
  BY <1>1, <1>2, <1>3 DEF InputInv
<1>4. CASE Record
  BY <1>1, <1>2, <1>4 DEF Record, Answer, InputInv
<1>5. CASE Insert \/ CaptureFails
  BY <1>1, <1>2, <1>5 DEF Insert, CaptureFails, Answer, InputInv
<1>6. CASE Workflow
  <2> PICK c \in open : Skip(c) \/ Exhausted(c) \/ Advance(c)
    BY <1>6 DEF Workflow
  <2>1. CASE Advance(c)
    <3>1. call'.fire \in Slot => job.state = "scheduled"
      BY <2>1, RequestAssumption DEF Advance, Occurs, Job
    <3> QED BY <1>1, <2>1, <3>1 DEF Advance, InputInv, Startable, Job, Version
  <2> QED BY <1>3, <2>1 DEF Skip, Exhausted
<1>7. CASE Tick \/ Lock \/ LateDefine \/ DefineLost \/ Crash \/ UNCHANGED vars
  BY <1>3, <1>7 DEF Tick, Lock, Define, Mark, Save, Sync, LateDefine, Published, DefineLost, Crash
<1>8. CASE Owner
  BY <1>3, <1>8 DEF Owner, Trigger, Edit, Pause, Resume, CancelJob, Remove, Manage
<1>9. CASE Runs
  BY <1>3, <1>9 DEF Runs, RunStart, RunDenied, RunWithdrawn, RunEnds, RunDies, Finish, Publish, RunStep
<1> QED BY <1>4, <1>5, <1>6, <1>7, <1>8, <1>9 DEF Next, Capture, Faults

\* A slot captured before a pause or a removal does not start after it.
THEOREM PauseObeyed == Spec => PauseStops
<1>1. Init => InputInv
  BY DEF Init, InputInv
<1>2. Inv /\ InputInv /\ [Next]_vars =>
        [\A k \in Slot : (run[k].state = "captured" /\ run'[k].state = "running")
                             => job.state \notin {"paused", "removed"}]_vars
  <2> SUFFICES ASSUME Inv, InputInv, Next, NEW k \in Slot,
                      run[k].state = "captured", run'[k].state = "running"
               PROVE  job.state \notin {"paused", "removed"}
    OBVIOUS
  <2>1. RunStart(k)
    BY OnlyStarts DEF Inv
  <2>2. op[k] # None
    BY DEF Inv, OperationInv
  <2> QED BY <2>1, <2>2 DEF RunStart, InputInv, Startable, Inv, TypeOK, Job, Version
<1> QED BY Invariant, InputStep, <1>1, <1>2, PTL DEF Spec, PauseStops

-----------------------------------------------------------------------------
(* The count of repeats.                                                   *)

\* Slots with a run that the job has moved past.
Passed(r, j) == {k \in Slot : r[k].state # "absent" /\ j.next # k}

Observed == IF Pending THEN job.pending ELSE job.next

\* The capture under way is that of the job's own occurrence; one whose
\* caller is gone is still that of the job's next slot.
CallInv ==
  /\ call # None /\ call.fire \in Slot => call.fire = job.next
  /\ pc = "capture" => call.fire = Observed
  /\ pc = "save" => call = None /\ reply.fire = Observed /\ run[Observed].state # "absent"
  /\ pc \in {"capture", "save"} /\ ~Pending => at >= OnTime(job.next)

\* Runs are those of slots up to the next one.
PassedInv == job.next # 0 => \A k \in Slot : run[k].state # "absent" => k <= job.next

CountInv == CallInv /\ PassedInv /\ RepeatsCounted

\* A step that leaves the job where it is and captures no other slot.
LEMMA QuietStep ==
  ASSUME TypeOK, PassedInv, RepeatsCounted,
         job'.next = job.next, job'.completed = job.completed,
         \A k \in Slot : k # job.next => (run'[k].state # "absent" <=> run[k].state # "absent")
  PROVE  PassedInv' /\ RepeatsCounted'
<1>1. Passed(run', job') = Passed(run, job)
  BY DEF Passed
<1>2. PassedInv'
  BY DEF PassedInv, TypeOK, Job
<1> QED BY <1>1, <1>2 DEF RepeatsCounted, Passed

\* The job moves past a slot: the slot is counted now, and was not before.
LEMMA SlotStep ==
  ASSUME Inv, CountInv, Save, ~Pending
  PROVE  PassedInv' /\ RepeatsCounted'
<1> DEFINE next == IF reply.reason = "missed" THEN SlotAfter(at) ELSE job.next + 1
<1>1. /\ job \in Job /\ job.next \in Nat /\ job.next # 0 /\ 2 * job.next - 1 <= MaxTime
      /\ at \in Nat /\ at >= 2 * job.next - 1 /\ run[job.next].state # "absent"
  <2>1. job \in Job /\ job.next \in 0..(MaxTime + 1) /\ now \in 0..MaxTime /\ at \in 0..MaxTime
    BY DEF Inv, TypeOK, Job
  <2>2. Due(job.next) /\ at >= OnTime(job.next) /\ Observed = job.next
    BY DEF Inv, Save, LockInv, CountInv, CallInv, Observed
  <2>3. run[job.next].state # "absent"
    BY <2>2 DEF Save, CountInv, CallInv
  <2> QED BY <2>1, <2>2, <2>3, TimeAssumption DEF Due, OnTime
<1>2. job.next \in Slot
  BY <1>1, TimeAssumption
<1>3. next \in Nat /\ next > job.next
  BY <1>1 DEF SlotAfter
<1>4. /\ UNCHANGED run
      /\ job'.completed = job.completed + 1
      /\ job'.next = IF job.completed + 1 >= Times THEN 0 ELSE next
  BY <1>1 DEF Save, Consumed, Job
<1> HIDE DEF next
<1>5. \A k \in Slot : run[k].state # "absent" => k <= job.next
  BY <1>1 DEF CountInv, PassedInv
<1>6. Passed(run', job') = Passed(run, job) \cup {job.next}
  BY <1>1, <1>2, <1>3, <1>4, <1>5 DEF Passed
<1>7. job.next \notin Passed(run, job) /\ IsFiniteSet(Passed(run, job))
  <2>1. Passed(run, job) \in SUBSET (1..MaxTime) /\ job.next \notin Passed(run, job)
    BY DEF Passed
  <2>2. IsFiniteSet(1..MaxTime)
    BY FS_Interval, TimeAssumption
  <2> QED BY <2>1, <2>2, FS_Subset
<1>8. Cardinality(Passed(run', job')) = Cardinality(Passed(run, job)) + 1
  BY <1>6, <1>7, FS_AddElement
<1>9. PassedInv'
  BY <1>1, <1>3, <1>4, <1>5 DEF PassedInv
<1> QED BY <1>4, <1>8, <1>9 DEF CountInv, RepeatsCounted, Passed

LEMMA CountStep == Inv /\ CountInv /\ [Next]_vars => PassedInv' /\ RepeatsCounted'
<1> SUFFICES ASSUME Inv, CountInv, [Next]_vars PROVE PassedInv' /\ RepeatsCounted'
  OBVIOUS
<1> USE DEF Inv, TypeOK, CountInv
<1>0. job \in Job
  OBVIOUS
<1>1. CASE UNCHANGED run /\ job'.next = job.next /\ job'.completed = job.completed
  BY <1>1, QuietStep
<1>2. CASE Save
  <2>1. CASE Pending
    BY <1>0, <1>1, <1>2, <2>1 DEF Save, Consumed, Job
  <2> QED BY <1>2, <2>1, SlotStep
<1>3. CASE Insert
  <2>1. \A k \in Slot : k # job.next => (run'[k].state # "absent" <=> run[k].state # "absent")
    BY <1>3 DEF Insert, CallInv
  <2> QED BY <1>3, <2>1, QuietStep DEF Insert
<1>4. CASE Define \/ LateDefine
  <2>1. run' = [f \in Fire |-> run'[f]] /\ \A k \in Slot : run'[k].state # "absent" <=> run[k].state # "absent"
    BY <1>4 DEF Define, LateDefine, Published, Revoked
  <2> QED BY <1>4, <2>1, QuietStep DEF Define, LateDefine
<1>5. CASE Owner
  <2>1. \A k \in Slot : run'[k].state # "absent" <=> run[k].state # "absent"
    <3>1. CASE run' = CancelledRun
      BY <3>1 DEF CancelledRun
    <3> QED BY <1>5, <3>1 DEF Owner, Trigger, Edit, Pause, Resume, CancelJob, Remove
  <2>2. job'.next = job.next /\ job'.completed = job.completed
    BY <1>0, <1>5 DEF Owner, Trigger, Edit, Pause, Resume, CancelJob, Remove, Manage, Job
  <2> QED BY <2>1, <2>2, QuietStep
<1>6. CASE Runs
  <2> PICK f \in Fire : \/ RunStart(f) \/ RunDenied(f) \/ RunWithdrawn(f) \/ RunEnds(f)
                        \/ RunDies(f) \/ Finish(f) \/ Publish(f)
    BY <1>6 DEF Runs
  <2>1. \A k \in Slot : run'[k].state # "absent" <=> run[k].state # "absent"
    BY DEF RunStart, RunDenied, RunWithdrawn, RunEnds, RunDies, Finish, Publish, SetRun, RunStep
  <2>2. job'.next = job.next /\ job'.completed = job.completed
    BY <1>0 DEF RunStart, RunDenied, RunWithdrawn, RunEnds, RunDies, Finish, Publish, RunStep, Job
  <2> QED BY <2>1, <2>2, QuietStep
<1>7. CASE Mark
  BY <1>0, <1>1, <1>7 DEF Mark, Job
<1>8. CASE Tick \/ Workflow \/ Sync \/ Record \/ Faults \/ UNCHANGED vars
  BY <1>1, <1>8 DEF Tick, Workflow, Skip, Exhausted, Advance, Sync, Record, Faults, DefineLost,
     CaptureFails, Crash
<1> QED BY <1>2, <1>3, <1>4, <1>5, <1>6, <1>7, <1>8 DEF Next, Lock, Capture

LEMMA CallStep == Inv /\ CountInv /\ [Next]_vars => CallInv'
<1> SUFFICES ASSUME Inv, CountInv, [Next]_vars PROVE CallInv'
  OBVIOUS
<1> USE DEF Inv, TypeOK, CountInv, CallInv
<1>0. job \in Job
  OBVIOUS
<1>1. CASE UNCHANGED <<job, pc, reply, at, call>> /\
           \A f \in Fire : run[f].state # "absent" => run'[f].state # "absent"
  <2>1. Observed' = Observed
    BY <1>1 DEF Observed
  <2>2. pc = "save" => Observed \in Fire
    BY DEF LockInv
  <2> QED BY <1>1, <2>1, <2>2
<1>2. CASE pc' \notin {"capture", "save"} /\ job'.next = job.next /\ UNCHANGED call
  BY <1>2
<1>3. CASE Save
  BY <1>3 DEF Save
<1>4. CASE Workflow
  <2> PICK c \in open : Skip(c) \/ Exhausted(c) \/ Advance(c)
    BY <1>4 DEF Workflow
  <2>1. CASE Advance(c)
    <3>1. call'.fire = Observed /\ (call'.fire \in Slot => call'.fire = job.next)
      BY <1>0, <2>1, RequestAssumption DEF Advance, Observed, Job
    <3>2. ~Pending => now >= OnTime(job.next)
      BY <2>1 DEF Advance, Occurs, Due
    <3> QED BY <2>1, <3>1, <3>2 DEF Advance, Observed
  <2> QED BY <1>1, <2>1 DEF Skip, Exhausted
<1>5. ASSUME NEW answer, Answer(answer), UNCHANGED job, call # None,
             answer # None => answer.fire = call.fire /\ run'[call.fire].state # "absent"
      PROVE  CallInv'
  <2>1. pc # "save" /\ Observed' = Observed
    BY <1>5 DEF Observed
  <2>2. CASE pc # "capture"
    BY <1>5, <2>1, <2>2 DEF Answer
  <2>3. CASE pc = "capture" /\ answer = None
    BY <1>5, <2>3 DEF Answer
  <2>4. CASE pc = "capture" /\ answer # None
    BY <1>5, <2>1, <2>4 DEF Answer, Due
  <2> QED BY <2>2, <2>3, <2>4
<1>6. CASE Record
  <2>1. CASE Answer(None)
    BY <1>5, <1>6, <2>1 DEF Record
  <2>2. CASE call' = [call EXCEPT !.recorded = TRUE] /\ UNCHANGED lockVars
    BY <1>6, <2>2 DEF Record, Observed
  <2> QED BY <1>6, <2>1, <2>2 DEF Record
<1>7. CASE Insert
  <2> DEFINE f == call.fire
             reason == IF Busy THEN "overlap" ELSE call.input.reason
  <2>1. CASE run[f].state # "absent"
    BY <1>5, <1>7, <2>1 DEF Insert
  <2>2. CASE run[f].state = "absent" /\ ~Known(call.input)
    BY <1>5, <1>7, <2>2 DEF Insert
  <2>3. CASE run[f].state = "absent" /\ Known(call.input)
    <3>1. f \in Fire
      BY <1>7 DEF Insert
    <3>2. run'[f].state # "absent" /\ Answer([fire |-> f, reason |-> reason])
      BY <1>7, <2>3, <3>1 DEF Insert
    <3> QED BY <1>5, <1>7, <3>2 DEF Insert
  <2> QED BY <2>1, <2>2, <2>3
<1>8. CASE CaptureFails
  BY <1>5, <1>8 DEF CaptureFails
<1>9. CASE Sync \/ DefineLost \/ Crash
  BY <1>2, <1>9 DEF Sync, DefineLost, Crash
<1>10. CASE Define
  BY <1>2, <1>10 DEF Define
<1>11. CASE Mark
  BY <1>0, <1>2, <1>11 DEF Mark, Job
<1>12. CASE Owner
  BY ZenonT(60), <1>0, <1>2, <1>12 DEF Owner, Trigger, Edit, Pause, Resume, CancelJob, Remove, Manage, Job
<1>13. CASE LateDefine
  BY <1>1, <1>13 DEF LateDefine, Published, Revoked
<1>14. CASE Tick \/ UNCHANGED vars
  BY <1>1, <1>14 DEF Tick
<1>15. CASE Runs
  <2> PICK f \in Fire : \/ RunStart(f) \/ RunDenied(f) \/ RunWithdrawn(f) \/ RunEnds(f)
                        \/ RunDies(f) \/ Finish(f) \/ Publish(f)
    BY <1>15 DEF Runs
  <2>1. CASE Publish(f)
    BY <1>0, <1>2, <2>1 DEF Publish, RunStep, Job
  <2>2. CASE RunEnds(f)
    BY <1>1, <2>2 DEF RunEnds, RunStep
  <2>3. CASE RunStart(f) \/ RunDenied(f) \/ RunWithdrawn(f) \/ RunDies(f) \/ Finish(f)
    BY <1>1, <2>3 DEF RunStart, RunDenied, RunWithdrawn, RunDies, Finish, SetRun, RunStep
  <2> QED BY <2>1, <2>2, <2>3
<1> QED BY <1>3, <1>4, <1>6, <1>7, <1>8, <1>9, <1>10, <1>11, <1>12, <1>13, <1>14, <1>15
        DEF Next, Lock, Capture, Faults

\* The count in the job store is the number of slots captured in the control
\* store, but for one the job has not moved past.
THEOREM CountKept == Spec => []RepeatsCounted
<1>1. Init => CountInv
  <2> SUFFICES ASSUME Init PROVE CountInv
    OBVIOUS
  <2>1. {k \in Slot : run[k].state # "absent" /\ job.next # k} = {}
    BY DEF Init
  <2> QED BY <2>1, FS_EmptySet DEF Init, CountInv, CallInv, PassedInv, RepeatsCounted
<1>2. CountInv => RepeatsCounted
  BY DEF CountInv
<1>3. Inv /\ CountInv /\ [Next]_vars => CountInv'
  BY CountStep, CallStep DEF CountInv
<1> QED BY Invariant, <1>1, <1>2, <1>3, PTL DEF Spec
=============================================================================
