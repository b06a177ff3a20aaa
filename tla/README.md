# A verification project for Nocheh

Nocheh keeps a person's Telegram conversations and browser turns in an immutable
archive, runs an assistant (the Hermes runtime) over them, and does everything it
does through durable jobs: a control service (`src/src`, TypeScript, PostgreSQL)
decides, the runtime (`src/services/hermes`, Python, files on disk) executes, an
Inngest server schedules the steps between them, and a dashboard shows it all.
None of the four shares a transaction with another one. What the system promises —
at most one reply, no lost job, no effect under an owner that is gone, no result
lost in a crash — therefore rests on orders of writes, locks, epochs and receipts.
These modules model that part: the control flow of the durable jobs and of what
the owner and the stores decide around them, with every call that may be lost or
late and every process that may die between two writes. TLC checks each component
on a small instance; TLAPS proves what matters most of thirteen of them for every
value of their constants.

1. [The system](#1-the-system)
2. [The modules](#2-the-modules)
3. [The runs](#3-the-runs)
4. [The proofs](#4-the-proofs)
5. [What the models leave out](#5-what-the-models-leave-out)
6. [Where the code and its documents disagree](#6-where-the-code-and-its-documents-disagree)
7. [The plan](#7-the-plan)
8. [Running it](#8-running-it)

All paths below are relative to `src/`.

## 1. The system

| Component | State it keeps | Operations | Meets | Hard behaviour | Correct when |
|---|---|---|---|---|---|
| Workflow registry, outbox and publisher (`src/workflows/store.ts`) | `workflow_registry` (state, dispatch, lease), `workflow_outbox`, `workflow_runs`, `workflow_receipts`, `workflow_owners` | `requestWorkflow`, `publish`, `claimWorkflow`, `renewWorkflow`, `setWorkflow`, `continueWorkflow`, `enterFamily`, `pauseFamily`, `switchFamilyTransaction`, `beginEffect`, `finishEffect` | every domain service, in its own transactions; Inngest by events | lost answers, events dropped by the engine, expired leases, stale owner snapshots | an open job always has somebody who will work on it; nobody acts under an epoch that is over |
| Workflow engine and pipelines (`src/workflows/engine.ts`, `pipeline.ts`) | one step's locals; the retries and sleeps of Inngest | `coordinatedFunctions`, `advanceWorkflow`, continuation, mirror of receipts | registry, one domain operation per family | dead runs, two runs for one dispatch, results after the lease | late results change nothing; the job goes on |
| Owner controls (`src/stores/workflow-owner.ts`, `workflows/owner.ts`) | none of its own | retry, cancel, bulk control | registry, dispatches, managed runs | races with a running step | a retry never repeats an effect |
| Retention (`src/workflows/retention.ts`) | none | `pruneWorkflows` | registry rows of closed jobs | a closed job that opens again | nothing pruned is needed again |
| Telegram dispatch (`src/stores/telegram-dispatch.ts`) | `dispatches`, a checkpoint per attempt in the derived database | `receive`, `start`, `storeResult`, `finish`, `reconcile`, `cancel`, reopening | registry, runtime, guards | two databases, a runtime that may or may not have sent | at most one reply per message |
| Native runtime (`services/hermes/async_runs.py`, `assistant_gateway.py`, `runtime.py`) | journal, request, result and closed files; threads; delivery receipts | `start`, `resume`, `cancel`, threads | dispatch and managed runs, by calls | restart at any point, late requests | an answer is only given from evidence on disk |
| Managed runs (`src/stores/managed-execution.ts`, `browser-runs.ts`, `scheduled-runs.ts`, `services/hermes/managed_async.py`) | `managed_runs`, `runtime_turns`, a result checkpoint; request, receipt and published files | admit, bind, context, claim, heartbeat, complete, finish, recover, interrupt, cancel | registry receipts, runtime, guards, schedules | late claims and results, expired leases, changed epochs and guards | one execution, one settlement, evidence kept |
| Schedules (`src/stores/schedules.ts`, `workflows/schedules.ts`, `services/hermes/scheduler.py`, `native_cron.py`) | `cron/jobs.json` under a file lock; `workflow_schedules`, `schedule_versions` | manage (create, edit, pause, trigger, cancel, remove), sync, advance, publish; definition, capture | registry, managed runs | one side holds a lock while it calls the other | one run at a time, each slot once, pause is obeyed |
| Background slots and native reviews (`src/stores/workflow-operations.ts`, `native-review.ts`) | in-memory operations and one waiter; `native_review_jobs`, results in the derived store | admit, wait, hand over; queue, claim, call, observe, save, pause and resume of a review | pipelines, Hermes, guard epoch, consent | a waiter's timeout against the hand-over; lost calls, lost locks, an epoch that moves in between | a reply always finds a slot, the waiter is not forgotten, a source is reviewed once |
| Host imports (`src/stores/imports.ts`, `workflows/imports.ts`, `workflows/host*.ts`) | `workflow_imports`, a workflow per generation, the dashboard's `job.json` | save, confirm, claim, batch, learn, cancel, resume | archive, learning, dashboard | a batch under a lease that ran out, cancelled or resumed meanwhile | file, row, workflow, messages and checkpoint agree |
| Guard publications (`src/stores/publications.ts`, `guards.ts`, `selections.ts`, `learned.ts`) | `guard_state` (epoch), publications and representations in two databases | stage, revoke, activate, settle, reconcile, read | every reader of content | any of four commits may be the last before a crash | the stores agree, the owner's revision stays, a reader sees one moment |
| Prepared texts (`src/stores/prepared-context.ts`) | a cache, a queue per key in each process, detections and copies in the derived store | prepare, detect, publish, reuse | guards, broker | two processes, an epoch that moves | everyone is answered the same |
| Capture (`src/stores/capture.ts`, `generated-capture.ts`, `browser-capture.ts`, `services/hermes/capture.py`) | spool files, archive rows, control rows | observe, drain, import, reconcile | dispatch, schedules | three places written one after the other | nothing acknowledged is lost, history is not answered |
| Preparation, attachments, reprocessing | a job per source, manifests, texts, selections | steps of the job by callbacks under a lock | guards, capture | a lost lock, a step that runs twice | what was prepared stands, the owner's text above all |
| Controlled actions (`src/stores/controlled-*.ts`, `src/security/*`, host tools) | proposals, permissions with uses, child processes, receipt files, derived results | propose, decide, claim, start, execute, save, finish, revoke, recover | host worker, tool process | revocation and expiry in between, children that outlive leases | one effect, with authority, told by a final result |
| Security broker (`src/security/broker.ts`, `store.ts`, `stores/turns.ts`) | turns, the journal, the policy; a stream in memory | register, decide, prepare, call, answer, settle | runtime, provider | policy, epoch, turn and run move between any two queries | what is asked and given is what is allowed at that moment |
| Approved messages (`src/stores/telegram-actions.ts`, `memory-access.ts`) | proposals, memory requests and grants, the gateway's receipts | propose, approve, send, observe, settle, revoke | workflows, gateway | unconfirmed sends | at most one send, told as it was |
| Native memory and Honcho (`src/stores/native-memory.ts`, `source-retirement.ts`, `honcho.ts`) | receipts, sessions, workspaces in the derived store; Honcho's own | write, rebuild, fresh start, sweep, context, recall | guards, entities, Honcho | rebuilds and withdrawals crossing writes and reads | receipts and Honcho agree, nothing withdrawn is read |
| Entities and the walk to them (`src/stores/entities.ts`) | entities, bindings, claims, suggestions | link, merge, unmerge, confirm, correct, publish; `connectedFrom` | learning, native memory | crossing merges; queries one after the other | well formed; the owner's claim stands; every hop was to be seen |
| Knowledge proposals (`src/stores/knowledge-management.ts`, `projects.ts`) | proposals, assignments, delegations with baselines, owner commands | propose, decide, delegate, apply, undo | learning, owner | a delegation changed under an application | applied once; the owner's choice stands |
| Sharing (`src/stores/sharing.ts`) | rules, previews, releases | prepare, edit, release, filter, read, revoke | guards | each condition read by a query of its own | what is delivered is still released |
| Dashboard (`src/management.ts`, `management-maintenance.ts`) | requests, the writer lock, one operation, a window, sockets, `job.json` | admit, begin, launch, drain, stop, restart | child processes | everything but files is gone with the process | operations exclude one another, a backup's window is quiet |
| Migration (`src/workflows/migrations.ts`), budget meter (`services/honcho/meter.py`), provider OAuth and proxies, operator tools, pages of the dashboard | — | cutover by tests only; one file under one lock; I/O | — | — | not modelled, see 5 |

How the parts of the core meet: a domain change and the request of its workflow
are one control transaction; the publisher turns outbox rows into events; an
Inngest run claims a lease in the registry, takes the family lock and calls *one*
operation of the domain; the operation talks to the runtime by calls that name an
attempt or a run, never by shared state; the runtime reports by receipts that are
written to disk first. The locks are the shared or exclusive advisory lock of a
family, an advisory lock per event, a file lock per profile, and rows.

`PROJECT.json` lists every component with its status and every hazard with its line.

## 2. The modules

One action is one database transaction, one awaited call, or one write of a file.
Time is abstract except in `Schedules`: a lease, a back-off or a preparation may end
at any moment. Contents are left out; where a decision depends on one (a guard
binding, an error code) the model keeps the decision.

### WorkflowEngine

The registry, its outbox and publisher, the runs of the engine, the family lock with
epoch and admission, owner controls, generations of a source job, retention, and the
receipt of one native effect per workflow.

* `state`, `dispatch`, `lease`, `leaseLive` are the columns of `workflow_registry`;
  `outbox`, `published`, `received` are rows; `sending` and `events` are what
  publisher and engine hold in memory. A run `r` walks through `pc[r]`: `step`,
  `supersede`, `claim`, `claimed`, `operating`, `inside` (holds the family lock),
  `returned`, `record`. `runEpoch` is the owner row it *read*, not the present one.
* `lastClaim`, `receiptEpoch` and `abandoned` are history; no guard reads them.
* `Target` fixes the workflow a run serves and `Newer` the newer generations of a
  source job; `Effectful` are the workflows whose operation launches a native request.

### DurableEffect

The abstract specification of a workflow receipt: an effect begins only when nothing
unsettled is before it, under the present epoch and with admission; it settles once;
the family changes hands only when nothing is unsettled. `WorkflowEngine`
(`EffectsKept`, for each workflow) and `ManagedRun` (`EffectKept`) implement it by
`INSTANCE`; both facts are checked and proved.

### TelegramDispatch

One message: its row in `dispatches`, the checkpoint of each attempt, its workflow
and the receipts mirrored into the registry, the steps that advance it, and for each
attempt the journal, thread, gateway receipt and result of the runtime. Calls may be
lost before or after their effect, and `run.start` may arrive after its caller gave
up (`inflight`). An `ambiguous` result is split by its error code into the ones a
reconciliation may reopen and the one it may not. `delivered` is the history of what
was really sent. A message is reopened at most once (`reconciliation_checked_at`).

### ManagedRun

One run of either channel (`Channel`, the row's variable `channel`): the row, its
receipt in the registry, the derived checkpoint, one workflow step at a time
(the event's advisory lock), and the runtime's request, closed and receipt files with
the thread that executes. `finish` is two actions, `RecordResult` in the derived and
`CompleteRun` in the control database; because the receipt is immutable, every late,
repeated, flushed or reconciled publication is one of these two. A heartbeat that is
answered has no effect, one that is refused interrupts.

### Schedules

One interval schedule. The runtime side holds the profile's file lock (`pc`, `at`,
`reply`) while it calls the control side: `Advance` → `Record` → `Insert` → `Save` →
`Define` → `Mark`, or fails anywhere between them. `call` is the capture at the
control service, which goes on after its caller gave up; `late` is a definition call
that arrives afterwards. Occurrences are slots and owner requests; time has two
instants per slot, on time and more than sixty seconds late. Runs are reduced to
what the schedule sees of them; `ManagedRun` has their story. Sequence numbers are
represented by order: the job's sequence is raised on disk before each call, so a
late call can only have an effect until the next one is answered. Workflows of cursors
that can never come back (another version or count) are forgotten (`Recurring`).

### Capture, Preparation

`Capture` keeps the spool (`observed`, `spool`), the archive (`archived`, `files`) and the
control rows (`handed`, `answered`, `receipts`, `reaction`) apart, and lets two drainers,
reconciliation and an import meet the same source; every step may be the last before a
crash. Updates are sequence numbers; three histories stand for what files are about.
`Preparation` is the job of one source: bytes of attachments, engine outputs, selections,
the owner's own text and reprocessing, by callbacks whose lock may be lost.

### GuardPublication, PreparedContext

`GuardPublication` is the four commits of a revision — staged (derived store), revoked for
(control store), activated (derived), settled (control) — by anybody who begins or finishes
them, with a learning job that publishes a batch and a reader who binds itself to an epoch.
`PreparedContext` is what `prepare` answers for a text: the saved detection, the published
copy, the queue of each process. An owner's edit of a guarded copy moves the epoch and
with it the key, so it is not an action of its own.

### NativeMemory, MemoryCorrection, MemoryReading, ConnectedWalk, ConnectedEntities

What Nocheh knows of its people, in five modules that share no variable:
`NativeMemory` writes documents into Honcho under receipts, rebuilds sessions and begins
workspaces afresh; `MemoryCorrection` sweeps the receipts after the owner retires or
restores messages; `MemoryReading` is one turn's context and recall against withdrawals,
rebuilds and reuse; `ConnectedWalk` finds whose memory is read, claim by claim: a page of the claims of each entity, along
the readable ones to entities that are *shown*, for which a group reader must be able to read one of the first
claims by id (`LookedAt`; the code's limits of 100 and 200 are `MaxLooked` and `MaxRead`);
`ConnectedEntities` are the entities, their bindings and the claims. Honcho is external and
modelled from its use: it says any subset of what its sessions were given, does not handle
a call after the lock of its caller is released, and deleting a session removes what was
derived from it.

### ControlledExecution, ApprovedDelivery, Broker

`ControlledExecution` is actions of one exact fingerprint: proposal, decision, a permission
with a number of uses, claim, start, the child that executes and outlives its lease, the
receipt file, the derived result, the row; with revocation, deny rules and recovery.
`ApprovedDelivery` is an approved message outside a conversation and the memory request and
grant that may stage one; the gateway's answer may be lost or late. `Broker` is one managed
turn: its admission by two callers, and one request from the decision to the last part of
its answer, while facts (epoch, turn, run) lapse and the policy changes between any two
queries. Requests share only what they read, so one of them moves.

### KnowledgeProposals, Sharing, HostImports

`KnowledgeProposals` are typed changes of the project of a chat or a topic of it, applied
because the owner approved them or because a delegation covers them (`baseline` and
`parent` are its record of what the owner had chosen when it was given).
`Sharing` is a rule between two spaces: previews, releases and readers, each condition of
which is a query of its own. `HostImports` is one import: the file of the dashboard, the row
and workflow of each generation, workers with both leases, and batches that write messages
while they hold the row.

### Dashboard, BackgroundWork

`Dashboard` is the memory of the management process: tracked requests, the writer lock, the
one operation, the maintenance window, a socket, stop and restart. `BackgroundWork` is the
operation slots with their one waiter, and the native reviews that hold one for minutes;
`begun` counts, as history, how often Hermes began a review.

### MC modules

`MCWorkflowEngine`, `MCTelegramDispatch`, `MCManagedRun`, `MCSchedules` name the small
sets the configurations use. Three more hold several instances in one run:

* `MCProgress` instances `WorkflowEngine` twice and `TelegramDispatch` once; `shape` chooses in
  the initial state which of them moves.
* `MCGovernance` and `MCRepresentations` extend the components of what the owner governs and
  of what is known; `part` chooses the one that moves. The components share no
  variable, so the union has the reachable states of each, one after the other, and a property
  of the union names the part it looks at. `Governance_proofs` uses the same fact the other
  way, and so does `Representations_proofs`: every run of the union is a run of each component.

No configuration replaces a definition.

## 3. The runs

| Run | Instance | What it shows |
|---|---|---|
| `workflow_delivery` | an older and a newer generation, 1 run, 2 dispatches, 1 abandoned run | with lost answers, lost events, dead runs, expired leases, continuation, retention and owner controls, an open job keeps its outbox row and a driver, a closed one no lease |
| `workflow_fence` | 1 workflow, 1 run, 2 dispatches, 2 epochs, native effect | nobody acts under an old epoch; no switch leaves an unsettled effect; a closed job only reopens freshly; effects follow `DurableEffect` |
| `telegram_reply` | 1 step, 2 attempts | at most one reply; a retry has nothing behind it; a receipt called failed is silent |
| `telegram_overlap` | 2 steps, 1 attempt | overlapping steps do not unsettle the row, and registry and row agree |
| `progress` | `driven`: 1 workflow, 2 dispatches; `source`: 2 generations; `reply`: 1 message, 1 attempt | under fairness, an admitted open job is worked on again and again until it closes; a superseded generation closes without the maintenance sweep; a running message settles |
| `managed` | 2 epochs, both channels | settlement is final and told by the receipt; no cancelled run is done; effects follow `DurableEffect`; evidence is recorded; the run settles |
| `schedule` | 2 repeats, 1 request, 3 instants (2 slots), 2 versions | the control side knows the synced job; one run at a time; repeats are counted; pause and removal are obeyed |
| `governance` | 2 actions, 1 permission of 1 use; 1 message, 1 proposal; an import of 2 messages by 2 workers; 2 dashboard requests; 2 callbacks, 2 epochs; 2 callers and 1 reader of a share; 3 calls in 2 processes; 1 turn, 2 callers, an answer of 2 parts | actions have authority and final results; messages, texts and answers are what was approved, prepared and allowed; imports tell one story; changes are applied once and never over the owner's choice; what is shared is released; admitted work stays apart |
| `representations` | 2 revisions of 3 entries; 2 documents, 2 sessions, 2 workspaces; 2 accounts; 2 files of a history; 2 callbacks on an attachment; 1 message and its interpretation, 3 epochs; 2 conversations; 5 entities in a chain | nothing acknowledged is lost; prepared and published content stands; Honcho holds what its receipts say; readers see one moment and nothing withdrawn; claims of the owner stand |
| `telegram_mirror` | 1 step, 2 attempts | **violation**, see 6 |
| `schedule_driven` | 2 repeats, 1 request, 2 instants | **violation**, see 6 |
| `schedule_overlap` | 2 repeats, no request, 4 instants | **violation**, see 6 |

**Bounds.** Two dispatches are enough for an outbox row, claim or result of an
*earlier* dispatch to meet the present one; a third adds only another earlier one. Two
epochs give one switch, with a holder from before it. Two attempts give a retry with
an earlier attempt still alive. One abandoned run is what the engine's twenty retries
come to. Two slots and one request let a slot, a request and a late capture of either
meet, and two versions let an edit, pause or removal happen between any two steps. In the
unions two of a kind (workers, callers, drainers, callbacks, sessions) let one overtake the
other, and one guard epoch more than the first makes everything bound before it stale.
A chain of five entities is one hop longer than a walk may be; the entity in its middle has more claims than are looked at (2), and in half of the initial
states more than a page (3), so that both limits bite and a walk through it is also seen whole. Two runs of one workflow at once
are in no TLC run any more: `workflow_delivery` has two generations instead, and the theorems
`OutboxKept`, `DriverKept` and `ClosedWithoutLease` hold for any number of runs.
The proofs of section 4 remove the bounds where they exist. Symmetry is declared in
`telegram_overlap`, `governance` and `representations`, whose properties are invariants
and action properties; `progress` and `managed`, which have liveness, declare none.

**Fairness.** Safety runs assume none. The liveness properties assume what the code
schedules; in `progress` each asks for the fairness of its own shape:

* Engine (`driven`, `source`): the publisher's loop runs for ever and an engine that
  is asked often enough accepts and starts (SF of `PublishAccepted` and `StartRun`,
  because a single attempt may always be lost), a lease runs out, an accepted row is
  marked, a step that can go on does, and a run does not crash for ever
  (`<>[][Crash(r) => Advance(r)]`, Inngest's retries being finite). The family is
  admitted from some time on.
* Message (`reply`): steps and threads go on, the lease of a dead step runs out, an observation
  or a preparation that is tried over and over succeeds at last (SF of `Observe` and `Build`), and
  calls and processes fail finitely often.
* `ManagedRun`: the step is run again while the workflow is open, threads go on, the lease
  of a run without a living thread runs out, and `Faults` (a dependency not ready, a
  refused or lost call, a crash, a restart) happen finitely often.

Owner controls, pauses, guard changes and schedule edits are never assumed to happen.

**Deadlock** is checked in the runs that do not switch it off. `Managed.cfg`, the schedule
configurations, `Governance.cfg` and `Representations.cfg` do: a settled run, a completed or removed
schedule, a delivered message, a finished import have nothing left to do.

Each property of a passing run has a mutant: a definition of the modules (commented as a mutant or a
fault, or a real one of the same shape) that is a plausible bug, with which the same run finds the property violated.

## 4. The proofs

The theorems hold for every value of the constants that satisfies the assumptions named
in the modules (bounds are only assumed to be natural numbers; sets of workflows, runs,
actions, workers, callers and proposals are arbitrary; a value that stands for `none of
them`, as `Nobody` and `NoTurn`, is assumed not to be one of them).

**`WorkflowEngine_proofs`.** From `TypeCorrect` on:

* `FenceHolds`: `EpochFence` is inductive with the types: only `Enter` brings a run inside,
  and it compares the epoch; `Switch` needs the exclusive lock, so nobody is inside.
* `SwitchReconciles`, `EffectsImplemented`: receipts start under the present epoch, and every
  step of the registry is a step of `DurableEffect` or leaves it alone.
* `ClosedWithoutLease`, `ReopeningIsFresh`: each action that closes a workflow clears its lease, each
  that opens one is a new dispatch with a free receipt.
* `OutboxKept` needs `AbsentIsFresh`: a workflow without a row still has dispatch 1.
* `DriverKept`, the main one. `NoLostDriver` says who will act, which no action preserves by
  itself: a run may die, or end, having been *received*. The invariant `DriverInv` adds
  `NoFutureDispatch` (rows, runs and events never name a dispatch that has not been reached),
  `ReceivedWasClaimed` (a current dispatch marked received has a claimant) and
  `LastClaimantLives` (the last claimant is alive or abandoned). A run that
  leaves is then either not the last claimant, or leaves a workflow that is closed or moved on.

**`TelegramDispatch_proofs`**, for any number of steps that overlap, of attempts and of restarts.

* `OneReply`, `RetriesAreSafe` and `FailuresAreSilent` come from one invariant: an attempt *before* the
  present one is closed and silent — no thread of it lives, nothing of it is in flight, and what it left says that
  it sent nothing. Only the present attempt can have sent, so two replies would need two present attempts. A new attempt
  is begun only on evidence that the last one is such, and each step's locals (`saw`, `val`) are tied to the attempt
  they were read of.
* `SettledForGood` rests on who holds the event's lock: a step that lost it cannot reach the row.
* `ClosedTellsTheRow`: the step that owns the event is the only one to record, and what any other still
  holds is either of the row as it is or refused by the lease.

**`ManagedRun_proofs`.** `RunInv` is `TypeOK`, `RowInv` (`ReceiptAgrees`, that a running row was claimed,
and that a cancelled request is not done) and `ResultWasClaimed` (a receipt or checkpoint exists
only for a claimed run). The lemma `RowMoves` reduces every action to one of the few
transactions on the row, so that `RowInv` and the refinement `EffectImplemented` are proved on
those. `ReceiptKept`, `CancellationHolds` and `ClosedForGood` follow.

**`Schedules_proofs`**, for any number of requests, slots, repeats and versions. `Inv` adds to the types what a
holder of the file lock may rely on (`LockInv`: while a slot is captured and saved the job is still the one that was
due, because every other change of the job needs the lock) and that a run has a recorded operation.

* `CursorKnown` needs `SyncInv`: a job is marked only after the answer to its own call, which leaves no earlier call to
  come, and every change takes the mark away.
* `OneRun`: `OneRunOpen` is inductive; the busy check and the insertion are one transaction under the schedule's lock.
* `PauseObeyed` needs `InputInv`: a slot is only captured of a scheduled job, pausing or removing it makes a new version, so
  a recorded slot never has the version of a paused job — and a start compares versions.
* `CountKept`, the deepest one: `CallInv` ties the capture under way, whose caller may be gone, to the job's next slot, and
  `PassedInv` bounds the captured slots by it; moving on then adds exactly one slot to the counted set.

**`Acting_proofs`** has two components. *Controlled actions*, for any number of actions and uses: the invariant follows one outcome from the child to the row.
Until a row is claimed nothing of it exists (`Untouched`). A child that has not executed has left no effect and no
receipt, and the one that publishes still finds its file and no result, whether its lease lives or not (`ChildAlone`). An outcome
`done` comes, wherever it stands, from an effect (`Carried`), and row, derived result and receipt file name
one outcome (`OutcomeAgrees`). `UsesCounted` counts the uses of the permission by the actions that were granted one.

*Imports*, for any number of workers, messages and generations: only the workflow of the
present generation can be open, and whoever holds its lease holds the row's as well (`LeasesTogether`), so a worker that settles one
settles the other. What a worker counts it has already written, under the row's lease; what it still holds after losing
the lease is refused. `ImportsTold` is `ImportsAgree` of every state.

**`Governance_proofs`** has four more components, and the union. Its lemmas `…Run` show that a run of the
union is a run of each component, so that the properties as the `governance` run checks them
(`ActionsGoverned`, `ImportsStand`, `SharingStands`, `ChangesStand`, `AdmissionAgrees`) are theorems of `MCGovernance`'s `Spec`.

* *Sharing* (`SharedAsReleased`). A reader asks one query after the other and delivers; nothing is locked. `ShareInv` says what
  it knows at each place as long as the binding it began with is the present one: every
  change that could make an earlier answer false — a replaced text, a revoked release, a new rule, another source — moves
  the binding, which is compared last. The same argument carries a caller from the preview to the commit of a release.
* *Knowledge* (`ChangesAgree`). `KnowledgeInv` relates a proposal's row, what is held of it by the process that applies it, the
  number of applications and the owner's command; for a delegation, that a space whose baseline is not
  behind its assignment is one whose present choice the owner knew of when the delegation was given or resumed (`accepted`).
  An application compares the baselines under the policy epoch it commits with.
* *Dashboard*. `DashboardInv` says of each place of a request whether it holds the writer lock, and of a window that its owner is
  draining or has its child running, and that whoever was in flight when it began is awaited. `operationBusy` is set
  exactly while somebody starts an operation or a child runs: a start that fails clears it together with the lock and
  the window, and the child's end clears it with the window.
* *Background work*. One callback at most is inside, so what it found stays true while it works (`CallbackStands`), although the
  lock of the reviews may be lost under it. A review that was asked for or begun is `running`, `ambiguous` or `done`, and
  nothing below an existing row was ever begun (`ReviewStands`): a new epoch's review is
  queued only when no row was started, and a row can be claimed only while none above it exists.

**`Said_proofs`** has the three components of `SaidAgrees`, and `SaidAlwaysAgrees`, the property of the `governance` run.

* *Approved messages* (`DeliveryAlwaysAgrees`). `MessageStands` has three places that tell of one call: the runtime (`intent`,
  `runtimeResult`, `sender`), the run of the workflow step (what it `holds`) and the rows. While a message may still be handed
  over nothing of it is in the runtime (`Bare`); what a run holds or the derived store keeps is the runtime's own result, or
  ambiguous, or an answer that nothing was begun — and that one is only believed while the message is bare. So a message
  is sent again only if it never was. `RequestStands` ties a consumed grant to the message that delivered its fact.
* *Prepared texts* (`PreparedAlwaysAgrees`). Only the first of a queue is past it (`QueuesStand`), so a call leaves with `Tail` and
  never takes another one with it; other processes are stopped by nothing but the operation ids. `CallStands` says
  what a call may hold at each place: the detection that was saved first, and a copy of that detection.
* *Broker* (`BrokerAlwaysAgrees`). `EnteredStands` gives the journal of a request by the place it has reached, and `WayStands` what
  it has done by then; a state that is entered although the database's answer was lost adds only what is true of the request.
  `DecisionStands` carries the policy that allowed it to the call: a revision is not edited, and the second look compares
  numbers. `AudienceStands` uses that a fact that has lapsed never holds again: of an audience that is gone one of the looks to
  come still tells, so at most the part already looked for is given.

**`Representations_proofs`** has the eight components of `representations`, with the five properties of the run as theorems of its `Spec`.

* *Publications* (`RevisionsAlwaysStand`). A revision is activated over the one it was staged against, and that one, once replaced,
  never comes back: the outcome is decided by `activated` alone (`OutcomeStands`), whoever carries it to the control
  database. That the owner's revision stands follows because automatic learning is never staged over one (`StageStands`).
  A *reader* (`ReadsAlwaysStand`) has read revisions that are active as long as its binding is the present one.
* *Entities and claims* (`ClaimsAlwaysStand`). A correction looks for the version of its own command before it makes one, in the
  transaction that makes it, so that there is one version of it of a claim; a retry finds it.
* *Capture* (`EvidenceAlwaysStands`). `DrainerStands` says of each place of a drainer which commits it has been through, and no commit
  is taken back: only then it retires the file. An original without an intake was captured live.
* *Preparation* (the same theorem). What was prepared stands without any lock: each write of bytes or text, and of a first
  selection, is made only where there is none.
* *Long-term memory* (`MemoryAlwaysAgrees`). In the present workspace the receipts of the present session are live and those of earlier
  ones retired (`ReceiptsStand`), so that a session to be deleted has none that is live. An authorized write holds the lock:
  until it is done its session and workspace may become ones to delete, but are not deleted, so it brings nothing back
  (`LockStands`). Whoever observes a workspace has counted work that only grows (`ObserverStands`): if the counter is still the same, nothing
  was queued since and what it found written still is. That a rebuild meets a fresh identity needs `OpenedInOrder`.
* *Corrections* (`CorrectionsAgree`; a live receipt is what it promises, not that it is written: see 6). Behind the cursor of a sweep no live receipt that Honcho was given rests on a
  retired message (`SweepStands`), although receipts are written and queued meanwhile; a checked page adds itself to that, and
  what is outside the last page was queued after it was read (`PageStands`, which is why the page must be compared
  with the page size). What stands and has no live receipt was asked for under the present epoch (`Remembered`), and no answer
  of another epoch takes that request away.
* *The walk* (`WalkAlwaysStands`). Results and queue are one sequence of paths, and the results are its first ones. Whatever happens, each
  path was trodden along claims that were to be seen, as `stood` only grows. While nothing happens it is a breadth-first
  search (`Searched`): paths grow by their length, and what is nearer than the last result was met, because the claims of every result
  before it were followed (`SearchNearer`); an entity that was not met is therefore not nearer than its new path says. `Shown` is what the search goes over,
  and a page that was cut makes the walk partial, so that a walk that is not was given all claims. The recursive
  distance `Within` is shown to satisfy its equations by an explicit witness, as a walk has three hops. The people known
  are finitely many (`WalkAssumption`): they are rows of a table.
* `MemoryAlwaysStands` joins the three as `MemoryStands`.
* *Reading* (`ReadsAlwaysStand`). While the epoch is the one a read began under nothing is withdrawn, so what it may hear stays clean.

**Only model-checked**: every liveness property (`OpenIsWorkedOn`, `SupersededCloses`, `RunningSettles`,
`RunSettles`, `EvidenceRecorded`), which needs fairness and `ENABLED`. What section 6 reports as violated is of course not
proved. Every other property of a passing run is a theorem.

## 5. What the models leave out

* `WorkflowEngine`: the organization proposals an owner control may touch, listings, metrics; the waiting
  times themselves. `beginEffect`/`finishEffect` have no caller outside tests: receipts are modelled as the
  domain's own statements write them. `migrations.ts`, `reconcileImportReceipt`, `pauseFamily`, `switchFamily` and `controlWorkflow` of
  `workflows/owner.ts` are called by tests only.
* `TelegramDispatch`: the order of two messages of one conversation (`heldByEarlier`), lanes and capacity of
  the gateway, contents. Intake that is not ready, a disabled policy and an unselected message are
  one choice between waiting, going on and suppression; a native delivery policy check may fail at any moment.
* `ManagedRun`: several runs of one conversation, the delivery proposal of a scheduled result. A switch
  assumes that the migration's reconciliation has aligned the registry row.
* `Schedules`: one-time and cron cadences (`completed` is reached by count instead), edits of the cadence,
  resuming a finished job, a crash between the single writes of one `manage` call, more than one late
  definition and one capture at a time. A request identity is used once, as `docs/dashboard.md` asks; catch-up
  differs from trigger only in its precondition and label. Ownership of the family is `WorkflowEngine`'s.
* `NativeMemory`: the rebuild of an old workspace's session after a fresh start, provenance and statistics. `MemoryReading`:
  a write of a memory is one step with its check of the evidence; two people are asked in a recall (the code asks up to
  four). `ConnectedWalk`: the claims of one entity are read and checked in one step; several claims of one pair
  of entities are one; how certain a claim is, is the choice of a page.
* `WorkflowEngine`, `TelegramDispatch`: the owner's retry asks for the registry's state; the view's `can_retry` derives it
  (`stores/workflow-owner.ts:19`).
* `ApprovedDelivery`: the outbound check and the send are one step, as are a memory request and its notification.
* `GuardPublication`: a retry of one operation stages new versions instead of including its former ones again. `PreparedContext`
  records a detection under the epoch it was made in, which the code compares before it detects.
* `ConnectedEntities`: a claim is published in one step (the code reads the subject's row in the control store first); a command
  is not repeated with another expected revision.
* `Sharing`: after the revocation of a filtered release the next query may prepare another, with a preview of its own.
  A preview reads rule and binding in one step. `Preparation`: the owner selects once the job exists, one selection
  of an attachment (the code keeps one of each kind); a completed job is not entered again; after a lost lock a saved text may coexist with a job that ended otherwise, which is not claimed to be absent.
* `KnowledgeProposals`: what the model proposes is one choice; of the reviewed changes assignments are modelled, and an
  approved change of another kind that is refused (`stale` in the code) is left out; an assignment counts as done when it is to the same project. `Broker`: the
  renewal of a run's lease, the wording of requests, the owner's previews; a credential is signed after its turn is registered.
* `BackgroundWork`: what a review finds. `HostImports`: transports, which relay one call each.
* The modules of `src/` before the separation of the stores (`guarded.ts`, `honcho.ts`, `managed-runs.ts`, `controlled-actions.ts`,
  `source-model.ts`, `retrieval.ts`, `actions.ts`, `assistant.ts`) serve as schema and helpers: the production entry is `stores/main.ts`.
* Not modelled at all: the components marked so in `PROJECT.json`, with the reason there.

## 6. Where the code and its documents disagree

* **`telegram_mirror`** (`SettledCloses`). A step comments that "the domain receipt remains authoritative even if the last
  step output or run acknowledgment was lost" (`src/workflows/engine.ts:55`). The mirror of a dispatch is written
  only for the attempt the row holds when a step ends. If the mirror of a failed attempt is lost, its receipt stays
  `started`, the insert for the next attempt breaks the index `workflow_effect_exclusion`, and every later step fails
  there: the message is settled, its workflow stays open.
* **`schedule_driven`** (`CursorIsDriven`). The plan calls cursors monotonic (`docs/original-only-archive-plan.md:184`). A cursor is a
  hash of state that can recur: after trigger and cancel, or after a requested run that ends before the next
  slot, the former cursor is back, but its workflow was superseded and is not requested again. Nothing
  fires the next slot until an edit.
* **`schedule_overlap`** (`OverlapIsReal`). "Overlapping slots are recorded as skipped" (`docs/adr/0031-native-managed-schedules.md:27`).
  `nocheh_running` is only cleared by a receipt's publication; a run that is cancelled before its start or interrupted
  without a receipt leaves it set, and every later slot is recorded as an overlap with nothing.

Three more are findings that no run shows, because the models keep what the code does and no property asks for more:

* A memory receipt whose source is retired is closed before the sweep reaches it (`stores/workflow-operations.ts:251`). When the
  message is restored before that, nothing writes it to Honcho again, although "restoring a message permits future
  use" (`SPECS.md:49`). `MemoryCorrection` states it as `RestoredIsWritten`.
* A turn's context compares the epoch and the workspace, not whether the sweep of a retirement is done
  (`stores/native-memory.ts:635`): until then an answer may be drawn from what was withdrawn. `MemoryReading`
  speaks of turns that began when nothing withdrawn was left to read.
* `stop` takes the tasks of the moment the server closed (`management.ts:430`): a lifecycle job launched by a request that is
  admitted just then is awaited by nobody.

Remarks that are not findings of a run either: a group reader is shown an entity because one of its first 100
claims by id can be read (`entities.ts:307`); if its only readable claim comes later, a walk passes the entity over, and what lies
behind it, without being called partial (`entities.ts:358`; `WalkIsComplete` therefore speaks of what is shown). A fire's operation keeps its first
input (`schedules.ts:128`), which names the reason, so a capture that failed half way and is repeated a minute later as
`missed` is refused for ever. A job left in `publishing` with a publication in conflict fails each time it is resumed
(`learning-engine.ts:69`), where the reconciliation tolerates it (`learned.ts:192`). The prefetch of a turn records the revision of the
work it read at its start (`native-memory.ts:536`). Confirming the binding suggested for an account that is bound in the meantime, or merging
between the insertions of a participant, is refused by a unique index. When the drain of a backup times out, its
`job.json` stays `running` until the dashboard is restarted (`management.ts:262`).

## 7. The plan

Done: the modules of section 2, their runs, and the proofs of section 4.

Next, in this order:

1. Models not yet written: the portability of derivatives (`stores/derivative-portability.ts`), the reset of a setup and its
   baseline (`reset-setup.ts`, `reset-baseline.ts`), retrieval, and the queries of owner supervision.

## 8. Running it

    tlc -workers 2 -config Managed.cfg MCManagedRun
    tlc -workers 2 -config Governance.cfg MCGovernance
    tlapm Governance_proofs.tla
    tlapm Said_proofs.tla
    tlapm Representations_proofs.tla

`PROJECT.json` names the module and configuration of every run, the mutants, the lines each definition models and the theorems.
