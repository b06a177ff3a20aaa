---------------------------- MODULE HostImports ----------------------------
(***************************************************************************)
(* One import of an exported chat history.  The dashboard keeps it in a    *)
(* file, job.json, and asks the control service to run it; there it is a   *)
(* row of `workflow_imports' with a workflow per generation; a host worker *)
(* claims both leases, runs a batch, and every write of the batch to the   *)
(* archive holds the row.                                                  *)
(* (src/src/management.ts, workflows/imports.ts, workflows/host.ts,        *)
(*  workflows/host-coordinator.ts, stores/imports.ts,                      *)
(*  stores/workflow-owner.ts)                                              *)
(*                                                                         *)
(* The dashboard may stop between two writes of its file, its request may  *)
(* be handled after it stopped waiting, leases run out at any moment, and  *)
(* a worker may die anywhere.  The family is never paused here: nothing    *)
(* outside the tests pauses it.                                            *)
(***************************************************************************)
EXTENDS Integers

CONSTANTS
  Mapping,            \* what the owner may confirm: where the chats go, and consent
  Consented,          \* those with review_approved
  NoMapping,
  Worker,             \* executions of the host worker
  NoWorker,
  Total,              \* messages of the export; a batch is one message
  MaxGeneration       \* bound: starts and resumptions

ASSUME ImportAssumption ==
  /\ Consented \subseteq Mapping /\ NoMapping \notin Mapping /\ NoWorker \notin Worker
  /\ Total \in Nat \ {0} /\ MaxGeneration \in Nat \ {0}

VARIABLES
  saved,       \* job.json
  starting,    \* the start request that holds the job's lock
  confirming,  \* confirmations under way, whoever still waits for them
  importRow,   \* workflow_imports
  importFlow,  \* workflow_registry, by generation
  hostBatch,   \* the batch each worker runs
  archived,    \* import_sources: messages in the archive
  learnable    \* learning_consent: messages released to learning

ImportVars == <<saved, starting, confirming, importRow, importFlow, hostBatch, archived, learnable>>
dashboardVars == <<saved, starting, confirming>>
archiveVars == <<archived, learnable>>

ImportMessage == 1..Total
Generation == 1..MaxGeneration
ImportClosed == {"completed", "failed", "cancelled"}
NoLease == [holder |-> NoWorker, live |-> FALSE]
LeaseOf(w) == [holder |-> w, live |-> TRUE]
NoImportRow == [state |-> "none", mapping |-> NoMapping, completed |-> 0, learned |-> 0,
                generation |-> 0, lease |-> NoLease]
NoFlow == [state |-> "none", lease |-> NoLease]
NoBatch == [at |-> "idle", generation |-> 0, completed |-> 0, learned |-> 0]

ImportInit ==
  /\ saved = [state |-> "uploading", mapping |-> NoMapping, workflow |-> "none"]
  /\ starting = "no" /\ confirming = {}
  /\ importRow = NoImportRow /\ importFlow = [g \in Generation |-> NoFlow]
  /\ hostBatch = [w \in Worker |-> NoBatch] /\ archived = {} /\ learnable = {}

Exists == importRow.state # "none"
FlowOpen(g) == importFlow[g].state \notin ImportClosed \cup {"none"}
\* enterImportWrite holds the row FOR SHARE: nobody updates it meanwhile.
Writing == \E w \in Worker : hostBatch[w].at = "writing"

----------------------------------------------------------------------------
(* The dashboard.                                                          *)

\* getJob: the file, overlaid with the workflow's state once it may have one.
View ==
  IF saved.workflow = "none" \/ ~Exists THEN saved.state
  ELSE IF importRow.state \in {"queued", "running"} THEN "running" ELSE importRow.state

\* upload, preview: the files are fixed and inspected.
Preview ==
  /\ starting = "no" /\ saved.state = "uploading"
  /\ saved' = [saved EXCEPT !.state = "ready"]
  /\ UNCHANGED <<starting, confirming, importRow, importFlow, hostBatch, archiveVars>>

\* start: the choice is on disk, and fixed, before it is sent; a resumption may not change it.
StartImport(m) ==
  /\ starting = "no" /\ View \in {"ready", "failed", "cancelled"}
  /\ saved.mapping \in {NoMapping, m}
  /\ saved' = [state |-> View, mapping |-> m, workflow |-> "pending"]
  /\ starting' = "asking"
  /\ confirming' = confirming \cup {[mapping |-> m, resume |-> View # "ready"]}
  /\ UNCHANGED <<importRow, importFlow, hostBatch, archiveVars>>

\* The answer is lost, or the dashboard stops: the request may still be handled.
StartGivesUp ==
  /\ starting # "no" /\ starting' = "no"
  /\ UNCHANGED <<saved, confirming, importRow, importFlow, hostBatch, archiveVars>>

\* start, after the answer.
StartEnds ==
  /\ starting \in {"confirmed", "refused"} /\ starting' = "no"
  /\ saved' = IF starting = "refused" THEN saved
              ELSE [saved EXCEPT !.state = "running", !.workflow = "inngest"]
  /\ UNCHANGED <<confirming, importRow, importFlow, hostBatch, archiveVars>>

----------------------------------------------------------------------------
(* The control service.                                                    *)

Acceptable(c) ==
  ~Exists \/ (c.mapping = importRow.mapping /\ (importRow.state \in {"cancelled", "failed"} => c.resume))
Answered(how) == starting' = IF starting = "asking" THEN how ELSE starting

\* requestWorkflow: a row of this generation, if there is none.
RequestWorkflow(g) ==
  importFlow' = IF importFlow[g] # NoFlow THEN importFlow
                ELSE [importFlow EXCEPT ![g].state = "queued"]

\* A fault: an import that is resumed keeps its generation.
SameGeneration == IF Exists THEN importRow.generation ELSE 1
NextGeneration == importRow.generation + 1

\* confirmImport, on a new row, on an open one, and on one it reopens.
ConfirmImport(c) ==
  /\ c \in confirming /\ confirming' = confirming \ {c} /\ Acceptable(c) /\ ~Writing
  /\ LET reopened == importRow.state \in {"cancelled", "failed"}
         g == IF ~Exists \/ reopened THEN NextGeneration ELSE importRow.generation
     IN /\ g <= MaxGeneration
        /\ importRow' =
             IF ~Exists
             THEN [NoImportRow EXCEPT !.state = "queued", !.mapping = c.mapping, !.generation = 1]
             ELSE IF reopened
             THEN [importRow EXCEPT !.state = "queued", !.generation = g, !.lease = NoLease]
             ELSE importRow
        /\ IF importRow.state = "completed" THEN UNCHANGED importFlow ELSE RequestWorkflow(g)
  /\ Answered("confirmed")
  /\ UNCHANGED <<saved, hostBatch, archiveVars>>

RefuseImport(c) ==
  /\ c \in confirming /\ confirming' = confirming \ {c} /\ ~Acceptable(c) /\ Answered("refused")
  /\ UNCHANGED <<saved, importRow, importFlow, hostBatch, archiveVars>>

\* cancelImport, from the dashboard's cancel: the row and its open workflows, at once.
CancelImport ==
  /\ starting = "no" /\ View = "running" /\ saved.workflow # "none" /\ ~Writing
  /\ importRow.state \in {"queued", "running"}
  /\ importRow' = [importRow EXCEPT !.state = "cancelled", !.lease = NoLease]
  /\ importFlow' = [g \in Generation |->
       IF FlowOpen(g) THEN [state |-> "cancelled", lease |-> NoLease] ELSE importFlow[g]]
  /\ UNCHANGED <<dashboardVars, hostBatch, archiveVars>>

\* controlStorageWorkflow: the owner's controls of one workflow, while nothing of the family runs.
FlowControllable(g) ==
  FlowOpen(g) /\ importFlow[g].state # "running" /\ ~importFlow[g].lease.live /\ ~Writing

OwnerCancels(g) ==
  /\ FlowControllable(g) /\ importRow.state = "queued"
  /\ importRow' = [importRow EXCEPT !.state = "cancelled", !.lease = NoLease]
  /\ importFlow' = [importFlow EXCEPT ![g] = [state |-> "cancelled", lease |-> NoLease]]
  /\ UNCHANGED <<dashboardVars, hostBatch, archiveVars>>

OwnerRetries(g) ==
  /\ FlowControllable(g) /\ importFlow[g].state = "retryable_failed"
  /\ importFlow' = [importFlow EXCEPT ![g] = [state |-> "queued", lease |-> NoLease]]
  /\ UNCHANGED <<dashboardVars, importRow, hostBatch, archiveVars>>

----------------------------------------------------------------------------
(* The host worker.                                                        *)

\* claimWorkflow and claimImportBatch.
FlowClaimable(g) == FlowOpen(g) /\ ~importFlow[g].lease.live
RowClaimable(g) ==
  importRow.generation = g /\ importRow.state \in {"queued", "running"} /\ ~importRow.lease.live

\* claimHostWorkflow: both leases, or neither.
ClaimHostWorkflow(w, g) ==
  /\ hostBatch[w] = NoBatch /\ FlowClaimable(g) /\ ~Writing
  /\ IF RowClaimable(g)
     THEN /\ importFlow' = [importFlow EXCEPT ![g] = [state |-> "running", lease |-> LeaseOf(w)]]
          /\ importRow' = [importRow EXCEPT !.state = "running", !.lease = LeaseOf(w)]
          /\ hostBatch' = [hostBatch EXCEPT ![w] =
               [at |-> "running", generation |-> g,
                completed |-> importRow.completed, learned |-> importRow.learned]]
     ELSE /\ importFlow' = [importFlow EXCEPT ![g].lease = NoLease]
          /\ UNCHANGED <<importRow, hostBatch>>
  /\ UNCHANGED <<dashboardVars, archiveVars>>

\* renewHostWorkflow: the workflow's lease, then the row's, each in a statement of its own.
RenewHostWorkflow(w) ==
  LET g == hostBatch[w].generation
  IN /\ hostBatch[w].at # "idle" /\ importFlow[g].lease.holder = w /\ importFlow[g].state = "running"
     /\ importFlow' = [importFlow EXCEPT ![g].lease.live = TRUE]
     /\ \/ UNCHANGED importRow
        \/ /\ importRow.lease.holder = w /\ importRow.state = "running" /\ ~Writing
           /\ importRow' = [importRow EXCEPT !.lease.live = TRUE]
     /\ UNCHANGED <<dashboardVars, hostBatch, archiveVars>>

LeaseRunsOut ==
  \/ \E g \in Generation :
       /\ importFlow[g].lease.live /\ importFlow' = [importFlow EXCEPT ![g].lease.live = FALSE]
       /\ UNCHANGED <<dashboardVars, importRow, hostBatch, archiveVars>>
  \/ /\ importRow.lease.live /\ importRow' = [importRow EXCEPT !.lease.live = FALSE]
     /\ UNCHANGED <<dashboardVars, importFlow, hostBatch, archiveVars>>

\* enterImportWrite: a write of the batch holds the row while it is made.
EnterImportWrite(w) ==
  /\ hostBatch[w].at = "running"
  /\ importRow.state = "running" /\ importRow.lease = LeaseOf(w)
  /\ hostBatch[w].completed < Total \/ (importRow.mapping \in Consented /\ hostBatch[w].learned < Total)
  /\ hostBatch' = [hostBatch EXCEPT ![w].at = "writing"]
  /\ UNCHANGED <<dashboardVars, importRow, importFlow, archiveVars>>

\* record, approveLearning: the next message, and once all are in, the next consent; then
\* release.  Both are idempotent.
WriteOne(w) ==
  /\ hostBatch[w].at = "writing"
  /\ IF hostBatch[w].completed < Total
     THEN /\ archived' = archived \cup {hostBatch[w].completed + 1} /\ UNCHANGED learnable
          /\ hostBatch' = [hostBatch EXCEPT ![w].at = "wrote", ![w].completed = @ + 1]
     ELSE /\ learnable' = learnable \cup {hostBatch[w].learned + 1} /\ UNCHANGED archived
          /\ hostBatch' = [hostBatch EXCEPT ![w].at = "wrote", ![w].learned = @ + 1]
  /\ UNCHANGED <<dashboardVars, importRow, importFlow>>

\* A call of the worker that fails, or a worker that dies with its call.
WorkerStops(w) ==
  /\ hostBatch[w].at # "idle" /\ hostBatch' = [hostBatch EXCEPT ![w] = NoBatch]
  /\ UNCHANGED <<dashboardVars, importRow, importFlow, archiveVars>>

HoldsFlow(w) ==
  LET f == importFlow[hostBatch[w].generation] IN f.lease.holder = w /\ f.state = "running"
HoldsRow(w) == importRow.lease.holder = w /\ importRow.state = "running"
Done(b) == b.completed = Total /\ (importRow.mapping \in Consented => b.learned = Total)
SettleBatch(w, rowState, flowState) ==
  /\ importRow' = IF HoldsRow(w) THEN [importRow EXCEPT !.state = rowState, !.lease = NoLease]
                  ELSE importRow
  /\ importFlow' = [importFlow EXCEPT ![hostBatch[w].generation] =
                      [state |-> flowState, lease |-> NoLease]]

\* finishHostWorkflow with a result and finishImportBatch: the checkpoint moves on.
FinishBatch(w) ==
  /\ hostBatch[w].at \in {"running", "wrote"} /\ HoldsFlow(w) /\ HoldsRow(w) /\ ~Writing
  /\ hostBatch[w].at = "wrote" \/ Done(hostBatch[w])
  /\ importRow.completed <= hostBatch[w].completed /\ importRow.learned <= hostBatch[w].learned
  /\ importRow' = [importRow EXCEPT
                     !.completed = hostBatch[w].completed, !.learned = hostBatch[w].learned,
                     !.state = IF Done(hostBatch[w]) THEN "completed" ELSE "queued", !.lease = NoLease]
  /\ importFlow' = [importFlow EXCEPT ![hostBatch[w].generation] =
       [state |-> IF Done(hostBatch[w]) THEN "completed" ELSE "waiting", lease |-> NoLease]]
  /\ hostBatch' = [hostBatch EXCEPT ![w] = NoBatch]
  /\ UNCHANGED <<dashboardVars, archiveVars>>

\* finishHostWorkflow with a failure: four codes end the import, all others retry it.
FailBatch(w) ==
  /\ hostBatch[w].at \in {"running", "wrote"} /\ HoldsFlow(w) /\ ~Writing
  /\ \/ SettleBatch(w, "failed", "failed")
     \/ SettleBatch(w, "queued", "retryable_failed")
  /\ hostBatch' = [hostBatch EXCEPT ![w] = NoBatch]
  /\ UNCHANGED <<dashboardVars, archiveVars>>

ImportNext ==
  \/ Preview \/ StartGivesUp \/ StartEnds \/ CancelImport \/ LeaseRunsOut
  \/ \E m \in Mapping : StartImport(m)
  \/ \E c \in confirming : ConfirmImport(c) \/ RefuseImport(c)
  \/ \E g \in Generation : OwnerCancels(g) \/ OwnerRetries(g)
  \/ \E w \in Worker :
       \/ \E g \in Generation : ClaimHostWorkflow(w, g)
       \/ RenewHostWorkflow(w) \/ EnterImportWrite(w) \/ WriteOne(w) \/ WorkerStops(w)
       \/ FinishBatch(w) \/ FailBatch(w)

ImportSpec == ImportInit /\ [][ImportNext]_ImportVars

----------------------------------------------------------------------------
(* What must hold.                                                         *)

\* A row and the workflow of its generation are open together and close alike; older
\* workflows are closed.
RowAndFlowAgree ==
  Exists =>
    /\ \A g \in 1..(importRow.generation - 1) : importFlow[g].state \in {"cancelled", "failed"}
    /\ LET f == importFlow[importRow.generation].state
       IN IF importRow.state \in ImportClosed THEN f = importRow.state
          ELSE FlowOpen(importRow.generation) /\ (importRow.state = "running" => f = "running")

\* What runs, or may yet be asked for, is what the file says.
ConfirmedAsSaved ==
  /\ Exists => importRow.mapping = saved.mapping
  /\ \A c \in confirming : c.mapping = saved.mapping

\* The checkpoint counts only messages that are in the archive, learning follows the archive
\* and the consent, and a completed import is complete.
CheckpointIsReal ==
  /\ 1..importRow.completed \subseteq archived /\ 1..importRow.learned \subseteq learnable
  /\ learnable \subseteq archived /\ (learnable # {} => saved.mapping \in Consented)
  /\ importRow.state = "completed" =>
       archived = ImportMessage /\ (saved.mapping \in Consented => learnable = ImportMessage)

\* An import survives crashes, lost answers, expired leases, cancellation and resumption.
ImportsAgree == RowAndFlowAgree /\ ConfirmedAsSaved /\ CheckpointIsReal
=============================================================================
