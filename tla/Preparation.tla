----------------------------- MODULE Preparation -----------------------------
(***************************************************************************)
(* Preparation of one captured source: the bytes of its attachments are    *)
(* fetched or imported, an engine derives text from each, the first text   *)
(* is selected, and everything is guarded.  Locks of the control database  *)
(* keep two workers apart until a connection is lost: what its worker had  *)
(* asked for goes on without them.                                         *)
(* (src/src/stores/preparation.ts, attachments.ts, reprocessing.ts,        *)
(*  derived.ts, selections.ts, archive.ts, guards.ts,                      *)
(*  workflow-operations.ts)                                                *)
(***************************************************************************)
EXTENDS FiniteSets

CONSTANTS
  Attachment,    \* attachments of the source
  Preparer,      \* callbacks of the preparation family
  Bytes,         \* contents of a file
  Output,        \* texts an engine may answer with
  OwnerText,     \* a text the owner had made by another request, guarded already
  Nothing

ASSUME PreparationAssumption ==
  Nothing \notin Preparer \cup Bytes \cup Output /\ OwnerText \notin Output \cup {Nothing}

VARIABLES
  transport,   \* of source_intakes: "capture" or "import"; it never changes
  manifest,    \* artifacts.file_hash
  job,         \* reprocess_jobs: the initial job of each attachment
  text,        \* derived_artifacts of that job
  chosen,      \* active revision of derivative_selections
  staging,     \* attachments whose automatic selection is staged and not settled
  guardReady,  \* guard_sources in state ready: attachments, texts of them, "source"
  guardOn,     \* guard_state.mode
  eventLock, fetchLock, jobLock,   \* advisory locks 803357, 803356 and 803354
  preparer     \* what each callback does

PreparationVars == <<transport, manifest, job, text, chosen, staging, guardReady,
                     guardOn, eventLock, fetchLock, jobLock, preparer>>
preparedRows == <<transport, manifest, job, text, chosen, staging, guardReady, guardOn>>
advisoryLocks == <<eventLock, fetchLock, jobLock>>

Resting == [at |-> "rest", whole |-> FALSE, todo |-> {}]

PreparationInit ==
  /\ transport \in {"capture", "import"}
  /\ manifest = [a \in Attachment |-> Nothing]
  /\ job = [a \in Attachment |-> "none"] /\ text = [a \in Attachment |-> Nothing]
  /\ chosen = [a \in Attachment |-> Nothing] /\ staging = {}
  /\ guardReady = {} /\ guardOn = TRUE
  /\ eventLock = Nothing /\ fetchLock = Nothing /\ jobLock = [a \in Attachment |-> Nothing]
  /\ preparer = [p \in Preparer |-> Resting]

Free(p) ==
  /\ eventLock' = IF eventLock = p THEN Nothing ELSE eventLock
  /\ fetchLock' = IF fetchLock = p THEN Nothing ELSE fetchLock
  /\ jobLock' = [a \in Attachment |-> IF jobLock[a] = p THEN Nothing ELSE jobLock[a]]
Rest(p) == preparer' = [preparer EXCEPT ![p] = Resting] /\ Free(p)
Goes(p, at) == preparer' = [preparer EXCEPT ![p].at = at]

SourceCopy == <<"event", "source">>
\* status: attachments, then the first selections, then the guarded copies.
Missing == {a \in Attachment : manifest[a] = Nothing}
Unchosen == {a \in Attachment : chosen[a] = Nothing}
Guarded ==
  {SourceCopy} \cup {<<a, "file">> : a \in Attachment}
               \cup {<<a, chosen[a]>> : a \in Attachment}
Failed == Missing = {} /\ \E a \in Unchosen : job[a] = "terminal"
Completed == Missing = {} /\ Unchosen = {} /\ (guardOn => Guarded \subseteq guardReady)

----------------------------------------------------------------------------
(* run: one step of the preparation workflow.                              *)

EnterPreparation(p) ==
  /\ preparer[p].at = "rest" /\ eventLock = Nothing /\ ~Completed /\ ~Failed
  /\ eventLock' = p /\ preparer' = [preparer EXCEPT ![p] = [at |-> "fetch", whole |-> TRUE,
                                                            todo |-> Attachment]]
  /\ UNCHANGED <<preparedRows, fetchLock, jobLock>>

\* fetch, file by file; another fetcher, a pending import or a failed download leaves the
\* attachment without bytes, and the step goes on with those that have them.  (The rows of
\* attachment_retrievals only time the next download; that an import is pending only says
\* so in the error.)
BeginFetch(p, a) ==
  /\ preparer[p].at = "fetch" /\ manifest[a] = Nothing /\ transport = "capture"
  /\ fetchLock \in {Nothing, p} /\ fetchLock' = p
  /\ preparer' = [preparer EXCEPT ![p].at = "download", ![p].todo = {a}]
  /\ UNCHANGED <<preparedRows, eventLock, jobLock>>
\* commit: attach keeps what is attached already; a different file is refused.
Attach(a, b) ==
  /\ manifest[a] \in {Nothing, b} /\ manifest' = [manifest EXCEPT ![a] = b]
Downloaded(p, b) ==
  /\ preparer[p].at = "download"
  /\ \E a \in preparer[p].todo : Attach(a, b)
  /\ Goes(p, "fetch")
  /\ UNCHANGED <<transport, job, text, chosen, staging, guardReady, guardOn, advisoryLocks>>
DownloadFails(p) ==
  /\ preparer[p].at = "download" /\ Goes(p, "fetch")
  /\ UNCHANGED <<preparedRows, advisoryLocks>>
EndFetch(p) ==
  /\ preparer[p].at = "fetch"
  /\ preparer' = [preparer EXCEPT ![p].at = "derive", ![p].todo = Attachment \ Missing]
  /\ fetchLock' = IF fetchLock = p THEN Nothing ELSE fetchLock
  /\ UNCHANGED <<preparedRows, eventLock, jobLock>>

\* The import of the source's files: commit, of bytes it brought.
ImportBytes(a, b) ==
  /\ transport = "import" /\ Attach(a, b)
  /\ UNCHANGED <<transport, job, text, chosen, staging, guardReady, guardOn, advisoryLocks, preparer>>

----------------------------------------------------------------------------
(* ReprocessingRepository.run: of the source's step, or of the workflow    *)
(* that request asked for.                                                 *)

Runs(a) == job[a] \notin {"terminal", "done"}
\* One attachment at a time; the lock is tried, and a job that has a saved text derives none.
Derive(p, a) ==
  /\ \/ preparer[p].at = "derive" /\ a \in preparer[p].todo /\ chosen[a] = Nothing
     \/ preparer[p].at = "rest"
  /\ job[a] # "none" /\ jobLock[a] = Nothing /\ (text[a] # Nothing \/ Runs(a))
  /\ jobLock' = [jobLock EXCEPT ![a] = p]
  /\ job' = [job EXCEPT ![a] = IF text[a] = Nothing THEN "running" ELSE @]
  /\ preparer' = [preparer EXCEPT ![p] =
       [at |-> IF text[a] = Nothing THEN "engine" ELSE "guard",
        whole |-> preparer[p].at = "derive", todo |-> {a}]]
  /\ UNCHANGED <<transport, manifest, text, chosen, staging, guardReady, guardOn,
                 eventLock, fetchLock>>
\* A text that is selected, a busy job and a terminal one leave only the file to guard.
PassAttachment(p, a) ==
  /\ preparer[p].at = "derive" /\ a \in preparer[p].todo
  /\ chosen[a] # Nothing \/ jobLock[a] # Nothing \/ (text[a] = Nothing /\ ~Runs(a))
  /\ guardReady' = IF guardOn THEN guardReady \cup {<<a, "file">>} ELSE guardReady
  /\ preparer' = [preparer EXCEPT ![p].todo = @ \ {a}]
  /\ UNCHANGED <<transport, manifest, job, text, chosen, staging, guardOn, advisoryLocks>>

\* A fault: the operation's text is overwritten by a later answer.
KeepsAny(a, o) == TRUE
\* DerivedRepository.record: the first text of an operation stays, another is a conflict.
Keeps(a, o) == text[a] \in {Nothing, o}
Holding(p, a) == jobLock[a] = p
Derived(p, a, o) ==
  /\ preparer[p].at = "engine" /\ a \in preparer[p].todo
  /\ \/ Keeps(a, o) /\ text' = [text EXCEPT ![a] = o] /\ Goes(p, "guard")
        /\ UNCHANGED <<job, advisoryLocks>>
     \/ ~Keeps(a, o) /\ Rest(p) /\ UNCHANGED text
        /\ job' = IF Holding(p, a) THEN [job EXCEPT ![a] = "failed"] ELSE job
  /\ UNCHANGED <<transport, manifest, chosen, staging, guardReady, guardOn>>
\* An engine's unusable answer is final, every other failure can be tried again.
FailureAt(at) == IF at = "engine" THEN {"failed", "terminal"} ELSE {"failed"}
\* The engine or the detector fails: with its lock the run records it, and throws.
RunFails(p, a) ==
  /\ preparer[p].at \in {"engine", "guard"} /\ a \in preparer[p].todo
  /\ \E state \in FailureAt(preparer[p].at) :
       job' = IF Holding(p, a) THEN [job EXCEPT ![a] = state] ELSE job
  /\ Rest(p)
  /\ UNCHANGED <<transport, manifest, text, chosen, staging, guardReady, guardOn>>
\* The text is guarded before the job is done.
GuardText(p, a) ==
  /\ preparer[p].at = "guard" /\ a \in preparer[p].todo
  /\ guardReady' = guardReady \cup {<<a, text[a]>>} /\ Goes(p, "guarded")
  /\ UNCHANGED <<transport, manifest, job, text, chosen, staging, guardOn, advisoryLocks>>
FinishJob(p, a) ==
  /\ preparer[p].at = "guarded" /\ a \in preparer[p].todo
  /\ IF Holding(p, a)
     THEN /\ job' = [job EXCEPT ![a] = "done"] /\ jobLock' = [jobLock EXCEPT ![a] = Nothing]
          /\ IF preparer[p].whole THEN Goes(p, "select") /\ UNCHANGED <<eventLock, fetchLock>>
             ELSE preparer' = [preparer EXCEPT ![p] = Resting] /\ UNCHANGED <<eventLock, fetchLock>>
     ELSE Rest(p) /\ UNCHANGED job
  /\ UNCHANGED <<transport, manifest, text, chosen, staging, guardReady, guardOn>>

----------------------------------------------------------------------------
(* The first selection, and the rest of the step.                          *)

Selectable(a) == chosen[a] = Nothing
\* activate: staged against no selection; a conflict is swallowed.
StageSelection(p, a) ==
  /\ preparer[p].at = "select" /\ a \in preparer[p].todo
  /\ staging' = IF Selectable(a) THEN staging \cup {a} ELSE staging
  /\ Goes(p, "selecting")
  /\ UNCHANGED <<transport, manifest, job, text, chosen, guardReady, guardOn, advisoryLocks>>
\* finish, by the step or by the reconciliation: once more against no selection.
FinishSelection(a) ==
  /\ a \in staging /\ staging' = staging \ {a}
  /\ chosen' = [chosen EXCEPT ![a] = IF Selectable(a) THEN text[a] ELSE @]
  /\ UNCHANGED <<transport, manifest, job, text, guardReady, guardOn, advisoryLocks, preparer>>
AfterSelection(p) ==
  /\ preparer[p].at = "selecting" /\ preparer[p].todo \cap staging = {}
  /\ preparer' = [preparer EXCEPT ![p].at = "derive", ![p].todo = Attachment \ Missing]
  /\ UNCHANGED <<preparedRows, advisoryLocks>>
GuardSource(p) ==
  /\ preparer[p].at = "derive" /\ preparer[p].todo = {} /\ Rest(p)
  /\ guardReady' = IF guardOn THEN guardReady \cup {SourceCopy} ELSE guardReady
  /\ UNCHANGED <<transport, manifest, job, text, chosen, staging, guardOn>>

\* request commits the job and its workflow before the step runs it.
RequestJob(p, a) ==
  /\ preparer[p].at = "derive" /\ a \in preparer[p].todo
  /\ chosen[a] = Nothing /\ job[a] = "none" /\ job' = [job EXCEPT ![a] = "pending"]
  /\ UNCHANGED <<transport, manifest, text, chosen, staging, guardReady, guardOn,
                 advisoryLocks, preparer>>

\* The owner selects another guarded version, replacing what is selected or the first.
OwnerSelects(a) ==
  /\ job[a] # "none" /\ chosen' = [chosen EXCEPT ![a] = OwnerText]
  /\ guardReady' = guardReady \cup {<<a, OwnerText>>}
  /\ UNCHANGED <<transport, manifest, job, text, staging, guardOn, advisoryLocks, preparer>>
SwitchGuard ==
  /\ guardOn' = ~guardOn
  /\ UNCHANGED <<transport, manifest, job, text, chosen, staging, guardReady,
                 advisoryLocks, preparer>>

\* A connection is lost: its locks are free, its worker still waits for its engine.
LoseLocks(p) ==
  /\ preparer[p].at # "rest" /\ Free(p)
  /\ UNCHANGED <<preparedRows, preparer>>
CrashPreparer(p) ==
  /\ preparer[p].at # "rest" /\ Rest(p) /\ UNCHANGED preparedRows

PreparationNext ==
  \/ \E p \in Preparer :
       \/ EnterPreparation(p) \/ DownloadFails(p) \/ EndFetch(p)
       \/ AfterSelection(p) \/ GuardSource(p) \/ LoseLocks(p) \/ CrashPreparer(p)
       \/ \E b \in Bytes : Downloaded(p, b)
       \/ \E a \in Attachment :
            \/ BeginFetch(p, a) \/ RequestJob(p, a) \/ Derive(p, a) \/ PassAttachment(p, a)
            \/ RunFails(p, a) \/ GuardText(p, a) \/ FinishJob(p, a) \/ StageSelection(p, a)
            \/ \E o \in Output : Derived(p, a, o)
  \/ \E a \in Attachment :
       \/ FinishSelection(a) \/ OwnerSelects(a) \/ \E b \in Bytes : ImportBytes(a, b)
  \/ SwitchGuard

PreparationSpec == PreparationInit /\ [][PreparationNext]_PreparationVars

----------------------------------------------------------------------------
\* What was prepared stands, whoever lost a lock or ran twice: attached bytes and a saved text
\* are never replaced, what the owner selected is replaced by nobody else, and a prepared
\* source stays prepared unless the guard is switched on.
PreparationStands ==
  /\ \A a \in Attachment :
       /\ manifest[a] # Nothing => manifest'[a] = manifest[a]
       /\ text[a] # Nothing => text'[a] = text[a]
       /\ chosen[a] # Nothing => chosen'[a] \in {chosen[a], OwnerText}
  /\ Completed /\ ~(guardOn' /\ ~guardOn) => Completed'
=============================================================================
