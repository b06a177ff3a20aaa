------------------------------- MODULE Capture -------------------------------
(***************************************************************************)
(* Capture of evidence: an observation is acknowledged when its file is in *)
(* the spool, becomes an original of the archive, and is handed to the     *)
(* control database, which requests its work.  Three stores and no common  *)
(* transaction: every step may be the last before a crash, and draining,   *)
(* reconciliation and imports meet the same source in any order.           *)
(* (src/src/stores/capture.ts, generated-capture.ts, archive.ts,           *)
(*  reaction-state.ts, source-portability.ts, browser-capture.ts,          *)
(*  browser-delivery.ts, operations.ts, derived.ts, src/src/storage.ts)    *)
(***************************************************************************)
EXTENDS Integers, FiniteSets

CONSTANTS
  Update,    \* sequence numbers of Telegram updates: reactions of one actor to one message
  Drainer,   \* the capture loop, and admissions that drain their own file
  Histories  \* sets of files one history is about: files are independent but for these

ASSUME CaptureAssumption == Update \subseteq 1..9

VARIABLES
  subjects,   \* the files of this history
  observed,   \* what the gateway and the browser reported: live evidence, acknowledged
  files,      \* bytes of the browser's attachments
  offered,    \* browser-delivery-offers
  spool,      \* spool/pending
  archived,   \* originals of the archive, with their manifests
  intake,     \* source_intakes, None where there is none
  handed,     \* capture_handoffs, the work requested and the attachments listed with it
  answered,   \* sources for which a telegram workflow was requested
  reaction,   \* reaction_states of that actor and message; 0 before there is one
  receipts,   \* content_operations, derived artifact and effect receipt of the result
  drainer,    \* what each drainer holds
  importer    \* an import between its commits

CaptureVars == <<subjects, observed, files, offered, spool, archived, intake, handed, answered, reaction,
                 receipts, drainer, importer>>

\* The result of an outbound call proves one delivered message; the browser's input and the
\* answer that was shown there are originals themselves.
ResultFile == 11
InputFile == 12
AnswerFile == 13
DeliveredSource == 14
NoFile == 0
File == Update \cup {ResultFile, InputFile, AnswerFile}
Source == Update \cup {DeliveredSource, InputFile, AnswerFile}
Original(f) == IF f = ResultFile THEN DeliveredSource ELSE f
ReceiptSteps == <<"operation", "artifact", "effect">>

NoIntake == "none"
IdleDrainer == [at |-> "idle", file |-> NoFile]
NoImport == [at |-> "idle", source |-> NoFile]

CaptureInit ==
  /\ subjects \in Histories
  /\ observed = {} /\ files = {} /\ offered = {} /\ spool = {} /\ archived = {}
  /\ intake = [s \in Source |-> NoIntake]
  /\ handed = {} /\ answered = {} /\ reaction = 0 /\ receipts = {}
  /\ drainer = [d \in Drainer |-> IdleDrainer] /\ importer = NoImport

stores == <<archived, intake, handed, answered, reaction, receipts>>

----------------------------------------------------------------------------
(* Admission depends on the filesystem alone.                              *)

\* immutableFile, then the acknowledgement: the same file again is no other file, and one
\* that was drained before is drained again.
Spool(f) == f \in subjects /\ spool' = spool \cup {f} /\ observed' = observed \cup {f}

\* POST /v1/ingest, of what the gateway observed.
Ingest(f) ==
  /\ f \in Update \cup {ResultFile} /\ Spool(f)
  /\ UNCHANGED <<files, offered, stores, drainer, importer>>

\* Every attachment is stored before the record that names it.
StoreInputBytes ==
  /\ InputFile \in subjects \ files /\ files' = files \cup {InputFile}
  /\ UNCHANGED <<observed, offered, spool, stores, drainer, importer>>
SubmitInput ==
  /\ InputFile \in files /\ Spool(InputFile)
  /\ UNCHANGED <<files, offered, stores, drainer, importer>>

\* offer, and the browser's authenticated receipt for it.
OfferAnswer ==
  /\ InputFile \in handed /\ AnswerFile \in subjects \ offered /\ offered' = {AnswerFile}
  /\ UNCHANGED <<observed, files, spool, stores, drainer, importer>>
AcknowledgeAnswer ==
  /\ AnswerFile \in offered /\ Spool(AnswerFile)
  /\ UNCHANGED <<files, offered, stores, drainer, importer>>

----------------------------------------------------------------------------
(* The two databases.                                                      *)

\* ArchiveRepository.capture: the original, its projection and its manifests at once; the
\* same identity again changes nothing.
ArchiveOf(s) == archived' = archived \cup {s}

\* ReactionStateRepository.capture keeps the highest update, however late others come.
Latest(s) == s > reaction

\* request: one transaction of the control database.  The transport of an existing intake
\* stays: only what was captured live is answered.
HandOff(s) ==
  LET transport == IF intake[s] = NoIntake THEN "capture" ELSE intake[s]
      live == transport = "capture"
  IN
  /\ intake' = [intake EXCEPT ![s] = IF transport = "import pending" THEN "import" ELSE transport]
  /\ handed' = handed \cup {s}
  /\ answered' = IF live /\ s \in Update THEN answered \cup {s} ELSE answered
  /\ reaction' = IF live /\ s \in Update /\ Latest(s) THEN s ELSE reaction

Busy(d, at) == drainer' = [drainer EXCEPT ![d].at = at]

\* drainSourceSpool, followed for one file of its batch; the archive commits of the whole
\* batch come first, and each file is independent of the others.
OpenFile(d, f) ==
  /\ drainer[d].at = "idle" /\ f \in spool
  /\ drainer' = [drainer EXCEPT ![d] = [at |-> "read", file |-> f]]
  /\ UNCHANGED <<observed, files, offered, spool, stores, importer>>
ArchiveFile(d) ==
  /\ drainer[d].at = "read" /\ ArchiveOf(Original(drainer[d].file)) /\ Busy(d, "archived")
  /\ UNCHANGED <<observed, files, offered, spool, intake, handed, answered, reaction, receipts,
                 importer>>
HandOffFile(d) ==
  /\ drainer[d].at = "archived" /\ HandOff(Original(drainer[d].file))
  /\ Busy(d, IF drainer[d].file = ResultFile THEN "handed" ELSE "committed")
  /\ UNCHANGED <<observed, files, offered, spool, archived, receipts, importer>>
\* GeneratedCaptureRepository.commit: the operation, the artifact and the receipt are three
\* commits of two databases, each of which may be there already.
CommitGenerated(d) ==
  /\ drainer[d].at = "handed"
  /\ LET done == {i \in 1..3 : ReceiptSteps[i] \in receipts}
         next == Cardinality(done) + 1
     IN IF next > 3 THEN Busy(d, "committed") /\ UNCHANGED receipts
        ELSE receipts' = receipts \cup {ReceiptSteps[next]} /\ UNCHANGED drainer
  /\ UNCHANGED <<observed, files, offered, spool, archived, intake, handed, answered, reaction,
                 importer>>

Retireable(d) == drainer[d].at = "committed"
\* The name is removed: whatever is there under it now.
RetireFile(d) ==
  /\ Retireable(d)
  /\ spool' = spool \ {drainer[d].file}
  /\ drainer' = [drainer EXCEPT ![d] = IdleDrainer]
  /\ UNCHANGED <<observed, files, offered, stores, importer>>
\* A failed commit leaves the file for the next drain, a crash likewise.
LoseDrainer(d) ==
  /\ drainer[d].at # "idle" /\ drainer' = [drainer EXCEPT ![d] = IdleDrainer]
  /\ UNCHANGED <<observed, files, offered, spool, stores, importer>>

\* reconcile: a page of the archive is handed over again, sweep after sweep.
Reconcile(s) ==
  /\ s \in archived /\ HandOff(s)
  /\ UNCHANGED <<observed, files, offered, spool, archived, receipts, drainer, importer>>

----------------------------------------------------------------------------
(* Importing an original: control first, so that history cannot become a   *)
(* live turn.                                                              *)

Importing(at) == importer' = [importer EXCEPT !.at = at]
rest == <<observed, files, offered, spool, receipts, drainer>>

BeginImport(s) ==
  /\ s \in subjects /\ importer.at = "idle" /\ importer' = [at |-> "begun", source |-> s]
  /\ UNCHANGED <<rest, archived, intake, handed, answered, reaction>>
AdmitImport ==
  /\ importer.at = "begun" /\ Importing("admitted")
  /\ intake' = [intake EXCEPT ![importer.source] = IF @ = NoIntake THEN "import pending" ELSE @]
  /\ UNCHANGED <<rest, archived, handed, answered, reaction>>
Admitted == importer.at = "admitted"
ArchiveImport ==
  /\ Admitted /\ ArchiveOf(importer.source) /\ Importing("archived")
  /\ UNCHANGED <<rest, intake, handed, answered, reaction>>
ReadyImport ==
  /\ importer.at = "archived" /\ Importing("ready")
  /\ intake' = [intake EXCEPT ![importer.source] = IF @ = "import pending" THEN "import" ELSE @]
  /\ UNCHANGED <<rest, archived, handed, answered, reaction>>
HandOffImport ==
  /\ importer.at = "ready" /\ HandOff(importer.source) /\ importer' = NoImport
  /\ UNCHANGED <<rest, archived>>
LoseImport ==
  /\ importer.at # "idle" /\ importer' = NoImport
  /\ UNCHANGED <<rest, archived, intake, handed, answered, reaction>>

CaptureStep ==
  \/ StoreInputBytes \/ SubmitInput \/ OfferAnswer \/ AcknowledgeAnswer
  \/ \E f \in File : Ingest(f)
  \/ \E d \in Drainer :
       \/ ArchiveFile(d) \/ HandOffFile(d) \/ CommitGenerated(d) \/ RetireFile(d) \/ LoseDrainer(d)
       \/ \E f \in File : OpenFile(d, f)
  \/ \E s \in Source : Reconcile(s)
  \/ \E s \in Update : BeginImport(s)
  \/ AdmitImport \/ ArchiveImport \/ ReadyImport \/ HandOffImport \/ LoseImport

CaptureNext == CaptureStep /\ UNCHANGED subjects
CaptureSpec == CaptureInit /\ [][CaptureNext]_CaptureVars

----------------------------------------------------------------------------
\* What was acknowledged is never lost: its file is still in the spool, or its original is
\* archived and handed over, its attachments are stored, and, for a result, its receipt is
\* written, whoever drained it and however often a drain was cut short.
NothingLost ==
  /\ \A f \in observed \ spool :
       /\ Original(f) \in archived \cap handed
       /\ f = ResultFile => "effect" \in receipts
  /\ InputFile \in archived => InputFile \in files

\* History is not answered: a reply is requested only for an update that was observed live,
\* also when the same update is imported, and when an import crashed between its commits and
\* reconciliation met what it left.
HistoryStaysSilent == answered \subseteq observed

\* The current reaction is the last one in the order of the updates, not the last to arrive:
\* of all that were handed over as live, none is later.
ReactionIsLast ==
  \A s \in answered : s <= reaction

\* What a capture was acknowledged for is done with it: kept, answered only when it was live,
\* and the last reaction counted.
CaptureKeeps == NothingLost /\ HistoryStaysSilent /\ ReactionIsLast
=============================================================================
