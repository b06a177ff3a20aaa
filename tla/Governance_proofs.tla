-------------------------- MODULE Governance_proofs --------------------------
(***************************************************************************)
(* Proofs about the components of MCGovernance.  Each of its runs is a run *)
(* of every component: the one that moves takes its own steps, the others  *)
(* stutter.  What is proved of a component therefore holds of the union    *)
(* that TLC checks, with no bound on the constants.                        *)
(***************************************************************************)
EXTENDS MCGovernance, Acting_proofs

\* The runs of the controlled actions, and those of the imports.
LEMMA ActionsRun == Spec => ActionSpec
<1>1. Init => ActionInit
  BY DEF Init
<1>2. [Next]_GovernanceVars => [ActionNext]_ActionVars
  BY DEF Next, GovernanceVars
<1> QED
  BY <1>1, <1>2, PTL DEF Spec, ActionSpec

LEMMA ImportsRun == Spec => ImportSpec
<1>1. Init => ImportInit
  BY DEF Init
<1>2. [Next]_GovernanceVars => [ImportNext]_ImportVars
  BY DEF Next, GovernanceVars
<1> QED
  BY <1>1, <1>2, PTL DEF Spec, ImportSpec

\* What a controlled action promises, of every run.
THEOREM ActionsAreGoverned == Spec => ActionsGoverned
<1>1. ActionTypeOK /\ EffectHasAuthority => (part = "actions" => ActionTypeOK /\ EffectHasAuthority)
  OBVIOUS
<1>2. [SettlementIsFinal]_ActionVars => [part = "actions" => SettlementIsFinal]_ActionVars
  OBVIOUS
<1> QED
  BY <1>1, <1>2, ActionsRun, ActionsTyped, EffectsAuthorized, ResultsFinal, PTL DEF ActionsGoverned

\* What an import tells in its row, workflow, messages and checkpoint, in every state.
THEOREM ImportsAlwaysStand == Spec => []ImportsStand
<1>1. ImportsAgree => ImportsStand
  BY DEF ImportsStand
<1> QED
  BY <1>1, ImportsRun, ImportsTold, PTL

----------------------------------------------------------------------------
(* Sharing: the releases, and who reads them.                              *)
(* What a request or a reader finds out holds as long as the binding it    *)
(* was found under is the present one: every change that could make it     *)
(* untrue moves the binding.                                               *)

SharePreviewRow == [at : {"none", "input", "row", "answer", "output", "ready"}, mode : Modes,
               revision : Nat, bound : Nat, source : Nat]
ShareReleaseRow == [state : {"none", "active", "revoked"}, revision : Nat, text : Nat, expired : BOOLEAN]
ShareCallerRow == [at : {"idle", "asked", "saved", "ready", "locked", "answered", "guarded", "validated", "judged", "releasing"},
              preview : SharePreview \cup {NoSharePreview}, bound : Nat, inner : Nat, revision : Nat, text : Nat]
ShareReaderRow == [at : {"idle", "asserted", "found", "validated", "read", "delivered"},
              preview : SharePreview \cup {NoSharePreview}, bound : Nat, row : ShareReleaseRow]

SharingTypeOK ==
  /\ rule \in [revision : Nat, enabled : BOOLEAN, mode : Modes]
  /\ shareEpoch \in Nat /\ replacing \in SharePreview \cup {"none", "source"} /\ sourceText \in Nat
  /\ outputText \in [SharePreview -> Nat]
  /\ preview \in [SharePreview -> SharePreviewRow] /\ release \in [SharePreview -> ShareReleaseRow]
  /\ caller \in [ShareCaller -> ShareCallerRow] /\ reader \in [ShareReader -> ShareReaderRow]
\* Who still holds the present binding has seen no replacement begin.
BindingKept(b) == b.at # "idle" =>
  b.preview \in SharePreview /\ b.bound <= shareEpoch /\ (b.bound = shareEpoch => NoReplacement)

CallerStands(c) ==
  LET k == caller[c]  v == k.preview IN
  k.at \in {"judged", "releasing"} =>
    /\ preview[v].at = "ready"
    /\ k.bound = shareEpoch => sourceText = preview[v].source /\ (k.at = "releasing" => k.text = outputText[v])

ReaderStands(r) ==
  LET k == reader[r]  v == k.preview IN
  k.at \in {"found", "validated", "read"} /\ k.bound = shareEpoch =>
    /\ release[v].state = "active" /\ release[v].revision = k.row.revision /\ release[v].text = k.row.text
    /\ rule.enabled /\ rule.revision = k.row.revision
    /\ k.at \in {"validated", "read"} => sourceText = preview[v].source
    /\ k.at = "read" => outputText[v] = k.row.text
ShareInv ==
  /\ SharingTypeOK
  /\ \A c \in ShareCaller : BindingKept(caller[c]) /\ CallerStands(c)
  /\ \A r \in ShareReader : BindingKept(reader[r]) /\ ReaderStands(r)
  /\ \A v \in SharePreview : release[v].state # "none" => preview[v].at = "ready"

USE DEF texts

LEMMA ShareInit == SharingInit => ShareInv
<1> SUFFICES ASSUME SharingInit PROVE ShareInv
  OBVIOUS
<1>1. SharingTypeOK
  <2>1. NoPreviewRow \in SharePreviewRow /\ NoRelease \in ShareReleaseRow /\ NoCaller \in ShareCallerRow
    BY DEF SharePreviewRow, ShareReleaseRow, ShareCallerRow, NoPreviewRow, NoRelease, NoCaller, Modes
  <2>2. NoReading \in ShareReaderRow
    BY <2>1 DEF ShareReaderRow, NoReading
  <2>3. rule \in [revision : Nat, enabled : BOOLEAN, mode : Modes]
    <3> PICK m \in Modes : rule = [revision |-> 1, enabled |-> TRUE, mode |-> m]
      BY DEF SharingInit
    <3> QED
      OBVIOUS
  <2> HIDE DEF NoPreviewRow, NoRelease, NoCaller, NoReading
  <2> QED
    BY <2>1, <2>2, <2>3 DEF SharingInit, SharingTypeOK
<1> QED
  BY <1>1 DEF ShareInv, SharingInit, BindingKept, CallerStands, ReaderStands, NoCaller, NoReading, NoRelease

\* The owner's changes.
OwnerShares ==
  \/ SaveRule \/ SaveOther \/ \E t \in SharePreview \cup {"source"} : BeginReplacement(t)
  \/ \E v \in SharePreview : RevokeRelease(v)

CallerMoves(c) ==
  \/ SaveInput(c) \/ InsertPreview(c) \/ StartFinish(c) \/ CallFilter(c) \/ SaveAnswer(c)
  \/ SaveOutput(c) \/ GuardOutput(c) \/ ValidateOutput(c) \/ FinishPreview(c) \/ Abandon(c)
  \/ JudgeFiltered(c) \/ ReadRepresentation(c) \/ CommitRelease(c)
  \/ \E v \in SharePreview : AskPreview(c, v) \/ BeginApproval(c, v)

ReaderStep(r) ==
  \/ FindRelease(r) \/ ValidateRead(r) \/ ReadShared(r) \/ DeliverShared(r) \/ LeaveRead(r)
  \/ \E v \in SharePreview : BeginRead(r, v)

\* A change of the owner leaves nobody with the present binding.
LEMMA OwnerStep == ASSUME ShareInv, OwnerShares PROVE ShareInv'
<1>t. SharingTypeOK
  BY DEF ShareInv
<1>1. shareEpoch \in Nat /\ shareEpoch' = shareEpoch + 1 /\ UNCHANGED <<preview, caller, reader, sourceText, outputText>>
  BY <1>t DEF SharingTypeOK, OwnerShares, SaveRule, SaveOther, BeginReplacement, RevokeRelease, OwnerCommit
<1>2. /\ \A v \in SharePreview : release'[v].state # "none" => release[v].state # "none"
      /\ release' \in [SharePreview -> ShareReleaseRow]
  <2>1. CASE release' = release
    BY <1>t, <2>1 DEF SharingTypeOK
  <2>2. ASSUME NEW v \in SharePreview, RevokeRelease(v)
        PROVE  /\ \A u \in SharePreview : release'[u].state # "none" => release[u].state # "none"
               /\ release' \in [SharePreview -> ShareReleaseRow]
    BY <1>t, <2>2 DEF RevokeRelease, SharingTypeOK, ShareReleaseRow
  <2> QED
    BY <2>1, <2>2 DEF OwnerShares, SaveRule, SaveOther, BeginReplacement
<1>3. SharingTypeOK'
  <2>1. rule' \in [revision : Nat, enabled : BOOLEAN, mode : Modes]
    BY <1>t DEF OwnerShares, SaveRule, SaveOther, BeginReplacement, RevokeRelease, SharingTypeOK
  <2>2. replacing' \in SharePreview \cup {"none", "source"}
    BY <1>t DEF OwnerShares, SaveRule, SaveOther, BeginReplacement, RevokeRelease, SharingTypeOK
  <2> QED
    BY <1>t, <1>1, <1>2, <2>1, <2>2 DEF SharingTypeOK
<1>4. ASSUME NEW b \in ShareCallerRow \cup ShareReaderRow, BindingKept(b)
      PROVE  BindingKept(b)' /\ (b.at # "idle" => b.bound # shareEpoch')
  BY <1>1, <1>4 DEF BindingKept, ShareCallerRow, ShareReaderRow
<1>5. \A c \in ShareCaller : BindingKept(caller[c])' /\ CallerStands(c)'
  BY <1>t, <1>1, <1>4 DEF ShareInv, CallerStands, SharingTypeOK, BindingKept
<1>6. \A r \in ShareReader : BindingKept(reader[r])' /\ ReaderStands(r)'
  BY <1>t, <1>1, <1>4 DEF ShareInv, ReaderStands, SharingTypeOK, BindingKept
<1> QED
  BY <1>1, <1>2, <1>3, <1>5, <1>6 DEF ShareInv

\* A replacement that ends, or a release that runs out, meets nobody with the present binding
\* who would notice.
LEMMA LaterStep == ASSUME ShareInv, EndReplacement \/ \E v \in SharePreview : ExpireRelease(v) PROVE ShareInv'
<1>t. SharingTypeOK
  BY DEF ShareInv
<1>1. CASE EndReplacement
  <2>1. UNCHANGED <<rule, shareEpoch, preview, release, caller, reader>> /\ ~NoReplacement /\ NoReplacement'
    BY <1>1 DEF EndReplacement, NoReplacement
  <2>2. SharingTypeOK'
    BY <1>t, <1>1 DEF EndReplacement, SharingTypeOK
  <2>3. \A c \in ShareCaller : BindingKept(caller[c])' /\ CallerStands(c)'
    BY <1>t, <2>1 DEF ShareInv, BindingKept, CallerStands
  <2>4. \A r \in ShareReader : BindingKept(reader[r])' /\ ReaderStands(r)'
    BY <1>t, <2>1 DEF ShareInv, BindingKept, ReaderStands
  <2> QED
    BY <2>1, <2>2, <2>3, <2>4 DEF ShareInv
<1>2. ASSUME NEW v \in SharePreview, ExpireRelease(v) PROVE ShareInv'
  <2>1. UNCHANGED <<rule, shareEpoch, replacing, sourceText, outputText, preview, caller, reader>>
        /\ release' = [release EXCEPT ![v].expired = TRUE]
    BY <1>2 DEF ExpireRelease
  <2>2. /\ release' \in [SharePreview -> ShareReleaseRow]
        /\ \A u \in SharePreview : /\ release'[u].state = release[u].state /\ release'[u].text = release[u].text
                                   /\ release'[u].revision = release[u].revision
    BY <1>t, <2>1 DEF SharingTypeOK, ShareReleaseRow
  <2>3. SharingTypeOK'
    BY <1>t, <2>1, <2>2 DEF SharingTypeOK
  <2>4. \A c \in ShareCaller : BindingKept(caller[c])' /\ CallerStands(c)'
    BY <2>1 DEF ShareInv, BindingKept, CallerStands, NoReplacement
  <2>5. \A r \in ShareReader : BindingKept(reader[r])' /\ ReaderStands(r)'
    BY <2>1, <2>2 DEF ShareInv, BindingKept, ReaderStands, NoReplacement
  <2> QED
    BY <2>1, <2>2, <2>3, <2>4, <2>5 DEF ShareInv
<1> QED
  BY <1>1, <1>2

\* What a reader does touches only what it holds.
LEMMA ReadingStep == ASSUME ShareInv, NEW r \in ShareReader, ReaderStep(r) PROVE ShareInv'
<1>t. SharingTypeOK /\ reader[r] \in ShareReaderRow /\ BindingKept(reader[r]) /\ ReaderStands(r)
  BY DEF ShareInv, SharingTypeOK
<1>1. UNCHANGED <<rule, shareEpoch, replacing, sourceText, outputText, preview, release, caller>>
  BY DEF ReaderStep, FindRelease, ValidateRead, ReadShared, DeliverShared, LeaveRead, BeginRead, ReaderMoves
<1>2. \A q \in ShareReader : q # r => reader'[q] = reader[q]
  BY <1>t DEF SharingTypeOK, ReaderStep, FindRelease, ValidateRead, ReadShared, DeliverShared, LeaveRead, BeginRead, ReaderMoves
<1>3. ASSUME NEW k \in ShareReaderRow, ReaderMoves(r, k), BindingKept(k),
             k.at \in {"found", "validated", "read"} /\ k.bound = shareEpoch =>
               /\ release[k.preview].state = "active" /\ release[k.preview].revision = k.row.revision
               /\ release[k.preview].text = k.row.text
               /\ rule.enabled /\ rule.revision = k.row.revision
               /\ k.at \in {"validated", "read"} => sourceText = preview[k.preview].source
               /\ k.at = "read" => outputText[k.preview] = k.row.text
      PROVE ShareInv'
  <2>1. reader' = [reader EXCEPT ![r] = k] /\ reader'[r] = k
    BY <1>t, <1>3 DEF ReaderMoves, SharingTypeOK
  <2>2. SharingTypeOK'
    BY <1>t, <1>1, <2>1 DEF SharingTypeOK
  <2>3. \A c \in ShareCaller : BindingKept(caller[c])' /\ CallerStands(c)'
    BY <1>1 DEF ShareInv, BindingKept, CallerStands, NoReplacement
  <2>4. \A q \in ShareReader : q # r => BindingKept(reader[q])' /\ ReaderStands(q)'
    BY <1>1, <1>2 DEF ShareInv, BindingKept, ReaderStands, NoReplacement
  <2>5. BindingKept(reader[r])' /\ ReaderStands(r)'
    BY <1>1, <1>3, <2>1 DEF BindingKept, ReaderStands, NoReplacement
  <2> QED
    BY <1>1, <2>2, <2>3, <2>4, <2>5 DEF ShareInv
<1>4. ASSUME NEW v \in SharePreview, BeginRead(r, v) PROVE ShareInv'
  <2> DEFINE k == [NoReading EXCEPT !.at = "asserted", !.preview = v, !.bound = shareEpoch]
  <2>1. ReaderMoves(r, k) /\ NoReplacement
    BY <1>4 DEF BeginRead
  <2>2. k \in ShareReaderRow /\ k.at = "asserted" /\ k.preview = v /\ k.bound = shareEpoch
    BY <1>t DEF ShareReaderRow, NoReading, NoRelease, ShareReleaseRow, SharingTypeOK
  <2>3. BindingKept(k)
    BY <1>t, <2>1, <2>2 DEF BindingKept, SharingTypeOK
  <2> QED
    BY <1>3, <2>1, <2>2, <2>3
<1>5. CASE FindRelease(r)
  <2> DEFINE v == reader[r].preview
             k == [reader[r] EXCEPT !.at = "found", !.row = release[v]]
  <2>1. /\ reader[r].at = "asserted" /\ release[v].state = "active"
        /\ rule.enabled /\ rule.revision = release[v].revision /\ ReaderMoves(r, k)
    BY <1>5 DEF FindRelease
  <2>2. v \in SharePreview /\ release[v] \in ShareReleaseRow
    BY <1>t, <2>1 DEF BindingKept, SharingTypeOK
  <2>3. k \in ShareReaderRow /\ k.at = "found" /\ k.preview = v /\ k.bound = reader[r].bound /\ k.row = release[v]
    BY <1>t, <2>2 DEF ShareReaderRow
  <2>4. BindingKept(k)
    BY <1>t, <2>1, <2>3 DEF BindingKept
  <2> QED
    BY <1>3, <2>1, <2>3, <2>4
<1>6. CASE ValidateRead(r) \/ ReadShared(r) \/ DeliverShared(r)
  <2> PICK at \in {"validated", "read", "delivered"} :
        /\ ReaderMoves(r, [reader[r] EXCEPT !.at = at]) /\ reader[r].at \in {"found", "validated", "read"}
        /\ at = "validated" => reader[r].at = "found" /\ sourceText = preview[reader[r].preview].source
        /\ at = "read" => reader[r].at = "validated" /\ outputText[reader[r].preview] = reader[r].row.text
    BY <1>6 DEF ValidateRead, ReadShared, DeliverShared, HoldsEnabled, Holds
  <2> DEFINE k == [reader[r] EXCEPT !.at = at]
  <2>1. k \in ShareReaderRow /\ k.at = at /\ k.preview = reader[r].preview /\ k.bound = reader[r].bound /\ k.row = reader[r].row
    BY <1>t DEF ShareReaderRow
  <2>2. BindingKept(k)
    BY <1>t, <2>1 DEF BindingKept
  <2> QED
    BY <1>3, <1>t, <2>1, <2>2 DEF ReaderStands
<1>7. CASE LeaveRead(r)
  <2>1. NoReading \in ShareReaderRow /\ NoReading.at = "idle" /\ ReaderMoves(r, NoReading)
    BY <1>7 DEF ShareReaderRow, NoReading, NoRelease, ShareReleaseRow, LeaveRead
  <2> QED
    BY <1>3, <2>1 DEF BindingKept
<1> QED
  BY <1>4, <1>5, <1>6, <1>7 DEF ReaderStep

\* A request keeps what is ready and what is released, and holds what it has read.
LEMMA CallerGoesOn ==
  ASSUME ShareInv, NEW c \in ShareCaller, NEW k \in ShareCallerRow, caller' = [caller EXCEPT ![c] = k],
         UNCHANGED <<rule, shareEpoch, replacing, sourceText, reader>>,
         preview' \in [SharePreview -> SharePreviewRow], outputText' \in [SharePreview -> Nat],
         release' \in [SharePreview -> ShareReleaseRow],
         \A v \in SharePreview : preview[v].at = "ready" =>
           preview'[v].at = "ready" /\ preview'[v].source = preview[v].source /\ outputText'[v] = outputText[v],
         \A v \in SharePreview : release[v].state # "none" => release'[v] = release[v],
         \A v \in SharePreview : release'[v].state # "none" => release[v].state # "none" \/ preview[v].at = "ready",
         BindingKept(k),
         k.at \in {"judged", "releasing"} =>
           /\ preview[k.preview].at = "ready"
           /\ k.bound = shareEpoch =>
                sourceText = preview[k.preview].source /\ (k.at = "releasing" => k.text = outputText[k.preview])
  PROVE  ShareInv'
<1>t. SharingTypeOK
  BY DEF ShareInv
<1>1. SharingTypeOK'
  BY <1>t DEF SharingTypeOK
<1>2. caller'[c] = k /\ \A d \in ShareCaller : d # c => caller'[d] = caller[d]
  BY <1>t DEF SharingTypeOK
<1>3. BindingKept(caller[c])' /\ CallerStands(c)'
  BY <1>2 DEF BindingKept, CallerStands, NoReplacement
<1>4. \A d \in ShareCaller : d # c => BindingKept(caller[d])' /\ CallerStands(d)'
  BY <1>2 DEF ShareInv, BindingKept, CallerStands, NoReplacement
<1>5. \A r \in ShareReader : BindingKept(reader[r])' /\ ReaderStands(r)'
  BY DEF ShareInv, BindingKept, ReaderStands, NoReplacement
<1>6. \A v \in SharePreview : release'[v].state # "none" => preview'[v].at = "ready"
  BY DEF ShareInv
<1> QED
  BY <1>1, <1>3, <1>4, <1>5, <1>6 DEF ShareInv

\* A request that only changes its place.
LEMMA SharePlaceTypes ==
  ASSUME SharingTypeOK, NEW c \in ShareCaller, BindingKept(caller[c]), caller[c].at # "idle",
         NEW at \in {"saved", "ready", "locked", "answered", "guarded", "validated", "judged"}
  PROVE  LET k == [caller[c] EXCEPT !.at = at] IN
         /\ k \in ShareCallerRow /\ BindingKept(k) /\ k.at = at /\ k.preview = caller[c].preview
         /\ k.bound = caller[c].bound
<1>1. caller[c] \in ShareCallerRow
  BY DEF SharingTypeOK
<1> QED
  BY <1>1 DEF ShareCallerRow, BindingKept

LEMMA PreparingStep ==
  ASSUME ShareInv, NEW c \in ShareCaller, CallerMoves(c), ~CommitRelease(c)
  PROVE  ShareInv'
<1>t. SharingTypeOK /\ caller[c] \in ShareCallerRow /\ BindingKept(caller[c]) /\ CallerStands(c)
  BY DEF ShareInv, SharingTypeOK
<1>v. caller[c].at # "idle" => caller[c].preview \in SharePreview
  BY <1>t DEF BindingKept
<1>k. preview \in [SharePreview -> SharePreviewRow] /\ outputText \in [SharePreview -> Nat] /\ release \in [SharePreview -> ShareReleaseRow]
  BY <1>t DEF SharingTypeOK
\* The steps of which only the place of the request is seen.
<1>p. ASSUME NEW at \in {"saved", "ready", "locked", "answered", "guarded", "validated", "judged"},
             ShareMoves(c, at), UNCHANGED <<rule, shareEpoch, replacing, sourceText, release, reader>>,
             preview' \in [SharePreview -> SharePreviewRow], outputText' \in [SharePreview -> Nat], caller[c].at # "idle",
             \A v \in SharePreview : preview[v].at = "ready" =>
               preview'[v].at = "ready" /\ preview'[v].source = preview[v].source /\ outputText'[v] = outputText[v],
             at = "judged" => /\ preview[caller[c].preview].at = "ready"
                              /\ caller[c].bound = shareEpoch => sourceText = preview[caller[c].preview].source
      PROVE  ShareInv'
  <2> DEFINE k == [caller[c] EXCEPT !.at = at]
  <2>1. k \in ShareCallerRow /\ BindingKept(k) /\ k.at = at /\ k.preview = caller[c].preview /\ k.bound = caller[c].bound
    BY <1>p, <1>t, SharePlaceTypes
  <2>2. caller' = [caller EXCEPT ![c] = k]
    BY <1>p DEF ShareMoves
  <2> HIDE DEF k
  <2> QED
    BY <1>p, <1>k, <2>1, <2>2, CallerGoesOn
<1>1. ASSUME NEW v \in SharePreview, AskPreview(c, v) PROVE ShareInv'
  <2> DEFINE k == [NoCaller EXCEPT !.at = "asked", !.preview = v, !.bound = shareEpoch, !.revision = rule.revision]
  <2>1. caller' = [caller EXCEPT ![c] = k] /\ NoReplacement /\ UNCHANGED <<rule, shareEpoch, replacing, sourceText, outputText, preview, release, reader>>
    BY <1>1 DEF AskPreview, HoldingNothing
  <2>2. k \in ShareCallerRow /\ k.at = "asked" /\ k.preview = v /\ k.bound = shareEpoch
    BY <1>t DEF ShareCallerRow, NoCaller, SharingTypeOK
  <2>3. BindingKept(k)
    BY <1>t, <2>1, <2>2 DEF BindingKept, SharingTypeOK
  <2> HIDE DEF k
  <2> QED
    BY <1>k, <2>1, <2>2, <2>3, CallerGoesOn
<1>2. CASE SaveInput(c)
  <2>1. preview' \in [SharePreview -> SharePreviewRow] /\ \A v \in SharePreview : preview[v].at = "ready" => preview'[v] = preview[v]
    <3>1. CASE preview' = preview
      BY <1>k, <3>1
    <3>2. CASE /\ preview[caller[c].preview].at = "none"
               /\ preview' = [preview EXCEPT ![caller[c].preview] = [at |-> "input", mode |-> rule.mode,
                    revision |-> caller[c].revision, bound |-> caller[c].bound, source |-> sourceText]]
      <4>1. [at |-> "input", mode |-> rule.mode, revision |-> caller[c].revision, bound |-> caller[c].bound, source |-> sourceText] \in SharePreviewRow
        BY <1>t DEF SharePreviewRow, ShareCallerRow, SharingTypeOK
      <4> QED
        BY <1>k, <3>2, <4>1
    <3> QED
      BY <1>2, <3>1, <3>2 DEF SaveInput
  <2> QED
    BY <1>2, <1>k, <1>p, <2>1 DEF SaveInput, HoldingNothing
<1>3. CASE InsertPreview(c)
  <2>1. preview' \in [SharePreview -> SharePreviewRow]
        /\ \A v \in SharePreview : preview[v].at = "ready" => preview'[v].at = "ready" /\ preview'[v].source = preview[v].source
    BY ZenonT(60), <1>3, <1>k DEF InsertPreview, SharePreviewRow
  <2> QED
    BY <1>3, <1>k, <1>p, <2>1 DEF InsertPreview, HoldingNothing
<1>4. CASE StartFinish(c)
  <2> DEFINE k == [caller[c] EXCEPT !.at = "locked", !.inner = shareEpoch]
  <2>1. k \in ShareCallerRow /\ BindingKept(k) /\ k.at = "locked"
    BY <1>4, <1>t DEF StartFinish, SharingTypeOK, ShareCallerRow, BindingKept
  <2>2. caller' = [caller EXCEPT ![c] = k] /\ UNCHANGED <<rule, shareEpoch, replacing, sourceText, outputText, preview, release, reader>>
    BY <1>4 DEF StartFinish, HoldingNothing
  <2> HIDE DEF k
  <2> QED
    BY <1>k, <2>1, <2>2, CallerGoesOn
<1>5. CASE CallFilter(c) \/ ValidateOutput(c)
  BY <1>5, <1>k, <1>p DEF CallFilter, ValidateOutput, HoldingNothing
<1>6. ASSUME NEW from \in {"row", "answer"}, NEW to \in {"answer", "output"}, Advance(c, from, to), caller[c].at # "idle"
      PROVE  ShareInv'
  <2>1. preview[caller[c].preview].at = from /\ preview' = [preview EXCEPT ![caller[c].preview].at = to]
    BY <1>6 DEF Advance
  <2>2. preview' \in [SharePreview -> SharePreviewRow] /\ \A v \in SharePreview : preview[v].at = "ready" => preview'[v] = preview[v]
    BY ZenonT(60), <2>1, <1>k DEF SharePreviewRow
  <2> QED
    BY <1>6, <1>k, <1>p, <2>2 DEF Advance, HoldingNothing
<1>7. CASE SaveAnswer(c) \/ SaveOutput(c)
  BY <1>6, <1>7 DEF SaveAnswer, SaveOutput
<1>8. CASE GuardOutput(c)
  <2>1. outputText' \in [SharePreview -> Nat] /\ \A v \in SharePreview : preview[v].at = "ready" => outputText'[v] = outputText[v]
    BY <1>8, <1>k DEF GuardOutput
  <2> QED
    BY <1>8, <1>k, <1>p, <2>1 DEF GuardOutput
<1>9. CASE FinishPreview(c)
  <2>1. preview' \in [SharePreview -> SharePreviewRow]
        /\ \A v \in SharePreview : preview[v].at = "ready" => preview'[v].at = "ready" /\ preview'[v].source = preview[v].source
    BY <1>9, <1>k DEF FinishPreview, SharePreviewRow
  <2> QED
    BY <1>9, <1>k, <1>p, <2>1 DEF FinishPreview, HoldingNothing
<1>10. CASE Abandon(c)
  <2>1. NoCaller \in ShareCallerRow /\ NoCaller.at = "idle"
    BY DEF ShareCallerRow, NoCaller
  <2>2. caller' = [caller EXCEPT ![c] = NoCaller] /\ UNCHANGED <<rule, shareEpoch, replacing, sourceText, outputText, preview, release, reader>>
    BY <1>10 DEF Abandon, HoldingNothing
  <2> HIDE DEF NoCaller
  <2> QED
    BY <1>k, <2>1, <2>2, CallerGoesOn DEF BindingKept
<1>11. CASE JudgeFiltered(c)
  BY <1>11, <1>k, <1>p DEF JudgeFiltered, HoldsEnabled, Holds, HoldingNothing
<1>12. ASSUME NEW v \in SharePreview, BeginApproval(c, v) PROVE ShareInv'
  <2> DEFINE k == [NoCaller EXCEPT !.at = "judged", !.preview = v, !.bound = shareEpoch]
  <2>1. caller' = [caller EXCEPT ![c] = k] /\ UNCHANGED <<rule, shareEpoch, replacing, sourceText, outputText, preview, release, reader>>
    BY <1>12 DEF BeginApproval, HoldingNothing
  <2>2. NoReplacement /\ preview[v].at = "ready" /\ sourceText = preview[v].source
    BY <1>12 DEF BeginApproval, HoldsEnabled, Holds, Unmoved
  <2>3. k \in ShareCallerRow /\ k.at = "judged" /\ k.preview = v /\ k.bound = shareEpoch
    BY <1>t DEF ShareCallerRow, NoCaller, SharingTypeOK
  <2>4. BindingKept(k)
    BY <1>t, <2>2, <2>3 DEF BindingKept, SharingTypeOK
  <2> HIDE DEF k
  <2> QED
    BY <1>k, <2>1, <2>2, <2>3, <2>4, CallerGoesOn
<1>13. CASE ReadRepresentation(c)
  <2> DEFINE v == caller[c].preview
             k == [caller[c] EXCEPT !.at = "releasing", !.text = outputText[v]]
  <2>1. /\ caller' = [caller EXCEPT ![c] = k] /\ caller[c].at = "judged"
        /\ UNCHANGED <<rule, shareEpoch, replacing, sourceText, outputText, preview, release, reader>>
    BY <1>13 DEF ReadRepresentation, HoldingNothing
  <2>2. k \in ShareCallerRow /\ k.at = "releasing" /\ k.preview = v /\ k.bound = caller[c].bound /\ k.text = outputText[v]
    BY <1>t, <1>v, <1>k, <2>1 DEF ShareCallerRow
  <2>3. BindingKept(k)
    BY <1>t, <2>1, <2>2 DEF BindingKept
  <2> HIDE DEF k
  <2> QED
    BY <1>k, <1>t, <2>1, <2>2, <2>3, CallerGoesOn DEF CallerStands
<1> QED
  BY <1>1, <1>2, <1>3, <1>4, <1>5, <1>7, <1>8, <1>9, <1>10, <1>11, <1>12, <1>13 DEF CallerMoves

\* What a commit of a release finds: all of it was read under the present binding.
LEMMA CommitFinds ==
  ASSUME ShareInv, NEW c \in ShareCaller, CommitRelease(c)
  PROVE  LET v == caller[c].preview IN
         /\ v \in SharePreview /\ preview[v].at = "ready" /\ NoReplacement /\ rule.enabled
         /\ rule.revision = preview[v].revision /\ sourceText = preview[v].source
         /\ caller[c].text = outputText[v] /\ caller[c].text \in Nat
BY DEF ShareInv, CommitRelease, Fence, Unmoved, CallerStands, BindingKept, SharingTypeOK, ShareCallerRow

LEMMA CommitStep ==
  ASSUME ShareInv, NEW c \in ShareCaller, CommitRelease(c)
  PROVE  ShareInv'
<1> DEFINE v == caller[c].preview
<1>t. SharingTypeOK /\ preview \in [SharePreview -> SharePreviewRow] /\ outputText \in [SharePreview -> Nat]
  BY DEF ShareInv, SharingTypeOK
<1>0. v \in SharePreview /\ preview[v].at = "ready" /\ caller[c].text \in Nat
  BY CommitFinds
<1>1. NoCaller \in ShareCallerRow /\ NoCaller.at = "idle"
  BY DEF ShareCallerRow, NoCaller
<1>2. caller' = [caller EXCEPT ![c] = NoCaller] /\ UNCHANGED <<rule, replacing, sourceText, outputText, preview, reader>>
  BY DEF CommitRelease
<1>3. /\ release' \in [SharePreview -> ShareReleaseRow]
      /\ \A u \in SharePreview : release[u].state # "none" => release'[u] = release[u]
      /\ \A u \in SharePreview : release'[u].state # "none" => release[u].state # "none" \/ u = v
  <2>1. [state |-> "active", revision |-> preview[v].revision, text |-> caller[c].text, expired |-> FALSE] \in ShareReleaseRow
    BY <1>t, <1>0 DEF ShareReleaseRow, SharePreviewRow
  <2>2. \E row \in ShareReleaseRow : /\ release' = [release EXCEPT ![v] = row]
                                     /\ release[v].state # "none" => row = release[v]
    BY <1>t, <1>0, <2>1 DEF CommitRelease, InsertRelease, SharingTypeOK
  <2> QED
    BY ZenonT(60), <1>t, <2>2 DEF SharingTypeOK
<1>4. CASE UNCHANGED shareEpoch
  <2> HIDE DEF NoCaller
  <2> QED
    BY <1>t, <1>0, <1>1, <1>2, <1>3, <1>4, CallerGoesOn DEF BindingKept
<1>5. CASE shareEpoch' = shareEpoch + 1
  <2>1. shareEpoch \in Nat
    BY <1>t DEF SharingTypeOK
  <2>2. SharingTypeOK'
    BY <1>t, <1>1, <1>2, <1>3, <1>5, <2>1 DEF SharingTypeOK
  <2>3. ASSUME NEW b \in ShareCallerRow \cup ShareReaderRow, BindingKept(b)
        PROVE  BindingKept(b)' /\ (b.at # "idle" => b.bound # shareEpoch')
    BY <1>5, <2>1, <2>3 DEF BindingKept, ShareCallerRow, ShareReaderRow
  <2>4. caller'[c].at = "idle" /\ \A d \in ShareCaller : d # c => caller'[d] = caller[d]
    BY <1>t, <1>1, <1>2 DEF SharingTypeOK
  <2>5. \A d \in ShareCaller : BindingKept(caller[d])' /\ CallerStands(d)'
    BY <1>t, <1>2, <2>3, <2>4 DEF ShareInv, CallerStands, SharingTypeOK, BindingKept
  <2>6. \A r \in ShareReader : BindingKept(reader[r])' /\ ReaderStands(r)'
    BY <1>t, <1>2, <2>3 DEF ShareInv, ReaderStands, SharingTypeOK, BindingKept
  <2>7. \A u \in SharePreview : release'[u].state # "none" => preview'[u].at = "ready"
    BY <1>0, <1>2, <1>3 DEF ShareInv
  <2> QED
    BY <2>2, <2>5, <2>6, <2>7 DEF ShareInv
<1> QED
  BY <1>4, <1>5 DEF CommitRelease, OwnerCommit

LEMMA ShareInvariant == SharingSpec => []ShareInv
<1>1. ShareInv /\ [SharingNext]_SharingVars => ShareInv'
  <2> SUFFICES ASSUME ShareInv, [SharingNext]_SharingVars PROVE ShareInv'
    OBVIOUS
  <2>1. CASE UNCHANGED SharingVars
    BY <2>1 DEF SharingVars, ShareInv, SharingTypeOK, BindingKept, CallerStands, ReaderStands, NoReplacement
  <2>2. CASE SharingNext
    BY <2>2, OwnerStep, LaterStep, ReadingStep, PreparingStep, CommitStep DEF SharingNext, OwnerShares, CallerMoves, ReaderStep
  <2> QED
    BY <2>1, <2>2
<1> QED
  BY ShareInit, <1>1, PTL DEF SharingSpec

\* What is delivered still stands, because the binding was asserted once more.
LEMMA DeliveryStands == ShareInv /\ [SharingNext]_SharingVars => DeliversReleased
<1> SUFFICES ASSUME ShareInv, [SharingNext]_SharingVars, NEW r \in ShareReader,
                    reader[r].at = "read", reader'[r].at = "delivered"
             PROVE  LET v == reader[r].preview IN
                    /\ release[v].state = "active" /\ release[v].text = outputText[v]
                    /\ rule.enabled /\ rule.revision = release[v].revision
                    /\ sourceText = preview[v].source
  BY DEF DeliversReleased
<1>t. SharingTypeOK
  BY DEF ShareInv
<1>1. UNCHANGED reader \/ \E q \in ShareReader : ReaderStep(q)
  BY DEF SharingNext, SharingVars, ReaderStep, SaveRule, SaveOther, EndReplacement, BeginReplacement, RevokeRelease, ExpireRelease,
     SaveInput, InsertPreview, StartFinish, CallFilter, SaveAnswer, SaveOutput, Advance, GuardOutput, ValidateOutput, FinishPreview,
     Abandon, JudgeFiltered, ReadRepresentation, CommitRelease, AskPreview, BeginApproval, HoldingNothing
<1>2. ReaderStep(r)
  BY ZenonT(60), <1>t, <1>1 DEF SharingTypeOK, ReaderStep, FindRelease, ValidateRead, ReadShared, DeliverShared, LeaveRead, BeginRead, ReaderMoves
<1>3. DeliverShared(r)
  BY <1>t, <1>2 DEF SharingTypeOK, ShareReaderRow, ReaderStep, FindRelease, ValidateRead, ReadShared, LeaveRead, BeginRead, ReaderMoves, NoReading
<1>4. reader[r].bound = shareEpoch
  BY <1>3 DEF DeliverShared, Reassert, Unmoved
<1> QED
  BY <1>4 DEF ShareInv, ReaderStands

LEMMA ReleaseStands == ShareInv /\ [SharingNext]_SharingVars => ReleasesStand
<1> SUFFICES ASSUME ShareInv, [SharingNext]_SharingVars, NEW v \in SharePreview,
                    release'[v].state = "active", release[v].state # "active"
             PROVE  /\ release[v].state = "none" /\ preview[v].at = "ready"
                    /\ rule.enabled /\ rule.revision = release'[v].revision
                    /\ NoReplacement /\ release'[v].text = outputText[v] /\ sourceText = preview[v].source
  BY DEF ReleasesStand
<1>t. SharingTypeOK
  BY DEF ShareInv
<1>1. UNCHANGED release \/ (\E u \in SharePreview : RevokeRelease(u) \/ ExpireRelease(u)) \/ \E c \in ShareCaller : CommitRelease(c)
  BY DEF SharingNext, SharingVars, SaveRule, SaveOther, EndReplacement, BeginReplacement,
     SaveInput, InsertPreview, StartFinish, CallFilter, SaveAnswer, SaveOutput, Advance, GuardOutput, ValidateOutput, FinishPreview,
     Abandon, JudgeFiltered, ReadRepresentation, AskPreview, BeginApproval, HoldingNothing,
     FindRelease, ValidateRead, ReadShared, DeliverShared, LeaveRead, BeginRead, ReaderMoves
<1>2. PICK c \in ShareCaller : CommitRelease(c)
  BY <1>t, <1>1 DEF RevokeRelease, ExpireRelease, SharingTypeOK, ShareReleaseRow
<1>3. v = caller[c].preview /\ release[v].state = "none"
      /\ release'[v] = [state |-> "active", revision |-> preview[v].revision, text |-> caller[c].text, expired |-> FALSE]
  BY <1>t, <1>2 DEF CommitRelease, InsertRelease, SharingTypeOK
<1> QED
  BY <1>2, <1>3, CommitFinds

\* What is released was finished and is what the owner sees, and what is delivered is still released.
THEOREM SharedAsReleased == SharingSpec => [][DeliversReleased /\ ReleasesStand]_SharingVars
<1>1. ShareInv /\ [SharingNext]_SharingVars => [DeliversReleased /\ ReleasesStand]_SharingVars
  BY DeliveryStands, ReleaseStands
<1> QED
  BY ShareInvariant, <1>1, PTL DEF SharingSpec

\* The runs of the sharing component are those of the union that show it.
LEMMA SharingRun == Spec => SharingSpec
<1>1. Init => SharingInit
  BY DEF Init
<1>2. [Next]_GovernanceVars => [SharingNext]_SharingVars
  BY DEF Next, GovernanceVars
<1> QED
  BY <1>1, <1>2, PTL DEF Spec, SharingSpec

\* What is delivered is released and what is released was finished, of every run.
THEOREM SharingAlwaysStands == Spec => SharingStands
<1>1. [DeliversReleased /\ ReleasesStand]_SharingVars
        => [part = "sharing" => DeliversReleased /\ ReleasesStand]_SharingVars
  OBVIOUS
<1> QED
  BY <1>1, SharingRun, SharedAsReleased, PTL DEF SharingStands

----------------------------------------------------------------------------
(* Knowledge proposals: what a row, its worker and its owner command say   *)
(* together, and what a delegation took as known to the owner.  A space    *)
(* whose baseline is not behind its assignment is one the owner knew of:   *)
(* every write that is not the delegation's own leaves the baseline behind.*)
\* What a proposal's row, the hold on it, its applications and its owner command say together.
ProposalAgrees(row, at, n, commanded) ==
  /\ row.organization => ~commanded /\ (n = 1) = (row.state = "applied")
  /\ ~row.organization => (n = 1) = commanded
  /\ row.state = "applied" => n = 1
  /\ row.state \in {"none", "drafted"} => ~commanded
  /\ (at = "drafting") = (row.state = "drafted")
  /\ at \in {"validated", "command", "applied"} => row.state \in activeStates \cup {"review"}
  /\ at \in {"command", "applied"} => ~row.organization /\ row.approved /\ row.state \in activeStates
  /\ at = "applied" => commanded

\* What a delegation took as known is not ahead of the assignments, and where it is not behind
\* them either, the owner knew.
BaselinesStand ==
  /\ \A s \in Space : assignment[s].revision <= policyEpoch
  /\ \A s \in delegation.scopes :
       delegation.baseline[s] <= assignment[s].revision /\ (baselineMatches(s) => s \in accepted)
  /\ delegation.parent <= assignment["chat"].revision
  /\ "topic" \in delegation.scopes /\ Inherits /\ delegation.baseline["topic"] = assignment["topic"].revision
       => delegation.parent # NoBaseline

KnowledgeInv ==
  /\ KnowledgeTypeOK /\ BaselinesStand
  /\ \A p \in Proposal : ProposalAgrees(proposal[p], applying[p].at, applications[p], p \in ownerCommand)

LEMMA KnowledgeStarts == KnowledgeInit => KnowledgeInv
<1> SUFFICES ASSUME KnowledgeInit PROVE KnowledgeInv
  OBVIOUS
<1>1. MaxPolicyEpoch \in Nat /\ MaxDelegation \in Nat
  BY KnowledgeAssumption
<1>2. NoProposal \in ProposalRow /\ Free \in ApplyingRow /\ Unassigned \in AssignmentRow /\ NoDelegation \in DelegationRow
  BY <1>1 DEF NoProposal, ProposalRow, Free, ApplyingRow, Unassigned, AssignmentRow, NoDelegation, DelegationRow,
     decidableStates, Space, NoRow, NoBaseline
<1>3. KnowledgeTypeOK
  BY <1>1, <1>2 DEF KnowledgeInit, KnowledgeTypeOK
<1>4. BaselinesStand
  BY DEF KnowledgeInit, BaselinesStand, Unassigned, NoDelegation, NoRow, NoBaseline, Space
<1>5. \A p \in Proposal : ProposalAgrees(proposal[p], applying[p].at, applications[p], p \in ownerCommand)
  BY DEF KnowledgeInit, ProposalAgrees, NoProposal, Free
<1> QED
  BY <1>3, <1>4, <1>5 DEF KnowledgeInv

\* A step about one proposal.
LEMMA ProposalMoves ==
  ASSUME KnowledgeInv, NEW p \in Proposal, NEW row \in ProposalRow, NEW hold \in ApplyingRow, NEW n \in 0..1,
         proposal' = [proposal EXCEPT ![p] = row], applying' = [applying EXCEPT ![p] = hold],
         applications' = [applications EXCEPT ![p] = n],
         ownerCommand' \subseteq Proposal, \A q \in Proposal : q # p => (q \in ownerCommand') = (q \in ownerCommand),
         sourceTurn' \in [Proposal -> {"open", "done", "failed", "retired"}],
         assignment' \in [Space -> AssignmentRow], delegation' \in DelegationRow,
         policyEpoch' \in 0..MaxPolicyEpoch, accepted' \subseteq Space,
         BaselinesStand', ProposalAgrees(row, hold.at, n, p \in ownerCommand')
  PROVE  KnowledgeInv'
<1>t. KnowledgeTypeOK
  BY DEF KnowledgeInv
<1>1. KnowledgeTypeOK'
  BY <1>t DEF KnowledgeTypeOK
<1>2. proposal'[p] = row /\ applying'[p] = hold /\ applications'[p] = n
  BY <1>t DEF KnowledgeTypeOK
<1>3. ASSUME NEW q \in Proposal, q # p
      PROVE  ProposalAgrees(proposal[q], applying[q].at, applications[q], q \in ownerCommand)'
  <2>1. proposal'[q] = proposal[q] /\ applying'[q] = applying[q] /\ applications'[q] = applications[q]
    BY <1>t, <1>3 DEF KnowledgeTypeOK
  <2> QED
    BY <2>1, <1>3 DEF KnowledgeInv
<1>4. ProposalAgrees(proposal[p], applying[p].at, applications[p], p \in ownerCommand)'
  BY <1>2
<1> QED
  BY <1>1, <1>3, <1>4 DEF KnowledgeInv

\* A step about one proposal that writes no assignment and moves no baseline.
LEMMA NothingWritten ==
  ASSUME KnowledgeInv, UNCHANGED <<assignment, delegation, policyEpoch, accepted>>
  PROVE  /\ BaselinesStand' /\ assignment' \in [Space -> AssignmentRow] /\ delegation' \in DelegationRow
         /\ policyEpoch' \in 0..MaxPolicyEpoch /\ accepted' \subseteq Space
<1>1. BaselinesStand'
  BY DEF KnowledgeInv, BaselinesStand, baselineMatches, Inherits
<1> QED
  BY <1>1 DEF KnowledgeInv, KnowledgeTypeOK

\* A write of an assignment that nobody's delegation covers: the owner has not taken it as
\* known, and no baseline matches it.
LEMMA AssignmentWritten ==
  ASSUME KnowledgeInv, NEW s \in Space, NEW mode \in {"inherit", "none", "assigned"}, policyEpoch < MaxPolicyEpoch,
         policyEpoch' = policyEpoch + 1, writeAssignment(s, mode), accepted' = accepted \ Reaches(s),
         delegation' = delegation
  PROVE  /\ BaselinesStand' /\ assignment' \in [Space -> AssignmentRow] /\ delegation' \in DelegationRow
         /\ policyEpoch' \in 0..MaxPolicyEpoch /\ accepted' \subseteq Space
<1>t. KnowledgeTypeOK /\ BaselinesStand /\ MaxPolicyEpoch \in Nat
  BY KnowledgeAssumption DEF KnowledgeInv
<1>1. /\ assignment'[s].revision = assignment[s].revision + 1 /\ assignment'[s].mode = mode
      /\ \A t \in Space : t # s => assignment'[t] = assignment[t]
      /\ assignment' = [assignment EXCEPT ![s] = [mode |-> mode, revision |-> assignment[s].revision + 1]]
  BY <1>t DEF writeAssignment, KnowledgeTypeOK
<1>2. policyEpoch' \in 0..MaxPolicyEpoch /\ policyEpoch \in Nat /\ \A t \in Space : assignment[t].revision \in Nat
  BY <1>t DEF KnowledgeTypeOK, AssignmentRow
<1>3. [mode |-> mode, revision |-> assignment[s].revision + 1] \in AssignmentRow
  BY <1>t, <1>2 DEF BaselinesStand, AssignmentRow
<1>4. assignment' \in [Space -> AssignmentRow] /\ delegation' \in DelegationRow /\ accepted' \subseteq Space
  BY <1>t, <1>1, <1>3 DEF KnowledgeTypeOK
<1>5. BaselinesStand'
  <2>0. /\ delegation.baseline \in [Space -> NoBaseline..MaxPolicyEpoch] /\ delegation.scopes \subseteq Space
        /\ delegation.parent \in Int
    BY <1>t DEF KnowledgeTypeOK, DelegationRow, NoBaseline
  <2>1. \A t \in Space : assignment'[t].revision <= policyEpoch'
    BY <1>t, <1>1, <1>2 DEF BaselinesStand
  <2>2. \A t \in Space : assignment[t].revision <= assignment'[t].revision
    BY <1>1, <1>2
  <2>3. ASSUME NEW t \in delegation'.scopes
        PROVE  delegation'.baseline[t] <= assignment'[t].revision /\ (baselineMatches(t)' => t \in accepted')
    <3>1. delegation.baseline[t] <= assignment[t].revision /\ delegation.baseline[t] \in Int /\ t \in Space
      BY <1>t, <2>0, <2>3 DEF BaselinesStand, NoBaseline
    <3>2. CASE t = s
      BY <3>1, <3>2, <1>1, <1>2, <2>0 DEF baselineMatches
    <3>3. CASE t # s /\ t = "topic" /\ s = "chat"
      BY <3>1, <3>3, <1>t, <1>1, <1>2, <2>0 DEF BaselinesStand, baselineMatches, Reaches, affectedTopics, Inherits
    <3>4. CASE t # s /\ t = "chat"
      BY <3>1, <3>4, <1>t, <1>1, <1>2, <2>0, <2>3 DEF BaselinesStand, baselineMatches, Reaches, affectedTopics
    <3> QED
      BY <3>1, <3>2, <3>3, <3>4 DEF Space
  <2>4. delegation'.parent <= assignment'["chat"].revision
    BY <1>t, <1>2, <2>0, <2>2, <1>4 DEF BaselinesStand, Space, AssignmentRow
  <2>5. "topic" \in delegation'.scopes /\ Inherits' /\ delegation'.baseline["topic"] = assignment'["topic"].revision
          => delegation'.parent # NoBaseline
    <3>1. CASE s = "topic"
      BY <3>1, <1>t, <1>1, <1>2, <2>0 DEF BaselinesStand, Inherits, NoBaseline
    <3>2. CASE s = "chat"
      BY <3>2, <1>t, <1>1 DEF BaselinesStand, Inherits, Space
    <3> QED
      BY <3>1, <3>2 DEF Space
  <2> QED
    BY <2>1, <2>3, <2>4, <2>5 DEF BaselinesStand
<1> QED
  BY <1>2, <1>4, <1>5

\* A delegated change finds every space it reaches as the owner knew it.
LEMMA DelegationCovers ==
  ASSUME KnowledgeInv, NEW row, matchDelegation(row)
  PROVE  Reaches(row.space) \subseteq accepted
BY DEF KnowledgeInv, BaselinesStand, matchDelegation

\* And takes its own write as known.
LEMMA AssignmentDelegated ==
  ASSUME KnowledgeInv, NEW row \in ProposalRow, matchDelegation(row), policyEpoch < MaxPolicyEpoch,
         policyEpoch' = policyEpoch + 1, writeAssignment(row.space, "assigned"), accepted' = accepted,
         delegation' = AdvanceBaselines(row.space)
  PROVE  /\ BaselinesStand' /\ assignment' \in [Space -> AssignmentRow] /\ delegation' \in DelegationRow
         /\ policyEpoch' \in 0..MaxPolicyEpoch /\ accepted' \subseteq Space
<1> DEFINE s == row.space
<1>t. KnowledgeTypeOK /\ BaselinesStand /\ MaxPolicyEpoch \in Nat /\ s \in Space
  BY KnowledgeAssumption DEF KnowledgeInv, ProposalRow
<1>1. /\ assignment'[s].revision = assignment[s].revision + 1 /\ assignment'[s].mode = "assigned"
      /\ \A t \in Space : t # s => assignment'[t] = assignment[t]
      /\ assignment' = [assignment EXCEPT ![s] = [mode |-> "assigned", revision |-> assignment[s].revision + 1]]
  BY <1>t DEF writeAssignment, KnowledgeTypeOK
<1>2. policyEpoch' \in 0..MaxPolicyEpoch /\ policyEpoch \in Nat /\ \A t \in Space : assignment[t].revision \in Nat
  BY <1>t DEF KnowledgeTypeOK, AssignmentRow
<1>3. [mode |-> "assigned", revision |-> assignment[s].revision + 1] \in AssignmentRow
  BY <1>t, <1>2 DEF BaselinesStand, AssignmentRow
<1>4. assignment' \in [Space -> AssignmentRow] /\ accepted' \subseteq Space
  BY <1>t, <1>1, <1>3 DEF KnowledgeTypeOK
<1>5. /\ delegation'.scopes = delegation.scopes
      /\ delegation'.baseline = [delegation.baseline EXCEPT ![s] = assignment'[s].revision]
      /\ delegation'.parent = IF s = "topic" THEN NoBaseline
                              ELSE IF delegation.parent # NoBaseline THEN assignment'["chat"].revision ELSE delegation.parent
  BY <1>t DEF AdvanceBaselines, KnowledgeTypeOK, DelegationRow
<1>6. delegation' \in DelegationRow
  <2>1. \A t \in Space : assignment'[t].revision \in NoBaseline..MaxPolicyEpoch
    BY <1>t, <1>4 DEF AssignmentRow, NoBaseline
  <2>2. NoBaseline \in NoBaseline..MaxPolicyEpoch /\ "chat" \in Space
    BY <1>t DEF NoBaseline, Space
  <2>3. delegation'.baseline \in [Space -> NoBaseline..MaxPolicyEpoch]
    BY <1>t, <1>5, <2>1 DEF KnowledgeTypeOK, DelegationRow
  <2>4. delegation'.parent \in NoBaseline..MaxPolicyEpoch
    BY <1>t, <1>5, <2>1, <2>2 DEF KnowledgeTypeOK, DelegationRow
  <2>5. delegation' = [delegation EXCEPT !.baseline = delegation'.baseline, !.parent = delegation'.parent]
    BY <1>t DEF AdvanceBaselines, KnowledgeTypeOK, DelegationRow
  <2> QED
    BY <1>t, <2>3, <2>4, <2>5 DEF KnowledgeTypeOK, DelegationRow
<1>7. BaselinesStand'
  <2>0. /\ delegation.baseline \in [Space -> NoBaseline..MaxPolicyEpoch] /\ delegation.scopes \subseteq Space
        /\ delegation.parent \in Int
    BY <1>t DEF KnowledgeTypeOK, DelegationRow, NoBaseline
  <2>1. \A t \in Space : assignment'[t].revision <= policyEpoch'
    BY <1>t, <1>1, <1>2 DEF BaselinesStand
  <2>2. Reaches(s) \subseteq accepted /\ s \in accepted
    BY DelegationCovers DEF Reaches
  <2>3. ASSUME NEW t \in delegation'.scopes
        PROVE  delegation'.baseline[t] <= assignment'[t].revision /\ (baselineMatches(t)' => t \in accepted')
    <3>1. delegation.baseline[t] <= assignment[t].revision /\ t \in Space /\ t \in delegation.scopes
      BY <1>t, <1>5, <2>0, <2>3 DEF BaselinesStand
    <3>2. CASE t = s
      BY <3>1, <3>2, <1>1, <1>2, <1>5, <2>0, <2>2
    <3>3. CASE t # s /\ t = "topic" /\ s = "chat"
      BY <3>1, <3>3, <1>t, <1>1, <1>5, <2>0, <2>2 DEF BaselinesStand, baselineMatches, Reaches, affectedTopics, Inherits
    <3>4. CASE t # s /\ t = "chat"
      BY <3>1, <3>4, <1>t, <1>1, <1>5, <2>0 DEF BaselinesStand, baselineMatches
    <3> QED
      BY <3>1, <3>2, <3>3, <3>4, <1>t DEF Space
  <2>4. delegation'.parent <= assignment'["chat"].revision
    BY <1>1, <1>2, <1>5, <1>4 DEF Space, AssignmentRow, NoBaseline
  <2>5. "topic" \in delegation'.scopes /\ Inherits' /\ delegation'.baseline["topic"] = assignment'["topic"].revision
          => delegation'.parent # NoBaseline
    <3>1. CASE s = "topic"
      BY <3>1, <1>1 DEF Inherits
    <3>2. CASE s = "chat"
      BY <3>2, <1>t, <1>1, <1>2, <1>5, <2>0 DEF BaselinesStand, Inherits, Space, NoBaseline
    <3> QED
      BY <3>1, <3>2, <1>t DEF Space
  <2> QED
    BY <2>1, <2>3, <2>4, <2>5 DEF BaselinesStand
<1> QED
  BY <1>2, <1>4, <1>6, <1>7

\* A permission saved again: what the owner keeps keeps its baseline, the rest is known anew.
LEMMA DelegationSaved ==
  ASSUME KnowledgeInv, NEW enabled \in BOOLEAN, NEW scopes \in Scopes, NEW resumed \in SUBSET Space,
         saveDelegation(enabled, scopes, resumed)
  PROVE  KnowledgeInv'
<1> DEFINE kept == (delegation.scopes \cap scopes) \ resumed
           base == [s \in Space |-> IF s \in scopes THEN Baseline(s, kept) ELSE NoBaseline]
<1>t. KnowledgeTypeOK /\ BaselinesStand /\ MaxPolicyEpoch \in Nat /\ MaxDelegation \in Nat /\ scopes \subseteq Space
  BY KnowledgeAssumption DEF KnowledgeInv, Space
<1>0. UNCHANGED <<applying, assignment, ownerCommand, sourceTurn, policyEpoch, applications>>
  BY DEF saveDelegation
<1>1. /\ delegation'.scopes = scopes /\ delegation'.baseline = base /\ delegation'.parent = ParentBaseline(scopes, kept)
      /\ delegation' = [enabled |-> enabled, scopes |-> scopes, revision |-> delegation.revision + 1,
                        baseline |-> base, parent |-> ParentBaseline(scopes, kept)]
      /\ delegation.revision < MaxDelegation /\ accepted' = (accepted \cap kept) \cup (scopes \ kept)
  BY DEF saveDelegation
<1>2. /\ delegation.baseline \in [Space -> NoBaseline..MaxPolicyEpoch] /\ delegation.scopes \subseteq Space
      /\ delegation.parent \in NoBaseline..MaxPolicyEpoch /\ delegation.revision \in 0..MaxDelegation
      /\ \A s \in Space : assignment[s].revision \in 0..MaxPolicyEpoch
      /\ NoBaseline \in NoBaseline..MaxPolicyEpoch /\ "chat" \in Space /\ "topic" \in Space
  BY <1>t DEF KnowledgeTypeOK, DelegationRow, AssignmentRow, NoBaseline, Space
<1>3. delegation' \in DelegationRow
  <2>1. base \in [Space -> NoBaseline..MaxPolicyEpoch]
    BY <1>t, <1>2 DEF Baseline, NoBaseline
  <2>2. ParentBaseline(scopes, kept) \in NoBaseline..MaxPolicyEpoch
    BY <1>t, <1>2 DEF ParentBaseline, NoBaseline
  <2>3. delegation.revision + 1 \in 0..MaxDelegation
    BY <1>t, <1>1, <1>2
  <2> HIDE DEF base, kept
  <2> QED
    BY <1>1, <1>t, <2>1, <2>2, <2>3 DEF DelegationRow
<1>4. BaselinesStand'
  <2>1. ASSUME NEW s \in delegation'.scopes
        PROVE  delegation'.baseline[s] <= assignment'[s].revision /\ (baselineMatches(s)' => s \in accepted')
    <3>1. s \in scopes /\ s \in Space /\ delegation'.baseline[s] = Baseline(s, kept)
      BY <1>1, <1>t, <2>1
    <3>2. CASE s \notin kept
      BY <3>1, <3>2, <1>0, <1>1, <1>2 DEF Baseline
    <3>3. CASE s \in kept
      <4>1. s \in delegation.scopes /\ delegation'.baseline[s] = delegation.baseline[s]
        BY <3>1, <3>3 DEF Baseline
      <4>2. delegation.baseline[s] <= assignment[s].revision /\ (baselineMatches(s) => s \in accepted)
        BY <1>t, <4>1 DEF BaselinesStand
      <4>3. baselineMatches(s)' => baselineMatches(s)
        BY <1>0, <1>1, <1>t, <3>1, <3>3, <4>1 DEF baselineMatches, ParentBaseline, BaselinesStand, Inherits
      <4> QED
        BY <4>1, <4>2, <4>3, <1>0, <1>1, <3>3
    <3> QED
      BY <3>2, <3>3
  <2>2. delegation'.parent <= assignment'["chat"].revision
    BY <1>0, <1>1, <1>2, <1>t DEF ParentBaseline, BaselinesStand, NoBaseline
  <2>3. "topic" \in delegation'.scopes /\ Inherits' => delegation'.parent # NoBaseline
    BY <1>0, <1>1, <1>2 DEF ParentBaseline, Inherits, NoBaseline
  <2>4. \A s \in Space : assignment'[s].revision <= policyEpoch'
    BY <1>0, <1>t DEF BaselinesStand
  <2> QED
    BY <2>1, <2>2, <2>3, <2>4 DEF BaselinesStand
<1>5. ASSUME NEW p \in Proposal
      PROVE  /\ proposal'[p] \in ProposalRow
             /\ ProposalAgrees(proposal'[p], applying[p].at, applications[p], p \in ownerCommand)
  <2>1. /\ proposal[p] \in ProposalRow
        /\ ProposalAgrees(proposal[p], applying[p].at, applications[p], p \in ownerCommand)
    BY <1>t DEF KnowledgeInv, KnowledgeTypeOK
  <2>2. proposal'[p] = [proposal[p] EXCEPT !.origin = IF @ = "turn" THEN @ ELSE "learned before",
          !.state = IF @ \in activeStates /\ ~proposal[p].approved /\ proposal[p].required # NoRow
                    THEN "review" ELSE @]
    BY DEF saveDelegation
  <2>3. /\ proposal'[p].organization = proposal[p].organization /\ proposal'[p].approved = proposal[p].approved
        /\ \/ proposal'[p].state = proposal[p].state
           \/ proposal'[p].state = "review" /\ proposal[p].state \in activeStates /\ ~proposal[p].approved
        /\ proposal'[p] \in ProposalRow
    BY <2>1, <2>2 DEF ProposalRow, decidableStates
  <2> QED
    BY <2>1, <2>3 DEF ProposalAgrees, activeStates
<1>6. KnowledgeTypeOK'
  <2>1. proposal' \in [Proposal -> ProposalRow]
    <3>1. proposal' = [p \in Proposal |-> proposal'[p]]
      BY DEF saveDelegation
    <3> QED
      BY <1>5, <3>1
  <2> QED
    BY <1>t, <1>0, <1>1, <1>3, <2>1 DEF KnowledgeTypeOK
<1> QED
  BY <1>0, <1>4, <1>5, <1>6 DEF KnowledgeInv

LEMMA DelegationEnds == KnowledgeInv /\ DelegationExpires => KnowledgeInv'
<1> SUFFICES ASSUME KnowledgeInv, DelegationExpires PROVE KnowledgeInv'
  OBVIOUS
<1>1. /\ delegation' = [delegation EXCEPT !.enabled = FALSE] /\ delegation \in DelegationRow
      /\ UNCHANGED <<proposal, applying, assignment, ownerCommand, sourceTurn, policyEpoch, applications, accepted>>
  BY DEF KnowledgeInv, KnowledgeTypeOK, DelegationExpires
<1>2. /\ delegation' \in DelegationRow /\ delegation'.scopes = delegation.scopes
      /\ delegation'.baseline = delegation.baseline /\ delegation'.parent = delegation.parent
  BY <1>1 DEF DelegationRow
<1>3. BaselinesStand'
  BY <1>1, <1>2 DEF KnowledgeInv, BaselinesStand, baselineMatches, Inherits
<1> QED
  BY <1>1, <1>2, <1>3 DEF KnowledgeInv, KnowledgeTypeOK

----------------------------------------------------------------------------

\* What a step about p finds of it.
LEMMA ProposalFound ==
  ASSUME KnowledgeInv, NEW p \in Proposal
  PROVE  /\ proposal[p] \in ProposalRow /\ applying[p] \in ApplyingRow /\ applications[p] \in 0..1
         /\ ProposalAgrees(proposal[p], applying[p].at, applications[p], p \in ownerCommand)
         /\ policyEpoch \in 0..MaxPolicyEpoch /\ delegation.revision \in 0..MaxDelegation
         /\ \A s \in Space : assignment[s] \in AssignmentRow
BY DEF KnowledgeInv, KnowledgeTypeOK, DelegationRow

\* What it leaves alone.
LEMMA ProposalKept ==
  ASSUME KnowledgeInv, NEW p \in Proposal
  PROVE  /\ proposal = [proposal EXCEPT ![p] = proposal[p]] /\ applying = [applying EXCEPT ![p] = applying[p]]
         /\ applications = [applications EXCEPT ![p] = applications[p]]
         /\ sourceTurn \in [Proposal -> {"open", "done", "failed", "retired"}] /\ ownerCommand \subseteq Proposal
BY DEF KnowledgeInv, KnowledgeTypeOK

\* A step that only gives a proposal a state, or its worker a place.
LEMMA OnlyState ==
  ASSUME KnowledgeInv, NEW p \in Proposal, NEW hold \in ApplyingRow, NEW row \in ProposalRow,
         proposal' = [proposal EXCEPT ![p] = row], applying' = [applying EXCEPT ![p] = hold],
         UNCHANGED <<assignment, delegation, ownerCommand, sourceTurn, policyEpoch, applications, accepted>>,
         ProposalAgrees(row, hold.at, applications[p], p \in ownerCommand)
  PROVE  KnowledgeInv'
<1>1. /\ applications' = [applications EXCEPT ![p] = applications[p]] /\ applications[p] \in 0..1
      /\ sourceTurn' \in [Proposal -> {"open", "done", "failed", "retired"}]
      /\ ownerCommand' \subseteq Proposal
  BY ProposalFound, ProposalKept
<1> QED
  BY <1>1, NothingWritten, ProposalMoves

LEMMA KnowledgeProposed ==
  ASSUME KnowledgeInv, NEW p \in Proposal, NEW organization \in BOOLEAN, NEW origin \in {"turn", "learning"}, NEW s \in Space,
         Propose(p, organization, origin, s)
  PROVE  KnowledgeInv'
<1> DEFINE draft == Draft(organization, origin, s)
<1>1. PICK row \in {draft, [draft EXCEPT !.required = delegation.revision]} : proposal' = [proposal EXCEPT ![p] = row]
  BY DEF Propose
<1>2. affectedTopics(s) \subseteq {"topic"} /\ assignment[s].revision \in 0..MaxPolicyEpoch /\ 0 \in 0..MaxPolicyEpoch
      /\ 0 \in 0..MaxDelegation /\ delegation.revision \in 0..MaxDelegation
  BY ProposalFound, KnowledgeAssumption DEF affectedTopics, AssignmentRow
<1>3. row \in ProposalRow /\ row.state = "drafted" /\ row.organization = organization
  BY ZenonT(60), <1>2 DEF Draft, NoProposal, ProposalRow, NoRow
<1>4. [at |-> "drafting", under |-> policyEpoch] \in ApplyingRow
  BY ProposalFound DEF ApplyingRow
<1>5. proposal[p].state = "none"
  BY DEF Propose
<1>6. p \notin ownerCommand /\ applications[p] # 1
  BY <1>5, ProposalFound DEF ProposalAgrees
<1>7. ProposalAgrees(row, "drafting", applications[p], p \in ownerCommand)
  BY <1>3, <1>6 DEF ProposalAgrees
<1> HIDE DEF draft
<1> QED
  BY <1>1, <1>3, <1>4, <1>7, OnlyState DEF Propose

LEMMA StateTypes ==
  ASSUME NEW row \in ProposalRow, NEW state \in {"none", "drafted", "applied", "undone", "cancelled"} \cup decidableStates
  PROVE  /\ [row EXCEPT !.state = state] \in ProposalRow /\ [row EXCEPT !.state = state].state = state
         /\ [row EXCEPT !.state = state].organization = row.organization
         /\ [row EXCEPT !.state = state].approved = row.approved
BY DEF ProposalRow

\* The worker lets go of a proposal with a state that agrees with what was done.
LEMMA ProposalSettled ==
  ASSUME KnowledgeInv, NEW p \in Proposal, NEW state, Settle(p, state),
         state \in {"undone", "cancelled", "applied"} \cup decidableStates,
         UNCHANGED <<assignment, delegation, ownerCommand, sourceTurn, policyEpoch, applications, accepted>>,
         (state = "applied") = (applications[p] = 1) \/ ~proposal[p].organization,
         state = "applied" => applications[p] = 1
  PROVE  KnowledgeInv'
<1>1. Free \in ApplyingRow /\ Free.at = "free"
  BY KnowledgeAssumption DEF Free, ApplyingRow
<1>2. /\ outcome(p, state) \in ProposalRow /\ outcome(p, state).state = state
      /\ outcome(p, state).organization = proposal[p].organization
  <2>1. proposal[p] \in ProposalRow
    BY ProposalFound
  <2> QED
    BY <2>1, StateTypes DEF outcome
<1>3. ProposalAgrees(outcome(p, state), Free.at, applications[p], p \in ownerCommand)
  BY <1>1, <1>2, ProposalFound DEF ProposalAgrees, decidableStates
<1> HIDE DEF Free
<1> QED
  BY <1>1, <1>2, <1>3, OnlyState DEF Settle

LEMMA KnowledgePersisted ==
  ASSUME KnowledgeInv, NEW p \in Proposal, Persist(p) \/ Stop(p)
  PROVE  KnowledgeInv'
<1>f. Free \in ApplyingRow /\ Free.at = "free" /\ NoProposal \in ProposalRow
  BY KnowledgeAssumption DEF Free, ApplyingRow, NoProposal, ProposalRow, NoRow, Space
<1>0. /\ applying' = [applying EXCEPT ![p] = Free] /\ applying[p].at # "free"
      /\ UNCHANGED <<assignment, delegation, ownerCommand, sourceTurn, policyEpoch, applications, accepted>>
  BY DEF Persist, Stop
<1>1. CASE proposal' = [proposal EXCEPT ![p] = NoProposal] /\ proposal[p].state = "drafted"
  <2>1. ProposalAgrees(NoProposal, Free.at, applications[p], p \in ownerCommand)
    BY <1>f, <1>1, ProposalFound DEF ProposalAgrees, NoProposal
  <2> HIDE DEF Free, NoProposal
  <2> QED
    BY <1>f, <1>0, <1>1, <2>1, OnlyState
<1>2. ASSUME NEW state \in {"review", "queued"}, proposal' = [proposal EXCEPT ![p] = [proposal[p] EXCEPT !.state = state]],
             proposal[p].state = "drafted"
      PROVE  KnowledgeInv'
  <2>1. Settle(p, state)
    BY <1>0, <1>2 DEF Settle, outcome
  <2> QED
    BY <1>0, <1>2, <2>1, ProposalSettled, ProposalFound DEF decidableStates, ProposalAgrees
<1>3. CASE proposal' = [proposal EXCEPT ![p] = proposal[p]] /\ proposal[p].state # "drafted"
  <2>1. ProposalAgrees(proposal[p], Free.at, applications[p], p \in ownerCommand)
    BY <1>f, <1>3, ProposalFound DEF ProposalAgrees
  <2>2. proposal[p] \in ProposalRow /\ proposal' = [proposal EXCEPT ![p] = proposal[p]]
    BY <1>3, ProposalFound
  <2> HIDE DEF Free
  <2> QED
    BY <1>f, <1>0, <2>1, <2>2, OnlyState
<1>4. Persist(p) => proposal[p].state = "drafted"
  BY ProposalFound DEF Persist, ProposalAgrees
<1> QED
  BY <1>1, <1>2, <1>3, <1>4 DEF Persist, Stop

LEMMA KnowledgeTaken ==
  ASSUME KnowledgeInv, NEW p \in Proposal, Take(p)
  PROVE  KnowledgeInv'
<1>0. /\ applying[p].at = "free" /\ proposal[p].state \in activeStates
      /\ UNCHANGED <<assignment, delegation, ownerCommand, sourceTurn, policyEpoch, applications, accepted>>
  BY DEF Take
<1>1. CASE p \in ownerCommand /\ Settle(p, "applied")
  BY <1>0, <1>1, ProposalSettled, ProposalFound DEF ProposalAgrees
<1>2. ASSUME sourceTurn[p] # "done", Settle(p, Rejection(p)) PROVE KnowledgeInv'
  <2>1. sourceTurn[p] \in {"open", "done", "failed", "retired"}
    BY ProposalKept
  <2>2. Rejection(p) \in {"waiting", "cancelled", "stale"}
    BY <1>2, <2>1 DEF Rejection
  <2> QED
    BY <1>0, <1>2, <2>2, ProposalSettled, ProposalFound DEF ProposalAgrees, decidableStates, activeStates
<1>3. CASE applying' = [applying EXCEPT ![p] = [at |-> "validated", under |-> policyEpoch]] /\ UNCHANGED proposal
  <2>1. [at |-> "validated", under |-> policyEpoch] \in ApplyingRow
    BY ProposalFound DEF ApplyingRow
  <2>2. ProposalAgrees(proposal[p], "validated", applications[p], p \in ownerCommand)
    BY <1>0, ProposalFound DEF ProposalAgrees, activeStates
  <2>3. proposal[p] \in ProposalRow /\ proposal' = [proposal EXCEPT ![p] = proposal[p]]
    BY <1>3, ProposalFound, ProposalKept
  <2> DEFINE hold == [at |-> "validated", under |-> policyEpoch]
  <2>4. hold \in ApplyingRow /\ applying' = [applying EXCEPT ![p] = hold]
        /\ ProposalAgrees(proposal[p], hold.at, applications[p], p \in ownerCommand)
    BY <1>3, <2>1, <2>2
  <2> HIDE DEF hold
  <2> QED
    BY <1>0, <2>3, <2>4, OnlyState
<1> QED
  BY <1>1, <1>2, <1>3 DEF Take

LEMMA KnowledgeEnded ==
  ASSUME KnowledgeInv, NEW p \in Proposal, NEW how \in {"done", "failed", "retired"}, TurnEnds(p, how)
  PROVE  KnowledgeInv'
<1>1. /\ sourceTurn' \in [Proposal -> {"open", "done", "failed", "retired"}]
      /\ UNCHANGED <<proposal, applying, assignment, delegation, ownerCommand, policyEpoch, applications, accepted>>
  BY ProposalKept DEF TurnEnds
<1> QED
  BY <1>1, NothingWritten DEF KnowledgeInv, KnowledgeTypeOK

LEMMA KnowledgeDecided ==
  ASSUME KnowledgeInv, NEW p \in Proposal, NEW approve \in BOOLEAN, decide(p, approve)
  PROVE  KnowledgeInv'
<1> DEFINE row == [proposal[p] EXCEPT !.approved = @ \/ approve, !.state = IF approve THEN "queued" ELSE "cancelled"]
<1>0. proposal' = [proposal EXCEPT ![p] = row]
  BY Zenon DEF decide
<1>1. /\ applying[p].at = "free" /\ proposal[p].state \in decidableStates /\ UNCHANGED applying
      /\ UNCHANGED <<assignment, delegation, ownerCommand, sourceTurn, policyEpoch, applications, accepted>>
  BY DEF decide
<1>2. row \in ProposalRow /\ row.state \in {"queued", "cancelled"} /\ row.organization = proposal[p].organization
  <2>1. proposal[p] \in ProposalRow /\ "queued" \in decidableStates
    BY ProposalFound DEF decidableStates
  <2> QED
    BY <2>1 DEF ProposalRow
<1>3. ProposalAgrees(row, applying[p].at, applications[p], p \in ownerCommand)
  BY <1>1, <1>2, ProposalFound DEF ProposalAgrees, decidableStates
<1>4. applying[p] \in ApplyingRow /\ applying' = [applying EXCEPT ![p] = applying[p]]
      /\ proposal' = [proposal EXCEPT ![p] = row]
      /\ UNCHANGED <<assignment, delegation, ownerCommand, sourceTurn, policyEpoch, applications, accepted>>
  BY <1>0, <1>1, ProposalFound, ProposalKept
<1> HIDE DEF row
<1> QED
  BY <1>2, <1>3, <1>4, OnlyState

\* A change is committed for an organization proposal that was not applied before.
LEMMA KnowledgeOrganized ==
  ASSUME KnowledgeInv, NEW p \in Proposal, NEW delegated \in BOOLEAN, applyOrganization(p, delegated),
         proposal[p].organization, proposal[p].state \in activeStates,
         delegated => matchDelegation(proposal[p]), UNCHANGED <<ownerCommand, sourceTurn>>
  PROVE  KnowledgeInv'
<1> DEFINE s == proposal[p].space
<1>f. /\ Free \in ApplyingRow /\ Free.at = "free" /\ proposal[p] \in ProposalRow /\ s \in Space
      /\ applications[p] = 0 /\ p \notin ownerCommand
      /\ sourceTurn' \in [Proposal -> {"open", "done", "failed", "retired"}] /\ ownerCommand' \subseteq Proposal
  <2>1. Free \in ApplyingRow /\ Free.at = "free"
    BY KnowledgeAssumption DEF Free, ApplyingRow
  <2>2. proposal[p] \in ProposalRow /\ applications[p] \in 0..1 /\ applications[p] # 1 /\ p \notin ownerCommand
    BY ProposalFound DEF ProposalAgrees, activeStates
  <2>3. proposal[p].space \in Space
    BY <2>2 DEF ProposalRow
  <2> QED
    BY <2>1, <2>2, <2>3, ProposalKept
<1>1. CASE /\ Settle(p, "applied") /\ applications' = [applications EXCEPT ![p] = @ + 1]
           /\ UNCHANGED <<assignment, delegation, policyEpoch, accepted>>
  <2>1. /\ outcome(p, "applied") \in ProposalRow /\ outcome(p, "applied").state = "applied"
        /\ outcome(p, "applied").organization = proposal[p].organization
    <3>1. proposal[p] \in ProposalRow
      BY <1>f
    <3> QED
      BY <3>1, StateTypes DEF outcome
  <2>2. ProposalAgrees(outcome(p, "applied"), Free.at, 1, p \in ownerCommand')
    BY <1>f, <2>1 DEF ProposalAgrees
  <2>3. applications' = [applications EXCEPT ![p] = 1] /\ 1 \in 0..1
    BY <1>1, <1>f
  <2>4. /\ BaselinesStand' /\ assignment' \in [Space -> AssignmentRow] /\ delegation' \in DelegationRow
        /\ policyEpoch' \in 0..MaxPolicyEpoch /\ accepted' \subseteq Space
    BY <1>1, NothingWritten
  <2>5. proposal' = [proposal EXCEPT ![p] = outcome(p, "applied")] /\ applying' = [applying EXCEPT ![p] = Free]
        /\ \A q \in Proposal : q # p => (q \in ownerCommand') = (q \in ownerCommand)
    BY <1>1 DEF Settle
  <2> HIDE DEF Free
  <2> QED
    BY <1>f, <2>1, <2>2, <2>3, <2>4, <2>5, ProposalMoves
<1>2. CASE assignment[s].mode # "assigned"
  <2> DEFINE row == [outcome(p, "applied") EXCEPT !.before = assignment[s].mode, !.after = assignment'[s].revision]
  <2>1. /\ policyEpoch < MaxPolicyEpoch /\ policyEpoch' = policyEpoch + 1 /\ writeAssignment(s, "assigned")
        /\ delegation' = (IF delegated THEN AdvanceBaselines(s) ELSE delegation)
        /\ accepted' = (IF delegated THEN accepted ELSE accepted \ Reaches(s))
        /\ applications' = [applications EXCEPT ![p] = 1] /\ applying' = [applying EXCEPT ![p] = Free]
        /\ proposal' = [proposal EXCEPT ![p] = row]
    BY <1>2, <1>f DEF applyOrganization
  <2>2. /\ BaselinesStand' /\ assignment' \in [Space -> AssignmentRow] /\ delegation' \in DelegationRow
        /\ policyEpoch' \in 0..MaxPolicyEpoch /\ accepted' \subseteq Space
    <3>1. CASE delegated
      BY <1>f, <2>1, <3>1, AssignmentDelegated
    <3>2. CASE ~delegated
      BY <1>f, <2>1, <3>2, AssignmentWritten
    <3> QED
      BY <3>1, <3>2
  <2>3. row \in ProposalRow /\ row.state = "applied" /\ row.organization
    <3>1. outcome(p, "applied") \in ProposalRow /\ outcome(p, "applied").state = "applied"
          /\ outcome(p, "applied").organization = proposal[p].organization
      <4>1. proposal[p] \in ProposalRow
        BY <1>f
      <4> QED
        BY <4>1, StateTypes DEF outcome
    <3>2. assignment'[s] \in AssignmentRow /\ assignment[s] \in AssignmentRow
      BY <1>f, <2>2, ProposalFound
    <3> QED
      BY <3>1, <3>2 DEF ProposalRow, AssignmentRow
  <2>4. ProposalAgrees(row, Free.at, 1, p \in ownerCommand')
    BY <1>f, <2>3 DEF ProposalAgrees
  <2>5. 1 \in 0..1 /\ \A q \in Proposal : q # p => (q \in ownerCommand') = (q \in ownerCommand)
    OBVIOUS
  <2> HIDE DEF row, Free
  <2> QED
    BY <1>f, <2>1, <2>2, <2>3, <2>4, <2>5, ProposalMoves
<1> QED
  BY <1>1, <1>2 DEF applyOrganization

LEMMA KnowledgeApplied ==
  ASSUME KnowledgeInv, NEW p \in Proposal, Apply(p)
  PROVE  KnowledgeInv'
<1>0. applying[p].at = "validated" /\ UNCHANGED <<ownerCommand, sourceTurn>>
  BY DEF Apply
<1>f. /\ proposal[p] \in ProposalRow /\ applying[p] \in ApplyingRow
      /\ proposal[p].state \in activeStates \cup {"review"} /\ (proposal[p].organization => applications[p] # 1)
  BY <1>0, ProposalFound DEF ProposalAgrees, activeStates
<1>1. ASSUME NEW state \in activeStates \cup {"review", "stale"}, Settle(p, state),
             UNCHANGED <<assignment, delegation, policyEpoch, applications, accepted>>
      PROVE  KnowledgeInv'
  BY <1>0, <1>1, <1>f, ProposalSettled DEF decidableStates, activeStates
<1>2. ASSUME NEW delegated \in BOOLEAN, applyOrganization(p, delegated), proposal[p].organization,
             proposal[p].state \in activeStates, delegated => matchDelegation(proposal[p])
      PROVE  KnowledgeInv'
  BY <1>0, <1>2, KnowledgeOrganized
<1>3. ASSUME ~proposal[p].organization, proposal[p].approved, proposal[p].state \in activeStates,
             applying' = [applying EXCEPT ![p].at = "command"],
             UNCHANGED <<proposal, assignment, delegation, policyEpoch, applications, accepted>>
      PROVE  KnowledgeInv'
  <2>1. [applying[p] EXCEPT !.at = "command"] \in ApplyingRow /\ [applying[p] EXCEPT !.at = "command"].at = "command"
    BY <1>f DEF ApplyingRow
  <2>2. ProposalAgrees(proposal[p], "command", applications[p], p \in ownerCommand)
    BY <1>0, <1>3, ProposalFound DEF ProposalAgrees, activeStates
  <2>3. /\ applying' = [applying EXCEPT ![p] = [applying[p] EXCEPT !.at = "command"]]
        /\ proposal' = [proposal EXCEPT ![p] = proposal[p]]
    BY <1>3, ProposalKept
  <2> DEFINE hold == [applying[p] EXCEPT !.at = "command"]
  <2>4. hold \in ApplyingRow /\ applying' = [applying EXCEPT ![p] = hold]
        /\ ProposalAgrees(proposal[p], hold.at, applications[p], p \in ownerCommand)
    BY <2>1, <2>2, <2>3
  <2> HIDE DEF hold
  <2> QED
    BY <1>0, <1>3, <1>f, <2>3, <2>4, OnlyState
<1> QED
  BY <1>0, <1>f, <1>1, <1>2, <1>3 DEF Apply, activeStates

LEMMA KnowledgeCommanded ==
  ASSUME KnowledgeInv, NEW p \in Proposal, applyReviewed(p)
  PROVE  KnowledgeInv'
<1> DEFINE hold == [applying[p] EXCEPT !.at = "applied"]
<1>0. applying[p].at = "command" /\ UNCHANGED <<delegation, sourceTurn>>
  BY DEF applyReviewed
<1>f. /\ proposal[p] \in ProposalRow /\ proposal[p].space \in Space /\ hold \in ApplyingRow /\ hold.at = "applied"
      /\ ~proposal[p].organization /\ proposal[p].approved /\ proposal[p].state \in activeStates
      /\ sourceTurn' \in [Proposal -> {"open", "done", "failed", "retired"}]
  <2>1. /\ proposal[p] \in ProposalRow /\ applying[p] \in ApplyingRow
        /\ ~proposal[p].organization /\ proposal[p].approved /\ proposal[p].state \in activeStates
    BY <1>0, ProposalFound DEF ProposalAgrees
  <2>2. proposal[p].space \in Space /\ hold \in ApplyingRow /\ hold.at = "applied"
    BY <2>1 DEF ProposalRow, ApplyingRow
  <2> QED
    BY <1>0, <2>1, <2>2, ProposalKept
<1>1. CASE p \in ownerCommand
  <2>1. /\ applying' = [applying EXCEPT ![p] = hold]
        /\ UNCHANGED <<proposal, assignment, ownerCommand, policyEpoch, applications, accepted>>
    BY <1>1 DEF applyReviewed
  <2>2. ProposalAgrees(proposal[p], hold.at, applications[p], p \in ownerCommand)
    BY <1>1, <1>f, ProposalFound DEF ProposalAgrees, activeStates
  <2> HIDE DEF hold
  <2> QED
    BY <1>0, <1>f, <2>1, <2>2, ProposalKept, OnlyState
<1>2. ASSUME NEW state \in {"waiting", "stale"}, Settle(p, state),
             UNCHANGED <<assignment, ownerCommand, policyEpoch, applications, accepted>>
      PROVE  KnowledgeInv'
  BY <1>0, <1>2, <1>f, ProposalSettled DEF decidableStates
<1>3. CASE /\ policyEpoch < MaxPolicyEpoch /\ policyEpoch' = policyEpoch + 1
           /\ writeAssignment(proposal[p].space, "assigned") /\ accepted' = accepted \ Reaches(proposal[p].space)
           /\ ownerCommand' = ownerCommand \cup {p} /\ applications' = [applications EXCEPT ![p] = @ + 1]
           /\ applying' = [applying EXCEPT ![p] = hold] /\ UNCHANGED proposal /\ p \notin ownerCommand
  <2>1. applications[p] = 0
    BY <1>3, <1>f, ProposalFound DEF ProposalAgrees
  <2>2. ProposalAgrees(proposal[p], hold.at, 1, p \in ownerCommand')
    BY <1>3, <1>f DEF ProposalAgrees, activeStates
  <2>3. applications' = [applications EXCEPT ![p] = 1] /\ ownerCommand' \subseteq Proposal
        /\ (\A q \in Proposal : q # p => (q \in ownerCommand') = (q \in ownerCommand))
        /\ proposal' = [proposal EXCEPT ![p] = proposal[p]] /\ 1 \in 0..1
    BY <1>3, <2>1, ProposalKept
  <2>4. /\ BaselinesStand' /\ assignment' \in [Space -> AssignmentRow] /\ delegation' \in DelegationRow
        /\ policyEpoch' \in 0..MaxPolicyEpoch /\ accepted' \subseteq Space
    BY <1>0, <1>3, <1>f, AssignmentWritten
  <2>5. applying' = [applying EXCEPT ![p] = hold]
    BY <1>3
  <2> HIDE DEF hold
  <2> QED
    BY <1>f, <2>2, <2>3, <2>4, <2>5, ProposalMoves
<1> QED
  BY <1>1, <1>2, <1>3 DEF applyReviewed

LEMMA KnowledgeRecorded ==
  ASSUME KnowledgeInv, NEW p \in Proposal, RecordOutcome(p)
  PROVE  KnowledgeInv'
<1>1. ~proposal[p].organization /\ applications[p] = 1
  BY ProposalFound DEF RecordOutcome, ProposalAgrees
<1> QED
  BY <1>1, ProposalSettled DEF RecordOutcome

LEMMA KnowledgeUndone ==
  ASSUME KnowledgeInv, NEW p \in Proposal, undo(p)
  PROVE  KnowledgeInv'
<1> DEFINE row == [proposal[p] EXCEPT !.state = "undone"]
<1>0. /\ applying[p].at = "free" /\ proposal[p].organization /\ proposal[p].state = "applied"
      /\ proposal' = [proposal EXCEPT ![p] = row] /\ applications' = [applications EXCEPT ![p] = @ - 1]
      /\ UNCHANGED <<applying, delegation, ownerCommand, sourceTurn>>
  BY DEF undo
<1>1. row \in ProposalRow /\ row.state = "undone" /\ row.organization /\ proposal[p].space \in Space
      /\ proposal[p].before \in {"inherit", "none", "assigned"}
  <2>1. proposal[p] \in ProposalRow
    BY ProposalFound
  <2> QED
    BY <1>0, <2>1 DEF ProposalRow
<1>2. applications[p] = 1 /\ applications' = [applications EXCEPT ![p] = 0] /\ applying[p] \in ApplyingRow
      /\ applying' = [applying EXCEPT ![p] = applying[p]]
      /\ sourceTurn' \in [Proposal -> {"open", "done", "failed", "retired"}] /\ ownerCommand' \subseteq Proposal
  <2>1. applications[p] = 1 /\ applying[p] \in ApplyingRow
    BY <1>0, ProposalFound DEF ProposalAgrees
  <2> QED
    BY <1>0, <2>1, ProposalKept
<1>3. ProposalAgrees(row, applying[p].at, 0, p \in ownerCommand')
  BY <1>0, <1>1, ProposalFound DEF ProposalAgrees
<1>4. /\ BaselinesStand' /\ assignment' \in [Space -> AssignmentRow] /\ delegation' \in DelegationRow
      /\ policyEpoch' \in 0..MaxPolicyEpoch /\ accepted' \subseteq Space
  <2>1. CASE UNCHANGED <<assignment, policyEpoch, accepted>>
    BY <1>0, <2>1, NothingWritten
  <2>2. CASE /\ policyEpoch < MaxPolicyEpoch /\ policyEpoch' = policyEpoch + 1
             /\ writeAssignment(proposal[p].space, proposal[p].before)
             /\ accepted' = accepted \ Reaches(proposal[p].space)
    BY <1>0, <1>1, <2>2, AssignmentWritten
  <2> QED
    BY <2>1, <2>2 DEF undo
<1>5. 0 \in 0..1 /\ \A q \in Proposal : q # p => (q \in ownerCommand') = (q \in ownerCommand)
  BY <1>0
<1>6. proposal' = [proposal EXCEPT ![p] = row]
  BY <1>0
<1> HIDE DEF row
<1> QED
  BY <1>1, <1>2, <1>3, <1>4, <1>5, <1>6, ProposalMoves

LEMMA KnowledgeAssigned ==
  ASSUME KnowledgeInv, NEW s \in Space, NEW mode \in {"inherit", "none", "assigned"}, Assign(s, mode)
  PROVE  KnowledgeInv'
<1>1. /\ BaselinesStand' /\ assignment' \in [Space -> AssignmentRow] /\ delegation' \in DelegationRow
      /\ policyEpoch' \in 0..MaxPolicyEpoch /\ accepted' \subseteq Space
  BY AssignmentWritten DEF Assign
<1>2. UNCHANGED <<proposal, applying, delegation, ownerCommand, sourceTurn, applications>>
  BY DEF Assign
<1> QED
  BY <1>1, <1>2 DEF KnowledgeInv, KnowledgeTypeOK

LEMMA KnowledgeInvariant == KnowledgeSpec => []KnowledgeInv
<1>1. KnowledgeInv /\ [KnowledgeNext]_KnowledgeVars => KnowledgeInv'
  <2> SUFFICES ASSUME KnowledgeInv, [KnowledgeNext]_KnowledgeVars PROVE KnowledgeInv'
    OBVIOUS
  <2>1. CASE UNCHANGED KnowledgeVars
    BY <2>1, NothingWritten DEF KnowledgeVars, KnowledgeInv, KnowledgeTypeOK
  <2>2. CASE KnowledgeNext
    BY <2>2, DelegationEnds, KnowledgeAssigned, DelegationSaved, KnowledgePersisted, KnowledgeTaken, KnowledgeApplied,
       KnowledgeCommanded, KnowledgeRecorded, KnowledgeUndone, KnowledgeProposed, KnowledgeEnded, KnowledgeDecided DEF KnowledgeNext
  <2> QED
    BY <2>1, <2>2
<1> QED
  BY KnowledgeStarts, <1>1, PTL DEF KnowledgeSpec

\* A proposal is applied once, and says so.
LEMMA AppliedAgrees == KnowledgeInv => AppliedOnce
BY DEF KnowledgeInv, AppliedOnce, ProposalAgrees, KnowledgeTypeOK

\* Nothing is counted as applied but by the two commits of a change.
LEMMA CountedByACommit ==
  ASSUME KnowledgeInv, [KnowledgeNext]_KnowledgeVars, NEW p \in Proposal, applications'[p] > applications[p]
  PROVE  Apply(p) \/ applyReviewed(p)
<1>t. applications \in [Proposal -> 0..1]
  BY DEF KnowledgeInv, KnowledgeTypeOK
<1>1. UNCHANGED applications \/ \E q \in Proposal : Apply(q) \/ applyReviewed(q) \/ undo(q)
  BY DEF KnowledgeNext, KnowledgeVars, DelegationExpires, Assign, saveDelegation, Persist, Take, RecordOutcome, Stop, Propose,
     TurnEnds, decide
<1>2. PICK q \in Proposal : Apply(q) \/ applyReviewed(q) \/ undo(q)
  BY <1>1, <1>t
<1>3. \E n \in Nat : applications' = [applications EXCEPT ![q] = n]
  BY <1>2, <1>t DEF Apply, applyReviewed, undo, applyOrganization
<1>4. q = p
  BY <1>3, <1>t
<1> QED
  BY <1>2, <1>4, <1>t DEF undo

LEMMA ChoicesStand == KnowledgeInv /\ [KnowledgeNext]_KnowledgeVars => OwnerChoiceStands
<1> SUFFICES ASSUME KnowledgeInv, [KnowledgeNext]_KnowledgeVars, NEW p \in Proposal, applications'[p] > applications[p]
             PROVE  /\ proposal[p].state \in activeStates
                    /\ proposal[p].organization /\ ~proposal[p].approved /\ assignment' # assignment =>
                         Reaches(proposal[p].space) \subseteq accepted
  BY DEF OwnerChoiceStands
<1>t. applications \in [Proposal -> 0..1]
  BY DEF KnowledgeInv, KnowledgeTypeOK
<1>1. CASE applyReviewed(p)
  BY <1>1, ProposalFound DEF applyReviewed, ProposalAgrees
<1>2. CASE Apply(p)
  BY <1>2, <1>t, DelegationCovers DEF Apply
<1> QED
  BY <1>1, <1>2, CountedByACommit

\* What is done about a proposal is what its outcome says, and what the owner chose stands.
THEOREM ChangesAgree == KnowledgeSpec => [](KnowledgeTypeOK /\ AppliedOnce) /\ [][OwnerChoiceStands]_KnowledgeVars
<1>1. KnowledgeInv => KnowledgeTypeOK /\ AppliedOnce
  BY AppliedAgrees DEF KnowledgeInv
<1> QED
  BY KnowledgeInvariant, <1>1, ChoicesStand, PTL DEF KnowledgeSpec

\* The runs of the knowledge proposals are those of the union that show them.
LEMMA KnowledgeRun == Spec => KnowledgeSpec
<1>1. Init => KnowledgeInit
  BY DEF Init
<1>2. [Next]_GovernanceVars => [KnowledgeNext]_KnowledgeVars
  BY DEF Next, GovernanceVars
<1> QED
  BY <1>1, <1>2, PTL DEF Spec, KnowledgeSpec

\* A change is applied once and only while its proposal is open, and one made under a
\* delegation displaces nothing the owner chose since, of every run.
THEOREM ChangesAlwaysStand == Spec => ChangesStand
<1>1. KnowledgeTypeOK /\ AppliedOnce => (part = "knowledge" => KnowledgeTypeOK /\ AppliedOnce)
  OBVIOUS
<1>2. [OwnerChoiceStands]_KnowledgeVars => [part = "knowledge" => OwnerChoiceStands]_KnowledgeVars
  OBVIOUS
<1> QED
  BY <1>1, <1>2, KnowledgeRun, ChangesAgree, PTL DEF ChangesStand

-----------------------------------------------------------------------------
(* The dashboard.                                                           *)

LockPlaces == {"locked", "writing", "created", "draining", "drained"}
DashRequestRow == [kind : Kind \cup {"none"}, at : {"idle", "entered", "responding"} \cup LockPlaces]
WindowRow == [job : Request \cup {NobodyAsks}, ready : BOOLEAN, awaited : SUBSET Request]
DashChildRow == [job : Request \cup {NobodyAsks}, coordinated : BOOLEAN]
DashboardTyped ==
  /\ request \in [Request -> DashRequestRow] /\ writerLock \in Request \cup {NobodyAsks}
  /\ operationBusy \in BOOLEAN /\ opChild \in DashChildRow /\ window \in WindowRow
  /\ socket \in {"none", "opening", "proxied", "destroyed"}

\* A request's place tells who holds the lock, and whether the operation is its own.
RequestStands(r) ==
  /\ request[r].at \in LockPlaces <=> writerLock = r
  /\ request[r].at = "idle" => request[r] = Idle
  /\ Starting(r) => opChild = NoChildRuns /\ operationBusy
  /\ request[r].at \in {"draining", "drained"} <=> window.job = r /\ opChild = NoChildRuns
  /\ request[r].at = "writing" => ~operationBusy

\* A window has an owner, who is draining or whose child runs; whoever is under way was there
\* when it began, and nobody else is when it is ready.
WindowStands ==
  /\ window.job = NobodyAsks <=> window = NoWindow
  /\ window.job # NobodyAsks =>
       /\ opChild # NoChildRuns => opChild.job = window.job /\ opChild.coordinated
       /\ InFlight \subseteq window.awaited \cup {window.job}
  /\ window.ready => window.job # NobodyAsks /\ InFlight \subseteq {window.job} /\ socket \in {"none", "destroyed"}

ChildStands ==
  /\ opChild.job = NobodyAsks <=> opChild = NoChildRuns
  /\ operationBusy => opChild # NoChildRuns \/ \E r \in Request : Starting(r)
  /\ opChild # NoChildRuns => operationBusy

DashboardInv == DashboardTyped /\ WindowStands /\ ChildStands /\ \A r \in Request : RequestStands(r)

LEMMA DashboardStarts == DashboardInit => DashboardInv
<1> SUFFICES ASSUME DashboardInit PROVE DashboardInv
  OBVIOUS
<1>1. Idle \in DashRequestRow /\ Idle.at = "idle" /\ NoChildRuns \in DashChildRow /\ NoWindow \in WindowRow
  BY DEF Idle, DashRequestRow, NoChildRuns, DashChildRow, NoWindow, WindowRow
<1>2. /\ NoWindow.job = NobodyAsks /\ NoWindow.ready = FALSE /\ NoChildRuns.job = NobodyAsks
      /\ InFlight = {}
  BY DEF NoWindow, NoChildRuns, InFlight, DashboardInit
<1>3. DashboardTyped
  BY <1>1 DEF DashboardInit, DashboardTyped
<1>4. \A r \in Request : RequestStands(r)
  BY <1>1, <1>2, RequestAssumption DEF DashboardInit, RequestStands, Starting, RequestAt, LockPlaces
<1> QED
  BY <1>2, <1>3, <1>4 DEF DashboardInit, DashboardInv, WindowStands, ChildStands

\* A request that goes on, or is through.
LEMMA DashRequestMoves ==
  ASSUME DashboardInv, NEW r \in Request, NEW place \in {"responding"} \cup LockPlaces, MoveTo(r, place), request[r].at # "idle"
  PROVE  /\ request' \in [Request -> DashRequestRow] /\ request'[r].at = place /\ request'[r].kind = request[r].kind
         /\ \A q \in Request : q # r => request'[q] = request[q]
         /\ InFlight' = InFlight /\ r \in InFlight
<1>t. request \in [Request -> DashRequestRow] /\ request[r] \in DashRequestRow
  BY DEF DashboardInv, DashboardTyped
<1>1. /\ request' = [request EXCEPT ![r] = [request[r] EXCEPT !.at = place]]
      /\ [request[r] EXCEPT !.at = place] \in DashRequestRow
      /\ [request[r] EXCEPT !.at = place].at = place /\ [request[r] EXCEPT !.at = place].kind = request[r].kind
  BY <1>t DEF MoveTo, DashRequestRow
<1>2. /\ request' \in [Request -> DashRequestRow] /\ request'[r].at = place /\ request'[r].kind = request[r].kind
      /\ \A q \in Request : q # r => request'[q] = request[q]
  BY <1>t, <1>1
<1>3. Idle.at = "idle" /\ place # "idle"
  BY DEF Idle, LockPlaces
<1>4. InFlight' = InFlight /\ r \in InFlight
  BY <1>2, <1>3 DEF InFlight
<1> QED
  BY <1>2, <1>4

\* What everybody finds.
LEMMA DashFacts ==
  ASSUME DashboardInv
  PROVE  /\ DashboardTyped /\ WindowStands /\ ChildStands
         /\ \A q \in Request : RequestStands(q) /\ q # NobodyAsks /\ request[q] \in DashRequestRow
         /\ window.job \in Request \cup {NobodyAsks} /\ opChild.job \in Request \cup {NobodyAsks}
BY RequestAssumption DEF DashboardInv, DashboardTyped, WindowRow, DashChildRow

\* The steps of a request that neither begin nor end an operation.
LEMMA RequestStep ==
  ASSUME DashboardInv, NEW r \in Request,
         (\E k \in Kind : Enter(r, k)) \/ Finish(r) \/ Refused(r) \/ TakeLock(r) \/ BeginWriter(r) \/ EndWriter(r)
  PROVE  DashboardInv'
<1>f. /\ DashboardTyped /\ WindowStands /\ ChildStands /\ RequestStands(r) /\ request[r] \in DashRequestRow
      /\ \A q \in Request : RequestStands(q) /\ q # NobodyAsks
  BY DashFacts
<1>u. UNCHANGED <<operationBusy, opChild, window, socket>>
  BY DEF Enter, Finish, Refused, TakeLock, BeginWriter, EndWriter
<1>1. ASSUME NEW place \in {"responding", "locked", "writing"}, MoveTo(r, place), request[r].at \in {"entered", "locked", "writing"},
             writerLock' \in Request \cup {NobodyAsks}, place \in LockPlaces <=> writerLock' = r,
             \A q \in Request : q # r => (writerLock' = q <=> writerLock = q),
             place = "writing" => ~operationBusy
      PROVE  DashboardInv'
  <2>1. /\ request' \in [Request -> DashRequestRow] /\ request'[r].at = place
        /\ \A q \in Request : q # r => request'[q] = request[q]
        /\ InFlight' = InFlight
    BY <1>1, DashRequestMoves DEF LockPlaces
  <2>2. \A q \in Request : Starting(q)' <=> Starting(q)
    BY <1>1, <2>1 DEF Starting, RequestAt
  <2>3. \A q \in Request : q # r => RequestStands(q)'
    BY <1>1, <1>f, <1>u, <2>1, <2>2 DEF RequestStands
  <2>4. RequestStands(r)'
    BY <1>1, <1>f, <1>u, <2>1, <2>2 DEF RequestStands, LockPlaces
  <2>5. DashboardTyped'
    BY <1>1, <1>f, <1>u, <2>1 DEF DashboardTyped
  <2>6. WindowStands' /\ ChildStands'
    BY <1>f, <1>u, <2>1, <2>2 DEF WindowStands, ChildStands
  <2> QED
    BY <2>3, <2>4, <2>5, <2>6 DEF DashboardInv
<1>2. ASSUME NEW k \in Kind, Enter(r, k) PROVE DashboardInv'
  <2>1. /\ request' = [request EXCEPT ![r] = [kind |-> k, at |-> "entered"]] /\ request[r] = Idle /\ window = NoWindow
        /\ UNCHANGED writerLock
    BY <1>2 DEF Enter, InWindow
  <2>2. [kind |-> k, at |-> "entered"] \in DashRequestRow /\ Idle.at = "idle" /\ NoWindow.job = NobodyAsks
    BY DEF DashRequestRow, Idle, NoWindow
  <2>3. /\ request' \in [Request -> DashRequestRow] /\ request'[r].at = "entered" /\ request[r].at = "idle"
        /\ \A q \in Request : q # r => request'[q] = request[q]
    BY <1>f, <2>1, <2>2 DEF DashboardTyped
  <2>4. \A q \in Request : Starting(q)' <=> Starting(q)
    BY <2>3 DEF Starting, RequestAt
  <2>5. \A q \in Request : RequestStands(q)'
    BY <1>f, <1>u, <2>1, <2>3, <2>4 DEF RequestStands, LockPlaces
  <2>6. DashboardTyped'
    BY <1>f, <1>u, <2>1, <2>3 DEF DashboardTyped
  <2>7. WindowStands' /\ ChildStands'
    BY <1>f, <1>u, <2>1, <2>2, <2>4 DEF WindowStands, ChildStands
  <2> QED
    BY <2>5, <2>6, <2>7 DEF DashboardInv
<1>3. CASE Finish(r)
  <2>1. request' = [request EXCEPT ![r] = Idle] /\ UNCHANGED writerLock /\ request[r].at \in {"entered", "responding"}
    BY <1>3 DEF Finish, RequestAt
  <2>2. Idle \in DashRequestRow /\ Idle.at = "idle"
    BY DEF DashRequestRow, Idle
  <2>3. /\ request' \in [Request -> DashRequestRow] /\ request'[r] = Idle
        /\ \A q \in Request : q # r => request'[q] = request[q]
    BY <1>f, <2>1, <2>2 DEF DashboardTyped
  <2>4. (\A q \in Request : Starting(q)' <=> Starting(q)) /\ InFlight' \subseteq InFlight
    BY <2>1, <2>2, <2>3 DEF Starting, RequestAt, InFlight
  <2>5. \A q \in Request : RequestStands(q)'
    BY <1>f, <1>u, <2>1, <2>2, <2>3, <2>4 DEF RequestStands, LockPlaces
  <2>6. DashboardTyped'
    BY <1>f, <1>u, <2>1, <2>3 DEF DashboardTyped
  <2>7. WindowStands' /\ ChildStands'
    BY <1>f, <1>u, <2>4 DEF WindowStands, ChildStands
  <2> QED
    BY <2>5, <2>6, <2>7 DEF DashboardInv
<1>4. CASE Refused(r)
  <2>1. CASE RequestAt(r, "entered") /\ writerLock # NobodyAsks /\ UNCHANGED writerLock
    BY <1>1, <1>4, <1>f, <2>1 DEF Refused, RequestAt, RequestStands, LockPlaces, DashboardTyped
  <2>2. CASE RequestAt(r, "locked") /\ writerLock' = NobodyAsks
    BY <1>1, <1>4, <1>f, <2>2 DEF Refused, RequestAt, RequestStands, LockPlaces
  <2> QED
    BY <1>4, <2>1, <2>2 DEF Refused
<1>5. CASE TakeLock(r)
  BY <1>1, <1>5, <1>f DEF TakeLock, RequestAt, RequestStands, LockPlaces
<1>6. CASE BeginWriter(r)
  BY <1>1, <1>6, <1>f DEF BeginWriter, RequestAt, RequestStands, LockPlaces, DashboardTyped
<1>7. CASE EndWriter(r)
  BY <1>1, <1>7, <1>f DEF EndWriter, RequestAt, RequestStands, LockPlaces
<1> QED
  BY <1>2, <1>3, <1>4, <1>5, <1>6, <1>7

\* The steps of a request that holds the lock for an operation: nobody else is starting one.
LEMMA OperationStep ==
  ASSUME DashboardInv, NEW r \in Request,
         BeginOperation(r) \/ BeginMaintenance(r) \/ Drained(r) \/ StartFails(r) \/ Launch(r)
  PROVE  DashboardInv'
<1>f. /\ DashboardTyped /\ WindowStands /\ ChildStands /\ RequestStands(r) /\ request[r] \in DashRequestRow
      /\ \A q \in Request : RequestStands(q) /\ q # NobodyAsks
      /\ window.job \in Request \cup {NobodyAsks} /\ window \in WindowRow /\ opChild \in DashChildRow
  BY DashFacts DEF DashboardTyped
<1>n. /\ NoWindow.job = NobodyAsks /\ NoWindow.ready = FALSE /\ NoChildRuns.job = NobodyAsks
      /\ NoWindow \in WindowRow /\ NoChildRuns \in DashChildRow
  BY DEF NoWindow, NoChildRuns, WindowRow, DashChildRow
<1>0. PICK place \in {"responding", "created", "draining", "drained"} :
        MoveTo(r, place) /\ request[r].at \in {"locked", "created", "draining", "drained"}
  BY DEF BeginOperation, BeginMaintenance, Drained, StartFails, Launch, RequestAt
<1>1. /\ request' \in [Request -> DashRequestRow] /\ request'[r].at = place
      /\ \A q \in Request : q # r => request'[q] = request[q]
      /\ InFlight' = InFlight /\ r \in InFlight
  BY <1>0, DashRequestMoves DEF LockPlaces
<1>2. writerLock = r /\ \A q \in Request : q # r => ~Starting(q) /\ ~Starting(q)' /\ request[q].at \notin LockPlaces
  BY <1>0, <1>1, <1>f DEF RequestStands, LockPlaces, Starting, RequestAt
<1>3. CASE BeginOperation(r)
  <2>1. /\ request[r].at = "locked" /\ place = "created" /\ ~operationBusy /\ opChild = NoChildRuns /\ operationBusy' = TRUE
        /\ UNCHANGED <<writerLock, opChild, window, socket>>
    BY <1>3, <1>1 DEF BeginOperation, RequestAt, MoveTo, DashboardInv, DashboardTyped
  <2>2. \A q \in Request : RequestStands(q)'
    BY <1>f, <1>1, <1>2, <2>1 DEF RequestStands, LockPlaces, Starting, RequestAt
  <2>3. DashboardTyped'
    BY <1>f, <1>1, <2>1 DEF DashboardTyped
  <2>4. WindowStands' /\ ChildStands'
    BY <1>f, <1>1, <2>1 DEF WindowStands, ChildStands, Starting, RequestAt
  <2> QED
    BY <2>2, <2>3, <2>4 DEF DashboardInv
<1>4. CASE BeginMaintenance(r)
  <2>1. /\ request[r].at = "created" /\ place = "draining" /\ window = NoWindow
        /\ window' = [job |-> r, ready |-> FALSE, awaited |-> InFlight \ {r}]
        /\ UNCHANGED <<writerLock, operationBusy, opChild, socket>>
    BY <1>4, <1>1 DEF BeginMaintenance, RequestAt, MoveTo, InWindow, DashboardInv, DashboardTyped
  <2>2. window' \in WindowRow /\ window'.job = r /\ ~window'.ready /\ window'.awaited = InFlight \ {r} /\ window' # NoWindow
    BY <1>f, <1>n, <2>1 DEF WindowRow, InFlight
  <2>3. opChild = NoChildRuns
    BY <1>f, <2>1 DEF RequestStands, Starting, RequestAt
  <2>4. \A q \in Request : RequestStands(q)'
    BY <1>f, <1>n, <1>1, <1>2, <2>1, <2>2, <2>3 DEF RequestStands, LockPlaces, Starting, RequestAt
  <2>5. DashboardTyped'
    BY <1>f, <1>1, <2>1, <2>2 DEF DashboardTyped
  <2>6. WindowStands' /\ ChildStands'
    BY <1>f, <1>1, <2>1, <2>2, <2>3 DEF WindowStands, ChildStands, Starting, RequestAt
  <2> QED
    BY <2>4, <2>5, <2>6 DEF DashboardInv
<1>5. CASE Drained(r)
  <2>1. /\ request[r].at = "draining" /\ place = "drained" /\ window.awaited \cap InFlight = {}
        /\ window' = [window EXCEPT !.ready = TRUE] /\ socket' \in {"none", "destroyed"}
        /\ UNCHANGED <<writerLock, operationBusy, opChild>>
    BY <1>5, <1>1 DEF Drained, RequestAt, MoveTo, DashboardInv, DashboardTyped
  <2>2. window' \in WindowRow /\ window'.job = window.job /\ window'.ready /\ window'.awaited = window.awaited
    BY <1>f, <2>1 DEF WindowRow
  <2>3. window.job = r /\ opChild = NoChildRuns /\ window' # NoWindow
    BY <1>f, <1>n, <2>1, <2>2 DEF RequestStands
  <2>4. \A q \in Request : RequestStands(q)'
    BY <1>f, <1>n, <1>1, <1>2, <2>1, <2>2, <2>3 DEF RequestStands, LockPlaces, Starting, RequestAt
  <2>5. DashboardTyped'
    BY <1>f, <1>1, <2>1, <2>2 DEF DashboardTyped
  <2>6. WindowStands' /\ ChildStands'
    BY <1>f, <1>1, <2>1, <2>2, <2>3 DEF WindowStands, ChildStands, Starting, RequestAt
  <2> QED
    BY <2>4, <2>5, <2>6 DEF DashboardInv
<1>6. CASE StartFails(r)
  <2>1. /\ request[r].at \in {"created", "draining"} /\ place = "responding" /\ operationBusy' = FALSE /\ writerLock' = NobodyAsks
        /\ window' = (IF window.job = r THEN NoWindow ELSE window) /\ UNCHANGED <<opChild, socket>>
    BY <1>6, <1>1 DEF StartFails, RequestAt, MoveTo, DashboardInv, DashboardTyped
  <2>2. opChild = NoChildRuns
    BY <1>f, <2>1 DEF RequestStands, Starting, RequestAt
  <2>3. window.job \in {r, NobodyAsks}
    BY <1>f, <1>2, <2>2 DEF RequestStands, LockPlaces
  <2>4. window' = NoWindow
    BY <1>f, <2>1, <2>3 DEF WindowStands
  <2>5. \A q \in Request : RequestStands(q)'
    BY <1>f, <1>n, <1>1, <1>2, <2>1, <2>2, <2>4 DEF RequestStands, LockPlaces, Starting, RequestAt
  <2>6. DashboardTyped'
    BY <1>f, <1>n, <1>1, <2>1, <2>4 DEF DashboardTyped
  <2>7. WindowStands' /\ ChildStands'
    BY <1>f, <1>n, <1>1, <1>2, <2>1, <2>2, <2>4 DEF WindowStands, ChildStands
  <2> QED
    BY <2>5, <2>6, <2>7 DEF DashboardInv
<1>7. CASE Launch(r)
  <2>1. /\ request[r].at \in {"created", "drained"} /\ place = "responding" /\ writerLock' = NobodyAsks
        /\ opChild' = [job |-> r, coordinated |-> window.job = r] /\ UNCHANGED <<operationBusy, window, socket>>
    BY <1>7, <1>1 DEF Launch, RequestAt, MoveTo, DashboardInv, DashboardTyped
  <2>2. opChild = NoChildRuns /\ operationBusy
    BY <1>f, <2>1 DEF RequestStands, Starting, RequestAt
  <2>3. window.job \in {r, NobodyAsks}
    BY <1>f, <1>2, <2>2 DEF RequestStands, LockPlaces
  <2>4. /\ opChild' \in DashChildRow /\ opChild' # NoChildRuns /\ opChild'.job = r
        /\ window.job # NobodyAsks => opChild'.coordinated
    <3> DEFINE its == window.job = r
    <3>1. /\ opChild' = [job |-> r, coordinated |-> its] /\ its \in BOOLEAN
      BY <2>1
    <3> HIDE DEF its
    <3>2. opChild'.job = r /\ opChild'.coordinated = its
      BY <3>1
    <3>3. opChild' \in DashChildRow
      BY <3>1 DEF DashChildRow
    <3>4. opChild' # NoChildRuns
      BY <1>f, <1>n, <3>2
    <3>5. window.job # NobodyAsks => its
      BY <2>3 DEF its
    <3>6. window.job # NobodyAsks => opChild'.coordinated
      BY <3>2, <3>5, ZenonT(30)
    <3> QED
      BY <3>2, <3>3, <3>4, <3>6
  <2>5. \A q \in Request : RequestStands(q)'
    BY <1>f, <1>n, <1>1, <1>2, <2>1, <2>2, <2>4 DEF RequestStands, LockPlaces, Starting, RequestAt
  <2>6. DashboardTyped'
    BY <1>f, <1>n, <1>1, <2>1, <2>4 DEF DashboardTyped
  <2>7. WindowStands' /\ ChildStands'
    BY <1>f, <1>n, <1>1, <1>2, <2>1, <2>2, <2>3, <2>4 DEF WindowStands, ChildStands
  <2> QED
    BY <2>5, <2>6, <2>7 DEF DashboardInv
<1> QED
  BY <1>3, <1>4, <1>5, <1>6, <1>7

\* The child, the sockets and the end of the process.
LEMMA ProcessStep ==
  ASSUME DashboardInv,
         ChildEnds \/ OpenSocket \/ MoveSocket \/ StopDashboard \/ ConnectionsClosed \/ Exit \/ Crash \/ Restart
  PROVE  DashboardInv'
<1>f. /\ DashboardTyped /\ WindowStands /\ ChildStands
      /\ \A q \in Request : RequestStands(q) /\ q # NobodyAsks
      /\ window.job \in Request \cup {NobodyAsks}
  BY DashFacts
<1>n. /\ NoWindow.job = NobodyAsks /\ NoWindow.ready = FALSE /\ NoChildRuns.job = NobodyAsks
      /\ NoWindow \in WindowRow /\ NoChildRuns \in DashChildRow /\ Idle \in DashRequestRow /\ Idle.at = "idle"
  BY DEF NoWindow, NoChildRuns, WindowRow, DashChildRow, DashRequestRow, Idle
<1>1. CASE ChildEnds
  <2>1. /\ opChild # NoChildRuns /\ opChild' = NoChildRuns /\ operationBusy' = FALSE
        /\ window' = (IF opChild.coordinated THEN NoWindow ELSE window)
        /\ UNCHANGED <<request, writerLock, socket>>
    BY <1>1 DEF ChildEnds
  <2>2. window' = NoWindow
    BY <1>f, <2>1 DEF WindowStands
  <2>3. \A q \in Request : ~Starting(q) /\ ~Starting(q)' /\ request[q].at \notin {"draining", "drained"}
    BY <1>f, <2>1 DEF RequestStands, Starting, RequestAt
  <2>4. \A q \in Request : RequestStands(q)'
    BY <1>f, <1>n, <2>1, <2>2, <2>3 DEF RequestStands
  <2>5. DashboardTyped'
    BY <1>f, <1>n, <2>1, <2>2 DEF DashboardTyped
  <2>6. WindowStands' /\ ChildStands'
    BY <1>n, <2>1, <2>2 DEF WindowStands, ChildStands
  <2> QED
    BY <2>4, <2>5, <2>6 DEF DashboardInv
<1>2. CASE UNCHANGED <<request, writerLock, operationBusy, opChild, window, socket>>
  BY <1>2, <1>f DEF DashboardInv, DashboardTyped, WindowStands, ChildStands, RequestStands, Starting, RequestAt, InFlight
<1>3. CASE OpenSocket \/ MoveSocket \/ StopDashboard
  <2>1. /\ UNCHANGED <<request, writerLock, operationBusy, opChild, window>>
        /\ socket' \in {"none", "opening", "proxied", "destroyed"}
        /\ window.ready => socket' \in {"none", "destroyed"}
    <3>1. CASE OpenSocket
      BY <1>f, <1>n, <3>1 DEF OpenSocket, InWindow, WindowStands
    <3>2. CASE MoveSocket
      BY <1>f, <3>2 DEF MoveSocket, WindowStands
    <3>3. CASE StopDashboard
      BY <3>3 DEF StopDashboard
    <3> QED
      BY <1>3, <3>1, <3>2, <3>3
  <2> QED
    BY <2>1, <1>f DEF DashboardInv, DashboardTyped, WindowStands, ChildStands, RequestStands, Starting, RequestAt, InFlight
<1>4. CASE GoDown
  <2>1. /\ request' = [r \in Request |-> Idle] /\ writerLock' = NobodyAsks /\ operationBusy' = FALSE
        /\ opChild' = NoChildRuns /\ window' = NoWindow /\ socket' = "none"
    BY <1>4 DEF GoDown
  <2>2. InFlight' = {}
    BY <2>1 DEF InFlight
  <2>3. \A q \in Request : RequestStands(q)'
    BY <1>f, <1>n, <2>1 DEF RequestStands, Starting, RequestAt, LockPlaces
  <2>4. DashboardTyped'
    BY <1>n, <2>1 DEF DashboardTyped
  <2>5. WindowStands' /\ ChildStands'
    BY <1>n, <2>1, <2>2 DEF WindowStands, ChildStands
  <2> QED
    BY <2>3, <2>4, <2>5 DEF DashboardInv
<1> QED
  BY <1>1, <1>2, <1>3, <1>4 DEF ConnectionsClosed, Exit, Crash, Restart

LEMMA DashboardInvariant == DashboardSpec => []DashboardInv
<1>1. DashboardInv /\ [DashboardNext]_DashboardVars => DashboardInv'
  <2> SUFFICES ASSUME DashboardInv, [DashboardNext]_DashboardVars PROVE DashboardInv'
    OBVIOUS
  <2>1. CASE UNCHANGED DashboardVars
    BY <2>1 DEF DashboardVars, DashboardInv, DashboardTyped, WindowStands, ChildStands, RequestStands, Starting, RequestAt, InFlight
  <2>2. CASE DashboardNext
    BY <2>2, RequestStep, OperationStep, ProcessStep DEF DashboardNext
  <2> QED
    BY <2>1, <2>2
<1> QED
  BY DashboardStarts, <1>1, PTL DEF DashboardSpec

\* The operations are one at a time, and a backup's window is its own.
LEMMA DashboardKeeps == DashboardInv => DashboardAgrees
<1> SUFFICES ASSUME DashboardInv PROVE DashboardAgrees
  OBVIOUS
<1>f. /\ DashboardTyped /\ WindowStands /\ ChildStands
      /\ \A q \in Request : RequestStands(q) /\ q # NobodyAsks
      /\ window.job \in Request \cup {NobodyAsks} /\ opChild.job \in Request \cup {NobodyAsks}
  BY DashFacts
<1>1. WindowIsQuiet
  BY <1>f DEF WindowIsQuiet, WindowStands
<1> DEFINE S == {r \in Request : Starting(r)} \cup ({opChild.job} \ {NobodyAsks})
<1>2. Cardinality(S) <= 1
  <2>1. \A x, y \in S : x = y
    BY <1>f DEF RequestStands, ChildStands, Starting, RequestAt, LockPlaces
  <2>2. S = {} \/ \E x \in S : S = {x}
    BY <2>1
  <2> HIDE DEF S
  <2>3. CASE S = {}
    BY <2>3, FS_EmptySet
  <2>4. CASE \E x \in S : S = {x}
    BY <2>4, FS_Singleton
  <2> QED
    BY <2>2, <2>3, <2>4
<1>3. operationBusy = (opChild # NoChildRuns \/ \E r \in Request : Starting(r))
  BY <1>f DEF RequestStands, ChildStands, DashboardTyped
<1>4. operationBusy => ~\E r \in Request : RequestAt(r, "writing")
  BY <1>f DEF RequestStands, RequestAt
<1>5. writerLock = NobodyAsks => ~\E r \in Request : Starting(r) \/ RequestAt(r, "locked") \/ RequestAt(r, "writing")
  BY <1>f DEF RequestStands, Starting, RequestAt, LockPlaces
<1>6. InWindow => (opChild.job = window.job /\ opChild.coordinated)
                  \/ RequestAt(window.job, "draining") \/ RequestAt(window.job, "drained")
  BY <1>f DEF InWindow, WindowStands, RequestStands, RequestAt
<1> QED
  BY <1>1, <1>2, <1>3, <1>4, <1>5, <1>6 DEF DashboardAgrees, OneOperation

-----------------------------------------------------------------------------
(* Background work.                                                         *)

WorkPlaces == {"queue", "insert", "claim", "call", "save"}
RestPlaces == {"out", "waiting", "in"}
CallbackRow == [at : WorkPlaces \cup RestPlaces, job : ReviewJob, revision : Nat, uncertain : BOOLEAN]
ReviewRow == [state : {"none", "pending", "paused", "done"} \cup Started, paused : BOOLEAN,
              attempts : Int, revision : Nat, checks : Nat]
SlotTypes == replies \in Nat /\ callback \in [Callback -> CallbackRow] /\ slotWaiter \in Callback \cup {NoCallback}
ReviewTypes ==
  /\ reviewEpoch \in ReviewJob /\ review \in [ReviewJob -> ReviewRow]
  /\ asked \in SUBSET ReviewJob /\ begun \in [ReviewJob -> Nat] /\ result \in SUBSET ReviewJob
  /\ hermes \in [ReviewJob -> {"none", "running", "done", "lost"}]

\* Who is waiting is the waiter; one callback is inside at most, beside the replies; and whoever
\* waits is handed the place by somebody.
OneInside(cs, n) ==
  /\ \A c \in Callback : cs[c].at = "waiting" <=> slotWaiter = c
  /\ \A c, d \in Inside(cs) : c = d
  /\ n + (IF Inside(cs) = {} THEN 0 ELSE 1) <= MaximumSlots
SlotsInv ==
  /\ SlotTypes /\ OneInside(callback, replies)
  /\ slotWaiter # NoCallback => replies > 0 \/ Inside(callback) # {}

\* A review Hermes was asked for, or has begun.
Touched(j) == begun[j] > 0 \/ j \in asked
ReviewStands(j) ==
  /\ Touched(j) => review[j].state \in Started \cup {"done"}
  /\ j \in asked => begun[j] = 0
  /\ begun[j] <= 1 /\ (hermes[j] # "none" => begun[j] = 1) /\ (j \in result => begun[j] = 1)
  /\ review[j].state = "done" => j \in result
  /\ review[j].checks <= ReconcileLimit
  /\ review[j].state \notin {"ambiguous", "done"} => review[j].checks < ReconcileLimit
  /\ review[j].state # "none" => j <= reviewEpoch /\ \A i \in ReviewJob : i < j => ~Touched(i)
ReviewsInv == ReviewTypes /\ \A j \in ReviewJob : ReviewStands(j)

\* What a callback found stays true while it works: nothing else works beside it.
CallbackStands(c) ==
  LET j == callback[c].job IN
  /\ callback[c].at \in {"queue", "insert"} => j <= reviewEpoch /\ \A i \in ReviewJob : ~Touched(i)
  /\ callback[c].at = "claim" => review[j].state # "none" /\ \A i \in ReviewJob : i > j => review[i].state = "none"
  /\ callback[c].at = "call" => review[j].checks < ReconcileLimit /\ review[j].state # "none"
  /\ callback[c].at = "save" => j \in result
BackgroundInv == SlotsInv /\ ReviewsInv /\ \A c \in Callback : CallbackStands(c)

\* How many work at once, by whether anybody does.
LEMMA InsideCount ==
  ASSUME NEW cs, \A c, d \in Inside(cs) : c = d
  PROVE  Cardinality(Inside(cs)) = IF Inside(cs) = {} THEN 0 ELSE 1
<1> DEFINE S == Inside(cs)
<1>1. S = {} \/ \E x \in S : S = {x}
  OBVIOUS
<1> HIDE DEF S
<1>2. CASE S = {}
  BY <1>2, FS_EmptySet DEF S
<1>3. CASE \E x \in S : S = {x}
  <2>1. PICK x \in S : S = {x}
    BY <1>3
  <2>2. Cardinality(S) = 1 /\ S # {}
    BY <2>1, FS_Singleton
  <2> QED
    BY <2>2 DEF S
<1> QED
  BY <1>1, <1>2, <1>3

\* The place is handed to the waiter when it is free, and only then.
LEMMA HandedOver ==
  ASSUME NEW cs \in [Callback -> CallbackRow], NEW n \in Nat, OneInside(cs, n), HandOver(cs, n),
         slotWaiter \in Callback \cup {NoCallback}, replies' = n
  PROVE  /\ SlotsInv'
         /\ \A c \in Callback : callback'[c] = cs[c] \/ callback'[c].at = "in"
<1>1. Cardinality(Inside(cs)) = IF Inside(cs) = {} THEN 0 ELSE 1
  BY InsideCount DEF OneInside
<1>2. RoomForBackground = 1 /\ MaximumSlots \in 1..2
  BY BackgroundAssumption DEF RoomForBackground
<1>3. CASE slotWaiter # NoCallback /\ n + Cardinality(Inside(cs)) < RoomForBackground
  <2>1. n = 0 /\ Inside(cs) = {} /\ slotWaiter \in Callback
    BY <1>1, <1>2, <1>3
  <2>2. callback' = [cs EXCEPT ![slotWaiter].at = "in"] /\ slotWaiter' = NoCallback
    BY <1>3 DEF HandOver
  <2>3. cs[slotWaiter] \in CallbackRow
    BY <2>1
  <2> DEFINE row == [cs[slotWaiter] EXCEPT !.at = "in"]
  <2>4. row \in CallbackRow /\ row.at = "in"
    BY <2>3 DEF CallbackRow, RestPlaces
  <2>5. callback' = [cs EXCEPT ![slotWaiter] = row]
    BY <2>2
  <2> HIDE DEF row
  <2>6. /\ callback' \in [Callback -> CallbackRow] /\ callback'[slotWaiter].at = "in"
        /\ \A c \in Callback : c # slotWaiter => callback'[c] = cs[c]
    BY <2>1, <2>4, <2>5
  <2>7. \A c \in Callback : cs[c].at = "waiting" <=> slotWaiter = c
    BY DEF OneInside
  <2>8. \A c \in Callback : callback'[c].at # "waiting" /\ c # NoCallback
    BY <2>6, <2>7, BackgroundAssumption
  <2>9. \A c \in Callback : c # slotWaiter => callback'[c].at \in {"out", "waiting"}
    BY <2>1, <2>6 DEF Inside
  <2>10. Inside(callback)' = {slotWaiter}
    BY <2>1, <2>6, <2>9 DEF Inside
  <2>11. SlotTypes'
    BY <2>2, <2>6, <2>1 DEF SlotTypes
  <2>12. OneInside(callback, replies)'
    <3>1. \A c \in Callback : (callback'[c].at = "waiting" <=> slotWaiter' = c)
      BY <2>2, <2>8
    <3>2. \A c, d \in Inside(callback)' : c = d
      BY <2>10
    <3>3. replies' + (IF Inside(callback)' = {} THEN 0 ELSE 1) <= MaximumSlots
      BY <1>2, <2>1, <2>10
    <3> QED
      BY <3>1, <3>2, <3>3 DEF OneInside
  <2> QED
    BY <2>2, <2>6, <2>11, <2>12 DEF SlotsInv
<1>4. CASE ~(slotWaiter # NoCallback /\ n + Cardinality(Inside(cs)) < RoomForBackground)
  <2>1. callback' = cs /\ slotWaiter' = slotWaiter
    BY <1>4 DEF HandOver
  <2>2. slotWaiter # NoCallback => n > 0 \/ Inside(cs) # {}
    BY <1>1, <1>2, <1>4
  <2>3. Inside(callback)' = Inside(cs)
    BY <2>1 DEF Inside
  <2>4. SlotTypes'
    BY <2>1 DEF SlotTypes
  <2>5. OneInside(callback, replies)'
    BY <2>1, <2>3 DEF OneInside
  <2> QED
    BY <2>1, <2>2, <2>3, <2>4, <2>5 DEF SlotsInv
<1> QED
  BY <1>3, <1>4

\* A callback that goes on with its work is the only one inside.
LEMMA WorkGoesOn ==
  ASSUME SlotsInv, NEW c \in Callback, callback[c].at \notin {"out", "waiting"},
         NEW row \in CallbackRow, row.at \notin {"out", "waiting"},
         callback' = [callback EXCEPT ![c] = row], UNCHANGED slots
  PROVE  /\ SlotsInv' /\ callback'[c] = row
         /\ \A d \in Callback : d # c => callback'[d].at \in RestPlaces
<1>1. /\ callback' \in [Callback -> CallbackRow] /\ callback'[c] = row
      /\ \A d \in Callback : d # c => callback'[d] = callback[d]
  BY DEF SlotsInv, SlotTypes
<1>2. Inside(callback)' = Inside(callback) /\ c \in Inside(callback)
  BY <1>1 DEF Inside
<1>3. SlotTypes' /\ replies' = replies /\ slotWaiter' = slotWaiter
  BY <1>1 DEF SlotTypes, slots, SlotsInv
<1>4. OneInside(callback, replies)'
  BY <1>1, <1>2, <1>3 DEF OneInside, SlotsInv
<1>5. \A d \in Callback : d # c => callback'[d].at \in RestPlaces
  BY <1>1, <1>2 DEF SlotsInv, OneInside, Inside, RestPlaces
<1> QED
  BY <1>1, <1>2, <1>3, <1>4, <1>5 DEF SlotsInv

\* A callback that ends leaves nobody at work.
LEMMA WorkEnds ==
  ASSUME SlotsInv, NEW c \in Callback, callback[c].at \notin {"out", "waiting"}, Ends(c)
  PROVE  SlotsInv' /\ \A d \in Callback : callback'[d].at \in RestPlaces
<1> PICK cs : cs = [callback EXCEPT ![c] = Out]
  OBVIOUS
<1>1. Out \in CallbackRow /\ Out.at = "out"
  BY BackgroundAssumption DEF Out, CallbackRow, RestPlaces, ReviewJob
<1>2. /\ cs \in [Callback -> CallbackRow] /\ cs[c] = Out
      /\ \A d \in Callback : d # c => cs[d] = callback[d]
  BY <1>1 DEF SlotsInv, SlotTypes
<1> PICK n : n = replies
  OBVIOUS
<1>3. HandOver(cs, n) /\ replies' = n
  BY DEF Ends
<1>4. Inside(cs) = {} /\ \A d \in Callback : cs[d].at \in {"out", "waiting"}
  BY <1>1, <1>2 DEF Inside, SlotsInv, OneInside
<1>5. OneInside(cs, n) /\ n \in Nat
  <2>1. n \in Nat /\ n <= MaximumSlots
    BY BackgroundAssumption DEF SlotsInv, SlotTypes, OneInside
  <2>2. \A d \in Callback : cs[d].at = "waiting" <=> slotWaiter = d
    BY <1>1, <1>2 DEF SlotsInv, OneInside
  <2>3. /\ \A d, e \in Inside(cs) : d = e
        /\ n + (IF Inside(cs) = {} THEN 0 ELSE 1) <= MaximumSlots
    <3>1. Inside(cs) = {}
      BY <1>4
    <3>2. n + 0 <= MaximumSlots
      BY <2>1, BackgroundAssumption
    <3> QED
      BY <3>1, <3>2
  <2> QED
    BY <2>1, <2>2, <2>3 DEF OneInside
<1>6. /\ SlotsInv' /\ \A d \in Callback : callback'[d] = cs[d] \/ callback'[d].at = "in"
  BY <1>2, <1>3, <1>5, HandedOver DEF SlotsInv, SlotTypes
<1> QED
  BY <1>4, <1>6 DEF RestPlaces

\* Replies come and go, a waiter comes or gives up, and everything may start again.
LEMMA SlotsMove ==
  ASSUME SlotsInv,
         AdmitReply \/ EndReply \/ WaitingTimesOut \/ RestartCore \/ \E c \in Callback : AdmitBackground(c)
  PROVE  /\ SlotsInv'
         /\ \A d \in Callback : callback'[d] = callback[d] \/ callback'[d].at \in RestPlaces
<1>t. /\ replies \in Nat /\ callback \in [Callback -> CallbackRow] /\ slotWaiter \in Callback \cup {NoCallback}
      /\ OneInside(callback, replies)
      /\ slotWaiter # NoCallback => replies > 0 \/ Inside(callback) # {}
  BY DEF SlotsInv, SlotTypes
<1>o. Out \in CallbackRow /\ Out.at = "out"
  BY BackgroundAssumption DEF Out, CallbackRow, RestPlaces, ReviewJob
<1>c. Cardinality(Inside(callback)) = IF Inside(callback) = {} THEN 0 ELSE 1
  <2>1. \A c, d \in Inside(callback) : c = d
    BY <1>t DEF OneInside
  <2> QED
    BY <2>1, InsideCount
<1>r. RoomForBackground = 1 /\ MaximumSlots \in 1..2
  BY BackgroundAssumption DEF RoomForBackground
<1>1. CASE AdmitReply
  <2>1. replies' = replies + 1 /\ callback' = callback /\ slotWaiter' = slotWaiter /\ SlotsTaken < MaximumSlots
    BY <1>1 DEF AdmitReply
  <2>2. replies' \in Nat /\ replies' > 0 /\ replies' + (IF Inside(callback) = {} THEN 0 ELSE 1) <= MaximumSlots
    BY <1>t, <1>c, <1>r, <2>1 DEF SlotsTaken
  <2>3. OneInside(callback, replies)'
    BY <1>t, <2>1, <2>2 DEF OneInside, Inside
  <2> QED
    BY <1>t, <2>1, <2>2, <2>3 DEF SlotsInv, SlotTypes
<1>2. CASE EndReply
  <2>1. replies > 0 /\ replies' = replies - 1 /\ HandOver(callback, replies - 1)
    BY <1>2 DEF EndReply
  <2>2. PICK n : n = replies - 1
    OBVIOUS
  <2>3. PICK cs : cs = callback
    OBVIOUS
  <2>4. n \in Nat /\ n <= replies /\ replies' = n /\ HandOver(cs, n) /\ cs \in [Callback -> CallbackRow]
    BY <1>t, <2>1, <2>2, <2>3
  <2>5. n + (IF Inside(cs) = {} THEN 0 ELSE 1) <= MaximumSlots
    BY <1>t, <1>r, <2>1, <2>2, <2>3 DEF OneInside
  <2>6. OneInside(cs, n)
    BY <1>t, <2>3, <2>5 DEF OneInside
  <2>7. SlotsInv' /\ \A c \in Callback : callback'[c] = cs[c] \/ callback'[c].at = "in"
    BY <1>t, <2>4, <2>6, HandedOver
  <2> QED
    BY <2>3, <2>7 DEF RestPlaces
<1>3. CASE WaitingTimesOut
  <2>1. /\ slotWaiter \in Callback /\ callback' = [callback EXCEPT ![slotWaiter] = Out]
        /\ slotWaiter' = NoCallback /\ replies' = replies
    BY <1>t, <1>3 DEF WaitingTimesOut
  <2>2. /\ callback' \in [Callback -> CallbackRow] /\ callback'[slotWaiter] = Out
        /\ \A d \in Callback : d # slotWaiter => callback'[d] = callback[d]
    BY <1>t, <1>o, <2>1
  <2>3. callback[slotWaiter].at = "waiting"
    BY <1>t, <2>1 DEF OneInside
  <2>4. Inside(callback)' = Inside(callback)
    BY <1>o, <2>1, <2>2, <2>3 DEF Inside
  <2>5. \A d \in Callback : callback'[d].at # "waiting" /\ d # NoCallback
    BY <1>t, <1>o, <2>2, BackgroundAssumption DEF OneInside
  <2>6. OneInside(callback, replies)'
    BY <1>t, <2>1, <2>4, <2>5 DEF OneInside
  <2> QED
    BY <1>t, <1>o, <2>1, <2>2, <2>6 DEF SlotsInv, SlotTypes, RestPlaces
<1>4. CASE RestartCore
  <2>1. callback' = [c \in Callback |-> Out] /\ replies' = 0 /\ slotWaiter' = NoCallback
    BY <1>4 DEF RestartCore
  <2>2. callback' \in [Callback -> CallbackRow] /\ \A d \in Callback : callback'[d].at = "out" /\ d # NoCallback
    BY <1>o, <2>1, BackgroundAssumption
  <2>3. Inside(callback)' = {}
    BY <2>2 DEF Inside
  <2>4. OneInside(callback, replies)'
    BY <1>r, <2>1, <2>2, <2>3 DEF OneInside
  <2> QED
    BY <2>1, <2>2, <2>4 DEF SlotsInv, SlotTypes, RestPlaces
<1>5. ASSUME NEW c \in Callback, AdmitBackground(c)
      PROVE  SlotsInv' /\ \A d \in Callback : callback'[d] = callback[d] \/ callback'[d].at \in RestPlaces
  <2>1. PICK j \in ReviewJob :
          IF SlotsTaken < MaximumSlots /\ SlotsTaken < RoomForBackground
          THEN callback' = [callback EXCEPT ![c] = [Out EXCEPT !.at = "in", !.job = j]] /\ UNCHANGED slotWaiter
          ELSE callback' = [callback EXCEPT ![c] = [Out EXCEPT !.at = "waiting", !.job = j]] /\ slotWaiter' = c
    BY <1>5 DEF AdmitBackground
  <2>2. callback[c].at = "out" /\ slotWaiter = NoCallback /\ replies' = replies
    BY <1>5 DEF AdmitBackground
  <2>3. c # NoCallback /\ \A d \in Callback : callback[d].at # "waiting" /\ d # NoCallback
    BY <1>t, <2>2, BackgroundAssumption DEF OneInside
  <2>4. CASE SlotsTaken < MaximumSlots /\ SlotsTaken < RoomForBackground
    <3>1. replies = 0 /\ Inside(callback) = {}
      BY <1>t, <1>c, <1>r, <2>4 DEF SlotsTaken
    <3> DEFINE row == [Out EXCEPT !.at = "in", !.job = j]
    <3>2. row \in CallbackRow /\ row.at = "in"
      BY <1>o DEF CallbackRow, RestPlaces
    <3>3. callback' = [callback EXCEPT ![c] = row] /\ slotWaiter' = NoCallback
      BY <2>1, <2>2, <2>4
    <3> HIDE DEF row
    <3>4. /\ callback' \in [Callback -> CallbackRow] /\ callback'[c].at = "in"
          /\ \A d \in Callback : d # c => callback'[d] = callback[d] /\ callback'[d].at = "out"
      BY <1>t, <2>3, <3>1, <3>2, <3>3 DEF Inside
    <3>5. Inside(callback)' = {c}
      BY <3>4 DEF Inside
    <3>6. \A d \in Callback : callback'[d].at # "waiting"
      BY <3>4
    <3>7. OneInside(callback, replies)'
      <4>1. \A d, e \in Inside(callback)' : d = e
        BY <3>5
      <4>2. replies' + (IF Inside(callback)' = {} THEN 0 ELSE 1) <= MaximumSlots
        BY <1>r, <2>2, <3>1, <3>5
      <4>3. \A d \in Callback : callback'[d].at = "waiting" <=> slotWaiter' = d
        BY <2>3, <3>3, <3>6
      <4> QED
        BY <4>1, <4>2, <4>3 DEF OneInside
    <3> QED
      BY <1>t, <2>2, <3>3, <3>4, <3>7 DEF SlotsInv, SlotTypes, RestPlaces
  <2>5. CASE ~(SlotsTaken < MaximumSlots /\ SlotsTaken < RoomForBackground)
    <3>1. replies > 0 \/ Inside(callback) # {}
      BY <1>t, <1>c, <1>r, <2>5 DEF SlotsTaken
    <3> DEFINE row == [Out EXCEPT !.at = "waiting", !.job = j]
    <3>2. row \in CallbackRow /\ row.at = "waiting"
      BY <1>o DEF CallbackRow, RestPlaces
    <3>3. callback' = [callback EXCEPT ![c] = row] /\ slotWaiter' = c
      BY <2>1, <2>5
    <3> HIDE DEF row
    <3>4. /\ callback' \in [Callback -> CallbackRow] /\ callback'[c].at = "waiting"
          /\ \A d \in Callback : d # c => callback'[d] = callback[d]
      BY <1>t, <3>2, <3>3
    <3>5. Inside(callback)' = Inside(callback)
      BY <2>2, <3>4 DEF Inside
    <3>6. OneInside(callback, replies)'
      <4>1. \A d \in Callback : callback'[d].at = "waiting" <=> slotWaiter' = d
        BY <2>3, <3>3, <3>4
      <4> QED
        BY <1>t, <2>2, <3>5, <4>1 DEF OneInside
    <3> QED
      BY <1>t, <2>2, <3>1, <3>3, <3>4, <3>5, <3>6 DEF SlotsInv, SlotTypes, RestPlaces
  <2> QED
    BY <2>4, <2>5
<1> QED
  BY <1>1, <1>2, <1>3, <1>4, <1>5

\* What is at rest claims nothing; what goes on as before claims what it claimed.
LEMMA AtRest ==
  ASSUME NEW d \in Callback, callback'[d].at \in RestPlaces
  PROVE  CallbackStands(d)'
BY DEF CallbackStands, RestPlaces

LEMMA NothingReviewed ==
  ASSUME BackgroundInv, SlotsInv', UNCHANGED <<reviewEpoch, review, asked, hermes, begun, result>>,
         \A d \in Callback : callback'[d] = callback[d] \/ callback'[d].at \in RestPlaces
  PROVE  BackgroundInv'
<1>1. ReviewsInv'
  BY DEF BackgroundInv, ReviewsInv, ReviewTypes, ReviewStands, Touched
<1>2. ASSUME NEW d \in Callback PROVE CallbackStands(d)'
  <2>1. CASE callback'[d].at \in RestPlaces
    BY <2>1, AtRest
  <2>2. CASE callback'[d] = callback[d]
    BY <2>2 DEF BackgroundInv, CallbackStands, Touched
  <2> QED
    BY <2>1, <2>2
<1> QED
  BY <1>1, <1>2 DEF BackgroundInv

\* One row is written, and no review is begun or asked for.
LEMMA RowWritten ==
  ASSUME ReviewsInv, NEW j \in ReviewJob, NEW row \in ReviewRow, review' = [review EXCEPT ![j] = row],
         UNCHANGED <<reviewEpoch, asked, hermes, begun>>, result' = result,
         Touched(j) => row.state \in Started \cup {"done"},
         row.state = "done" => j \in result,
         row.checks <= ReconcileLimit,
         row.state \notin {"ambiguous", "done"} => row.checks < ReconcileLimit,
         row.state # "none" => j <= reviewEpoch /\ \A i \in ReviewJob : i < j => ~Touched(i)
  PROVE  /\ ReviewsInv' /\ review'[j] = row /\ \A i \in ReviewJob : i # j => review'[i] = review[i]
         /\ \A i \in ReviewJob : Touched(i)' = Touched(i)
<1>1. /\ review' \in [ReviewJob -> ReviewRow] /\ review'[j] = row
      /\ \A i \in ReviewJob : i # j => review'[i] = review[i]
  BY DEF ReviewsInv, ReviewTypes
<1>2. \A i \in ReviewJob : Touched(i)' = Touched(i)
  BY DEF Touched
<1>3. ReviewTypes'
  BY <1>1 DEF ReviewsInv, ReviewTypes
<1>4. \A i \in ReviewJob : ReviewStands(i)
  BY DEF ReviewsInv
<1>5. ReviewStands(j)'
  BY <1>1, <1>2, <1>4 DEF ReviewStands
<1>6. ASSUME NEW i \in ReviewJob, i # j PROVE ReviewStands(i)'
  BY <1>1, <1>2, <1>4, <1>6 DEF ReviewStands
<1> QED
  BY <1>1, <1>2, <1>3, <1>5, <1>6 DEF ReviewsInv

\* What a callback at work finds.
LEMMA AtWork ==
  ASSUME BackgroundInv, NEW c \in Callback, callback[c].at \notin {"out", "waiting"}
  PROVE  /\ SlotsInv /\ ReviewsInv /\ ReviewTypes /\ CallbackStands(c)
         /\ \A j \in ReviewJob : ReviewStands(j) /\ review[j] \in ReviewRow /\ j \in Nat
         /\ callback[c] \in CallbackRow /\ callback[c].job \in ReviewJob
         /\ \A d \in Callback : d # c => callback[d].at \in {"out", "waiting"}
<1>1. callback[c] \in CallbackRow /\ callback[c].job \in ReviewJob
  BY DEF BackgroundInv, SlotsInv, SlotTypes, CallbackRow
<1>2. \A d \in Callback : d # c => callback[d].at \in {"out", "waiting"}
  BY DEF BackgroundInv, SlotsInv, OneInside, Inside
<1>3. \A j \in ReviewJob : j \in Nat
  BY BackgroundAssumption DEF ReviewJob
<1> QED
  BY <1>1, <1>2, <1>3 DEF BackgroundInv, ReviewsInv, ReviewTypes

\* A review is queued while none of the source was ever started.
LEMMA QueueStep ==
  ASSUME BackgroundInv, NEW c \in Callback, QueueReview(c) \/ AssertQueued(c) \/ InsertReview(c)
  PROVE  BackgroundInv'
<1>f. /\ SlotsInv /\ ReviewsInv /\ ReviewTypes /\ CallbackStands(c)
      /\ \A j \in ReviewJob : ReviewStands(j) /\ review[j] \in ReviewRow /\ j \in Nat
      /\ callback[c] \in CallbackRow /\ callback[c].job \in ReviewJob
      /\ callback[c].at \notin {"out", "waiting"}
  <2>1. callback[c].at \notin {"out", "waiting"}
    BY DEF QueueReview, AssertQueued, InsertReview
  <2> QED
    BY <2>1, AtWork
<1>1. CASE QueueReview(c)
  <2>1. /\ callback' = [callback EXCEPT ![c] = [Out EXCEPT !.at = "queue", !.job = reviewEpoch]]
        /\ UNCHANGED slots /\ ~Reviewed(reviewEpoch)
        /\ UNCHANGED <<reviewEpoch, review, asked, hermes, begun, result>>
    BY <1>1 DEF QueueReview, reviewed
  <2>2. PICK row : row = [Out EXCEPT !.at = "queue", !.job = reviewEpoch]
    OBVIOUS
  <2>3. row \in CallbackRow /\ row.at = "queue" /\ row.job = reviewEpoch /\ reviewEpoch \in Nat
    BY <1>f, <2>2, BackgroundAssumption DEF Out, CallbackRow, RestPlaces, WorkPlaces, ReviewTypes, ReviewJob
  <2>4. /\ SlotsInv' /\ callback'[c] = row
        /\ \A d \in Callback : d # c => callback'[d].at \in RestPlaces
    BY <1>f, <2>1, <2>2, <2>3, WorkGoesOn
  <2>5. \A i \in ReviewJob : ~Touched(i)
    BY <1>f, <2>1 DEF Reviewed, ReviewStands, Started
  <2>6. ReviewsInv' /\ \A i \in ReviewJob : ~Touched(i)'
    BY <1>f, <2>1, <2>5 DEF ReviewsInv, ReviewTypes, ReviewStands, Touched
  <2>7. CallbackStands(c)'
    BY <2>1, <2>3, <2>4, <2>6 DEF CallbackStands
  <2> QED
    BY <2>4, <2>6, <2>7, AtRest DEF BackgroundInv
<1>2. CASE AssertQueued(c)
  <2>1. UNCHANGED <<reviewEpoch, review, asked, hermes, begun, result>> /\ callback[c].at = "queue"
    BY <1>2 DEF AssertQueued, reviewed
  <2>2. CASE Ends(c)
    BY <1>f, <2>1, <2>2, WorkEnds, NothingReviewed
  <2>3. CASE ReviewStep(c, "insert")
    <3>1. callback' = [callback EXCEPT ![c] = [callback[c] EXCEPT !.at = "insert"]] /\ UNCHANGED slots
      BY <1>f, <2>3 DEF ReviewStep, SlotsInv, SlotTypes
    <3>2. PICK row : row = [callback[c] EXCEPT !.at = "insert"]
      OBVIOUS
    <3>3. row \in CallbackRow /\ row.at = "insert" /\ row.job = callback[c].job
      BY <1>f, <3>2 DEF CallbackRow, WorkPlaces
    <3>4. /\ SlotsInv' /\ callback'[c] = row
          /\ \A d \in Callback : d # c => callback'[d].at \in RestPlaces
      BY <1>f, <3>1, <3>2, <3>3, WorkGoesOn
    <3>5. ReviewsInv'
      BY <1>f, <2>1 DEF ReviewsInv, ReviewTypes, ReviewStands, Touched
    <3>6. CallbackStands(c)'
      BY <1>f, <2>1, <3>3, <3>4 DEF CallbackStands, Touched
    <3> QED
      BY <3>4, <3>5, <3>6, AtRest DEF BackgroundInv
  <2> QED
    BY <1>2, <2>2, <2>3 DEF AssertQueued
<1>3. CASE InsertReview(c)
  <2> PICK j \in ReviewJob : j = callback[c].job
    BY <1>f
  <2>1. /\ callback[c].at = "insert" /\ Ends(c)
        /\ UNCHANGED <<reviewEpoch, asked, hermes, begun>> /\ result' = result
    BY <1>3 DEF InsertReview
  <2>2. PICK row : row = IF review[j].state = "none" THEN [NoReview EXCEPT !.state = "pending", !.revision = 1] ELSE review[j]
    OBVIOUS
  <2>3. review' = [review EXCEPT ![j] = row]
    BY <1>3, <1>f, <2>2 DEF InsertReview, ReviewTypes
  <2>4. j <= reviewEpoch /\ \A i \in ReviewJob : ~Touched(i)
    BY <1>f, <2>1 DEF CallbackStands
  <2>5. /\ row \in ReviewRow /\ (row.state = "done" => j \in result) /\ row.checks <= ReconcileLimit
        /\ row.state \notin {"ambiguous", "done"} => row.checks < ReconcileLimit
    <3>1. CASE review[j].state = "none"
      <4>1. row = [NoReview EXCEPT !.state = "pending", !.revision = 1]
        BY <2>2, <3>1
      <4>2. row = [state |-> "pending", paused |-> FALSE, attempts |-> 0, revision |-> 1, checks |-> 0]
        BY <4>1 DEF NoReview
      <4>3. row \in ReviewRow /\ row.state = "pending" /\ row.checks = 0
        BY <4>2 DEF ReviewRow
      <4> QED
        BY <4>3, BackgroundAssumption
    <3>2. CASE review[j].state # "none"
      <4>1. row = review[j]
        BY <2>2, <3>2
      <4> QED
        BY <1>f, <4>1 DEF ReviewStands
    <3> QED
      BY <3>1, <3>2
  <2>6. ReviewsInv'
    BY <1>f, <2>1, <2>3, <2>4, <2>5, RowWritten
  <2>7. SlotsInv' /\ \A d \in Callback : callback'[d].at \in RestPlaces
    BY <1>f, <2>1, WorkEnds
  <2> QED
    BY <2>6, <2>7, AtRest DEF BackgroundInv
<1> QED
  BY <1>1, <1>2, <1>3

\* A review is entered by what is known of it.
LEMMA EnterStep ==
  ASSUME BackgroundInv, NEW c \in Callback, EnterReview(c)
  PROVE  BackgroundInv'
<1> PICK j : j = callback[c].job
  OBVIOUS
<1> DEFINE old == review[j]
           place == IF j \in result THEN "save" ELSE IF Askable(old) THEN "claim" ELSE "call"
           row == [at |-> place, job |-> j, revision |-> old.revision, uncertain |-> ~Askable(old)]
<1>1. /\ callback[c].at = "in" /\ old.state # "none" /\ old.state # "done"
      /\ j \in result \/ Observable(old) \/ (Askable(old) /\ j = reviewEpoch)
      /\ callback' = [callback EXCEPT ![c] = row] /\ UNCHANGED slots
      /\ UNCHANGED <<reviewEpoch, review, asked, hermes, begun, result>>
  BY DEF EnterReview
<1>f. /\ SlotsInv /\ ReviewsInv /\ ReviewTypes
      /\ \A i \in ReviewJob : ReviewStands(i) /\ review[i] \in ReviewRow /\ i \in Nat
      /\ callback[c] \in CallbackRow /\ j \in ReviewJob
  BY <1>1, AtWork
<1>2. old \in ReviewRow /\ old.revision \in Nat /\ (~Askable(old)) \in BOOLEAN /\ place \in {"save", "claim", "call"}
  BY <1>f DEF ReviewRow
<1>3. /\ j \in result => place = "save"
      /\ place = "save" => j \in result
      /\ place = "claim" => old.state = "pending"
      /\ place = "call" => j \notin result /\ ~Askable(old)
  BY DEF Askable
<1>4. PICK r : r = row
  OBVIOUS
<1>5. r \in CallbackRow /\ r.at = place /\ r.job = j
  BY <1>f, <1>2, <1>4 DEF CallbackRow, WorkPlaces
<1>6. /\ SlotsInv' /\ callback'[c] = r
      /\ \A d \in Callback : d # c => callback'[d].at \in RestPlaces
  <2>1. r.at \notin {"out", "waiting"} /\ callback[c].at \notin {"out", "waiting"}
    BY <1>1, <1>2, <1>5
  <2> HIDE DEF row
  <2> QED
    BY <1>f, <1>1, <1>4, <1>5, <2>1, WorkGoesOn
<1>7. ReviewsInv'
  BY <1>f, <1>1 DEF ReviewsInv, ReviewTypes, ReviewStands, Touched
<1>8. place = "claim" => \A i \in ReviewJob : i > j => review[i].state = "none"
  BY <1>f, <1>1, <1>3 DEF Observable, Askable, Started, ReviewStands, ReviewTypes
<1>9. place = "call" => old.checks < ReconcileLimit
  BY <1>f, <1>1, <1>3 DEF Observable, Askable, Started, ReviewStands
<1>10. CallbackStands(c)'
  <2> HIDE DEF place, row
  <2> QED
    BY <1>1, <1>2, <1>3, <1>5, <1>6, <1>8, <1>9 DEF CallbackStands
<1> QED
  BY <1>6, <1>7, <1>10, AtRest DEF BackgroundInv

\* The claim starts a review no other was started before, and none after it exists.
LEMMA ClaimStep ==
  ASSUME BackgroundInv, NEW c \in Callback, ClaimReview(c)
  PROVE  BackgroundInv'
<1> PICK j : j = callback[c].job
  OBVIOUS
<1> DEFINE old == review[j]
<1>1. callback[c].at = "claim" /\ UNCHANGED <<reviewEpoch, hermes, begun>> /\ result' = result
  BY DEF ClaimReview
<1>f. /\ SlotsInv /\ ReviewsInv /\ ReviewTypes /\ CallbackStands(c)
      /\ \A i \in ReviewJob : ReviewStands(i) /\ review[i] \in ReviewRow /\ i \in Nat
      /\ callback[c] \in CallbackRow /\ j \in ReviewJob
  BY <1>1, AtWork
<1>2. CASE reviewLock = c /\ Askable(old) /\ ~old.paused /\ old.revision = callback[c].revision
  <2>1. /\ review' = [review EXCEPT ![j].state = "running", ![j].attempts = @ + 1]
        /\ asked' = asked \cup {j} /\ ReviewStep(c, "call")
    BY <1>2 DEF ClaimReview
  <2>2. old \in ReviewRow /\ old.state = "pending" /\ old.checks < ReconcileLimit
    BY <1>f, <1>2 DEF Askable, ReviewStands
  <2>3. PICK row : row = [old EXCEPT !.state = "running", !.attempts = old.attempts + 1]
    OBVIOUS
  <2>4. row \in ReviewRow /\ row.state = "running" /\ row.checks = old.checks
    <3>1. old.attempts + 1 \in Int
      BY <2>2 DEF ReviewRow
    <3> QED
      BY <2>2, <2>3, <3>1 DEF ReviewRow, Started
  <2>5. /\ review' \in [ReviewJob -> ReviewRow] /\ review'[j] = row
        /\ \A i \in ReviewJob : i # j => review'[i] = review[i]
    BY <1>f, <2>1, <2>3, <2>4 DEF ReviewTypes
  <2>6. PICK work : work = [callback[c] EXCEPT !.at = "call"]
    OBVIOUS
  <2>7. work \in CallbackRow /\ work.at = "call" /\ work.job = j
    BY <1>f, <2>6 DEF CallbackRow, WorkPlaces
  <2>8. callback' = [callback EXCEPT ![c] = work] /\ UNCHANGED slots
    BY <1>f, <2>1, <2>6 DEF ReviewStep, SlotsInv, SlotTypes
  <2>9. /\ SlotsInv' /\ callback'[c] = work
        /\ \A d \in Callback : d # c => callback'[d].at \in RestPlaces
    BY <1>f, <1>1, <2>7, <2>8, WorkGoesOn
  <2>10. ~Touched(j) /\ begun[j] = 0
    BY <1>f, <2>2 DEF ReviewStands, Started, Touched, ReviewTypes
  <2>11. Touched(j)' /\ \A i \in ReviewJob : i # j => Touched(i)' = Touched(i)
    <3>1. j \in asked' /\ \A i \in ReviewJob : i # j => (i \in asked' <=> i \in asked)
      BY <2>1
    <3> QED
      BY <1>1, <3>1 DEF Touched
  <2>12. \A i \in ReviewJob : i > j => review[i].state = "none"
    BY <1>f, <1>1 DEF CallbackStands
  <2>13. ReviewStands(j)'
    <3>1. /\ begun'[j] = 0 /\ review'[j].state = "running" /\ review'[j].checks < ReconcileLimit
          /\ review'[j].checks <= ReconcileLimit
      BY <1>1, <2>2, <2>4, <2>5, <2>10, BackgroundAssumption DEF ReviewRow
    <3>2. hermes'[j] = "none" /\ j \notin result'
      BY <1>f, <1>1, <2>10 DEF ReviewStands
    <3>3. j <= reviewEpoch' /\ \A i \in ReviewJob : i < j => ~Touched(i)
      BY <1>f, <1>1, <2>2 DEF ReviewStands
    <3>4. \A i \in ReviewJob : i < j => ~Touched(i)'
      BY <1>f, <2>11, <3>3
    <3> QED
      BY <3>1, <3>2, <3>3, <3>4 DEF ReviewStands, Started
  <2>14. ASSUME NEW i \in ReviewJob, i # j PROVE ReviewStands(i)'
    <3>1. review'[i] = review[i] /\ ReviewStands(i) /\ (i \in asked' <=> i \in asked) /\ Touched(i)' = Touched(i)
      BY <1>f, <2>1, <2>5, <2>11, <2>14
    <3>2. review[i].state # "none" => i <= reviewEpoch' /\ \A k \in ReviewJob : k < i => ~Touched(k)'
      BY <1>f, <1>1, <2>11, <2>12, <2>14, <3>1 DEF ReviewStands
    <3> QED
      BY <1>1, <3>1, <3>2 DEF ReviewStands
  <2>15. ReviewTypes'
    BY <1>f, <1>1, <2>1, <2>5 DEF ReviewTypes
  <2>16. CallbackStands(c)'
    BY <2>2, <2>4, <2>5, <2>7, <2>9 DEF CallbackStands
  <2> QED
    <3>1. \A i \in ReviewJob : ReviewStands(i)'
      BY <2>13, <2>14
    <3>2. \A d \in Callback : CallbackStands(d)'
      BY <2>9, <2>16, AtRest
    <3> QED
      BY <2>9, <2>15, <3>1, <3>2 DEF BackgroundInv, ReviewsInv
<1>3. CASE ~(reviewLock = c /\ Askable(old) /\ ~old.paused /\ old.revision = callback[c].revision)
  <2>1. Leaves(c) /\ UNCHANGED <<review, asked>>
    BY <1>3 DEF ClaimReview
  <2>2. SlotsInv' /\ \A d \in Callback : callback'[d].at \in RestPlaces
    BY <1>f, <1>1, <2>1, WorkEnds DEF Leaves
  <2> QED
    BY <1>1, <2>1, <2>2, NothingReviewed
<1> QED
  BY <1>2, <1>3

\* What a callback learned is written to the row it works on, by whoever still holds the lock,
\* and it ends.
LEMMA Marked ==
  ASSUME BackgroundInv, NEW c \in Callback, callback[c].at \in {"call", "save"},
         NEW j \in ReviewJob, j = callback[c].job, NEW row \in ReviewRow, Marks(c, row), Leaves(c),
         UNCHANGED <<reviewEpoch, asked, hermes, begun>>, result' = result,
         row.state \in Started \cup {"done"},
         row.state = "done" => j \in result,
         row.checks <= ReconcileLimit,
         row.state \notin {"ambiguous", "done"} => row.checks < ReconcileLimit,
         review[j].state # "none"
  PROVE  BackgroundInv'
<1>f. /\ SlotsInv /\ ReviewsInv /\ ReviewTypes /\ ReviewStands(j) /\ callback[c].at \notin {"out", "waiting"}
  BY AtWork
<1>1. SlotsInv' /\ \A d \in Callback : callback'[d].at \in RestPlaces
  BY <1>f, WorkEnds DEF Leaves
<1>2. CASE reviewLock = c
  <2>1. review' = [review EXCEPT ![j] = row]
    BY <1>2 DEF Marks
  <2>2. j <= reviewEpoch /\ \A i \in ReviewJob : i < j => ~Touched(i)
    BY <1>f DEF ReviewStands
  <2>3. ReviewsInv'
    BY <1>f, <2>1, <2>2, RowWritten
  <2> QED
    BY <1>1, <2>3, AtRest DEF BackgroundInv
<1>3. CASE reviewLock # c
  <2>1. UNCHANGED <<reviewEpoch, review, asked, hermes, begun, result>>
    BY <1>3 DEF Marks
  <2> QED
    BY <1>1, <2>1, NothingReviewed
<1> QED
  BY <1>2, <1>3

\* An answer, or none.
LEMMA AnswerStep ==
  ASSUME BackgroundInv, NEW c \in Callback,
         Unconfirmed(c) \/ StillRunning(c) \/ SaveResult(c) \/ CompleteReview(c)
  PROVE  BackgroundInv'
<1> PICK j : j = callback[c].job
  OBVIOUS
<1>0. callback[c].at \in {"call", "save"}
  BY DEF Unconfirmed, StillRunning, SaveResult, CompleteReview
<1>f. /\ SlotsInv /\ ReviewsInv /\ ReviewTypes /\ CallbackStands(c)
      /\ \A i \in ReviewJob : ReviewStands(i) /\ review[i] \in ReviewRow /\ i \in Nat
      /\ callback[c] \in CallbackRow /\ j \in ReviewJob
  BY <1>0, AtWork
<1>1. CASE Unconfirmed(c)
  <2>1. callback[c].at = "call" /\ review[j].checks < ReconcileLimit /\ review[j].state # "none"
    BY <1>1, <1>f DEF Unconfirmed, CallbackStands
  <2>2. PICK more : more = IF callback[c].uncertain THEN 1 ELSE 0
    OBVIOUS
  <2>3. PICK row : row = [review[j] EXCEPT !.state = "ambiguous", !.checks = review[j].checks + more]
    OBVIOUS
  <2>4. review[j].checks \in Nat /\ more \in {0, 1}
    BY <1>f, <2>2 DEF ReviewRow
  <2>5. review[j].checks + more \in Nat /\ review[j].checks + more <= ReconcileLimit
    BY <2>1, <2>4, BackgroundAssumption
  <2>6. row \in ReviewRow /\ row.state = "ambiguous" /\ row.checks = review[j].checks + more
    BY <1>f, <2>3, <2>5 DEF ReviewRow, Started
  <2>7. Marks(c, row) /\ Leaves(c) /\ UNCHANGED <<reviewEpoch, asked, hermes, begun>> /\ result' = result
    BY <1>1, <2>2, <2>3 DEF Unconfirmed
  <2> QED
    BY <1>0, <1>f, <2>1, <2>5, <2>6, <2>7, Marked DEF Started
<1>2. CASE StillRunning(c)
  <2>1. callback[c].at = "call" /\ review[j].checks < ReconcileLimit /\ review[j].state # "none"
    BY <1>2, <1>f DEF StillRunning, CallbackStands
  <2>2. PICK row : row = [review[j] EXCEPT !.state = "running"]
    OBVIOUS
  <2>3. row \in ReviewRow /\ row.state = "running" /\ row.checks = review[j].checks
    BY <1>f, <2>2 DEF ReviewRow, Started
  <2>4. row.checks <= ReconcileLimit
    BY <1>f, <2>3 DEF ReviewStands
  <2>5. Marks(c, row) /\ Leaves(c) /\ UNCHANGED <<reviewEpoch, asked, hermes, begun>> /\ result' = result
    BY <1>2, <2>2 DEF StillRunning
  <2> QED
    BY <1>0, <1>f, <2>1, <2>3, <2>4, <2>5, Marked DEF Started
<1>3. CASE SaveResult(c)
  <2>1. /\ hermes[j] = "done" /\ result' = result \cup {j} /\ ReviewStep(c, "save")
        /\ UNCHANGED <<reviewEpoch, review, asked, hermes, begun>>
    BY <1>3 DEF SaveResult
  <2>2. begun[j] = 1
    BY <1>f, <2>1 DEF ReviewStands
  <2>3. PICK row : row = [callback[c] EXCEPT !.at = "save"]
    OBVIOUS
  <2>4. row \in CallbackRow /\ row.at = "save" /\ row.job = j
    BY <1>f, <2>3 DEF CallbackRow, WorkPlaces
  <2>5. callback' = [callback EXCEPT ![c] = row] /\ UNCHANGED slots
    BY <1>f, <2>1, <2>3 DEF ReviewStep, SlotsInv, SlotTypes
  <2>6. SlotsInv' /\ callback'[c] = row /\ \A d \in Callback : d # c => callback'[d].at \in RestPlaces
    BY <1>0, <1>f, <2>4, <2>5, WorkGoesOn
  <2>7. \A i \in ReviewJob : Touched(i)' = Touched(i)
    BY <2>1 DEF Touched
  <2>8. ReviewTypes'
    BY <1>f, <2>1 DEF ReviewTypes
  <2>9. ASSUME NEW i \in ReviewJob PROVE ReviewStands(i)'
    <3>1. i \in result' => begun[i] = 1
      BY <1>f, <2>1, <2>2 DEF ReviewStands
    <3>2. i \in result => i \in result'
      BY <2>1
    <3> QED
      BY <1>f, <2>1, <2>7, <3>1, <3>2 DEF ReviewStands
  <2>10. CallbackStands(c)'
    BY <1>f, <2>1, <2>4, <2>6 DEF CallbackStands
  <2> QED
    BY <2>6, <2>8, <2>9, <2>10, AtRest DEF BackgroundInv, ReviewsInv
<1>4. CASE CompleteReview(c)
  <2>1. callback[c].at = "save" /\ j \in result
    BY <1>4, <1>f DEF CompleteReview, CallbackStands
  <2>2. Touched(j) /\ review[j].state # "none"
    BY <1>f, <2>1 DEF ReviewStands, Touched, Started
  <2>3. PICK row : row = [review[j] EXCEPT !.state = "done"]
    OBVIOUS
  <2>4. row \in ReviewRow /\ row.state = "done" /\ row.checks = review[j].checks
    BY <1>f, <2>3 DEF ReviewRow
  <2>5. row.checks <= ReconcileLimit
    BY <1>f, <2>4 DEF ReviewStands
  <2>6. Marks(c, row) /\ Leaves(c) /\ UNCHANGED <<reviewEpoch, asked, hermes, begun>> /\ result' = result
    BY <1>4, <2>3 DEF CompleteReview
  <2> QED
    BY <1>0, <1>f, <2>1, <2>2, <2>4, <2>5, <2>6, Marked DEF Started
<1> QED
  BY <1>1, <1>2, <1>3, <1>4

\* Hermes was busy: it was asked and did not begin, so the review may be asked for again.
LEMMA BusyStep ==
  ASSUME BackgroundInv, NEW c \in Callback, ProfileBusy(c)
  PROVE  BackgroundInv'
<1> PICK j : j = callback[c].job
  OBVIOUS
<1>1. /\ callback[c].at = "call" /\ j \in asked /\ asked' = asked \ {j}
      /\ Marks(c, [review[j] EXCEPT !.state = "pending", !.attempts = @ - 1]) /\ Leaves(c)
      /\ UNCHANGED <<reviewEpoch, hermes, begun>> /\ result' = result
  BY DEF ProfileBusy
<1>f. /\ SlotsInv /\ ReviewsInv /\ ReviewTypes /\ CallbackStands(c)
      /\ \A i \in ReviewJob : ReviewStands(i) /\ review[i] \in ReviewRow /\ i \in Nat
      /\ callback[c] \in CallbackRow /\ j \in ReviewJob
  BY <1>1, AtWork
<1>2. SlotsInv' /\ \A d \in Callback : callback'[d].at \in RestPlaces
  BY <1>f, <1>1, WorkEnds DEF Leaves
<1>3. PICK row : row = [review[j] EXCEPT !.state = "pending", !.attempts = review[j].attempts - 1]
  OBVIOUS
<1>4. row \in ReviewRow /\ row.state = "pending" /\ row.checks = review[j].checks
  <2>1. review[j].attempts - 1 \in Int
    BY <1>f DEF ReviewRow
  <2> QED
    BY <1>f, <1>3, <2>1 DEF ReviewRow
<1>5. /\ review' \in [ReviewJob -> ReviewRow] /\ (review'[j] = row \/ review'[j] = review[j])
      /\ \A i \in ReviewJob : i # j => review'[i] = review[i]
  BY <1>f, <1>1, <1>3, <1>4 DEF Marks, ReviewTypes
<1>6. begun[j] = 0 /\ j \notin asked'
  BY <1>f, <1>1 DEF ReviewStands
<1>7. /\ ~Touched(j)' /\ \A i \in ReviewJob : Touched(i)' => Touched(i)
      /\ \A i \in ReviewJob : i # j => (i \in asked' <=> i \in asked)
  BY <1>1, <1>6 DEF Touched
<1>8. review[j].checks < ReconcileLimit /\ review[j].state # "none"
  BY <1>f, <1>1 DEF CallbackStands
<1>9. ReviewTypes'
  BY <1>f, <1>1, <1>5 DEF ReviewTypes
<1>10. ReviewStands(j)'
  <2>1. review'[j].checks < ReconcileLimit /\ review'[j].checks <= ReconcileLimit
    BY <1>f, <1>4, <1>5, <1>8, BackgroundAssumption DEF ReviewRow
  <2>2. /\ begun'[j] = 0 /\ hermes'[j] = "none" /\ j \notin result'
        /\ j <= reviewEpoch' /\ \A i \in ReviewJob : i < j => ~Touched(i)'
    BY <1>f, <1>1, <1>6, <1>7, <1>8 DEF ReviewStands
  <2>3. review'[j].state # "done"
    BY <1>f, <1>4, <1>5, <1>6 DEF ReviewStands
  <2> QED
    BY <1>6, <1>7, <2>1, <2>2, <2>3 DEF ReviewStands
<1>11. ASSUME NEW i \in ReviewJob, i # j PROVE ReviewStands(i)'
  BY <1>f, <1>1, <1>5, <1>7, <1>11 DEF ReviewStands
<1>12. \A i \in ReviewJob : ReviewStands(i)'
  BY <1>10, <1>11
<1> QED
  BY <1>2, <1>9, <1>12, AtRest DEF BackgroundInv, ReviewsInv

\* Hermes begins what it was asked for, once.
LEMMA HermesStep ==
  ASSUME BackgroundInv, NEW j \in ReviewJob, HermesBegins(j) \/ HermesEnds(j)
  PROVE  BackgroundInv'
<1>f. /\ SlotsInv /\ ReviewTypes /\ \A i \in ReviewJob : ReviewStands(i)
      /\ \A d \in Callback : CallbackStands(d)
  BY DEF BackgroundInv, ReviewsInv
<1>1. CASE HermesBegins(j)
  <2>1. /\ j \in asked /\ asked' = asked \ {j} /\ hermes' = [hermes EXCEPT ![j] = "running"]
        /\ begun' = [begun EXCEPT ![j] = begun[j] + 1]
        /\ UNCHANGED <<callback, reviewEpoch, review, result>> /\ UNCHANGED slots
    BY <1>1, <1>f DEF HermesBegins, ReviewTypes
  <2>2. begun[j] = 0 /\ begun[j] + 1 = 1
    BY <1>f, <2>1 DEF ReviewStands
  <2>3. /\ begun' \in [ReviewJob -> Nat] /\ begun'[j] = 1
        /\ hermes' \in [ReviewJob -> {"none", "running", "done", "lost"}]
        /\ \A i \in ReviewJob : i # j => begun'[i] = begun[i] /\ hermes'[i] = hermes[i] /\ (i \in asked' <=> i \in asked)
    BY <1>f, <2>1, <2>2 DEF ReviewTypes
  <2>4. j \notin asked'
    BY <2>1
  <2>5. \A i \in ReviewJob : Touched(i)' <=> Touched(i)
    <3>1. Touched(j) /\ Touched(j)'
      BY <2>1, <2>3 DEF Touched
    <3>2. \A i \in ReviewJob : i # j => (Touched(i)' <=> Touched(i))
      BY <2>3 DEF Touched
    <3> QED
      BY <3>1, <3>2
  <2>6. \A i \in ReviewJob : Touched(i)' = Touched(i)
    BY <2>5 DEF Touched
  <2>7. ReviewTypes'
    BY <1>f, <2>1, <2>3 DEF ReviewTypes
  <2>8. ReviewStands(j)'
    BY <1>f, <2>1, <2>3, <2>4, <2>6 DEF ReviewStands
  <2>9. ASSUME NEW i \in ReviewJob, i # j PROVE ReviewStands(i)'
    BY <1>f, <2>1, <2>3, <2>6, <2>9 DEF ReviewStands
  <2>10. \A d \in Callback : CallbackStands(d)'
    BY <1>f, <2>1, <2>6 DEF CallbackStands
  <2>11. SlotsInv'
    BY <1>f, <2>1 DEF SlotsInv, SlotTypes, OneInside, Inside, slots
  <2> QED
    BY <2>7, <2>8, <2>9, <2>10, <2>11 DEF BackgroundInv, ReviewsInv
<1>2. CASE HermesEnds(j)
  <2>1. PICK state \in {"done", "lost"} : hermes' = [hermes EXCEPT ![j] = state]
    BY <1>2 DEF HermesEnds
  <2>2. /\ hermes[j] = "running" /\ UNCHANGED <<callback, reviewEpoch, review, asked, begun, result>>
        /\ UNCHANGED slots
    BY <1>2 DEF HermesEnds
  <2>3. /\ hermes' \in [ReviewJob -> {"none", "running", "done", "lost"}]
        /\ \A i \in ReviewJob : hermes'[i] = hermes[i] \/ hermes[i] # "none"
    BY <1>f, <2>1, <2>2 DEF ReviewTypes
  <2>4. ReviewTypes' /\ \A i \in ReviewJob : ReviewStands(i)'
    BY <1>f, <2>2, <2>3 DEF ReviewTypes, ReviewStands, Touched
  <2>5. \A d \in Callback : CallbackStands(d)'
    BY <1>f, <2>2 DEF CallbackStands, Touched
  <2>6. SlotsInv'
    BY <1>f, <2>2 DEF SlotsInv, SlotTypes, OneInside, Inside, slots
  <2> QED
    BY <2>4, <2>5, <2>6 DEF BackgroundInv, ReviewsInv
<1> QED
  BY <1>1, <1>2

\* The owner's commands reach what was not started, or what is uncertain; the epoch moves on.
LEMMA OwnerReviewStep ==
  ASSUME BackgroundInv,
         MoveEpoch \/ SetConsent \/ LoseReviewLock \/ \E j \in ReviewJob : PauseReview(j) \/ ResumeReview(j)
  PROVE  BackgroundInv'
<1>f. /\ SlotsInv /\ ReviewsInv /\ ReviewTypes
      /\ \A i \in ReviewJob : ReviewStands(i) /\ review[i] \in ReviewRow /\ i \in Nat
      /\ \A d \in Callback : CallbackStands(d) /\ callback[d].job \in ReviewJob
  BY BackgroundAssumption DEF BackgroundInv, ReviewsInv, ReviewTypes, SlotsInv, SlotTypes, CallbackRow, ReviewJob
<1>1. UNCHANGED slots /\ UNCHANGED <<callback, asked, hermes, begun, result>>
  BY DEF MoveEpoch, SetConsent, LoseReviewLock, PauseReview, ResumeReview
<1>2. SlotsInv'
  BY <1>f, <1>1 DEF SlotsInv, SlotTypes, OneInside, Inside, slots
<1>3. CASE MoveEpoch
  <2>1. review' = review /\ reviewEpoch' = reviewEpoch + 1 /\ reviewEpoch < MaxReviewEpoch
    BY <1>3 DEF MoveEpoch
  <2>2. reviewEpoch' \in ReviewJob /\ \A i \in ReviewJob : i <= reviewEpoch => i <= reviewEpoch'
    BY <1>f, <2>1, BackgroundAssumption DEF ReviewTypes, ReviewJob
  <2>3. ReviewTypes' /\ \A i \in ReviewJob : ReviewStands(i)'
    BY <1>f, <1>1, <2>1, <2>2 DEF ReviewTypes, ReviewStands, Touched
  <2>4. \A d \in Callback : CallbackStands(d)'
    BY <1>f, <1>1, <2>1, <2>2 DEF CallbackStands, Touched
  <2> QED
    BY <1>2, <2>3, <2>4 DEF BackgroundInv, ReviewsInv
<1>4. CASE SetConsent \/ LoseReviewLock
  BY <1>1, <1>2, <1>4, NothingReviewed DEF SetConsent, LoseReviewLock
<1>5. ASSUME NEW j \in ReviewJob, PauseReview(j) \/ ResumeReview(j) PROVE BackgroundInv'
  <2>1. ReviewControllable(review[j]) /\ reviewEpoch' = reviewEpoch
    BY <1>5 DEF PauseReview, ResumeReview
  <2>2. \E row \in ReviewRow :
          /\ review' = [review EXCEPT ![j] = row]
          /\ row.state \in {"pending", "paused", "ambiguous"} /\ (row.state = "ambiguous" <=> review[j].state = "ambiguous")
          /\ row.checks = 0 \/ row.checks = review[j].checks
    <3>1. review[j].revision + 1 \in Nat
      BY <1>f DEF ReviewRow
    <3>2. CASE PauseReview(j)
      <4>1. PICK s : s = IF review[j].state = "ambiguous" THEN review[j].state ELSE "paused"
        OBVIOUS
      <4>2. PICK row : row = [review[j] EXCEPT !.state = s, !.paused = TRUE, !.revision = review[j].revision + 1]
        OBVIOUS
      <4>3. review' = [review EXCEPT ![j] = row]
        BY <1>f, <3>2, <4>1, <4>2 DEF PauseReview, ReviewTypes
      <4>4. row \in ReviewRow /\ row.state = s /\ row.checks = review[j].checks
        BY <1>f, <3>1, <4>1, <4>2 DEF ReviewRow
      <4> QED
        BY <4>1, <4>3, <4>4
    <3>3. CASE ResumeReview(j)
      <4>1. PICK s : s = IF review[j].state = "ambiguous" THEN review[j].state ELSE "pending"
        OBVIOUS
      <4>2. PICK row : row = [review[j] EXCEPT !.state = s, !.paused = FALSE, !.revision = review[j].revision + 1, !.checks = 0]
        OBVIOUS
      <4>3. review' = [review EXCEPT ![j] = row]
        BY <1>f, <3>3, <4>1, <4>2 DEF ResumeReview, ReviewTypes
      <4>4. row \in ReviewRow /\ row.state = s /\ row.checks = 0
        BY <1>f, <3>1, <4>1, <4>2 DEF ReviewRow
      <4> QED
        BY <4>1, <4>3, <4>4
    <3> QED
      BY <1>5, <3>2, <3>3
  <2>3. PICK row \in ReviewRow :
          /\ review' = [review EXCEPT ![j] = row]
          /\ row.state \in {"pending", "paused", "ambiguous"} /\ (row.state = "ambiguous" <=> review[j].state = "ambiguous")
          /\ row.checks = 0 \/ row.checks = review[j].checks
    BY <2>2
  <2>4. Touched(j) => review[j].state = "ambiguous"
    BY <1>f, <2>1 DEF ReviewControllable, ReviewStands, Started
  <2>5. row.checks <= ReconcileLimit /\ (row.state # "ambiguous" => row.checks < ReconcileLimit)
    <3>1. review[j].checks <= ReconcileLimit /\ (review[j].state # "ambiguous" => review[j].checks < ReconcileLimit)
      BY <1>f, <2>1 DEF ReviewStands, ReviewControllable
    <3> QED
      BY <2>3, <3>1, BackgroundAssumption
  <2>6. j <= reviewEpoch /\ \A i \in ReviewJob : i < j => ~Touched(i)
    BY <1>f, <2>1 DEF ReviewControllable, ReviewStands
  <2>7. /\ ReviewsInv' /\ review'[j] = row /\ \A i \in ReviewJob : i # j => review'[i] = review[i]
        /\ \A i \in ReviewJob : Touched(i)' = Touched(i)
    BY <1>f, <1>1, <2>1, <2>3, <2>4, <2>5, <2>6, RowWritten DEF Started
  <2>8. \A i \in ReviewJob : /\ review'[i].state = "none" <=> review[i].state = "none"
                             /\ review[i].checks < ReconcileLimit => review'[i].checks < ReconcileLimit
    BY <2>1, <2>3, <2>7, BackgroundAssumption DEF ReviewControllable
  <2>9. \A d \in Callback : CallbackStands(d)'
    BY <1>f, <1>1, <2>1, <2>7, <2>8 DEF CallbackStands
  <2> QED
    BY <1>2, <2>7, <2>9 DEF BackgroundInv
<1> QED
  BY <1>3, <1>4, <1>5

\* Every step keeps it.
LEMMA BackgroundStep == BackgroundInv /\ [BackgroundNext]_BackgroundVars => BackgroundInv'
<1> SUFFICES ASSUME BackgroundInv, [BackgroundNext]_BackgroundVars PROVE BackgroundInv'
  OBVIOUS
<1>1. CASE UNCHANGED BackgroundVars
  <2>1. SlotsInv' /\ UNCHANGED <<reviewEpoch, review, asked, hermes, begun, result>> /\ callback' = callback
    BY <1>1 DEF BackgroundVars, BackgroundInv, SlotsInv, SlotTypes, OneInside, Inside
  <2> QED
    BY <2>1, NothingReviewed
<1>2. CASE AdmitReply \/ EndReply \/ WaitingTimesOut \/ RestartCore \/ \E c \in Callback : AdmitBackground(c)
  <2>1. /\ SlotsInv' /\ \A d \in Callback : callback'[d] = callback[d] \/ callback'[d].at \in RestPlaces
    BY <1>2, SlotsMove DEF BackgroundInv
  <2>2. UNCHANGED <<reviewEpoch, review, asked, hermes, begun, result>>
    BY <1>2 DEF AdmitReply, EndReply, WaitingTimesOut, RestartCore, AdmitBackground, reviewed
  <2> QED
    BY <2>1, <2>2, NothingReviewed
<1>3. ASSUME NEW c \in Callback, EndBackground(c) PROVE BackgroundInv'
  <2>1. callback[c].at = "in" /\ Ends(c) /\ UNCHANGED <<reviewEpoch, review, asked, hermes, begun, result>>
    BY <1>3 DEF EndBackground, reviewed
  <2>2. /\ SlotsInv' /\ \A d \in Callback : callback'[d].at \in RestPlaces
    BY <2>1, WorkEnds DEF BackgroundInv
  <2> QED
    BY <2>1, <2>2, NothingReviewed
<1> QED
  BY <1>1, <1>2, <1>3, QueueStep, EnterStep, ClaimStep, AnswerStep, BusyStep, HermesStep, OwnerReviewStep DEF BackgroundNext

LEMMA BackgroundStarts == BackgroundInit => BackgroundInv
<1> SUFFICES ASSUME BackgroundInit PROVE BackgroundInv
  OBVIOUS
<1>1. Out \in CallbackRow /\ Out.at = "out" /\ 0 \in ReviewJob
  BY BackgroundAssumption DEF Out, CallbackRow, RestPlaces, ReviewJob
<1>2. NoReview \in ReviewRow /\ NoReview.state = "none" /\ NoReview.checks = 0
  BY DEF NoReview, ReviewRow
<1>3. /\ replies = 0 /\ callback \in [Callback -> CallbackRow] /\ slotWaiter = NoCallback
      /\ \A c \in Callback : callback[c].at = "out" /\ c # NoCallback
  BY <1>1, BackgroundAssumption DEF BackgroundInit
<1>4. SlotsInv
  <2>1. Inside(callback) = {}
    BY <1>3 DEF Inside
  <2>2. OneInside(callback, replies)
    BY <1>3, <2>1, BackgroundAssumption DEF OneInside
  <2> QED
    BY <1>3, <2>2 DEF SlotsInv, SlotTypes
<1>5. ReviewTypes
  BY <1>1, <1>2 DEF BackgroundInit, ReviewTypes
<1>6. ASSUME NEW j \in ReviewJob PROVE ReviewStands(j)
  <2>1. /\ review[j].state = "none" /\ review[j].checks = 0 /\ begun[j] = 0 /\ hermes[j] = "none"
        /\ j \notin asked /\ j \notin result
    BY <1>2 DEF BackgroundInit
  <2> QED
    BY <2>1, BackgroundAssumption DEF ReviewStands, Touched
<1>7. \A d \in Callback : CallbackStands(d)
  BY <1>3 DEF CallbackStands
<1> QED
  BY <1>4, <1>5, <1>6, <1>7 DEF BackgroundInv, ReviewsInv

LEMMA BackgroundInvariant == BackgroundSpec => []BackgroundInv
BY BackgroundStarts, BackgroundStep, PTL DEF BackgroundSpec

\* The slots bound what runs, and what runs is begun once.
LEMMA BackgroundKeeps == BackgroundInv => BackgroundAgrees
<1> SUFFICES ASSUME BackgroundInv PROVE BackgroundAgrees
  OBVIOUS
<1>f. /\ SlotTypes /\ OneInside(callback, replies) /\ ReviewTypes
      /\ slotWaiter # NoCallback => replies > 0 \/ Inside(callback) # {}
      /\ \A j \in ReviewJob : ReviewStands(j) /\ j \in Nat
  BY BackgroundAssumption DEF BackgroundInv, SlotsInv, ReviewsInv, ReviewJob
<1>1. Cardinality(Inside(callback)) = IF Inside(callback) = {} THEN 0 ELSE 1
  <2>1. \A c, d \in Inside(callback) : c = d
    BY <1>f DEF OneInside
  <2> QED
    BY <2>1, InsideCount
<1>2. AdmissionHolds
  BY <1>f, <1>1, BackgroundAssumption DEF AdmissionHolds, SlotsTaken, OneInside, SlotTypes
<1> DEFINE S == {j \in ReviewJob : begun[j] > 0 \/ j \in asked}
<1>3. Cardinality(S) <= 1
  <2>1. ASSUME NEW i \in S, NEW j \in S, i < j PROVE FALSE
    BY <1>f, <2>1 DEF ReviewStands, Touched, Started
  <2>2. \A i, j \in S : i = j
    BY <1>f, <2>1
  <2>3. S = {} \/ \E x \in S : S = {x}
    BY <2>2
  <2> HIDE DEF S
  <2>4. CASE S = {}
    BY <2>4, FS_EmptySet
  <2>5. CASE \E x \in S : S = {x}
    <3>1. PICK x \in S : S = {x}
      BY <2>5
    <3>2. Cardinality(S) = 1
      BY <3>1, FS_Singleton
    <3> QED
      BY <3>2
  <2> QED
    BY <2>3, <2>4, <2>5
<1>4. ASSUME NEW j \in ReviewJob
      PROVE  /\ begun[j] + (IF j \in asked THEN 1 ELSE 0) <= 1
             /\ review[j].state = "done" => j \in result /\ begun[j] = 1
             /\ review[j].checks <= ReconcileLimit
  <2>1. begun[j] \in Nat
    BY <1>f DEF ReviewTypes
  <2> QED
    BY <1>f, <2>1 DEF ReviewStands
<1> QED
  BY <1>2, <1>3, <1>4 DEF BackgroundAgrees, ReviewedOnce

----------------------------------------------------------------------------
(* Admission, of the union.                                                *)

\* The runs of the dashboard and of background work are those of the union.
LEMMA DashboardRun == Spec => DashboardSpec
<1>1. Init => DashboardInit
  BY DEF Init
<1>2. [Next]_GovernanceVars => [DashboardNext]_DashboardVars
  BY DEF Next, GovernanceVars
<1> QED
  BY <1>1, <1>2, PTL DEF Spec, DashboardSpec

LEMMA BackgroundRun == Spec => BackgroundSpec
<1>1. Init => BackgroundInit
  BY DEF Init
<1>2. [Next]_GovernanceVars => [BackgroundNext]_BackgroundVars
  BY DEF Next, GovernanceVars
<1> QED
  BY <1>1, <1>2, PTL DEF Spec, BackgroundSpec

\* Operations exclude one another, a backup's window is quiet, a reply finds a slot beside
\* background work, and a review is begun once, in every state.
THEOREM AdmissionAlwaysAgrees == Spec => []AdmissionAgrees
<1>1. DashboardAgrees /\ BackgroundAgrees => AdmissionAgrees
  BY DEF AdmissionAgrees
<1> QED
  BY <1>1, DashboardRun, BackgroundRun, DashboardInvariant, DashboardKeeps, BackgroundInvariant, BackgroundKeeps, PTL
=============================================================================
