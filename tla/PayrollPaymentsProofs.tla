------------------------ MODULE PayrollPaymentsProofs ------------------------
(***************************************************************************)
(* Theorems about PayrollPayments, for every number of co-signers, every   *)
(* threshold, every set of digests and every bound.                        *)
(***************************************************************************)
EXTENDS PayrollPayments, TLAPS

(***************************************************************************)
(* What the store functions do to one batch record.                        *)
(***************************************************************************)

LEMMA AbsentBatchType == AbsentBatch \in Batch
  BY DEF AbsentBatch, Batch, BatchState

\* A drain keeps the record well formed, and never touches the frozen
\* transaction or the recorded hash.
LEMMA DrainIntoType ==
  ASSUME NEW r \in Batch, NEW buffered \in SUBSET Envelope
  PROVE  /\ DrainInto(r, buffered) \in Batch
         /\ DrainInto(r, buffered).digest = r.digest
         /\ DrainInto(r, buffered).txid = r.txid
         /\ DrainInto(r, buffered).auto = r.auto
<1>1. Merged(r, buffered) \in SUBSET Entry
  <2>1. \A e \in Acceptable(r, buffered) :
          [slot |-> e.slot, sig |-> e.sig, row |-> 0] \in Entry
    BY MultisigAssumption DEF Acceptable, Entry, Envelope
  <2> QED BY <2>1 DEF Merged, Batch
<1>2. "approved" \in BatchState /\ "broadcast_countdown" \in BatchState
  BY DEF BatchState
<1> QED BY <1>1, <1>2 DEF DrainInto, Batch

LEMMA StoreFunctionsType ==
  ASSUME NEW r \in Batch
  PROVE  /\ cancelAutoBroadcast(r) \in Batch
         /\ markBroadcastInitiating(r) \in Batch
         /\ markBroadcastFailed(r) \in Batch
         /\ retryAutoBroadcast(r) \in Batch
         /\ recoverInterruptedPostings(r) \in Batch
         /\ \A s \in BatchState : MoveTo(r, s) \in Batch
         /\ \A d \in Digest : RecordBroadcast(r, d) \in Batch
<1>1. cancelAutoBroadcast(r) \in Batch
  BY DEF cancelAutoBroadcast, Batch, BatchState
<1>2. markBroadcastInitiating(r) \in Batch
  BY DEF markBroadcastInitiating, Batch, BatchState
<1>3. markBroadcastFailed(r) \in Batch
  BY DEF markBroadcastFailed, Batch, BatchState
<1>4. retryAutoBroadcast(r) \in Batch
  BY DEF retryAutoBroadcast, Batch, BatchState
<1>5. recoverInterruptedPostings(r) \in Batch
  BY DEF recoverInterruptedPostings, MoveTo, Batch, BatchState
<1>6. \A s \in BatchState : MoveTo(r, s) \in Batch
  BY DEF MoveTo, Batch
<1>7. \A d \in Digest : RecordBroadcast(r, d) \in Batch
  BY DEF RecordBroadcast, Batch, BatchState
<1> QED BY <1>1, <1>2, <1>3, <1>4, <1>5, <1>6, <1>7

\* The rows of the panel stay well formed when stored signatures fill them.
LEMMA RefilledType ==
  ASSUME NEW rows \in Rows, NEW r \in Batch
  PROVE  Refilled(rows, r) \in Rows
<1> SUFFICES ASSUME NEW i \in 1..M
             PROVE  Refilled(rows, r)[i] \in Row
  BY DEF Refilled, Rows
<1>1. rows[i] \in Row
  BY DEF Rows
<1>2. ASSUME NEW s \in Slot, Found(r, s) # {}
      PROVE  (CHOOSE e \in Found(r, s) : TRUE).sig \in SigValue
  <2>1. (CHOOSE e \in Found(r, s) : TRUE) \in Found(r, s)
    BY <1>2
  <2> QED BY <2>1 DEF Found, Batch, Entry
<1> QED BY <1>1, <1>2 DEF Refilled, Row

LEMMA BlankRowsType == BlankRows \in Rows
  BY MultisigAssumption DEF BlankRows, Rows, Row, Slot

LEMMA TypedEntriesType ==
  ASSUME NEW rows \in Rows
  PROVE  TypedEntries(rows) \in SUBSET Entry
<1>1. \A i \in 1..M : rows[i] \in Row
  BY DEF Rows
<1> QED BY <1>1, MultisigAssumption DEF TypedEntries, Row, Entry

-----------------------------------------------------------------------------
(* Steps that rewrite batches without creating or deleting one.            *)

\* r2 is the same payment as r, perhaps further on.
SamePayment(r, r2) ==
  /\ r2 \in Batch
  /\ r2.digest = r.digest
  /\ r2.txid = r.txid
  /\ r2.state = "absent" <=> r.state = "absent"
  /\ r.state = "absent" => r2 = r

LEMMA StoreFunctionsKeep ==
  ASSUME NEW r \in Batch, r.state # "absent"
  PROVE  /\ SamePayment(r, cancelAutoBroadcast(r))
         /\ SamePayment(r, markBroadcastInitiating(r))
         /\ SamePayment(r, markBroadcastFailed(r))
         /\ SamePayment(r, retryAutoBroadcast(r))
         /\ \A s \in BatchState : SamePayment(r, MoveTo(r, s))
<1>1. SamePayment(r, cancelAutoBroadcast(r))
  BY StoreFunctionsType DEF cancelAutoBroadcast, SamePayment, Batch
<1>2. SamePayment(r, markBroadcastInitiating(r))
  BY StoreFunctionsType DEF markBroadcastInitiating, SamePayment, Batch
<1>3. SamePayment(r, markBroadcastFailed(r))
  BY StoreFunctionsType DEF markBroadcastFailed, SamePayment, Batch
<1>4. SamePayment(r, retryAutoBroadcast(r))
  BY StoreFunctionsType DEF retryAutoBroadcast, SamePayment, Batch
<1>5. \A s \in BatchState : SamePayment(r, MoveTo(r, s))
  <2> TAKE s \in BatchState
  <2>1. MoveTo(r, s) \in Batch
    BY StoreFunctionsType
  <2>2. MoveTo(r, s).state # "absent"
    BY DEF MoveTo, Batch, BatchState
  <2> QED BY <2>1, <2>2 DEF MoveTo, SamePayment, Batch
<1> QED BY <1>1, <1>2, <1>3, <1>4, <1>5

LEMMA DrainIntoKeeps ==
  ASSUME NEW r \in Batch, NEW buffered \in SUBSET Envelope, r.state # "absent"
  PROVE  SamePayment(r, DrainInto(r, buffered))
<1>1. DrainInto(r, buffered).state # "absent"
  BY DEF DrainInto, Batch
<1> QED BY <1>1, DrainIntoType DEF SamePayment

LEMMA RecoverKeeps ==
  ASSUME NEW r \in Batch
  PROVE  SamePayment(r, recoverInterruptedPostings(r))
BY StoreFunctionsType DEF recoverInterruptedPostings, MoveTo, SamePayment, Batch

BatchesKept == \A b \in BatchId : SamePayment(batch[b], batch'[b])

\* One batch rewritten by a function that keeps its payment.
LEMMA OneBatchKept ==
  ASSUME TypeOK, NEW b \in BatchId, NEW r, SamePayment(batch[b], r),
         batch' = [batch EXCEPT ![b] = r]
  PROVE  batch' \in [BatchId -> Batch] /\ BatchesKept
<1>1. \A c \in BatchId : batch[c] \in Batch
  BY DEF TypeOK
<1>2. batch' \in [BatchId -> Batch]
  BY <1>1 DEF TypeOK, SamePayment
<1>3. \A c \in BatchId : batch'[c] = IF c = b THEN r ELSE batch[c]
  BY DEF TypeOK
<1> QED BY <1>1, <1>2, <1>3 DEF BatchesKept, SamePayment

\* The invariant survives such a step as far as batches go; what is left to
\* show is that the panel and the broadcasts still match them.
LEMMA KeptStep ==
  ASSUME OneTransactionThroughout, TypeOK', BatchesKept, made' = made,
         chain \subseteq chain',
         \A b \in BatchId : posts'[b] = 0 \/ posts'[b] <= posts[b]
  PROVE  /\ UnusedIdsAreFresh'
         /\ RecordedTxIsAccepted'
         /\ PostsAreForAcceptedPayments'
<1> USE DEF OneTransactionThroughout, TypeOK
<1>0. \A b \in BatchId : posts[b] \in Nat /\ posts'[b] \in Nat /\ posts[b] >= 0
  BY BoundsAssumption
<1>1. UnusedIdsAreFresh'
  BY <1>0 DEF UnusedIdsAreFresh, BatchesKept, SamePayment
<1>2. RecordedTxIsAccepted'
  BY DEF RecordedTxIsAccepted, BatchesKept, SamePayment
<1>3. PostsAreForAcceptedPayments'
  BY <1>0 DEF PostsAreForAcceptedPayments, BatchesKept, SamePayment
<1> QED BY <1>1, <1>2, <1>3

\* The panel keeps matching its batch when both stay, or it starts over.
LEMMA KeptPanel ==
  ASSUME OneTransactionThroughout, TypeOK', BatchesKept, made' = made,
         \/ /\ panel'.active = NoBatch
            /\ panel'.phase = "packet-ready" => panel'.digest \in Digest
            /\ building' = "live" => panel'.open
         \/ /\ panel'.active = panel.active /\ panel'.digest = panel.digest
            /\ panel'.open = panel.open
            /\ building' \in {building, "no"}
            /\ panel'.phase = "packet-ready" => panel.phase = "packet-ready"
            /\ panel'.phase = "draft" => panel.phase = "draft"
  PROVE  PanelMatchesBatch'
<1>1. panel.active # NoBatch => panel.active \in BatchId
  BY DEF OneTransactionThroughout, TypeOK, Panel
<1> QED BY <1>1
  DEF OneTransactionThroughout, PanelMatchesBatch, ActiveBatch, BatchesKept, SamePayment

LEMMA KeptSends ==
  ASSUME OneTransactionThroughout, TypeOK', BatchesKept, made' = made,
         chain \subseteq chain',
         \A s \in sends' :
            \/ \E t \in sends : /\ s.kind = t.kind /\ s.b = t.b /\ s.d = t.d
                                /\ s.net = t.net \/ s.net = "error"
            \/ /\ s.net # "accepted" \/ s.d \in chain'
               /\ s.kind = "auto" => s.b # NoBatch
               /\ s.b # NoBatch => s.b <= made /\ batch[s.b].digest = s.d
  PROVE  SendsMatchBatches'
<1>1. \A s \in sends \union sends' : s.b # NoBatch => s.b \in BatchId
  BY DEF OneTransactionThroughout, TypeOK, Send
<1> QED BY <1>1
  DEF OneTransactionThroughout, SendsMatchBatches, BatchesKept, SamePayment

LEMMA KeptInv ==
  ASSUME OneTransactionThroughout, TypeOK', BatchesKept, made' = made,
         chain \subseteq chain',
         \A b \in BatchId : posts'[b] = 0 \/ posts'[b] <= posts[b],
         PanelMatchesBatch', SendsMatchBatches'
  PROVE  OneTransactionThroughout'
BY KeptStep DEF OneTransactionThroughout

LEMMA SameBatchesKept ==
  ASSUME TypeOK, batch' = batch
  PROVE  BatchesKept
BY DEF TypeOK, BatchesKept, SamePayment

LEMMA PanelType ==
  /\ FreshPanel \in Panel
  /\ NoPanel \in Panel
BY BlankRowsType DEF FreshPanel, NoPanel, Panel, BatchId, NoBatch

\* The facts every case of the induction step starts from.
LEMMA InvFacts ==
  ASSUME OneTransactionThroughout
  PROVE  /\ TypeOK
         /\ \A b \in BatchId : batch[b] \in Batch /\ posts[b] \in Nat
         /\ panel \in Panel
         /\ panel.active # NoBatch =>
              /\ panel.active \in BatchId
              /\ ActiveBatch \in Batch
              /\ ActiveBatch.state # "absent"
              /\ ActiveBatch.digest = panel.digest
BY BoundsAssumption DEF OneTransactionThroughout, TypeOK, PanelMatchesBatch, ActiveBatch, Panel

-----------------------------------------------------------------------------
(* The payment panel                                                       *)

LEMMA OpenPanelStep ==
  ASSUME OneTransactionThroughout, OpenPanel
  PROVE  OneTransactionThroughout'
<1>1. TypeOK'
  BY InvFacts, PanelType DEF OpenPanel, TypeOK
<1>2. BatchesKept
  BY InvFacts, SameBatchesKept DEF OpenPanel
<1>3. PanelMatchesBatch'
  BY <1>1, <1>2, KeptPanel DEF OpenPanel, FreshPanel
<1>4. SendsMatchBatches'
  BY <1>1, <1>2, KeptSends DEF OpenPanel
<1> QED BY <1>1, <1>2, <1>3, <1>4, InvFacts, KeptInv DEF OpenPanel

LEMMA LeavePanelStep ==
  ASSUME OneTransactionThroughout, LeavePanel
  PROVE  OneTransactionThroughout'
<1>1. sends' \in SUBSET Send
  <2>1. \A s \in Send : [s EXCEPT !.live = FALSE] \in Send
    BY DEF Send
  <2> QED BY <2>1, InvFacts DEF LeavePanel, TypeOK
<1>2. TypeOK'
  BY <1>1, InvFacts, PanelType DEF LeavePanel, TypeOK
<1>3. BatchesKept
  BY InvFacts, SameBatchesKept DEF LeavePanel
<1>4. PanelMatchesBatch'
  BY <1>2, <1>3, KeptPanel DEF LeavePanel, NoPanel, FreshPanel
<1>5. SendsMatchBatches'
  BY <1>2, <1>3, KeptSends, InvFacts DEF LeavePanel, TypeOK, Send
<1> QED BY <1>2, <1>3, <1>4, <1>5, InvFacts, KeptInv DEF LeavePanel

LEMMA ResetPanelStep ==
  ASSUME OneTransactionThroughout, ResetPanel
  PROVE  OneTransactionThroughout'
<1>1. panel' \in Panel
  BY InvFacts, PanelType DEF ResetPanel, Panel
<1>2. TypeOK'
  BY <1>1, InvFacts DEF ResetPanel, TypeOK
<1>3. BatchesKept
  BY InvFacts, SameBatchesKept DEF ResetPanel
<1>4. PanelMatchesBatch'
  BY <1>2, <1>3, KeptPanel DEF ResetPanel, FreshPanel
<1>5. SendsMatchBatches'
  BY <1>2, <1>3, KeptSends DEF ResetPanel
<1> QED BY <1>2, <1>3, <1>4, <1>5, InvFacts, KeptInv DEF ResetPanel

\* UpdateSigs, whatever rows it is given.
LEMMA UpdateSigsStep ==
  ASSUME OneTransactionThroughout, NEW rows \in Rows, UpdateSigs(rows)
  PROVE  OneTransactionThroughout'
<1>1. panel' \in Panel
  BY InvFacts DEF UpdateSigs, Panel
<1>2. batch' \in [BatchId -> Batch] /\ BatchesKept
  <2>1. CASE Active = NoBatch
    BY <2>1, InvFacts, SameBatchesKept DEF UpdateSigs, TypeOK
  <2>2. CASE Active # NoBatch
    <3> DEFINE r == [batch[Active] EXCEPT !.sigs = TypedEntries(rows)]
    <3>1. Active \in BatchId /\ batch[Active] \in Batch /\ batch[Active].state # "absent"
      BY <2>2, InvFacts DEF Active, ActiveBatch
    <3>2. SamePayment(batch[Active], r)
      BY <3>1, TypedEntriesType DEF SamePayment, Batch
    <3>3. batch' = [batch EXCEPT ![Active] = r]
      BY <2>2 DEF UpdateSigs
    <3> QED BY <3>1, <3>2, <3>3, OneBatchKept, InvFacts
  <2> QED BY <2>1, <2>2
<1>3. TypeOK'
  BY <1>1, <1>2, InvFacts DEF UpdateSigs, TypeOK
<1>4. PanelMatchesBatch'
  BY <1>2, <1>3, KeptPanel, InvFacts DEF UpdateSigs, Panel
<1>5. SendsMatchBatches'
  BY <1>2, <1>3, KeptSends DEF UpdateSigs
<1> QED BY <1>2, <1>3, <1>4, <1>5, InvFacts, KeptInv DEF UpdateSigs

LEMMA RowEditStep ==
  ASSUME OneTransactionThroughout, NEW i \in 1..M,
         \/ \E s \in Slot : ChooseSlot(i, s)
         \/ \E v \in TypedSignatures \union {Blank} : EnterSignature(i, v)
  PROVE  OneTransactionThroughout'
<1>1. panel.rows \in Rows /\ \A j \in 1..M : panel.rows[j] \in Row
  BY InvFacts DEF Panel, Rows
<1>2. ASSUME NEW s \in Slot, ChooseSlot(i, s)
      PROVE  OneTransactionThroughout'
  <2>1. [panel.rows[i] EXCEPT !.slot = s] \in Row
    BY <1>1 DEF Row
  <2>2. [panel.rows EXCEPT ![i].slot = s] \in Rows
    BY <1>1, <2>1 DEF Rows
  <2> QED BY <1>2, <2>2, UpdateSigsStep DEF ChooseSlot
<1>3. ASSUME NEW v \in TypedSignatures \union {Blank}, EnterSignature(i, v)
      PROVE  OneTransactionThroughout'
  <2>1. [panel.rows[i] EXCEPT !.sig = v] \in Row
    BY <1>1, InputsAssumption DEF Row
  <2>2. [panel.rows EXCEPT ![i].sig = v] \in Rows
    BY <1>1, <2>1 DEF Rows
  <2> QED BY <1>3, <2>2, UpdateSigsStep DEF EnterSignature
<1> QED BY <1>2, <1>3

\* Steps of the panel that rewrite the active batch and nothing else.
LEMMA ActiveBatchStep ==
  ASSUME OneTransactionThroughout, panel.active # NoBatch,
         NEW r, SamePayment(ActiveBatch, r),
         batch' = [batch EXCEPT ![Active] = r],
         UNCHANGED <<made, incoming, panel, sends, chain, posts, built, building>>
  PROVE  OneTransactionThroughout'
<1>1. batch' \in [BatchId -> Batch] /\ BatchesKept
  BY InvFacts, OneBatchKept DEF Active, ActiveBatch
<1>2. TypeOK'
  BY <1>1, InvFacts DEF TypeOK
<1>3. PanelMatchesBatch'
  BY <1>1, <1>2, KeptPanel
<1>4. SendsMatchBatches'
  BY <1>1, <1>2, KeptSends
<1> QED BY <1>1, <1>2, <1>3, <1>4, InvFacts, KeptInv

LEMMA ActiveStateKnown ==
  ASSUME OneTransactionThroughout, ActiveState # "none"
  PROVE  panel.active # NoBatch /\ ActiveState = ActiveBatch.state
BY DEF ActiveState, Active

LEMMA ToggleCancelRetryStep ==
  ASSUME OneTransactionThroughout, ToggleAuto \/ CancelCountdown \/ RetryBroadcast
  PROVE  OneTransactionThroughout'
<1>1. panel.active # NoBatch
  BY ActiveStateKnown DEF ToggleAuto, CancelCountdown, RetryBroadcast
<1>2. ActiveBatch \in Batch /\ ActiveBatch.state # "absent"
  BY <1>1, InvFacts
<1>3. CASE ToggleAuto
  <2>1. SamePayment(ActiveBatch, [ActiveBatch EXCEPT !.auto = ~ActiveBatch.auto])
    BY <1>2 DEF SamePayment, Batch
  <2>2. batch' = [batch EXCEPT ![Active] = [ActiveBatch EXCEPT !.auto = ~ActiveBatch.auto]]
    BY <1>3, <1>1, InvFacts DEF ToggleAuto, Active, ActiveBatch, TypeOK
  <2> QED BY <1>1, <1>3, <2>1, <2>2, ActiveBatchStep DEF ToggleAuto
<1>4. CASE CancelCountdown
  BY <1>1, <1>2, <1>4, StoreFunctionsKeep, ActiveBatchStep DEF CancelCountdown, Active, ActiveBatch
<1>5. CASE RetryBroadcast
  BY <1>1, <1>2, <1>5, StoreFunctionsKeep, ActiveBatchStep DEF RetryBroadcast, Active, ActiveBatch
<1> QED BY <1>3, <1>4, <1>5

\* A freshly started call is well formed while there is a free number for it.
LEMMA StartedType ==
  ASSUME NEW kind \in {"manual", "auto"}, NEW b \in BatchId \union {NoBatch},
         NEW d \in Digest, FreeIds # {}
  PROVE  Started(kind, b, d) \in Send
<1>1. (CHOOSE n \in FreeIds : TRUE) \in 1..MaxSends
  BY DEF FreeIds
<1> QED BY <1>1 DEF Started, Send

LEMMA IncomingType ==
  ASSUME OneTransactionThroughout, NEW d
  PROVE  [incoming EXCEPT ![d] = {}] \in [Digest -> SUBSET Envelope]
BY InvFacts DEF TypeOK

LEMMA StartBuildStep ==
  ASSUME OneTransactionThroughout, StartBuild
  PROVE  OneTransactionThroughout'
<1>1. /\ panel' \in Panel /\ panel'.open /\ panel'.phase = "draft"
      /\ panel'.active = NoBatch
  BY InvFacts DEF StartBuild, Panel, OneTransactionThroughout, PanelMatchesBatch
<1>2. TypeOK'
  BY <1>1, InvFacts DEF StartBuild, TypeOK
<1>3. BatchesKept
  BY InvFacts, SameBatchesKept DEF StartBuild
<1>4. PanelMatchesBatch'
  BY <1>1, <1>2, <1>3, KeptPanel DEF StartBuild
<1>5. SendsMatchBatches'
  BY <1>2, <1>3, KeptSends DEF StartBuild
<1> QED BY <1>2, <1>3, <1>4, <1>5, InvFacts, KeptInv DEF StartBuild

LEMMA BuildFailsStep ==
  ASSUME OneTransactionThroughout, BuildFails
  PROVE  OneTransactionThroughout'
<1>1. /\ panel' \in Panel /\ panel'.active = panel.active /\ panel'.open = panel.open
      /\ panel'.digest = panel.digest /\ panel'.phase = panel.phase
  BY InvFacts DEF BuildFails, Panel
<1>2. TypeOK'
  BY <1>1, InvFacts DEF BuildFails, TypeOK
<1>3. BatchesKept
  BY InvFacts, SameBatchesKept DEF BuildFails
<1>4. PanelMatchesBatch'
  BY <1>1, <1>2, <1>3, KeptPanel DEF BuildFails
<1>5. SendsMatchBatches'
  BY <1>2, <1>3, KeptSends DEF BuildFails
<1> QED BY <1>2, <1>3, <1>4, <1>5, InvFacts, KeptInv DEF BuildFails

LEMMA NewBatchFacts ==
  ASSUME NEW d \in Digest
  PROVE  /\ NewBatch(d) \in Batch
         /\ NewBatch(d).state = "calculated"
         /\ NewBatch(d).digest = d
         /\ NewBatch(d).txid = NoDigest
         /\ NewBatch(d).auto = FALSE
BY AbsentBatchType DEF NewBatch, AbsentBatch, Batch, BatchState

LEMMA BuildBatchStep ==
  ASSUME OneTransactionThroughout, NEW d \in Digest, BuildBatch(d)
  PROVE  OneTransactionThroughout'
<1> DEFINE new == NewBatch(d)
           drained == DrainEffect(new, BlankRows)
           r == IF building = "live" THEN drained.batch ELSE new
           id == made + 1
<1>1. id \in BatchId /\ made \in Nat
  BY InvFacts, BoundsAssumption DEF BuildBatch, TypeOK, BatchId
<1>2. new \in Batch /\ new.state # "absent" /\ new.digest = d /\ new.txid = NoDigest
  BY NewBatchFacts
<1>3. drained.batch = DrainInto(new, incoming[d])
  BY <1>2 DEF DrainEffect
<1>4. incoming[d] \in SUBSET Envelope
  BY InvFacts DEF TypeOK
<1>5. SamePayment(new, drained.batch) /\ SamePayment(new, r)
  <2>1. SamePayment(new, new)
    BY <1>2 DEF SamePayment
  <2> QED BY <1>2, <1>3, <1>4, <2>1, DrainIntoKeeps
<1>6. /\ r \in Batch /\ r.state # "absent"
      /\ r.digest = d /\ r.txid = NoDigest
  BY <1>2, <1>5 DEF SamePayment
<1>7. drained.rows \in Rows
  BY <1>3, <1>5, BlankRowsType, RefilledType DEF DrainEffect, SamePayment
<1> HIDE DEF new, drained, r
<1>8. /\ batch' = [batch EXCEPT ![id] = r]
      /\ IF building = "live"
         THEN /\ panel' = [panel EXCEPT !.phase = "packet-ready", !.active = id,
                                        !.digest = d, !.rows = drained.rows,
                                        !.busy = FALSE]
              /\ incoming' = [incoming EXCEPT ![d] = {}]
         ELSE UNCHANGED <<incoming, panel>>
      /\ made' = id
      /\ built' = built \union {d}
      /\ building' = "no"
      /\ UNCHANGED <<sends, chain, posts>>
  BY DEF BuildBatch, new, drained, r
<1>9. /\ batch' \in [BatchId -> Batch]
      /\ \A b \in BatchId : batch'[b] = IF b = id THEN r ELSE batch[b]
  BY <1>1, <1>6, <1>8, InvFacts DEF TypeOK
<1>10. /\ panel' \in Panel
       /\ \/ /\ panel'.active = id /\ panel'.digest = d
             /\ panel'.open /\ panel'.phase = "packet-ready"
          \/ panel' = panel
  <2>1. CASE building = "live"
    <3>1. panel.open
      BY <2>1 DEF OneTransactionThroughout, PanelMatchesBatch
    <3> QED BY <1>1, <1>7, <1>8, <2>1, <3>1, InvFacts DEF Panel
  <2>2. CASE building # "live"
    BY <1>8, <2>2, InvFacts
  <2> QED BY <2>1, <2>2
<1>11. made' \in 0..MaxBatches
  BY <1>1, <1>8 DEF BatchId
<1>12. TypeOK'
  BY <1>8, <1>9, <1>10, <1>11, IncomingType, InvFacts DEF TypeOK
<1>13. UnusedIdsAreFresh'
  BY <1>1, <1>6, <1>8, <1>9 DEF UnusedIdsAreFresh, OneTransactionThroughout, BatchId
<1>14. PanelMatchesBatch'
  <2>1. CASE /\ panel'.active = id /\ panel'.digest = d
             /\ panel'.open /\ panel'.phase = "packet-ready"
    BY <1>1, <1>6, <1>8, <1>9, <2>1 DEF PanelMatchesBatch, ActiveBatch
  <2>2. CASE panel' = panel
    <3>1. panel.active # NoBatch => panel.active \in BatchId /\ panel.active # id
      BY <1>1, InvFacts DEF OneTransactionThroughout, PanelMatchesBatch, BatchId
    <3> QED BY <1>1, <1>8, <1>9, <2>2, <3>1
        DEF OneTransactionThroughout, PanelMatchesBatch, ActiveBatch, BatchId
  <2> QED BY <1>10, <2>1, <2>2
<1>15. SendsMatchBatches'
  <2>1. \A s \in sends : s.b # NoBatch => s.b \in BatchId /\ s.b # id /\ s.b <= id
    BY <1>1, InvFacts DEF OneTransactionThroughout, SendsMatchBatches, TypeOK, Send, BatchId
  <2> QED BY <2>1, <1>8, <1>9 DEF OneTransactionThroughout, SendsMatchBatches
<1>16. RecordedTxIsAccepted'
  BY <1>6, <1>8, <1>9 DEF OneTransactionThroughout, RecordedTxIsAccepted
<1>17. PostsAreForAcceptedPayments'
  BY <1>1, <1>8, <1>9, InvFacts
  DEF OneTransactionThroughout, UnusedIdsAreFresh, PostsAreForAcceptedPayments, BatchId
<1> QED BY <1>12, <1>13, <1>14, <1>15, <1>16, <1>17 DEF OneTransactionThroughout

LEMMA BuildOneOffStep ==
  ASSUME OneTransactionThroughout, NEW d \in Digest, BuildOneOff(d)
  PROVE  OneTransactionThroughout'
<1>1. /\ panel' \in Panel /\ panel'.active = panel.active /\ panel'.open = panel.open
      /\ panel'.digest = d /\ panel'.phase = "packet-ready" /\ building' = "no"
  BY InvFacts, BlankRowsType DEF BuildOneOff, Panel
<1>2. TypeOK'
  BY <1>1, InvFacts DEF BuildOneOff, TypeOK
<1>3. BatchesKept
  BY InvFacts, SameBatchesKept DEF BuildOneOff
<1>4. PanelMatchesBatch'
  <2>1. panel.active = NoBatch
    BY DEF BuildOneOff, OneTransactionThroughout, PanelMatchesBatch
  <2> QED BY <2>1, <1>1, <1>2, <1>3, KeptPanel DEF BuildOneOff
<1>5. SendsMatchBatches'
  BY <1>2, <1>3, KeptSends DEF BuildOneOff
<1> QED BY <1>2, <1>3, <1>4, <1>5, InvFacts, KeptInv DEF BuildOneOff

LEMMA StartBroadcastStep ==
  ASSUME OneTransactionThroughout, StartBroadcast
  PROVE  OneTransactionThroughout'
<1>1. panel.digest \in Digest /\ panel.active \in BatchId \union {NoBatch}
  BY InvFacts DEF StartBroadcast, SignaturesShown, OneTransactionThroughout,
     PanelMatchesBatch, Panel
<1>2. batch' \in [BatchId -> Batch] /\ BatchesKept
  <2>1. CASE Active # NoBatch /\ canTransition(ActiveState, "approved")
    <3>1. Active \in BatchId /\ batch[Active] \in Batch /\ batch[Active].state # "absent"
      BY <2>1, InvFacts DEF Active, ActiveBatch
    <3>2. SamePayment(batch[Active], MoveTo(batch[Active], "approved"))
      BY <3>1, StoreFunctionsKeep DEF BatchState
    <3>3. batch' = [batch EXCEPT ![Active] = MoveTo(batch[Active], "approved")]
      BY <2>1, <3>1, InvFacts DEF StartBroadcast, MoveTo, TypeOK
    <3> QED BY <3>1, <3>2, <3>3, OneBatchKept, InvFacts
  <2>2. CASE ~(Active # NoBatch /\ canTransition(ActiveState, "approved"))
    BY <2>2, InvFacts, SameBatchesKept DEF StartBroadcast, TypeOK
  <2> QED BY <2>1, <2>2
<1>3. /\ panel' \in Panel /\ panel'.active = panel.active
      /\ panel'.digest = panel.digest /\ panel'.open = panel.open
      /\ panel'.phase = panel.phase
  <2>1. panel \in Panel
    BY InvFacts
  <2> QED BY <2>1 DEF StartBroadcast, Panel
<1>4. \/ sends' = sends
      \/ /\ sends' = sends \union {Started("manual", Active, panel.digest)}
         /\ FreeIds # {}
  BY DEF StartBroadcast
<1>5. sends' \in SUBSET Send
  <2>1. sends \in SUBSET Send
    BY InvFacts DEF TypeOK
  <2>2. FreeIds # {} => Started("manual", Active, panel.digest) \in Send
    BY <1>1, StartedType DEF Active
  <2> QED BY <1>4, <2>1, <2>2
<1>6. TypeOK'
  BY <1>2, <1>3, <1>5, InvFacts DEF StartBroadcast, TypeOK
<1>7. PanelMatchesBatch'
  BY <1>2, <1>3, <1>6, KeptPanel DEF StartBroadcast
<1>8. SendsMatchBatches'
  BY <1>1, <1>2, <1>4, <1>6, KeptSends, InvFacts
  DEF StartBroadcast, Started, Active, ActiveBatch, OneTransactionThroughout, PanelMatchesBatch
<1> QED BY <1>2, <1>6, <1>7, <1>8, InvFacts, KeptInv DEF StartBroadcast

LEMMA CountdownElapsesStep ==
  ASSUME OneTransactionThroughout, NEW rpcUrlSet \in BOOLEAN, CountdownElapses(rpcUrlSet)
  PROVE  OneTransactionThroughout'
<1> DEFINE r == ActiveBatch
           sendable == rpcUrlSet /\ r.digest # NoDigest /\ r.sigs # {}
           claimed == sendable /\ Claims(r)
           merges == claimed /\ Mergeable(r.sigs)
           r2 == IF ~sendable THEN markBroadcastFailed(r)
                 ELSE IF claimed /\ ~merges
                   THEN markBroadcastFailed(markBroadcastInitiating(r))
                 ELSE markBroadcastInitiating(r)
<1>1. /\ panel.active # NoBatch /\ Active \in BatchId /\ Active = panel.active
      /\ r \in Batch /\ r.state # "absent" /\ r.digest = panel.digest
  BY ActiveStateKnown, InvFacts DEF CountdownElapses, Active
<1>2. SamePayment(r, r2)
  <2>1. SamePayment(r, markBroadcastInitiating(r))
    BY <1>1, StoreFunctionsKeep
  <2>2. /\ markBroadcastInitiating(r) \in Batch
        /\ markBroadcastInitiating(r).state # "absent"
    BY <1>1, <2>1 DEF SamePayment
  <2>3. SamePayment(markBroadcastInitiating(r),
                    markBroadcastFailed(markBroadcastInitiating(r)))
    BY <2>2, StoreFunctionsKeep
  <2>4. SamePayment(r, markBroadcastFailed(markBroadcastInitiating(r)))
    BY <1>1, <2>1, <2>3 DEF SamePayment
  <2>5. SamePayment(r, markBroadcastFailed(r))
    BY <1>1, StoreFunctionsKeep
  <2> QED BY <2>1, <2>4, <2>5
<1>3. merges => r.digest \in Digest
  BY <1>1 DEF Batch
<1> HIDE DEF r2
<1>4. /\ batch' = [batch EXCEPT ![Active] = r2]
      /\ merges => FreeIds # {}
      /\ sends' = IF merges THEN sends \union {Started("auto", Active, r.digest)}
                  ELSE sends
      /\ UNCHANGED <<made, incoming, panel, chain, posts, built, building>>
  BY <1>1, InvFacts DEF CountdownElapses, r2, TypeOK, Active, ActiveBatch
<1> HIDE DEF merges
<1>5. batch' \in [BatchId -> Batch] /\ BatchesKept
  BY <1>1, <1>2, <1>4, OneBatchKept, InvFacts DEF Active, ActiveBatch
<1>6. sends' \in SUBSET Send
  BY <1>1, <1>3, <1>4, StartedType, InvFacts DEF TypeOK
<1>7. TypeOK'
  BY <1>4, <1>5, <1>6, InvFacts DEF TypeOK
<1>8. PanelMatchesBatch'
  BY <1>4, <1>5, <1>7, KeptPanel
<1>9. SendsMatchBatches'
  BY <1>1, <1>4, <1>5, <1>7, KeptSends
  DEF Started, Active, ActiveBatch, OneTransactionThroughout, PanelMatchesBatch
<1> QED BY <1>4, <1>5, <1>7, <1>8, <1>9, InvFacts, KeptInv

-----------------------------------------------------------------------------
(* Broadcasts in flight                                                    *)

LEMMA BecomeType ==
  ASSUME OneTransactionThroughout, NEW s \in sends,
         NEW net \in {"pending", "accepted", "error"}
  PROVE  Become(s, net) \in SUBSET Send
<1>1. s \in Send /\ [s EXCEPT !.net = net] \in Send
  BY InvFacts DEF TypeOK, Send
<1> QED BY <1>1, InvFacts DEF Become, TypeOK

LEMMA NodeAcceptsStep ==
  ASSUME OneTransactionThroughout, NEW s \in sends, NodeAccepts(s)
  PROVE  OneTransactionThroughout'
<1>1. s \in Send
  BY InvFacts DEF TypeOK
<1>2. TypeOK'
  BY <1>1, BecomeType, InvFacts DEF NodeAccepts, TypeOK, Send
<1>3. BatchesKept
  BY InvFacts, SameBatchesKept DEF NodeAccepts
<1>4. PanelMatchesBatch'
  BY <1>2, <1>3, KeptPanel DEF NodeAccepts
<1>5. chain \subseteq chain' /\ s.d \in chain'
  BY DEF NodeAccepts
<1>6. SendsMatchBatches'
  <2>1. sends' = (sends \ {s}) \union {[s EXCEPT !.net = "accepted"]}
    BY DEF NodeAccepts, Become
  <2>2. \A t \in sends' : \/ t \in sends
                          \/ /\ t.kind = s.kind /\ t.b = s.b /\ t.d = s.d
    BY <1>1, <2>1 DEF Send
  <2> QED BY <1>1, <1>5, <2>2
      DEF NodeAccepts, OneTransactionThroughout, SendsMatchBatches
<1> QED BY <1>2, <1>3, <1>4, <1>5, <1>6, InvFacts, KeptInv DEF NodeAccepts

LEMMA CallFailsStep ==
  ASSUME OneTransactionThroughout, NEW s \in sends, CallFails(s)
  PROVE  OneTransactionThroughout'
<1>1. s \in Send
  BY InvFacts DEF TypeOK
<1>2. TypeOK'
  BY <1>1, BecomeType, InvFacts DEF CallFails, TypeOK
<1>3. BatchesKept
  BY InvFacts, SameBatchesKept DEF CallFails
<1>4. PanelMatchesBatch'
  BY <1>2, <1>3, KeptPanel DEF CallFails
<1>5. SendsMatchBatches'
  <2>1. \A t \in sends' : \/ t \in sends
                          \/ /\ t.kind = s.kind /\ t.b = s.b /\ t.d = s.d
                             /\ t.net = "error"
    BY <1>1 DEF CallFails, Become, Send
  <2> QED BY <1>2, <1>3, <2>1, KeptSends DEF CallFails
<1> QED BY <1>2, <1>3, <1>4, <1>5, InvFacts, KeptInv DEF CallFails

LEMMA PanelAfterFacts ==
  ASSUME OneTransactionThroughout, NEW s \in sends
  PROVE  /\ PanelAfter(s) \in Panel
         /\ PanelAfter(s).active = panel.active
         /\ PanelAfter(s).digest = panel.digest
         /\ PanelAfter(s).open = panel.open
         /\ PanelAfter(s).phase \in {panel.phase, "broadcasted"}
BY InvFacts DEF PanelAfter, Panel

\* A reply that records nothing.
LEMMA ReplyKeepsStep ==
  ASSUME OneTransactionThroughout, NEW s \in sends,
         batch' \in [BatchId -> Batch], BatchesKept,
         sends' = sends \ {s}, panel' = PanelAfter(s),
         UNCHANGED <<made, incoming, chain, posts, built, building>>
  PROVE  OneTransactionThroughout'
<1>1. TypeOK'
  BY PanelAfterFacts, InvFacts DEF TypeOK
<1>2. PanelMatchesBatch'
  BY <1>1, KeptPanel, PanelAfterFacts
<1>3. SendsMatchBatches'
  BY <1>1, KeptSends
<1> QED BY <1>1, <1>2, <1>3, InvFacts, KeptInv

\* A reply that records the hash of the transaction the call carried.
LEMMA ReplyRecordsStep ==
  ASSUME OneTransactionThroughout, NEW s \in sends,
         s.net = "accepted", s.b # NoBatch, batch[s.b].state # "absent",
         batch' = [batch EXCEPT ![s.b] = RecordBroadcast(batch[s.b], s.d)],
         sends' = sends \ {s}, panel' = PanelAfter(s),
         UNCHANGED <<made, incoming, chain, posts, built, building>>
  PROVE  OneTransactionThroughout'
<1> DEFINE r == RecordBroadcast(batch[s.b], s.d)
<1>1. /\ s.b \in BatchId /\ s.d \in Digest /\ s.d \in chain
      /\ s.b <= made /\ batch[s.b].digest = s.d
  BY InvFacts DEF TypeOK, Send, OneTransactionThroughout, SendsMatchBatches
<1>2. r \in Batch /\ r.state # "absent" /\ r.digest = s.d /\ r.txid = s.d
  <2>1. batch[s.b] \in Batch
    BY <1>1, InvFacts
  <2>2. r \in Batch
    BY <1>1, <2>1, StoreFunctionsType
  <2> QED BY <1>1, <2>1, <2>2 DEF RecordBroadcast, Batch
<1> HIDE DEF r
<1>3. /\ batch' \in [BatchId -> Batch]
      /\ \A b \in BatchId : batch'[b] = IF b = s.b THEN r ELSE batch[b]
  BY <1>1, <1>2, InvFacts DEF TypeOK, r
<1>4. TypeOK'
  BY <1>3, PanelAfterFacts, InvFacts DEF TypeOK
<1>5. UnusedIdsAreFresh'
  BY <1>1, <1>2, <1>3, InvFacts
  DEF OneTransactionThroughout, UnusedIdsAreFresh, TypeOK, BatchId
<1>6. PanelMatchesBatch'
  BY <1>1, <1>2, <1>3, PanelAfterFacts, InvFacts
  DEF OneTransactionThroughout, PanelMatchesBatch, ActiveBatch
<1>7. SendsMatchBatches'
  <2>1. \A t \in sends : t.b # NoBatch => t.b \in BatchId
    BY InvFacts DEF TypeOK, Send
  <2> QED BY <2>1, <1>1, <1>2, <1>3 DEF OneTransactionThroughout, SendsMatchBatches
<1>8. RecordedTxIsAccepted'
  BY <1>1, <1>2, <1>3 DEF OneTransactionThroughout, RecordedTxIsAccepted
<1>9. PostsAreForAcceptedPayments'
  BY <1>1, <1>2, <1>3 DEF OneTransactionThroughout, PostsAreForAcceptedPayments
<1> QED BY <1>4, <1>5, <1>6, <1>7, <1>8, <1>9 DEF OneTransactionThroughout

LEMMA AbsentHasNoMove == \A to \in BatchState : ~canTransition("absent", to)
  BY DEF canTransition, Edges, BatchState

LEMMA ManualSendReturnsStep ==
  ASSUME OneTransactionThroughout, NEW s \in sends, ManualSendReturns(s)
  PROVE  OneTransactionThroughout'
<1>1. CASE /\ s.net = "accepted" /\ s.b # NoBatch
           /\ canTransition(batch[s.b].state, "broadcasted")
  <2>1. s.b \in BatchId /\ batch[s.b].state # "absent"
    BY <1>1, AbsentHasNoMove, InvFacts DEF BatchState, TypeOK, Send
  <2> QED BY <1>1, <2>1, ReplyRecordsStep DEF ManualSendReturns
<1>2. CASE ~(/\ s.net = "accepted" /\ s.b # NoBatch
             /\ canTransition(batch[s.b].state, "broadcasted"))
  <2>1. batch' = batch
    BY <1>2 DEF ManualSendReturns
  <2> QED BY <2>1, SameBatchesKept, ReplyKeepsStep, InvFacts DEF ManualSendReturns, TypeOK
<1> QED BY <1>1, <1>2

LEMMA AutoSendReturnsStep ==
  ASSUME OneTransactionThroughout, NEW s \in sends, AutoSendReturns(s)
  PROVE  OneTransactionThroughout'
<1>1. s.b # NoBatch /\ s.b \in BatchId
  BY InvFacts DEF AutoSendReturns, OneTransactionThroughout, SendsMatchBatches, TypeOK, Send
<1>2. batch \in [BatchId -> Batch] /\ batch[s.b] \in Batch
  BY <1>1, InvFacts DEF TypeOK
<1>3. CASE s.net = "accepted" /\ canTransition(batch[s.b].state, "broadcasted")
  <2>1. batch[s.b].state # "absent"
    BY <1>3, AbsentHasNoMove DEF BatchState
  <2>2. batch' = [batch EXCEPT ![s.b] = RecordBroadcast(batch[s.b], s.d)]
    BY <1>1, <1>2, <1>3 DEF AutoSendReturns
  <2> QED BY <1>1, <1>3, <2>1, <2>2, ReplyRecordsStep DEF AutoSendReturns
<1>4. CASE ~(s.net = "accepted" /\ canTransition(batch[s.b].state, "broadcasted"))
  <2>1. batch' = [batch EXCEPT ![s.b] = markBroadcastFailed(batch[s.b])]
    BY <1>1, <1>2, <1>4 DEF AutoSendReturns
  <2>2. SamePayment(batch[s.b], markBroadcastFailed(batch[s.b]))
    <3>1. CASE batch[s.b].state = "absent"
      BY <3>1, <1>2, AbsentHasNoMove DEF markBroadcastFailed, SamePayment, BatchState
    <3> QED BY <3>1, <1>2, StoreFunctionsKeep
  <2>3. batch' \in [BatchId -> Batch] /\ BatchesKept
    BY <1>1, <2>1, <2>2, OneBatchKept, InvFacts
  <2> QED BY <2>3, ReplyKeepsStep DEF AutoSendReturns
<1> QED BY <1>3, <1>4

-----------------------------------------------------------------------------
(* The batch list and accounting                                           *)

\* Steps of the list that rewrite one batch and start or end no post.
LEMMA ListBatchStep ==
  ASSUME OneTransactionThroughout, NEW b \in BatchId,
         NEW r, SamePayment(batch[b], r), batch' = [batch EXCEPT ![b] = r],
         posts' \in [BatchId -> 0..MaxPosts],
         \A c \in BatchId : posts'[c] <= posts[c],
         UNCHANGED <<made, incoming, panel, sends, chain, built, building>>
  PROVE  OneTransactionThroughout'
<1>1. batch' \in [BatchId -> Batch] /\ BatchesKept
  BY InvFacts, OneBatchKept
<1>2. TypeOK'
  BY <1>1, InvFacts DEF TypeOK
<1>3. PanelMatchesBatch'
  BY <1>1, <1>2, KeptPanel
<1>4. SendsMatchBatches'
  BY <1>1, <1>2, KeptSends
<1> QED BY <1>1, <1>2, <1>3, <1>4, InvFacts, KeptInv

LEMMA CreateDraftStep ==
  ASSUME OneTransactionThroughout, CreateDraft
  PROVE  OneTransactionThroughout'
<1> DEFINE r == MoveTo(AbsentBatch, "draft")
           id == made + 1
<1>1. id \in BatchId /\ made \in Nat
  BY InvFacts, BoundsAssumption DEF CreateDraft, TypeOK, BatchId
<1>2. r \in Batch /\ r.state # "absent" /\ r.txid = NoDigest
  BY AbsentBatchType DEF AbsentBatch, MoveTo, Batch, BatchState
<1> HIDE DEF r
<1>3. batch' = [batch EXCEPT ![id] = r] /\ made' = id
      /\ UNCHANGED <<incoming, panel, sends, chain, posts, built, building>>
  BY DEF CreateDraft, r
<1>4. /\ batch' \in [BatchId -> Batch]
      /\ \A b \in BatchId : batch'[b] = IF b = id THEN r ELSE batch[b]
  BY <1>1, <1>2, <1>3, InvFacts DEF TypeOK
<1>5. TypeOK'
  BY <1>1, <1>3, <1>4, InvFacts DEF TypeOK, BatchId
<1>6. UnusedIdsAreFresh'
  BY <1>1, <1>2, <1>3, <1>4 DEF UnusedIdsAreFresh, OneTransactionThroughout, BatchId
<1>7. PanelMatchesBatch'
  <2>1. panel.active = NoBatch
    BY DEF CreateDraft, OneTransactionThroughout, PanelMatchesBatch
  <2> QED BY <2>1, <1>3 DEF OneTransactionThroughout, PanelMatchesBatch
<1>8. SendsMatchBatches'
  <2>1. \A s \in sends : s.b # NoBatch => s.b \in BatchId /\ s.b # id /\ s.b <= id
    BY <1>1, InvFacts DEF OneTransactionThroughout, SendsMatchBatches, TypeOK, Send, BatchId
  <2> QED BY <2>1, <1>3, <1>4 DEF OneTransactionThroughout, SendsMatchBatches
<1>9. RecordedTxIsAccepted'
  BY <1>2, <1>3, <1>4 DEF OneTransactionThroughout, RecordedTxIsAccepted
<1>10. PostsAreForAcceptedPayments'
  BY <1>1, <1>3, <1>4, InvFacts
  DEF OneTransactionThroughout, UnusedIdsAreFresh, PostsAreForAcceptedPayments, BatchId
<1> QED BY <1>5, <1>6, <1>7, <1>8, <1>9, <1>10 DEF OneTransactionThroughout

\* postBatchJournal up to its await, called with the batch moved to some state.
LEMMA PostBatchJournalStep ==
  ASSUME OneTransactionThroughout, NEW b \in BatchId, NEW r,
         batch[b].state # "absent", SamePayment(batch[b], r),
         PostBatchJournal(b, r),
         UNCHANGED <<made, incoming, panel, sends, chain, built, building>>
  PROVE  OneTransactionThroughout'
<1>1. r \in Batch /\ r.state # "absent" /\ r.txid = batch[b].txid
  BY DEF SamePayment
<1>2. SamePayment(batch[b], MoveTo(r, "posting")) /\ SamePayment(batch[b], MoveTo(r, "post_failed"))
  <2>1. /\ SamePayment(r, MoveTo(r, "posting"))
        /\ SamePayment(r, MoveTo(r, "post_failed"))
    BY <1>1, StoreFunctionsKeep DEF BatchState
  <2> QED BY <2>1 DEF SamePayment
<1>3. CASE ~Postable(r)
  <2>1. \A c \in BatchId : posts[c] <= posts[c]
    BY InvFacts
  <2> QED BY <1>2, <1>3, <2>1, ListBatchStep, InvFacts DEF PostBatchJournal, TypeOK
<1>4. CASE Postable(r)
  <2>1. /\ batch' = [batch EXCEPT ![b] = MoveTo(r, "posting")]
        /\ posts' = [posts EXCEPT ![b] = posts[b] + 1]
        /\ posts[b] < MaxPosts
    BY <1>4, InvFacts DEF PostBatchJournal, TypeOK
  <2>2. batch' \in [BatchId -> Batch] /\ BatchesKept
    BY <1>2, <2>1, InvFacts, OneBatchKept
  <2>3. posts' \in [BatchId -> 0..MaxPosts]
    BY <2>1, InvFacts, BoundsAssumption DEF TypeOK
  <2>4. TypeOK'
    BY <2>2, <2>3, InvFacts DEF TypeOK
  <2>5. PanelMatchesBatch'
    BY <2>2, <2>4, KeptPanel
  <2>6. SendsMatchBatches'
    BY <2>2, <2>4, KeptSends
  <2>7. RecordedTxIsAccepted'
    BY <2>2 DEF OneTransactionThroughout, RecordedTxIsAccepted, BatchesKept, SamePayment
  <2>8. \A c \in BatchId : c # b => posts'[c] = posts[c]
    BY <2>1, InvFacts DEF TypeOK
  <2>9. b <= made
    BY InvFacts DEF OneTransactionThroughout, UnusedIdsAreFresh, TypeOK, BatchId
  <2>10. UnusedIdsAreFresh'
    BY <2>2, <2>8, <2>9, InvFacts
    DEF OneTransactionThroughout, UnusedIdsAreFresh, BatchesKept, SamePayment, TypeOK, BatchId
  <2>11. batch'[b].txid # NoDigest
    BY <1>1, <1>4, <2>2 DEF Postable, BatchesKept, SamePayment
  <2>12. PostsAreForAcceptedPayments'
    BY <2>2, <2>7, <2>8, <2>11
    DEF OneTransactionThroughout, RecordedTxIsAccepted, PostsAreForAcceptedPayments,
        BatchesKept, SamePayment
  <2> QED BY <2>4, <2>5, <2>6, <2>7, <2>10, <2>12 DEF OneTransactionThroughout
<1> QED BY <1>3, <1>4

LEMMA PressTransitionStep ==
  ASSUME OneTransactionThroughout, NEW b \in BatchId, NEW to \in BatchState,
         PressTransition(b, to)
  PROVE  OneTransactionThroughout'
<1>1. batch[b] \in Batch /\ batch[b].state # "absent"
  BY AbsentHasNoMove, InvFacts DEF PressTransition
<1>2. SamePayment(batch[b], MoveTo(batch[b], to))
  BY <1>1, StoreFunctionsKeep
<1>3. CASE to = "confirmed"
  BY <1>1, <1>2, <1>3, PostBatchJournalStep DEF PressTransition
<1>4. CASE to # "confirmed"
  <2>1. batch' = [batch EXCEPT ![b] = MoveTo(batch[b], to)] /\ posts' = posts
    BY <1>4, InvFacts DEF PressTransition, TypeOK
  <2>2. posts' \in [BatchId -> 0..MaxPosts] /\ \A c \in BatchId : posts'[c] <= posts[c]
    BY <2>1, InvFacts DEF TypeOK
  <2> QED BY <1>2, <2>1, <2>2, ListBatchStep DEF PressTransition
<1> QED BY <1>3, <1>4

LEMMA RetryPostStep ==
  ASSUME OneTransactionThroughout, NEW b \in BatchId, RetryPost(b)
  PROVE  OneTransactionThroughout'
<1>1. SamePayment(batch[b], batch[b]) /\ batch[b].state # "absent"
  BY InvFacts DEF RetryPost, SamePayment
<1> QED BY <1>1, PostBatchJournalStep DEF RetryPost

LEMMA PostReturnsStep ==
  ASSUME OneTransactionThroughout, NEW b \in BatchId, NEW ok \in BOOLEAN,
         PostReturns(b, ok)
  PROVE  OneTransactionThroughout'
<1> DEFINE r == IF batch[b].state = "posting"
                THEN MoveTo(batch[b], IF ok THEN "posted" ELSE "post_failed")
                ELSE batch[b]
<1>1. SamePayment(batch[b], r)
  <2>1. CASE batch[b].state = "posting"
    <3>1. (IF ok THEN "posted" ELSE "post_failed") \in BatchState
      BY DEF BatchState
    <3> QED BY <2>1, <3>1, InvFacts, StoreFunctionsKeep
  <2>2. CASE batch[b].state # "posting"
    BY <2>2, InvFacts DEF SamePayment
  <2> QED BY <2>1, <2>2
<1>2. batch' = [batch EXCEPT ![b] = r]
  BY InvFacts DEF PostReturns, TypeOK
<1>3. /\ posts' \in [BatchId -> 0..MaxPosts]
      /\ \A c \in BatchId : posts'[c] <= posts[c]
  BY InvFacts, BoundsAssumption DEF PostReturns, TypeOK
<1> QED BY <1>1, <1>2, <1>3, ListBatchStep DEF PostReturns

LEMMA RemoveBatchStep ==
  ASSUME OneTransactionThroughout, NEW b \in BatchId, RemoveBatch(b)
  PROVE  OneTransactionThroughout'
<1>1. /\ batch' \in [BatchId -> Batch]
      /\ \A c \in BatchId : batch'[c] = IF c = b THEN AbsentBatch ELSE batch[c]
  BY AbsentBatchType, InvFacts DEF RemoveBatch, TypeOK
<1>2. AbsentBatch.state = "absent" /\ AbsentBatch.txid = NoDigest
  BY DEF AbsentBatch
<1>3. panel.active = NoBatch
  BY DEF RemoveBatch, OneTransactionThroughout, PanelMatchesBatch
<1>4. TypeOK'
  BY <1>1, InvFacts DEF RemoveBatch, TypeOK
<1>5. UnusedIdsAreFresh'
  BY <1>1, <1>2 DEF RemoveBatch, OneTransactionThroughout, UnusedIdsAreFresh
<1>6. PanelMatchesBatch'
  BY <1>3 DEF RemoveBatch, OneTransactionThroughout, PanelMatchesBatch
<1>7. SendsMatchBatches'
  <2>1. \A s \in sends : s.b # NoBatch => s.b \in BatchId
    BY InvFacts DEF TypeOK, Send
  <2> QED BY <2>1, <1>1, <1>2 DEF RemoveBatch, OneTransactionThroughout, SendsMatchBatches
<1>8. RecordedTxIsAccepted'
  BY <1>1, <1>2 DEF RemoveBatch, OneTransactionThroughout, RecordedTxIsAccepted
<1>9. PostsAreForAcceptedPayments'
  BY <1>1, <1>2 DEF RemoveBatch, OneTransactionThroughout, PostsAreForAcceptedPayments
<1> QED BY <1>4, <1>5, <1>6, <1>7, <1>8, <1>9 DEF OneTransactionThroughout

LEMMA ResumeBatchStep ==
  ASSUME OneTransactionThroughout, NEW b \in BatchId, ResumeBatch(b)
  PROVE  OneTransactionThroughout'
<1> DEFINE d == batch[b].digest
           drained == DrainEffect(batch[b], Refilled(BlankRows, batch[b]))
           r == drained.batch
<1>1. batch[b] \in Batch /\ batch[b].state # "absent" /\ d \in Digest
  BY InvFacts DEF ResumeBatch, Batch
<1>2. r = DrainInto(batch[b], incoming[d])
  BY DEF DrainEffect
<1>3. SamePayment(batch[b], r)
  BY <1>1, <1>2, DrainIntoKeeps, InvFacts DEF TypeOK
<1>4. drained.rows \in Rows
  <2>1. Refilled(BlankRows, batch[b]) \in Rows
    BY <1>1, BlankRowsType, RefilledType
  <2>2. r \in Batch
    BY <1>3 DEF SamePayment
  <2> QED BY <1>2, <2>1, <2>2, RefilledType DEF DrainEffect
<1> HIDE DEF drained, r
<1>5. /\ batch' = [batch EXCEPT ![b] = r]
      /\ panel' = [FreshPanel EXCEPT !.phase = "packet-ready", !.active = b,
                                     !.digest = d, !.rows = drained.rows]
      /\ incoming' = [incoming EXCEPT ![d] = {}]
      /\ UNCHANGED <<made, sends, chain, posts, built, building>>
  BY DEF ResumeBatch, drained, r
<1>6. batch' \in [BatchId -> Batch] /\ BatchesKept
  BY <1>3, <1>5, OneBatchKept, InvFacts
<1>7. /\ panel' \in Panel /\ panel'.active = b /\ panel'.digest = d
      /\ panel'.open /\ panel'.phase = "packet-ready"
  BY <1>1, <1>4, <1>5, PanelType DEF FreshPanel, Panel
<1>8. TypeOK'
  BY <1>5, <1>6, <1>7, IncomingType, InvFacts DEF TypeOK
<1>9. PanelMatchesBatch'
  <2>1. b <= made
    BY <1>1, InvFacts DEF OneTransactionThroughout, UnusedIdsAreFresh, TypeOK, BatchId
  <2>2. batch'[b].state # "absent" /\ batch'[b].digest = d
    BY <1>1, <1>6 DEF BatchesKept, SamePayment
  <2>3. building' # "live"
    BY <1>5 DEF ResumeBatch, OneTransactionThroughout, PanelMatchesBatch
  <2> QED BY <1>1, <1>5, <1>7, <2>1, <2>2, <2>3 DEF PanelMatchesBatch, ActiveBatch
<1>10. SendsMatchBatches'
  BY <1>5, <1>6, <1>8, KeptSends
<1> QED BY <1>5, <1>6, <1>8, <1>9, <1>10, InvFacts, KeptInv

-----------------------------------------------------------------------------
(* The comm channel and the application                                    *)

LEMMA DeliverSignatureStep ==
  ASSUME OneTransactionThroughout, NEW d \in Digest, NEW e \in CommSignatures,
         DeliverSignature(d, e)
  PROVE  OneTransactionThroughout'
<1> DEFINE buffer == incoming[d] \union {e}
<1>1. buffer \in SUBSET Envelope
  BY InvFacts, InputsAssumption DEF TypeOK
<1>2. incoming' \in [Digest -> SUBSET Envelope]
  BY <1>1, InvFacts DEF DeliverSignature, TypeOK
<1>3. batch' \in [BatchId -> Batch] /\ BatchesKept
  <2>1. CASE FirstHolder(d) = {}
    BY <2>1, InvFacts, SameBatchesKept DEF DeliverSignature, TypeOK
  <2>2. CASE FirstHolder(d) # {}
    <3>1. PICK b \in FirstHolder(d) : batch' = [batch EXCEPT ![b] = DrainInto(batch[b], buffer)]
      BY <2>2, InvFacts DEF DeliverSignature, FirstHolder, Holders, TypeOK
    <3>2. b \in BatchId /\ batch[b].digest = d /\ batch[b] \in Batch
      BY InvFacts DEF FirstHolder, Holders
    <3>3. batch[b].state # "absent"
      BY <3>2, NoDigestAssumption DEF OneTransactionThroughout, UnusedIdsAreFresh, AbsentBatch
    <3>4. SamePayment(batch[b], DrainInto(batch[b], buffer))
      BY <1>1, <3>2, <3>3, DrainIntoKeeps
    <3> QED BY <3>1, <3>2, <3>4, OneBatchKept, InvFacts
  <2> QED BY <2>1, <2>2
<1>4. TypeOK'
  BY <1>2, <1>3, InvFacts DEF DeliverSignature, TypeOK
<1>5. PanelMatchesBatch'
  BY <1>3, <1>4, KeptPanel DEF DeliverSignature
<1>6. SendsMatchBatches'
  BY <1>3, <1>4, KeptSends DEF DeliverSignature
<1> QED BY <1>3, <1>4, <1>5, <1>6, InvFacts, KeptInv DEF DeliverSignature

LEMMA RestartStep ==
  ASSUME OneTransactionThroughout, Restart
  PROVE  OneTransactionThroughout'
<1>1. batch' \in [BatchId -> Batch]
  BY InvFacts, RecoverKeeps DEF Restart, SamePayment
<1>2. BatchesKept
  BY InvFacts, RecoverKeeps DEF Restart, BatchesKept
<1>3. TypeOK'
  BY <1>1, InvFacts, PanelType, BoundsAssumption DEF Restart, TypeOK
<1>4. PanelMatchesBatch'
  BY <1>2, <1>3, KeptPanel DEF Restart, NoPanel, FreshPanel
<1>5. SendsMatchBatches'
  BY DEF Restart, SendsMatchBatches
<1> QED BY <1>2, <1>3, <1>4, <1>5, KeptInv DEF Restart

-----------------------------------------------------------------------------
(* The theorems                                                            *)

LEMMA InitEstablishes == Init => OneTransactionThroughout
<1> SUFFICES ASSUME Init PROVE OneTransactionThroughout
  OBVIOUS
<1>1. TypeOK
  BY AbsentBatchType, PanelType, BoundsAssumption DEF Init, TypeOK
<1>2. UnusedIdsAreFresh /\ RecordedTxIsAccepted /\ PostsAreForAcceptedPayments
  BY DEF Init, UnusedIdsAreFresh, RecordedTxIsAccepted, PostsAreForAcceptedPayments,
         AbsentBatch
<1>3. PanelMatchesBatch /\ SendsMatchBatches
  BY DEF Init, PanelMatchesBatch, SendsMatchBatches, NoPanel, FreshPanel
<1> QED BY <1>1, <1>2, <1>3 DEF OneTransactionThroughout

LEMMA StepPreserves ==
  OneTransactionThroughout /\ [Next]_vars => OneTransactionThroughout'
<1> SUFFICES ASSUME OneTransactionThroughout, [Next]_vars
             PROVE  OneTransactionThroughout'
  OBVIOUS
<1>1. CASE PanelStep
  BY <1>1, OpenPanelStep, LeavePanelStep, ResetPanelStep, StartBuildStep,
     BuildFailsStep, BuildBatchStep, BuildOneOffStep, RowEditStep, StartBroadcastStep, ToggleCancelRetryStep,
     CountdownElapsesStep
  DEF PanelStep
<1>2. CASE NetworkStep
  BY <1>2, NodeAcceptsStep, CallFailsStep, ManualSendReturnsStep, AutoSendReturnsStep
  DEF NetworkStep
<1>3. CASE ListStep
  BY <1>3, CreateDraftStep, PressTransitionStep, RetryPostStep, RemoveBatchStep,
     ResumeBatchStep, PostReturnsStep
  DEF ListStep
<1>4. CASE CommStep
  BY <1>4, DeliverSignatureStep DEF CommStep
<1>5. CASE Restart
  BY <1>5, RestartStep
<1>6. CASE UNCHANGED vars
  BY <1>6 DEF vars, OneTransactionThroughout, TypeOK, UnusedIdsAreFresh,
     PanelMatchesBatch, ActiveBatch, SendsMatchBatches, RecordedTxIsAccepted,
     PostsAreForAcceptedPayments
<1> QED BY <1>1, <1>2, <1>3, <1>4, <1>5, <1>6 DEF Next

\* From the packet in the panel, over the broadcast in flight, to the hash a
\* batch records and the journal accounting is asked for, it is one and the
\* same accepted transaction (handleBroadcast, useAutoBroadcast,
\* postBatchJournal).
THEOREM PaymentInvariant == Spec => []OneTransactionThroughout
BY InitEstablishes, StepPreserves, PTL DEF Spec

\* Every variable keeps its type: the stores never hold a malformed batch,
\* row or call.
THEOREM TypeCorrect == Spec => []TypeOK
<1>1. OneTransactionThroughout => TypeOK
  BY DEF OneTransactionThroughout
<1> QED BY <1>1, PaymentInvariant, PTL

\* A recorded pendingTxId is the accepted transaction the co-signers signed.
THEOREM RecordedIsAccepted == Spec => []RecordedTxIsAccepted
<1>1. OneTransactionThroughout => RecordedTxIsAccepted
  BY DEF OneTransactionThroughout
<1> QED BY <1>1, PaymentInvariant, PTL

\* Accounting is asked only for payments the network accepted.
THEOREM PostedIsAccepted == Spec => []PostsAreForAcceptedPayments
<1>1. OneTransactionThroughout => PostsAreForAcceptedPayments
  BY DEF OneTransactionThroughout
<1> QED BY <1>1, PaymentInvariant, PTL

-----------------------------------------------------------------------------
(* The state table                                                         *)

TableMove(r, r2) ==
  \/ MoveInTable(r.state, r2.state)
  \/ r.auto /\ r2.state = "broadcast_countdown"

TableStep == \A b \in BatchId : TableMove(batch[b], batch'[b])

LEMMA SameBatchesTable ==
  ASSUME batch' = batch
  PROVE  TableStep
BY DEF TableStep, TableMove, MoveInTable

LEMMA OneBatchTable ==
  ASSUME TypeOK, NEW b \in BatchId, NEW r, TableMove(batch[b], r),
         batch' = [batch EXCEPT ![b] = r]
  PROVE  TableStep
<1>1. \A c \in BatchId : batch'[c] = IF c = b THEN r ELSE batch[c]
  BY DEF TypeOK
<1> QED BY <1>1 DEF TableStep, TableMove, MoveInTable

LEMMA StoreFunctionsTable ==
  ASSUME NEW r \in Batch
  PROVE  /\ TableMove(r, cancelAutoBroadcast(r))
         /\ TableMove(r, markBroadcastInitiating(r))
         /\ TableMove(r, markBroadcastFailed(r))
         /\ TableMove(r, retryAutoBroadcast(r))
         /\ TableMove(r, recoverInterruptedPostings(r))
         /\ \A d : canTransition(r.state, "broadcasted") => TableMove(r, RecordBroadcast(r, d))
         /\ \A s : canTransition(r.state, s) => TableMove(r, MoveTo(r, s))
<1> USE DEF TableMove, MoveInTable, Batch
<1>1. TableMove(r, cancelAutoBroadcast(r))
  BY DEF cancelAutoBroadcast, canTransition, Edges
<1>2. TableMove(r, markBroadcastInitiating(r))
  BY DEF markBroadcastInitiating, Claims
<1>3. TableMove(r, markBroadcastFailed(r))
  BY DEF markBroadcastFailed
<1>4. TableMove(r, retryAutoBroadcast(r))
  BY DEF retryAutoBroadcast
<1>5. TableMove(r, recoverInterruptedPostings(r))
  BY DEF recoverInterruptedPostings, MoveTo, canTransition, Edges
<1>6. \A d : canTransition(r.state, "broadcasted") => TableMove(r, RecordBroadcast(r, d))
  BY DEF RecordBroadcast
<1>7. \A s : canTransition(r.state, s) => TableMove(r, MoveTo(r, s))
  BY DEF MoveTo
<1> QED BY <1>1, <1>2, <1>3, <1>4, <1>5, <1>6, <1>7

LEMMA DrainIntoTable ==
  ASSUME NEW r \in Batch, NEW buffered
  PROVE  TableMove(r, DrainInto(r, buffered))
BY DEF DrainInto, AutoBroadcasts, Promotes, TableMove, MoveInTable, Batch

\* A claim that does not merge fails at once: from the countdown, or from
\* wherever the claim was refused.
LEMMA ClaimThenFailTable ==
  ASSUME NEW r \in Batch, r.state = "broadcast_countdown"
  PROVE  TableMove(r, markBroadcastFailed(markBroadcastInitiating(r)))
BY DEF markBroadcastFailed, markBroadcastInitiating, TableMove, MoveInTable,
       Batch, canTransition, Edges

LEMMA PanelStepTable ==
  ASSUME OneTransactionThroughout, PanelStep
  PROVE  TableStep
<1>1. CASE \/ OpenPanel \/ LeavePanel \/ ResetPanel \/ StartBuild \/ BuildFails
           \/ \E d \in Digest : BuildOneOff(d)
  BY <1>1, SameBatchesTable
  DEF OpenPanel, LeavePanel, ResetPanel, StartBuild, BuildFails, BuildOneOff
<1>2. ASSUME NEW d \in Digest, BuildBatch(d)
      PROVE  TableStep
  <2> DEFINE new == NewBatch(d)
             r == IF building = "live" THEN DrainInto(new, incoming[d]) ELSE new
  <2>1. made + 1 \in BatchId /\ batch[made + 1].state = "absent"
    BY <1>2, InvFacts, BoundsAssumption
    DEF BuildBatch, TypeOK, BatchId, OneTransactionThroughout, UnusedIdsAreFresh
  <2>2. new \in Batch /\ new.state = "calculated" /\ ~new.auto /\ new.digest = d
    BY NewBatchFacts
  <2>3. DrainInto(new, incoming[d]).state \in {"calculated", "approved"}
    BY <2>2 DEF DrainInto, AutoBroadcasts
  <2>4. batch' = [batch EXCEPT ![made + 1] = r]
    BY <1>2, <2>2 DEF BuildBatch, DrainEffect
  <2> QED BY <2>1, <2>2, <2>3, <2>4, OneBatchTable, InvFacts DEF TableMove, MoveInTable
<1>3. ASSUME NEW rows, UpdateSigs(rows)
      PROVE  TableStep
  <2>1. CASE Active = NoBatch
    BY <1>3, <2>1, SameBatchesTable DEF UpdateSigs
  <2>2. CASE Active # NoBatch
    <3> DEFINE r == [batch[Active] EXCEPT !.sigs = TypedEntries(rows)]
    <3>1. Active \in BatchId /\ batch[Active] \in Batch
      BY <2>2, InvFacts DEF Active, ActiveBatch
    <3>2. r.state = batch[Active].state
      BY <3>1 DEF Batch
    <3>3. batch' = [batch EXCEPT ![Active] = r]
      BY <1>3, <2>2, <3>1, InvFacts DEF UpdateSigs, TypeOK
    <3> QED BY <3>1, <3>2, <3>3, OneBatchTable, InvFacts DEF TableMove, MoveInTable
  <2> QED BY <2>1, <2>2
<1>4. CASE \E i \in 1..M : \/ \E s \in Slot : ChooseSlot(i, s)
                           \/ \E v \in TypedSignatures \union {Blank} : EnterSignature(i, v)
  BY <1>3, <1>4 DEF ChooseSlot, EnterSignature
<1>5. CASE StartBroadcast
  <2>1. CASE Active # NoBatch /\ canTransition(ActiveState, "approved")
    <3>1. /\ Active \in BatchId /\ batch[Active] \in Batch
          /\ canTransition(batch[Active].state, "approved")
      BY <2>1, InvFacts DEF Active, ActiveBatch, ActiveState
    <3>2. batch' = [batch EXCEPT ![Active] = MoveTo(batch[Active], "approved")]
      BY <1>5, <2>1, <3>1, InvFacts DEF StartBroadcast, MoveTo, TypeOK
    <3> QED BY <3>1, <3>2, StoreFunctionsTable, OneBatchTable, InvFacts
  <2>2. CASE ~(Active # NoBatch /\ canTransition(ActiveState, "approved"))
    BY <1>5, <2>2, SameBatchesTable DEF StartBroadcast
  <2> QED BY <2>1, <2>2
<1>6. CASE ToggleAuto \/ CancelCountdown \/ RetryBroadcast
  <2>1. /\ panel.active # NoBatch /\ Active \in BatchId /\ batch[Active] \in Batch
    BY <1>6, ActiveStateKnown, InvFacts
    DEF ToggleAuto, CancelCountdown, RetryBroadcast, Active, ActiveBatch
  <2>2. CASE ToggleAuto
    <3> DEFINE r == [batch[Active] EXCEPT !.auto = ~batch[Active].auto]
    <3>1. batch' = [batch EXCEPT ![Active] = r] /\ r.state = batch[Active].state
      BY <2>1, <2>2, InvFacts DEF ToggleAuto, TypeOK, Batch
    <3> QED BY <2>1, <3>1, OneBatchTable, InvFacts DEF TableMove, MoveInTable
  <2>3. CASE CancelCountdown
    BY <2>1, <2>3, StoreFunctionsTable, OneBatchTable, InvFacts DEF CancelCountdown
  <2>4. CASE RetryBroadcast
    BY <2>1, <2>4, StoreFunctionsTable, OneBatchTable, InvFacts DEF RetryBroadcast
  <2> QED BY <1>6, <2>2, <2>3, <2>4
<1>7. ASSUME NEW rpcUrlSet \in BOOLEAN, CountdownElapses(rpcUrlSet)
      PROVE  TableStep
  <2>1. /\ Active \in BatchId /\ batch[Active] \in Batch /\ ActiveBatch = batch[Active]
        /\ batch[Active].state = "broadcast_countdown"
    BY <1>7, ActiveStateKnown, InvFacts DEF CountdownElapses, Active, ActiveBatch
  <2>2. PICK r \in {markBroadcastFailed(batch[Active]),
                    markBroadcastFailed(markBroadcastInitiating(batch[Active])),
                    markBroadcastInitiating(batch[Active])} :
          batch' = [batch EXCEPT ![Active] = r]
    BY <1>7, <2>1, InvFacts DEF CountdownElapses, TypeOK
  <2>3. TableMove(batch[Active], r)
    BY <2>1, <2>2, StoreFunctionsTable, ClaimThenFailTable
  <2> QED BY <2>1, <2>2, <2>3, OneBatchTable, InvFacts
<1> QED BY <1>1, <1>2, <1>4, <1>5, <1>6, <1>7 DEF PanelStep

LEMMA NetworkStepTable ==
  ASSUME OneTransactionThroughout, NetworkStep
  PROVE  TableStep
<1> SUFFICES ASSUME NEW s \in sends,
                    NodeAccepts(s) \/ CallFails(s) \/ ManualSendReturns(s) \/ AutoSendReturns(s)
             PROVE  TableStep
  BY DEF NetworkStep
<1>1. s.b \in BatchId \union {NoBatch} /\ (s.kind = "auto" => s.b # NoBatch)
  BY InvFacts DEF TypeOK, Send, OneTransactionThroughout, SendsMatchBatches
<1>2. batch \in [BatchId -> Batch]
  BY InvFacts DEF TypeOK
<1>3. CASE batch' = batch
  BY <1>3, SameBatchesTable
<1>4. CASE /\ s.b \in BatchId /\ canTransition(batch[s.b].state, "broadcasted")
           /\ batch' = [batch EXCEPT ![s.b] = RecordBroadcast(batch[s.b], s.d)]
  BY <1>2, <1>4, StoreFunctionsTable, OneBatchTable, InvFacts
<1>5. CASE /\ s.b \in BatchId
           /\ batch' = [batch EXCEPT ![s.b] = markBroadcastFailed(batch[s.b])]
  BY <1>2, <1>5, StoreFunctionsTable, OneBatchTable, InvFacts
<1>6. CASE ManualSendReturns(s)
  BY <1>1, <1>2, <1>3, <1>4, <1>6 DEF ManualSendReturns
<1>7. CASE AutoSendReturns(s)
  BY <1>1, <1>2, <1>4, <1>5, <1>7 DEF AutoSendReturns
<1> QED BY <1>3, <1>6, <1>7 DEF NodeAccepts, CallFails

LEMMA ListStepTable ==
  ASSUME OneTransactionThroughout, ListStep
  PROVE  TableStep
<1>1. CASE CreateDraft
  <2>1. made + 1 \in BatchId /\ batch[made + 1].state = "absent"
    BY <1>1, InvFacts, BoundsAssumption
    DEF CreateDraft, TypeOK, BatchId, OneTransactionThroughout, UnusedIdsAreFresh
  <2>2. MoveTo(AbsentBatch, "draft").state = "draft"
    BY DEF MoveTo, AbsentBatch
  <2> QED BY <1>1, <2>1, <2>2, OneBatchTable, InvFacts DEF CreateDraft, TableMove, MoveInTable
<1>2. ASSUME NEW b \in BatchId, NEW to \in BatchState, PressTransition(b, to)
      PROVE  TableStep
  <2>1. batch[b] \in Batch /\ canTransition(batch[b].state, to)
    BY <1>2, InvFacts DEF PressTransition
  <2>2. CASE to # "confirmed"
    <3>1. batch' = [batch EXCEPT ![b] = MoveTo(batch[b], to)]
      BY <1>2, <2>2, InvFacts DEF PressTransition, TypeOK
    <3> QED BY <2>1, <3>1, StoreFunctionsTable, OneBatchTable, InvFacts
  <2>3. CASE to = "confirmed"
    <3>1. batch[b].state = "broadcasted"
      BY <2>1, <2>3 DEF canTransition, Edges
    <3> DEFINE confirmed == MoveTo(batch[b], "confirmed")
    <3>2. PICK s \in {"posting", "post_failed"} :
            batch' = [batch EXCEPT ![b] = MoveTo(confirmed, s)]
      BY <1>2, <2>3 DEF PressTransition, PostBatchJournal
    <3>3. MoveTo(confirmed, s).state = s
      BY <2>1 DEF MoveTo, Batch
    <3> QED BY <3>1, <3>2, <3>3, OneBatchTable, InvFacts DEF TableMove, MoveInTable
  <2> QED BY <2>2, <2>3
<1>3. ASSUME NEW b \in BatchId, RetryPost(b)
      PROVE  TableStep
  <2>1. batch[b] \in Batch /\ batch[b].state = "post_failed"
    BY <1>3, InvFacts DEF RetryPost
  <2>2. PICK r : /\ r.state \in {"posting", "post_failed"}
                 /\ batch' = [batch EXCEPT ![b] = r]
    BY <1>3, <2>1 DEF RetryPost, PostBatchJournal, MoveTo, Batch
  <2> QED BY <2>1, <2>2, OneBatchTable, InvFacts
      DEF TableMove, MoveInTable, canTransition, Edges
<1>4. ASSUME NEW b \in BatchId, RemoveBatch(b)
      PROVE  TableStep
  BY <1>4, OneBatchTable, InvFacts DEF RemoveBatch, TableMove, MoveInTable, AbsentBatch
<1>5. ASSUME NEW b \in BatchId, ResumeBatch(b)
      PROVE  TableStep
  <2>1. batch' = [batch EXCEPT ![b] = DrainInto(batch[b], incoming[batch[b].digest])]
    BY <1>5 DEF ResumeBatch, DrainEffect
  <2> QED BY <2>1, DrainIntoTable, OneBatchTable, InvFacts
<1>6. ASSUME NEW b \in BatchId, NEW ok \in BOOLEAN, PostReturns(b, ok)
      PROVE  TableStep
  <2>1. CASE batch[b].state = "posting"
    <3>1. PICK s \in {"posted", "post_failed"} : batch' = [batch EXCEPT ![b] = MoveTo(batch[b], s)]
      BY <1>6, <2>1, InvFacts DEF PostReturns, TypeOK
    <3>2. canTransition(batch[b].state, s)
      BY <2>1, <3>1 DEF canTransition, Edges
    <3> QED BY <3>1, <3>2, StoreFunctionsTable, OneBatchTable, InvFacts
  <2>2. CASE batch[b].state # "posting"
    BY <1>6, <2>2, SameBatchesTable DEF PostReturns
  <2> QED BY <2>1, <2>2
<1> QED BY <1>1, <1>2, <1>3, <1>4, <1>5, <1>6 DEF ListStep

LEMMA StepObeysTable ==
  ASSUME OneTransactionThroughout, [Next]_vars
  PROVE  TableStep
<1>1. CASE CommStep
  <2>1. PICK d \in Digest, e \in CommSignatures : DeliverSignature(d, e)
    BY <1>1 DEF CommStep
  <2>2. CASE FirstHolder(d) = {}
    BY <2>1, <2>2, SameBatchesTable DEF DeliverSignature
  <2>3. CASE FirstHolder(d) # {}
    <3>1. PICK b \in FirstHolder(d) :
            batch' = [batch EXCEPT ![b] = DrainInto(batch[b], incoming[d] \union {e})]
      BY <2>1, <2>3, InvFacts DEF DeliverSignature, FirstHolder, Holders, TypeOK
    <3>2. b \in BatchId
      BY DEF FirstHolder, Holders
    <3> QED BY <3>1, <3>2, DrainIntoTable, OneBatchTable, InvFacts
  <2> QED BY <2>2, <2>3
<1>2. CASE Restart
  BY <1>2, StoreFunctionsTable, InvFacts DEF Restart, TableStep
<1>3. CASE UNCHANGED vars
  BY <1>3, SameBatchesTable DEF vars
<1> QED BY <1>1, <1>2, <1>3, PanelStepTable, NetworkStepTable, ListStepTable DEF Next

\* Outside the automatic broadcast that the drain starts, no interleaving of
\* panel, batch list, comm channel, replies and restarts takes a batch along
\* a move the state machine does not list.
THEOREM TableObeyed == Spec => OnlyAutoBroadcastLeavesTable
<1>1. OneTransactionThroughout /\ [Next]_vars =>
        [\A b \in BatchId :
           \/ MoveInTable(batch[b].state, batch'[b].state)
           \/ batch[b].auto /\ batch'[b].state = "broadcast_countdown"]_vars
  BY StepObeysTable DEF TableStep, TableMove
<1> QED BY <1>1, PaymentInvariant, PTL DEF Spec, OnlyAutoBroadcastLeavesTable

-----------------------------------------------------------------------------
(***************************************************************************)
(* The stored signatures.  A step keeps what a batch has stored or drops   *)
(* some of it, replaces it by what the rows of the panel say, or merges    *)
(* the buffer of the comm channel into it.                                 *)
(***************************************************************************)
SigsMove(r, r2) ==
  \/ r2.sigs \subseteq r.sigs
  \/ \A e \in r2.sigs : e.row # 0
  \/ \E buffered \in SUBSET Envelope : r2.sigs = Merged(r, buffered)

SigsStep == \A b \in BatchId : SigsMove(batch[b], batch'[b])

\* An entry from the channel is valid and alone in its slot.
ChannelEntriesMerge(r) ==
  \A e, f \in r.sigs : e.row = 0 => Valid(e) /\ (f.slot = e.slot => f = e)

CollectionInvariant ==
  OneTransactionThroughout /\ \A b \in BatchId : ChannelEntriesMerge(batch[b])

LEMMA SigsMoveKeeps ==
  ASSUME NEW r, NEW r2, ChannelEntriesMerge(r), SigsMove(r, r2)
  PROVE  ChannelEntriesMerge(r2)
<1>1. CASE r2.sigs \subseteq r.sigs \/ \A e \in r2.sigs : e.row # 0
  BY <1>1 DEF ChannelEntriesMerge
<1>2. ASSUME NEW buffered \in SUBSET Envelope, r2.sigs = Merged(r, buffered)
      PROVE  ChannelEntriesMerge(r2)
  <2> DEFINE In(e) == [slot |-> e.slot, sig |-> e.sig, row |-> 0]
  <2>1. \A e \in r2.sigs : e \in r.sigs \/ \E a \in Acceptable(r, buffered) : e = In(a)
    BY <1>2 DEF Merged
  <2>2. \A a \in Acceptable(r, buffered) : /\ a.sig = a.slot
                                           /\ \A p \in r.sigs : p.slot # a.slot
    BY DEF Acceptable, Valid
  <2>3. \A a \in Acceptable(r, buffered) : In(a).slot = a.slot /\ In(a).sig = a.sig
    OBVIOUS
  <2>4. ASSUME NEW a \in Acceptable(r, buffered), NEW c \in Acceptable(r, buffered), a.slot = c.slot
        PROVE  In(a) = In(c)
    BY <2>2, <2>4
  <2> HIDE DEF In
  <2> QED BY <2>1, <2>2, <2>3, <2>4 DEF ChannelEntriesMerge, Valid
<1> QED BY <1>1, <1>2 DEF SigsMove

LEMMA SameBatchesSigs ==
  ASSUME batch' = batch
  PROVE  SigsStep
BY DEF SigsStep, SigsMove

LEMMA OneBatchSigs ==
  ASSUME TypeOK, NEW b \in BatchId, NEW r, SigsMove(batch[b], r),
         batch' = [batch EXCEPT ![b] = r]
  PROVE  SigsStep
<1>1. \A c \in BatchId : batch'[c] = IF c = b THEN r ELSE batch[c]
  BY DEF TypeOK
<1>2. \A c \in BatchId : SigsMove(batch[c], batch[c])
  BY DEF SigsMove
<1> QED BY <1>1, <1>2 DEF SigsStep

LEMMA StoreFunctionsSigs ==
  ASSUME NEW r \in Batch
  PROVE  /\ SigsMove(r, cancelAutoBroadcast(r))
         /\ SigsMove(r, markBroadcastInitiating(r))
         /\ SigsMove(r, markBroadcastFailed(r))
         /\ SigsMove(r, markBroadcastFailed(markBroadcastInitiating(r)))
         /\ SigsMove(r, retryAutoBroadcast(r))
         /\ SigsMove(r, recoverInterruptedPostings(r))
         /\ \A d : SigsMove(r, RecordBroadcast(r, d))
         /\ \A s, s2 : SigsMove(r, MoveTo(r, s)) /\ SigsMove(r, MoveTo(MoveTo(r, s), s2))
<1>1. /\ cancelAutoBroadcast(r).sigs = r.sigs
      /\ markBroadcastInitiating(r).sigs = r.sigs
      /\ markBroadcastFailed(r).sigs = r.sigs
      /\ markBroadcastFailed(markBroadcastInitiating(r)).sigs = r.sigs
      /\ retryAutoBroadcast(r).sigs = r.sigs
      /\ recoverInterruptedPostings(r).sigs = r.sigs
  BY DEF cancelAutoBroadcast, markBroadcastInitiating, markBroadcastFailed, retryAutoBroadcast,
         recoverInterruptedPostings, MoveTo, Batch
<1>2. \A d : RecordBroadcast(r, d).sigs = {}
  BY DEF RecordBroadcast, Batch
<1>3. \A s, s2 : MoveTo(r, s).sigs = r.sigs /\ MoveTo(MoveTo(r, s), s2).sigs = r.sigs
  BY DEF MoveTo, Batch
<1> QED BY <1>1, <1>2, <1>3 DEF SigsMove

LEMMA DrainIntoSigs ==
  ASSUME NEW r \in Batch, NEW buffered \in SUBSET Envelope
  PROVE  SigsMove(r, DrainInto(r, buffered))
<1>1. DrainInto(r, buffered).sigs \in {r.sigs, Merged(r, buffered)}
  BY DEF DrainInto, Batch
<1> QED BY <1>1 DEF SigsMove

LEMMA TypedEntriesSigs ==
  ASSUME NEW rows
  PROVE  \A e \in TypedEntries(rows) : e.row # 0
<1>1. \A e \in TypedEntries(rows) : \E i \in 1..M : e.row = i
  BY DEF TypedEntries
<1> QED BY <1>1, MultisigAssumption

LEMMA PanelStepSigs ==
  ASSUME OneTransactionThroughout, PanelStep
  PROVE  SigsStep
<1>1. CASE \/ OpenPanel \/ LeavePanel \/ ResetPanel \/ StartBuild \/ BuildFails
           \/ \E d \in Digest : BuildOneOff(d)
  BY <1>1, SameBatchesSigs
  DEF OpenPanel, LeavePanel, ResetPanel, StartBuild, BuildFails, BuildOneOff
<1>2. ASSUME NEW d \in Digest, BuildBatch(d)
      PROVE  SigsStep
  <2> DEFINE new == NewBatch(d)
             r == IF building = "live" THEN DrainInto(new, incoming[d]) ELSE new
  <2>1. made + 1 \in BatchId /\ batch[made + 1] = AbsentBatch
    BY <1>2, InvFacts, BoundsAssumption
    DEF BuildBatch, TypeOK, BatchId, OneTransactionThroughout, UnusedIdsAreFresh
  <2>2. new \in Batch /\ new.digest = d /\ new.sigs = batch[made + 1].sigs
    BY <2>1, NewBatchFacts DEF NewBatch, AbsentBatch
  <2>3. incoming[d] \in SUBSET Envelope
    BY InvFacts DEF TypeOK
  <2>4. batch' = [batch EXCEPT ![made + 1] = r]
    BY <1>2, <2>2 DEF BuildBatch, DrainEffect
  <2> HIDE DEF new
  <2>5. SigsMove(new, r)
    BY <2>2, <2>3, DrainIntoSigs DEF SigsMove
  <2>6. SigsMove(batch[made + 1], r)
    BY <2>2, <2>5 DEF SigsMove, Merged, Acceptable
  <2> QED BY <2>1, <2>4, <2>6, OneBatchSigs, InvFacts
<1>3. ASSUME NEW rows, UpdateSigs(rows)
      PROVE  SigsStep
  <2>1. CASE Active = NoBatch
    BY <1>3, <2>1, SameBatchesSigs DEF UpdateSigs
  <2>2. CASE Active # NoBatch
    <3> DEFINE r == [batch[Active] EXCEPT !.sigs = TypedEntries(rows)]
    <3>1. Active \in BatchId /\ batch[Active] \in Batch
      BY <2>2, InvFacts DEF Active, ActiveBatch
    <3>2. r.sigs = TypedEntries(rows)
      BY <3>1 DEF Batch
    <3>3. batch' = [batch EXCEPT ![Active] = r]
      BY <1>3, <2>2, <3>1, InvFacts DEF UpdateSigs, TypeOK
    <3>4. SigsMove(batch[Active], r)
      BY <3>2, TypedEntriesSigs DEF SigsMove
    <3> QED BY <3>1, <3>3, <3>4, OneBatchSigs, InvFacts
  <2> QED BY <2>1, <2>2
<1>4. CASE \E i \in 1..M : \/ \E s \in Slot : ChooseSlot(i, s)
                           \/ \E v \in TypedSignatures \union {Blank} : EnterSignature(i, v)
  BY <1>3, <1>4 DEF ChooseSlot, EnterSignature
<1>5. CASE StartBroadcast
  <2>1. CASE Active # NoBatch /\ canTransition(ActiveState, "approved")
    <3>1. Active \in BatchId /\ batch[Active] \in Batch
      BY <2>1, InvFacts DEF Active, ActiveBatch
    <3>2. batch' = [batch EXCEPT ![Active] = MoveTo(batch[Active], "approved")]
      BY <1>5, <2>1, <3>1, InvFacts DEF StartBroadcast, MoveTo, TypeOK
    <3> QED BY <3>1, <3>2, StoreFunctionsSigs, OneBatchSigs, InvFacts
  <2>2. CASE ~(Active # NoBatch /\ canTransition(ActiveState, "approved"))
    BY <1>5, <2>2, SameBatchesSigs DEF StartBroadcast
  <2> QED BY <2>1, <2>2
<1>6. CASE ToggleAuto \/ CancelCountdown \/ RetryBroadcast
  <2>1. Active \in BatchId /\ batch[Active] \in Batch
    BY <1>6, ActiveStateKnown, InvFacts
    DEF ToggleAuto, CancelCountdown, RetryBroadcast, Active, ActiveBatch
  <2>2. CASE ToggleAuto
    <3> DEFINE r == [batch[Active] EXCEPT !.auto = ~batch[Active].auto]
    <3>1. batch' = [batch EXCEPT ![Active] = r] /\ r.sigs = batch[Active].sigs
      BY <2>1, <2>2, InvFacts DEF ToggleAuto, TypeOK, Batch
    <3> QED BY <2>1, <3>1, OneBatchSigs, InvFacts DEF SigsMove
  <2>3. CASE CancelCountdown
    BY <2>1, <2>3, StoreFunctionsSigs, OneBatchSigs, InvFacts DEF CancelCountdown
  <2>4. CASE RetryBroadcast
    BY <2>1, <2>4, StoreFunctionsSigs, OneBatchSigs, InvFacts DEF RetryBroadcast
  <2> QED BY <1>6, <2>2, <2>3, <2>4
<1>7. ASSUME NEW rpcUrlSet \in BOOLEAN, CountdownElapses(rpcUrlSet)
      PROVE  SigsStep
  <2>1. Active \in BatchId /\ batch[Active] \in Batch /\ ActiveBatch = batch[Active]
    BY <1>7, ActiveStateKnown, InvFacts DEF CountdownElapses, Active, ActiveBatch
  <2>2. PICK r \in {markBroadcastFailed(batch[Active]),
                    markBroadcastFailed(markBroadcastInitiating(batch[Active])),
                    markBroadcastInitiating(batch[Active])} :
          batch' = [batch EXCEPT ![Active] = r]
    BY <1>7, <2>1, InvFacts DEF CountdownElapses, TypeOK
  <2>3. SigsMove(batch[Active], r)
    BY <2>1, <2>2, StoreFunctionsSigs
  <2> QED BY <2>1, <2>2, <2>3, OneBatchSigs, InvFacts
<1> QED BY <1>1, <1>2, <1>4, <1>5, <1>6, <1>7 DEF PanelStep

LEMMA NetworkStepSigs ==
  ASSUME OneTransactionThroughout, NetworkStep
  PROVE  SigsStep
<1> SUFFICES ASSUME NEW s \in sends,
                    NodeAccepts(s) \/ CallFails(s) \/ ManualSendReturns(s) \/ AutoSendReturns(s)
             PROVE  SigsStep
  BY DEF NetworkStep
<1>1. s.b \in BatchId \union {NoBatch} /\ (s.kind = "auto" => s.b # NoBatch)
  BY InvFacts DEF TypeOK, Send, OneTransactionThroughout, SendsMatchBatches
<1>2. batch \in [BatchId -> Batch]
  BY InvFacts DEF TypeOK
<1>3. CASE batch' = batch
  BY <1>3, SameBatchesSigs
<1>4. CASE /\ s.b \in BatchId
           /\ \/ batch' = [batch EXCEPT ![s.b] = RecordBroadcast(batch[s.b], s.d)]
              \/ batch' = [batch EXCEPT ![s.b] = markBroadcastFailed(batch[s.b])]
  BY <1>2, <1>4, StoreFunctionsSigs, OneBatchSigs, InvFacts
<1>5. CASE ManualSendReturns(s)
  BY <1>1, <1>2, <1>3, <1>4, <1>5 DEF ManualSendReturns
<1>6. CASE AutoSendReturns(s)
  BY <1>1, <1>2, <1>4, <1>6 DEF AutoSendReturns
<1> QED BY <1>3, <1>5, <1>6 DEF NodeAccepts, CallFails

LEMMA ListStepSigs ==
  ASSUME OneTransactionThroughout, ListStep
  PROVE  SigsStep
<1>1. CASE CreateDraft
  <2>1. made + 1 \in BatchId
    BY <1>1, InvFacts, BoundsAssumption DEF CreateDraft, TypeOK, BatchId
  <2>2. MoveTo(AbsentBatch, "draft").sigs = {}
    BY DEF MoveTo, AbsentBatch
  <2> QED BY <1>1, <2>1, <2>2, OneBatchSigs, InvFacts DEF CreateDraft, SigsMove
<1>2. ASSUME NEW b \in BatchId, NEW r \in {batch[b]} \union {MoveTo(batch[b], s) : s \in BatchState},
             PostBatchJournal(b, r)
      PROVE  SigsStep
  <2>1. batch[b] \in Batch
    BY InvFacts
  <2>2. PICK s \in BatchState : batch' = [batch EXCEPT ![b] = MoveTo(r, s)]
    BY <1>2 DEF PostBatchJournal, BatchState
  <2>3. SigsMove(batch[b], MoveTo(r, s))
    BY <2>1, StoreFunctionsSigs
  <2> QED BY <2>2, <2>3, OneBatchSigs, InvFacts
<1>3. ASSUME NEW b \in BatchId, NEW to \in BatchState, PressTransition(b, to)
      PROVE  SigsStep
  <2>1. batch[b] \in Batch
    BY InvFacts
  <2>2. CASE to # "confirmed"
    <3>1. batch' = [batch EXCEPT ![b] = MoveTo(batch[b], to)]
      BY <1>3, <2>2, InvFacts DEF PressTransition, TypeOK
    <3> QED BY <2>1, <3>1, StoreFunctionsSigs, OneBatchSigs, InvFacts
  <2>3. CASE to = "confirmed"
    BY <1>2, <1>3, <2>3 DEF PressTransition
  <2> QED BY <2>2, <2>3
<1>4. ASSUME NEW b \in BatchId, RetryPost(b)
      PROVE  SigsStep
  BY <1>2, <1>4 DEF RetryPost
<1>5. ASSUME NEW b \in BatchId, RemoveBatch(b)
      PROVE  SigsStep
  <2>1. AbsentBatch.sigs = {}
    BY DEF AbsentBatch
  <2> QED BY <1>5, <2>1, OneBatchSigs, InvFacts DEF RemoveBatch, SigsMove
<1>6. ASSUME NEW b \in BatchId, ResumeBatch(b)
      PROVE  SigsStep
  <2>1. batch[b] \in Batch /\ batch[b].digest \in Digest
    BY <1>6, InvFacts DEF ResumeBatch, Batch
  <2>2. incoming[batch[b].digest] \in SUBSET Envelope
    BY <2>1, InvFacts DEF TypeOK
  <2>3. batch' = [batch EXCEPT ![b] = DrainInto(batch[b], incoming[batch[b].digest])]
    BY <1>6 DEF ResumeBatch, DrainEffect
  <2> QED BY <2>1, <2>2, <2>3, DrainIntoSigs, OneBatchSigs, InvFacts
<1>7. ASSUME NEW b \in BatchId, NEW ok \in BOOLEAN, PostReturns(b, ok)
      PROVE  SigsStep
  <2>1. CASE batch[b].state = "posting"
    <3>1. PICK s \in {"posted", "post_failed"} : batch' = [batch EXCEPT ![b] = MoveTo(batch[b], s)]
      BY <1>7, <2>1, InvFacts DEF PostReturns, TypeOK
    <3> QED BY <3>1, StoreFunctionsSigs, OneBatchSigs, InvFacts
  <2>2. CASE batch[b].state # "posting"
    BY <1>7, <2>2, SameBatchesSigs DEF PostReturns
  <2> QED BY <2>1, <2>2
<1> QED BY <1>1, <1>3, <1>4, <1>5, <1>6, <1>7 DEF ListStep

LEMMA StepMovesSigs ==
  ASSUME OneTransactionThroughout, [Next]_vars
  PROVE  SigsStep
<1>1. CASE CommStep
  <2>1. PICK d \in Digest, e \in CommSignatures : DeliverSignature(d, e)
    BY <1>1 DEF CommStep
  <2>2. CASE FirstHolder(d) = {}
    BY <2>1, <2>2, SameBatchesSigs DEF DeliverSignature
  <2>3. CASE FirstHolder(d) # {}
    <3>1. PICK b \in FirstHolder(d) :
            batch' = [batch EXCEPT ![b] = DrainInto(batch[b], incoming[d] \union {e})]
      BY <2>1, <2>3, InvFacts DEF DeliverSignature, FirstHolder, Holders, TypeOK
    <3>2. b \in BatchId
      BY DEF FirstHolder, Holders
    <3>3. incoming[d] \union {e} \in SUBSET Envelope
      BY InvFacts, InputsAssumption DEF TypeOK
    <3> QED BY <3>1, <3>2, <3>3, DrainIntoSigs, OneBatchSigs, InvFacts
  <2> QED BY <2>2, <2>3
<1>2. CASE Restart
  BY <1>2, StoreFunctionsSigs, InvFacts DEF Restart, SigsStep
<1>3. CASE UNCHANGED vars
  BY <1>3, SameBatchesSigs DEF vars
<1> QED BY <1>1, <1>2, <1>3, PanelStepSigs, NetworkStepSigs, ListStepSigs DEF Next

\* Whatever is typed, forged, buffered or delivered again, what the comm
\* channel alone collected merges: the automatic broadcast of a batch with M
\* channel signatures does not fail at mergeSignatures.
THEOREM ChannelCollectionMerges == Spec => []CommCollectionMerges
<1>1. Init => CollectionInvariant
  BY InitEstablishes DEF Init, CollectionInvariant, ChannelEntriesMerge, AbsentBatch
<1>2. CollectionInvariant /\ [Next]_vars => CollectionInvariant'
  <2> SUFFICES ASSUME CollectionInvariant, [Next]_vars
               PROVE  CollectionInvariant'
    OBVIOUS
  <2>1. OneTransactionThroughout'
    BY StepPreserves DEF CollectionInvariant
  <2>2. \A b \in BatchId : SigsMove(batch[b], batch'[b])
    BY StepMovesSigs DEF CollectionInvariant, SigsStep
  <2>3. \A b \in BatchId : ChannelEntriesMerge(batch'[b])
    BY <2>2, SigsMoveKeeps DEF CollectionInvariant
  <2> QED BY <2>1, <2>3 DEF CollectionInvariant, ChannelEntriesMerge
<1>3. CollectionInvariant => CommCollectionMerges
  BY DEF CollectionInvariant, ChannelEntriesMerge, CommCollectionMerges, Mergeable
<1> QED BY <1>1, <1>2, <1>3, PTL DEF Spec

=============================================================================
