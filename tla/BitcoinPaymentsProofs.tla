------------------------ MODULE BitcoinPaymentsProofs ------------------------
(***************************************************************************)
(* Theorems about BitcoinPayments, for every set of transactions, mappings, *)
(* contexts, blocks and requests.                                          *)
(***************************************************************************)
EXTENDS BitcoinPayments, TLAPS

(***************************************************************************)
(* What the invariant says of one record d, next to a post p, the accepted *)
(* transactions s, the final ones f and the booked reviews b.              *)
(***************************************************************************)
SoundRecord(d, p, s, f, b) ==
  /\ d \in Record
  /\ d.review # None => d.raw # None
  /\ d.receipt # None => d.receipt = d.review /\ d.receipt.raw \in s
  /\ d.evidence # None => /\ d.receipt # None
                          /\ d.evidence.review = d.review
                          /\ IsV2(d.evidence.review) /\ d.evidence.review.raw \in f
  /\ d.acct \in {"ready", "posting", "post_failed", "posted"} => d.evidence # None
  /\ d.acct = "posting" => p = d.review
  /\ d.acct = "posted" => d.entry = d.review
  /\ d.entry # None => d.entry \in b

Sound(d) == SoundRecord(d, post, sent, final, booked)

\* The invariant, as a sound record and the rest of it.
SoundRest ==
  /\ panel \in Panel
  /\ calls \in [CallId -> Call]
  /\ check \in Check
  /\ post \in Review \union {None}
  /\ sent \subseteq Raw /\ final \subseteq Raw
  /\ asked \subseteq Review /\ booked \subseteq Review
  /\ AskedWhenFinal
  /\ final \subseteq sent

SoundCalls(c, d, s) ==
  \A k \in CallId :
    /\ c[k].kind # "none" => c[k].raw # None
    /\ c[k].kind \in {"prepare", "submit"} => c[k].review # None /\ d.raw # None
    /\ c[k].accepted => c[k].review.raw \in s

LEMMA InvariantSplit ==
  PaymentsAreFinal <=> Sound(record) /\ SoundRest /\ SoundCalls(calls, record, sent)
  BY DEF PaymentsAreFinal, TypeOK, ReceiptMatchesReview, EvidenceMatchesReview, FinalEvidence,
         AccountedOnEvidence, AskedWhenFinal, CallsAreSound, Sound, SoundRecord, SoundRest,
         SoundCalls

\* More accepted, final or booked payments leave a record sound.
LEMMA SoundGrows ==
  ASSUME NEW d, NEW p, NEW s, NEW f, NEW b, NEW s2, NEW f2, NEW b2,
         SoundRecord(d, p, s, f, b), s \subseteq s2, f \subseteq f2, b \subseteq b2
  PROVE  SoundRecord(d, p, s2, f2, b2)
  BY DEF SoundRecord

\* A post may begin or end for a record that is not posting.
LEMMA SoundUnlessPosting ==
  ASSUME NEW d, NEW p, NEW q, NEW s, NEW f, NEW b,
         SoundRecord(d, p, s, f, b), d.acct # "posting"
  PROVE  SoundRecord(d, q, s, f, b)
  BY DEF SoundRecord

(***************************************************************************)
(* The operations of the store keep a record sound.                        *)
(***************************************************************************)

LEMMA AbsentType == Absent \in Record
  BY DEF Absent, Record, UiState, AccountingState

LEMMA BeginReviewSound ==
  ASSUME NEW t \in Raw, NEW p, NEW s, NEW f, NEW b
  PROVE  /\ SoundRecord(BeginReview(t), p, s, f, b)
         /\ BeginReview(t).raw = t /\ BeginReview(t).evidence = None
         /\ BeginReview(t).acct = "not_applicable"
  BY AbsentType DEF BeginReview, Absent, Record, UiState, SoundRecord

LEMMA FailedSound ==
  ASSUME NEW d, NEW p, NEW s, NEW f, NEW b, SoundRecord(d, p, s, f, b)
  PROVE  /\ SoundRecord(Failed(d), p, s, f, b)
         /\ Failed(d).raw = d.raw /\ Failed(d).evidence = d.evidence /\ Failed(d).recon = d.recon
  BY DEF Failed, SoundRecord, Record, UiState

LEMMA AcceptReviewSound ==
  ASSUME NEW d, NEW p, NEW s, NEW f, NEW b, SoundRecord(d, p, s, f, b),
         d.raw # None, NEW r \in Review
  PROVE  /\ SoundRecord(AcceptReview(d, r), p, s, f, b)
         /\ AcceptReview(d, r).raw = d.raw /\ AcceptReview(d, r).evidence = None
<1>1. AfterReview(r) \in {"awaiting_finalization", "not_applicable"}
  BY DEF AfterReview
<1>2. AcceptReview(d, r) \in Record
  BY <1>1 DEF AcceptReview, SoundRecord, Record, UiState, AccountingState
<1> QED BY <1>1, <1>2 DEF AcceptReview, SoundRecord, Record

LEMMA AcceptReceiptSound ==
  ASSUME NEW d, NEW p, NEW s, NEW f, NEW b, SoundRecord(d, p, s, f, b),
         NEW r \in Review, r.raw \in s
  PROVE  /\ SoundRecord(AcceptReceipt(d, r), p, s, f, b)
         /\ AcceptReceipt(d, r).raw = d.raw
         /\ AcceptReceipt(d, r).evidence = d.evidence /\ AcceptReceipt(d, r).recon = d.recon
<1>1. AfterReview(r) \in {"awaiting_finalization", "not_applicable"}
  BY DEF AfterReview
<1>2. CASE d.review = r
  <2>1. WithReceipt(d, r) \in Record
    BY <1>1 DEF WithReceipt, SoundRecord, Record, UiState, AccountingState
  <2>2. r # None
    BY NoneIsNothing
  <2> QED BY <1>1, <1>2, <2>1, <2>2 DEF AcceptReceipt, WithReceipt, SoundRecord, Record
<1>3. CASE d.review # r
  BY <1>3, FailedSound DEF AcceptReceipt
<1> QED BY <1>2, <1>3

LEMMA RefreshStatusSound ==
  ASSUME NEW d, NEW p, NEW s, NEW f, NEW b, SoundRecord(d, p, s, f, b), NEW st \in Status
  PROVE  /\ SoundRecord(RefreshStatus(d, st), p, s, f, b)
         /\ RefreshStatus(d, st).raw = d.raw
         /\ RefreshStatus(d, st).evidence = d.evidence
         /\ RefreshStatus(d, st).receipt = d.receipt
         /\ RefreshStatus(d, st).review = d.review
<1>0. d \in Record
  BY DEF SoundRecord
<1>1. MustReconcile(d, st) \in BOOLEAN
  BY DEF MustReconcile, RegressedNow, SoundRecord, Record
<1>2. CASE MustReconcile(d, st)
  <2>1. RefreshStatus(d, st) =
          [d EXCEPT !.status = st, !.recon = MustReconcile(d, st), !.acct = "reconciliation_required"]
    BY <1>2 DEF RefreshStatus
  <2>2. "reconciliation_required" \in AccountingState
    BY DEF AccountingState
  <2>3. RefreshStatus(d, st) \in Record
    BY <1>0, <1>1, <2>1, <2>2 DEF Record
  <2> QED BY <1>0, <2>1, <2>3 DEF SoundRecord, Record
<1>3. CASE ~MustReconcile(d, st) /\ FreshFinality(d, st)
  <2>1. RefreshStatus(d, st) =
          [d EXCEPT !.status = st, !.recon = MustReconcile(d, st), !.acct = "awaiting_finalization"]
    BY <1>3 DEF RefreshStatus
  <2>2. "awaiting_finalization" \in AccountingState
    BY DEF AccountingState
  <2>3. RefreshStatus(d, st) \in Record
    BY <1>0, <1>1, <2>1, <2>2 DEF Record
  <2> QED BY <1>0, <2>1, <2>3 DEF SoundRecord, Record
<1>4. CASE ~MustReconcile(d, st) /\ ~FreshFinality(d, st)
  <2>1. RefreshStatus(d, st) =
          [d EXCEPT !.status = st, !.recon = MustReconcile(d, st), !.acct = d.acct]
    BY <1>4 DEF RefreshStatus
  <2>2. d.acct \in AccountingState
    BY <1>0 DEF Record
  <2>3. RefreshStatus(d, st) \in Record
    BY <1>0, <1>1, <2>1, <2>2 DEF Record
  <2> QED BY <1>0, <2>1, <2>3 DEF SoundRecord, Record
<1> QED BY <1>2, <1>3, <1>4

LEMMA AcceptEvidenceSound ==
  ASSUME NEW d, NEW p, NEW s, NEW f, NEW b, SoundRecord(d, p, s, f, b),
         NEW e, Eligible(d, e), e.review.raw \in f, NEW bl \in Block,
         e = [review |-> e.review, block |-> bl]
  PROVE  /\ SoundRecord(AcceptEvidence(d, e), p, s, f, b)
         /\ AcceptEvidence(d, e).raw = d.raw
<1>1. d.review \in Review
  BY DEF Eligible, IsV2, SoundRecord, Record
<1>2. e \in Evidence /\ e # None
  BY <1>1, NoneIsNothing DEF Eligible, Evidence
<1>3. AcceptEvidence(d, e) \in Record
  BY <1>2 DEF AcceptEvidence, SoundRecord, Record, AccountingState
<1> QED BY <1>2, <1>3 DEF AcceptEvidence, Eligible, SoundRecord, Record

LEMMA RecoveredSound ==
  ASSUME NEW d, NEW p, NEW s, NEW f, NEW b, SoundRecord(d, p, s, f, b)
  PROVE  /\ SoundRecord(Recovered(d), None, s, f, b)
         /\ Recovered(d).evidence = d.evidence /\ Recovered(d).recon = d.recon
         /\ Recovered(d).raw = d.raw
<1>0. d \in Record
  BY DEF SoundRecord
<1>1. Recovered(d) \in Record
  <2> DEFINE a == IF d.acct = "posting" THEN "post_failed" ELSE d.acct
             u == IF d.state \notin {"reviewing", "submitting"} THEN d.state
                  ELSE IF d.review # None THEN "reviewed" ELSE "settled"
  <2>1. a \in AccountingState /\ u \in UiState
    BY <1>0 DEF Record, AccountingState, UiState
  <2>2. Recovered(d) = [d EXCEPT !.acct = a, !.state = u]
    BY DEF Recovered
  <2> HIDE DEF a, u
  <2> QED BY <1>0, <2>1, <2>2 DEF Record
<1> QED BY <1>1 DEF Recovered, SoundRecord, Record

LEMMA MarkPostFailedSound ==
  ASSUME NEW d, NEW p, NEW s, NEW f, NEW b, SoundRecord(d, p, s, f, b)
  PROVE  /\ SoundRecord(MarkPostFailed(d), None, s, f, b)
         /\ MarkPostFailed(d).raw = d.raw
         /\ MarkPostFailed(d).evidence = d.evidence /\ MarkPostFailed(d).recon = d.recon
<1>1. MarkPostFailed(d) \in Record
  BY DEF MarkPostFailed, SoundRecord, Record, AccountingState
<1> QED BY <1>1 DEF MarkPostFailed, SoundRecord, Record

LEMMA MarkPostedSound ==
  ASSUME NEW d, NEW p \in Review, NEW s, NEW f, NEW b,
         SoundRecord(d, p, s, f, b), p \in b
  PROVE  /\ SoundRecord(MarkPosted(d, p), None, s, f, b)
         /\ MarkPosted(d, p).raw = d.raw
         /\ MarkPosted(d, p).evidence = d.evidence /\ MarkPosted(d, p).recon = d.recon
<1>1. CASE d.acct = "posting" /\ ~d.recon
  <2>1. MarkPosted(d, p) = [d EXCEPT !.acct = "posted", !.entry = p]
    BY <1>1 DEF MarkPosted
  <2>2. MarkPosted(d, p) \in Record
    BY <2>1 DEF SoundRecord, Record, AccountingState
  <2> QED BY <1>1, <2>1, <2>2 DEF SoundRecord, Record
<1>2. CASE d.acct = "reconciliation_required" \/ (d.acct = "posting" /\ d.recon)
  <2>1. MarkPosted(d, p) = [d EXCEPT !.acct = "reconciliation_required", !.entry = p]
    BY <1>2 DEF MarkPosted
  <2>2. MarkPosted(d, p) \in Record
    BY <2>1 DEF SoundRecord, Record, AccountingState
  <2> QED BY <1>2, <2>1, <2>2 DEF SoundRecord, Record
<1>3. CASE d.acct \notin {"posting", "reconciliation_required"}
  <2>1. MarkPosted(d, p) = d
    BY <1>3 DEF MarkPosted
  <2> QED BY <1>3, <2>1, SoundUnlessPosting
<1>4. d.recon \in BOOLEAN
  BY DEF SoundRecord, Record
<1> QED BY <1>1, <1>2, <1>3, <1>4

(***************************************************************************)
(* Posting: only a record with evidence leaves for accounting.             *)
(***************************************************************************)

\* What PostFrom and PostWhenReady keep, in terms of the next state.
PostingKeeps(d) ==
  /\ SoundRecord(record', post', sent, final, booked)
  /\ record'.raw = d.raw
  /\ post' \in Review \union {None}
  /\ asked' \subseteq Review /\ booked' = booked
  /\ \A r \in asked' : IsV2(r) /\ r.raw \in final
  /\ booked \subseteq asked'
  /\ post' # None => post' \in asked'

LEMMA PostFromKeeps ==
  ASSUME NEW d, Sound(d), SoundRest, PostFrom(d)
  PROVE  PostingKeeps(d) /\ (d.recon => record' = d /\ asked' = asked)
<1>0. d \in Record /\ d.recon \in BOOLEAN
  BY DEF Sound, SoundRecord, Record
<1>1. CASE post # None \/ d.acct \notin {"ready", "post_failed"}
  <2>1. record' = d /\ UNCHANGED <<post, books>>
    BY <1>1 DEF PostFrom, MayBegin
  <2> QED BY <2>1 DEF PostingKeeps, Sound, SoundRest, AskedWhenFinal, books
<1>2. CASE post = None /\ d.acct \in {"ready", "post_failed"} /\ MayBegin(d) /\ Buildable(d)
  <2>1. /\ record' = [d EXCEPT !.acct = "posting"]
        /\ post' = d.review /\ asked' = asked \union {d.review} /\ booked' = booked
    BY <1>2 DEF PostFrom
  <2>2. d.review \in Review /\ IsV2(d.review) /\ d.review.raw \in final
    BY <1>2, <1>0 DEF Buildable, IsV2, Sound, SoundRecord, Record
  <2>3. record' \in Record
    BY <1>0, <2>1 DEF Record, AccountingState
  <2>4. SoundRecord(record', post', sent, final, booked)
    BY <1>0, <1>2, <2>1, <2>3 DEF Sound, SoundRecord, Record
  <2>5. ~d.recon
    BY <1>2 DEF MayBegin
  <2>6. record'.raw = d.raw
    BY <1>0, <2>1 DEF Record
  <2> QED BY <2>1, <2>2, <2>4, <2>5, <2>6 DEF PostingKeeps, SoundRest, AskedWhenFinal
<1>3. CASE post = None /\ d.acct \in {"ready", "post_failed"} /\ ~(MayBegin(d) /\ Buildable(d))
  <2>1. /\ record' = IF MayBegin(d) THEN [d EXCEPT !.acct = "post_failed"] ELSE d
        /\ UNCHANGED <<post, books>>
    BY <1>3 DEF PostFrom
  <2>2. record' \in Record /\ record'.raw = d.raw /\ (d.recon => record' = d)
    BY <1>0, <2>1 DEF Record, AccountingState, MayBegin
  <2>3. SoundRecord(record', post', sent, final, booked)
    BY <1>0, <1>3, <2>1, <2>2 DEF Sound, SoundRecord, Record, books
  <2> QED BY <2>1, <2>2, <2>3 DEF PostingKeeps, SoundRest, AskedWhenFinal, books
<1> QED BY <1>1, <1>2, <1>3

LEMMA PostWhenReadyKeeps ==
  ASSUME NEW d, Sound(d), SoundRest, PostWhenReady(d)
  PROVE  /\ PostingKeeps(d) /\ check' \in Check
         /\ d.recon => record' = d /\ asked' = asked
<1>1. check' \in Check
  BY DEF PostWhenReady, SoundRest, Check, NoCheck
<1>2. CASE d.acct = "ready"
  BY <1>1, <1>2, PostFromKeeps DEF PostWhenReady
<1>3. CASE d.acct # "ready"
  BY <1>1, <1>3 DEF PostWhenReady, PostingKeeps, Sound, SoundRest, AskedWhenFinal, books
<1> QED BY <1>2, <1>3

(***************************************************************************)
(* The invariant, one lemma per group of actions.                          *)
(***************************************************************************)

\* Steps of the panel that leave record and chain alone.
LEMMA PanelSteps ==
  ASSUME PaymentsAreFinal,
         \/ \E t \in Raw : TypeRaw(t)
         \/ Reopen \/ Approve
         \/ \E k \in CallId : InspectRawTransaction(k) \/ InspectReturns(k)
  PROVE  PaymentsAreFinal'
<1>0. Sound(record) /\ SoundRest /\ SoundCalls(calls, record, sent)
  BY InvariantSplit
<1>1. UNCHANGED <<record, check, post, chain, books>>
  BY DEF TypeRaw, Reopen, Approve, InspectRawTransaction, InspectReturns
<1>2. panel' \in Panel /\ calls' \in [CallId -> Call] /\ SoundCalls(calls', record, sent)
  <2>1. CASE (\E t \in Raw : TypeRaw(t)) \/ Approve
    BY <1>0, <2>1 DEF TypeRaw, Approve, SoundRest, Panel
  <2>2. CASE Reopen
    <3>1. panel' \in Panel
      BY <1>0, <2>2 DEF Reopen, Opened, Panel, Sound, SoundRecord, Record
    <3>2. calls' \in [CallId -> Call]
      <4>1. ASSUME NEW c \in Call PROVE [c EXCEPT !.mine = FALSE] \in Call
        BY DEF Call
      <4>2. \A k \in CallId : calls[k] \in Call
        BY <1>0 DEF SoundRest
      <4> QED BY <2>2, <4>1, <4>2 DEF Reopen
    <3>3. SoundCalls(calls', record, sent)
      BY <1>0, <2>2 DEF Reopen, SoundRest, SoundCalls, Call
    <3> QED BY <3>1, <3>2, <3>3
  <2>3. ASSUME NEW k \in CallId, InspectRawTransaction(k)
        PROVE  panel' \in Panel /\ calls' \in [CallId -> Call] /\ SoundCalls(calls', record, sent)
    <3>1. panel' \in Panel /\ panel.raw \in Raw
      BY <1>0, <2>3 DEF InspectRawTransaction, SoundRest, Panel
    <3> QED BY <1>0, <2>3, <3>1 DEF InspectRawTransaction, Ask, SoundRest, SoundCalls, Call
  <2>4. ASSUME NEW k \in CallId, InspectReturns(k)
        PROVE  panel' \in Panel /\ calls' \in [CallId -> Call] /\ SoundCalls(calls', record, sent)
    <3>1. panel' \in Panel
      BY <1>0, <2>4 DEF InspectReturns, PanelAfter, SoundRest, Panel
    <3> QED BY <1>0, <2>4, <3>1 DEF InspectReturns, Done, NoCall, SoundRest, SoundCalls, Call
  <2> QED BY <2>1, <2>2, <2>3, <2>4
<1>3. Sound(record)' /\ SoundRest' /\ SoundCalls(calls, record, sent)'
  BY <1>0, <1>1, <1>2 DEF Sound, SoundRest, SoundCalls, AskedWhenFinal, chain, books
<1> QED BY <1>3, InvariantSplit, PTL

\* Steps that replace the record and at most one call.
LEMMA RecordSteps ==
  ASSUME PaymentsAreFinal, panel' \in Panel, calls' \in [CallId -> Call],
         Sound(record'), SoundCalls(calls', record', sent),
         UNCHANGED <<check, post, chain, books>>
  PROVE  PaymentsAreFinal'
<1>1. SoundRest
  BY InvariantSplit
<1>2. Sound(record)' /\ SoundRest' /\ SoundCalls(calls, record, sent)'
  BY <1>1 DEF Sound, SoundRest, SoundCalls, AskedWhenFinal, chain, books
<1> QED BY <1>2, InvariantSplit, PTL

\* The record changes and call k ends.
LEMMA CallEnds ==
  ASSUME PaymentsAreFinal, NEW k \in CallId, Done(k), panel' \in Panel,
         Sound(record'), record.raw # None => record'.raw # None,
         UNCHANGED <<check, post, chain, books>>
  PROVE  PaymentsAreFinal'
<1>1. SoundRest /\ SoundCalls(calls, record, sent)
  BY InvariantSplit
<1>2. NoCall \in Call
  BY DEF NoCall, Call
<1>3. calls' \in [CallId -> Call]
  BY <1>1, <1>2 DEF Done, SoundRest
<1>4. SoundCalls(calls', record', sent)
  BY <1>1 DEF Done, NoCall, SoundRest, SoundCalls
<1> QED BY <1>3, <1>4, RecordSteps

LEMMA InspectFailsSound ==
  ASSUME PaymentsAreFinal, NEW k \in CallId, InspectFails(k)
  PROVE  PaymentsAreFinal'
<1>1. Sound(record) /\ SoundRest /\ SoundCalls(calls, record, sent)
  BY InvariantSplit
<1>2. calls[k].raw \in Raw
  BY <1>1 DEF InspectFails, SoundRest, SoundCalls, Call
<1>3. Sound(record')
  BY <1>2, BeginReviewSound, FailedSound DEF InspectFails, Sound
<1>4. record'.raw = calls[k].raw
  BY <1>2, BeginReviewSound, FailedSound DEF InspectFails
<1>5. panel' \in Panel
  BY <1>1 DEF InspectFails, PanelAfter, SoundRest, Panel
<1>6. record'.raw # None
  BY <1>2, <1>4, NoneIsNothing
<1>7. Done(k) /\ UNCHANGED <<check, post, chain, books>>
  BY DEF InspectFails
<1> QED BY <1>3, <1>5, <1>6, <1>7, CallEnds

LEMMA PrepareSound ==
  ASSUME PaymentsAreFinal, NEW k \in CallId, NEW m \in Mapping, NEW c \in Context,
         PrepareAccountingReview(k, m, c)
  PROVE  PaymentsAreFinal'
<1> DEFINE r == [raw |-> panel.raw, mapping |-> m, context |-> c]
<1>1. SoundRest /\ SoundCalls(calls, record, sent)
  BY InvariantSplit
<1>2. panel.raw \in Raw /\ panel.raw # None
  BY <1>1 DEF PrepareAccountingReview, SoundRest, Panel
<1>3. r \in Review /\ r # None
  BY <1>2, NoneIsNothing DEF Review
<1>4. Sound(record') /\ record'.raw = panel.raw
  BY <1>2, BeginReviewSound DEF PrepareAccountingReview, Sound
<1>5. panel' \in Panel
  BY <1>1 DEF PrepareAccountingReview, SoundRest, Panel
<1>6. calls' \in [CallId -> Call] /\ SoundCalls(calls', record', sent)
  <2> DEFINE call == [kind |-> "prepare", raw |-> panel.raw, review |-> r,
                      mine |-> TRUE, accepted |-> FALSE]
  <2>1. calls' = [calls EXCEPT ![k] = call]
    BY DEF PrepareAccountingReview, Ask
  <2>2. call \in Call /\ call.kind = "prepare" /\ call.raw # None /\ call.review # None
        /\ ~call.accepted
    BY <1>2, <1>3 DEF Call
  <2> HIDE DEF call
  <2> QED BY <1>1, <1>2, <1>4, <2>1, <2>2 DEF SoundRest, SoundCalls
<1>7. UNCHANGED <<check, post, chain, books>>
  BY DEF PrepareAccountingReview
<1> QED BY <1>4, <1>5, <1>6, <1>7, RecordSteps

LEMMA PrepareReturnsSound ==
  ASSUME PaymentsAreFinal, NEW k \in CallId, PrepareReturns(k)
  PROVE  PaymentsAreFinal'
<1>1. Sound(record) /\ SoundRest /\ SoundCalls(calls, record, sent)
  BY InvariantSplit
<1>2. calls[k].review \in Review /\ record.raw # None
  BY <1>1 DEF PrepareReturns, SoundRest, SoundCalls, Call
<1>3. Sound(record') /\ record'.raw = record.raw
  BY <1>1, <1>2, AcceptReviewSound DEF PrepareReturns, Sound
<1>4. panel' \in Panel
  BY <1>1 DEF PrepareReturns, SoundRest, Panel
<1>5. Done(k) /\ UNCHANGED <<check, post, chain, books>>
  BY DEF PrepareReturns
<1> QED BY <1>2, <1>3, <1>4, <1>5, CallEnds

LEMMA SubmitSound ==
  ASSUME PaymentsAreFinal, NEW k \in CallId, SubmitReviewedTransaction(k)
  PROVE  PaymentsAreFinal'
<1>1. Sound(record) /\ SoundRest /\ SoundCalls(calls, record, sent)
  BY InvariantSplit
<1>2. record \in Record /\ record.raw # None /\ record.review # None
  BY <1>1 DEF SubmitReviewedTransaction, Sound, SoundRecord
<1>3. Sound(record') /\ record'.raw = record.raw
  BY <1>1, <1>2 DEF SubmitReviewedTransaction, Sound, SoundRecord, Record, UiState
<1>4. calls' \in [CallId -> Call] /\ SoundCalls(calls', record', sent)
  <2> DEFINE call == [kind |-> "submit", raw |-> record.raw, review |-> record.review,
                      mine |-> TRUE, accepted |-> FALSE]
  <2>1. calls' = [calls EXCEPT ![k] = call]
    BY DEF SubmitReviewedTransaction, Ask
  <2>2. call \in Call /\ call.kind = "submit" /\ call.raw # None /\ call.review # None
        /\ ~call.accepted
    BY <1>2 DEF Call, Record
  <2> HIDE DEF call
  <2> QED BY <1>1, <1>2, <1>3, <2>1, <2>2 DEF SoundRest, SoundCalls
<1>5. panel' \in Panel /\ UNCHANGED <<check, post, chain, books>>
  BY <1>1 DEF SubmitReviewedTransaction, SoundRest
<1> QED BY <1>3, <1>4, <1>5, RecordSteps

LEMMA SubmitReturnsSound ==
  ASSUME PaymentsAreFinal, NEW k \in CallId, SubmitReturns(k)
  PROVE  PaymentsAreFinal'
<1>1. Sound(record) /\ SoundRest /\ SoundCalls(calls, record, sent)
  BY InvariantSplit
<1>2. calls[k].review \in Review /\ calls[k].review.raw \in sent
  BY <1>1 DEF SubmitReturns, SoundRest, SoundCalls, Call
<1>3. Sound(record') /\ record'.raw = record.raw
  BY <1>1, <1>2, AcceptReceiptSound DEF SubmitReturns, Sound
<1>4. panel' \in Panel /\ Done(k) /\ UNCHANGED <<check, post, chain, books>>
  BY <1>1 DEF SubmitReturns, SoundRest
<1> QED BY <1>3, <1>4, CallEnds

LEMMA SubmitChangedSound ==
  ASSUME PaymentsAreFinal, NEW k \in CallId, NEW c \in Context, SubmitChanged(k, c)
  PROVE  PaymentsAreFinal'
<1> DEFINE r == [calls[k].review EXCEPT !.raw = calls[k].raw, !.context = c]
<1>1. Sound(record) /\ SoundRest /\ SoundCalls(calls, record, sent)
  BY InvariantSplit
<1>2. /\ calls[k].review \in Review /\ calls[k].raw \in Raw
      /\ record.raw # None
  BY <1>1 DEF SubmitChanged, SoundRest, SoundCalls, Call
<1>3. r \in Review
  BY <1>2 DEF Review
<1>4. record' = Failed(AcceptReview(record, r))
  BY DEF SubmitChanged
<1>5. Sound(AcceptReview(record, r)) /\ AcceptReview(record, r).raw = record.raw
  BY <1>1, <1>2, <1>3, AcceptReviewSound DEF Sound
<1> HIDE DEF r
<1>6. Sound(record') /\ record'.raw = record.raw
  BY <1>4, <1>5, FailedSound DEF Sound
<1>7. panel' \in Panel /\ Done(k) /\ UNCHANGED <<check, post, chain, books>>
  BY <1>1 DEF SubmitChanged, SoundRest
<1> QED BY <1>2, <1>6, <1>7, CallEnds

LEMMA CallFailsSound ==
  ASSUME PaymentsAreFinal, NEW k \in CallId, CallFails(k)
  PROVE  PaymentsAreFinal'
<1>1. Sound(record) /\ SoundRest
  BY InvariantSplit
<1>2. Sound(record') /\ record'.raw = record.raw
  BY <1>1, FailedSound DEF CallFails, Sound
<1>3. panel' \in Panel /\ Done(k) /\ UNCHANGED <<check, post, chain, books>>
  BY <1>1 DEF CallFails, SoundRest
<1> QED BY <1>2, <1>3, CallEnds

\* Steps of the network and of the backend: what they add is only more.
LEMMA ChainSteps ==
  ASSUME PaymentsAreFinal,
         \/ \E k \in CallId : ProviderAccepts(k)
         \/ \E t \in Raw : BroadcastElsewhere(t) \/ SixConfirmations(t)
         \/ \E r \in Review : BackendBooks(r)
  PROVE  PaymentsAreFinal'
<1>1. Sound(record) /\ SoundRest /\ SoundCalls(calls, record, sent)
  BY InvariantSplit
<1>2. UNCHANGED <<record, panel, check, post, asked>>
  BY DEF ProviderAccepts, BroadcastElsewhere, SixConfirmations, BackendBooks, books
<1>3. /\ sent \subseteq sent' /\ final \subseteq final' /\ booked \subseteq booked'
      /\ sent' \subseteq Raw /\ final' \subseteq sent' /\ booked' \subseteq asked
  <2>1. ASSUME NEW k \in CallId, ProviderAccepts(k)
        PROVE  sent \subseteq sent' /\ sent' \subseteq Raw /\ UNCHANGED <<final, booked>>
    <3>1. calls[k].raw \in Raw
      BY <1>1, <2>1 DEF ProviderAccepts, SoundRest, SoundCalls, Call
    <3> QED BY <1>1, <2>1, <3>1 DEF ProviderAccepts, SoundRest, books
  <2>2. CASE \E t \in Raw : BroadcastElsewhere(t) \/ SixConfirmations(t)
    BY <1>1, <2>2 DEF BroadcastElsewhere, SixConfirmations, SoundRest, AskedWhenFinal, books
  <2>3. CASE \E r \in Review : BackendBooks(r)
    BY <1>1, <2>3 DEF BackendBooks, SoundRest, AskedWhenFinal, chain
  <2> QED BY <1>1, <2>1, <2>2, <2>3 DEF SoundRest, AskedWhenFinal
<1>4. SoundRecord(record, post, sent', final', booked')
  BY <1>1, <1>3, SoundGrows DEF Sound
<1>5. calls' \in [CallId -> Call] /\ SoundCalls(calls', record, sent')
  <2>1. ASSUME NEW k \in CallId, ProviderAccepts(k)
        PROVE  calls' \in [CallId -> Call] /\ SoundCalls(calls', record, sent')
    <3>1. calls' = [calls EXCEPT ![k].accepted = TRUE] /\ calls[k].review.raw \in sent'
      BY <2>1 DEF ProviderAccepts
    <3>2. calls' \in [CallId -> Call]
      <4>1. calls[k] \in Call
        BY <1>1 DEF SoundRest
      <4>2. [calls[k] EXCEPT !.accepted = TRUE] \in Call
        BY <4>1 DEF Call
      <4> QED BY <1>1, <3>1, <4>2 DEF SoundRest
    <3>3. ASSUME NEW j \in CallId
          PROVE  /\ calls'[j].kind # "none" => calls'[j].raw # None
                 /\ calls'[j].kind \in {"prepare", "submit"} =>
                      calls'[j].review # None /\ record.raw # None
                 /\ calls'[j].accepted => calls'[j].review.raw \in sent'
      <4>1. CASE j # k
        BY <1>1, <1>3, <3>1, <4>1 DEF SoundRest, SoundCalls
      <4>2. CASE j = k
        <5>1. /\ calls'[k].kind = calls[k].kind /\ calls'[k].raw = calls[k].raw
              /\ calls'[k].review = calls[k].review
          BY <1>1, <3>1 DEF SoundRest, Call
        <5> QED BY <1>1, <3>1, <4>2, <5>1 DEF SoundCalls
      <4> QED BY <4>1, <4>2
    <3> QED BY <3>2, <3>3 DEF SoundCalls
  <2>2. CASE UNCHANGED calls
    BY <1>1, <1>3, <2>2 DEF SoundRest, SoundCalls
  <2> QED BY <2>1, <2>2 DEF BroadcastElsewhere, SixConfirmations, BackendBooks
<1>6. SoundRest'
  BY <1>1, <1>2, <1>3, <1>5 DEF SoundRest, AskedWhenFinal
<1>7. Sound(record)' /\ SoundCalls(calls, record, sent)'
  BY <1>2, <1>4, <1>5 DEF Sound, SoundCalls
<1> QED BY <1>6, <1>7, InvariantSplit, PTL

\* Steps of the check and of the post.
LEMMA PostingSteps ==
  ASSUME PaymentsAreFinal, NEW d, PostingKeeps(d), d.raw = record.raw,
         check' \in Check, UNCHANGED <<panel, calls, chain>>
  PROVE  PaymentsAreFinal'
<1>1. SoundRest /\ SoundCalls(calls, record, sent)
  BY InvariantSplit
<1>2. Sound(record)'
  BY DEF PostingKeeps, Sound, chain
<1>3. SoundRest'
  BY <1>1 DEF PostingKeeps, SoundRest, AskedWhenFinal, chain
<1>4. SoundCalls(calls, record, sent)'
  BY <1>1 DEF PostingKeeps, SoundCalls, chain
<1> QED BY <1>2, <1>3, <1>4, InvariantSplit, PTL

\* A record that stays or changes without a post.
LEMMA NoPosting ==
  ASSUME SoundRest, NEW d, Sound(d), record' = d, UNCHANGED <<post, books>>
  PROVE  PostingKeeps(d)
  BY DEF PostingKeeps, Sound, SoundRest, AskedWhenFinal, books

LEMMA CheckSteps ==
  ASSUME PaymentsAreFinal, StartCheck \/ CheckFails
  PROVE  PaymentsAreFinal'
<1>1. Sound(record) /\ SoundRest
  BY InvariantSplit
<1>2. check' \in Check
  BY <1>1 DEF StartCheck, CheckFails, NoCheck, Check, Sound, SoundRecord, Record
<1>3. record' = record /\ UNCHANGED <<post, books, panel, calls, chain>>
  BY DEF StartCheck, CheckFails
<1> QED BY <1>1, <1>2, <1>3, NoPosting, PostingSteps

LEMMA StatusReturnsSound ==
  ASSUME PaymentsAreFinal, NEW s \in Status, StatusReturns(s)
  PROVE  PaymentsAreFinal'
<1> DEFINE d == RefreshStatus(record, s)
<1>1. Sound(record) /\ SoundRest
  BY InvariantSplit
<1>2. Sound(d) /\ d.raw = record.raw
  BY <1>1, RefreshStatusSound DEF Sound
<1>3. d.review \in Review \union {None}
  BY <1>2 DEF Sound, SoundRecord, Record
<1> HIDE DEF d
<1>4. CASE record' = d /\ check' \in {NoCheck, [stage |-> "evidence", review |-> d.review]}
           /\ UNCHANGED <<post, books>>
  <2>1. check' \in Check
    BY <1>3, <1>4 DEF NoCheck, Check
  <2> QED BY <1>1, <1>2, <1>4, <2>1, NoPosting, PostingSteps DEF StatusReturns
<1>5. CASE PostWhenReady(d)
  BY <1>1, <1>2, <1>5, PostWhenReadyKeeps, PostingSteps DEF StatusReturns
<1> QED BY <1>4, <1>5 DEF StatusReturns, d

LEMMA EvidenceReturnsSound ==
  ASSUME PaymentsAreFinal, NEW b \in Block, EvidenceReturns(b)
  PROVE  PaymentsAreFinal'
<1> DEFINE e == [review |-> check.review, block |-> b]
<1>1. Sound(record) /\ SoundRest
  BY InvariantSplit
<1>2. CASE Eligible(record, e)
  <2>1. e.review.raw \in final /\ e = [review |-> e.review, block |-> b]
    BY DEF EvidenceReturns
  <2>2. PostWhenReady(AcceptEvidence(record, e))
    BY <1>2 DEF EvidenceReturns
  <2> HIDE DEF e
  <2>3. Sound(AcceptEvidence(record, e)) /\ AcceptEvidence(record, e).raw = record.raw
    BY <1>1, <1>2, <2>1, AcceptEvidenceSound DEF Sound
  <2> QED BY <1>1, <2>2, <2>3, PostWhenReadyKeeps, PostingSteps DEF EvidenceReturns
<1>3. CASE ~Eligible(record, e)
  <2>1. check' = NoCheck /\ UNCHANGED <<record, post, books>>
    BY <1>3 DEF EvidenceReturns
  <2>2. check' \in Check
    BY <2>1 DEF NoCheck, Check
  <2> QED BY <1>1, <2>1, <2>2, NoPosting, PostingSteps DEF EvidenceReturns
<1> QED BY <1>2, <1>3

LEMMA RetrySound ==
  ASSUME PaymentsAreFinal, RetryAccountingPost
  PROVE  PaymentsAreFinal'
<1>1. Sound(record) /\ SoundRest
  BY InvariantSplit
<1>2. check' \in Check
  BY <1>1 DEF RetryAccountingPost, SoundRest
<1> QED BY <1>1, <1>2, PostFromKeeps, PostingSteps DEF RetryAccountingPost

LEMMA PostAnswersSound ==
  ASSUME PaymentsAreFinal, PostSucceeds \/ PostFails
  PROVE  PaymentsAreFinal'
<1>1. Sound(record) /\ SoundRest
  BY InvariantSplit
<1>2. post' = None /\ UNCHANGED <<panel, calls, chain, books>>
  BY DEF PostSucceeds, PostFails, PostEnds
<1>3. check' \in Check
  BY <1>1 DEF PostSucceeds, PostFails, PostEnds, SoundRest, NoCheck, Check
<1>4. SoundRecord(record', None, sent, final, booked) /\ record'.raw = record.raw
  <2>1. CASE PostSucceeds
    <3>1. post \in Review /\ post \in booked
      BY <1>1, <2>1 DEF PostSucceeds, PostEnds, SoundRest
    <3> QED BY <1>1, <2>1, <3>1, MarkPostedSound DEF PostSucceeds, PostEnds, Sound
  <2>2. CASE PostFails
    BY <1>1, <2>2, MarkPostFailedSound DEF PostFails, PostEnds, Sound
  <2> QED BY <2>1, <2>2
<1>5. PostingKeeps(record)
  BY <1>1, <1>2, <1>4 DEF PostingKeeps, SoundRest, AskedWhenFinal, books
<1> QED BY <1>2, <1>3, <1>5, PostingSteps

LEMMA RestartSound ==
  ASSUME PaymentsAreFinal, Restart
  PROVE  PaymentsAreFinal'
<1>1. Sound(record) /\ SoundRest /\ SoundCalls(calls, record, sent)
  BY InvariantSplit
<1>2. SoundRecord(record', None, sent, final, booked)
  BY <1>1, RecoveredSound DEF Restart, Sound
<1>3. panel' \in Panel
  BY <1>1 DEF Restart, Opened, Panel, Sound, SoundRecord, Record
<1>4. calls' \in [CallId -> Call] /\ SoundCalls(calls', record', sent)
  BY DEF Restart, NoCall, Call, SoundCalls
<1>5. SoundRest'
  BY <1>1, <1>3, <1>4 DEF Restart, SoundRest, NoCheck, Check, AskedWhenFinal, chain, books
<1>6. Sound(record)' /\ SoundCalls(calls, record, sent)'
  BY <1>2, <1>4 DEF Restart, Sound, SoundCalls, chain, books
<1> QED BY <1>5, <1>6, InvariantSplit, PTL

LEMMA InitiallyFinal == BitcoinInit => PaymentsAreFinal
<1> SUFFICES ASSUME BitcoinInit PROVE PaymentsAreFinal
  OBVIOUS
<1>1. Sound(record)
  <2>1. CASE record = Absent
    BY <2>1, AbsentType DEF Sound, SoundRecord, Absent
  <2>2. ASSUME NEW r \in Review,
               record = [Absent EXCEPT !.state = "settled", !.raw = r.raw, !.review = r,
                           !.receipt = r,
                           !.acct = IF IsV2(r) THEN "reconciliation_required"
                                    ELSE "not_applicable",
                           !.recon = IsV2(r)]
        PROVE  Sound(record)
    <3>1. r.raw \in Raw /\ r # None /\ IsV2(r) \in BOOLEAN /\ r.raw # None
      BY NoneIsNothing DEF Review, IsV2
    <3>2. record \in Record
      BY <2>2, <3>1 DEF Absent, Record, UiState, AccountingState
    <3>3. /\ record.receipt = r /\ record.review = r /\ record.raw = r.raw
          /\ record.evidence = None /\ record.entry = None
          /\ record.acct \in {"reconciliation_required", "not_applicable"}
      BY <2>2 DEF Absent
    <3>4. r.raw \in sent
      BY <3>1, <3>3 DEF BitcoinInit
    <3> QED BY <3>1, <3>2, <3>3, <3>4 DEF Sound, SoundRecord
  <2> QED BY <2>1, <2>2 DEF BitcoinInit, OldRecords
<1>2. panel \in Panel
  BY <1>1 DEF BitcoinInit, Opened, Panel, Sound, SoundRecord, Record
<1>3. calls \in [CallId -> Call] /\ SoundCalls(calls, record, sent)
  BY DEF BitcoinInit, NoCall, Call, SoundCalls
<1>4. SoundRest
  BY <1>2, <1>3 DEF BitcoinInit, SoundRest, NoCheck, Check, AskedWhenFinal
<1> QED BY <1>1, <1>3, <1>4, InvariantSplit

LEMMA CallStepKeeps ==
  ASSUME PaymentsAreFinal, NEW k \in CallId, CallStep(k)
  PROVE  PaymentsAreFinal'
<1>1. CASE InspectRawTransaction(k) \/ InspectReturns(k)
  BY <1>1, PanelSteps
<1>2. CASE InspectFails(k)
  BY <1>2, InspectFailsSound
<1>3. CASE \E m \in Mapping, c \in Context : PrepareAccountingReview(k, m, c)
  BY <1>3, PrepareSound
<1>4. CASE PrepareReturns(k)
  BY <1>4, PrepareReturnsSound
<1>5. CASE SubmitReviewedTransaction(k)
  BY <1>5, SubmitSound
<1>6. CASE ProviderAccepts(k)
  BY <1>6, ChainSteps
<1>7. CASE SubmitReturns(k)
  BY <1>7, SubmitReturnsSound
<1>8. CASE \E c \in Context : SubmitChanged(k, c)
  BY <1>8, SubmitChangedSound
<1>9. CASE CallFails(k)
  BY <1>9, CallFailsSound
<1> QED BY <1>1, <1>2, <1>3, <1>4, <1>5, <1>6, <1>7, <1>8, <1>9 DEF CallStep

LEMMA StutterKeeps ==
  ASSUME PaymentsAreFinal, UNCHANGED vars
  PROVE  PaymentsAreFinal'
<1>1. Sound(record) /\ SoundRest /\ SoundCalls(calls, record, sent)
  BY InvariantSplit
<1>2. (Sound(record) /\ SoundRest /\ SoundCalls(calls, record, sent))'
  BY <1>1 DEF vars, Sound, SoundRest, SoundCalls, AskedWhenFinal
<1> QED BY <1>2, InvariantSplit, PTL

LEMMA StepKeepsFinal ==
  ASSUME PaymentsAreFinal, [BitcoinNext]_vars
  PROVE  PaymentsAreFinal'
<1>1. CASE (\E t \in Raw : TypeRaw(t)) \/ Reopen \/ Approve
  BY <1>1, PanelSteps
<1>2. CASE \E t \in Raw : BroadcastElsewhere(t) \/ SixConfirmations(t)
  BY <1>2, ChainSteps
<1>3. CASE \E k \in CallId : CallStep(k)
  BY <1>3, CallStepKeeps
<1>4. CASE StartCheck \/ CheckFails
  BY <1>4, CheckSteps
<1>5. CASE \E s \in Status : StatusReturns(s)
  BY <1>5, StatusReturnsSound
<1>6. CASE \E b \in Block : EvidenceReturns(b)
  BY <1>6, EvidenceReturnsSound
<1>7. CASE RetryAccountingPost
  BY <1>7, RetrySound
<1>8. CASE \E r \in Review : BackendBooks(r)
  BY <1>8, ChainSteps
<1>9. CASE PostSucceeds \/ PostFails
  BY <1>9, PostAnswersSound
<1>10. CASE Restart
  BY <1>10, RestartSound
<1>11. CASE UNCHANGED vars
  BY <1>11, StutterKeeps
<1> QED BY <1>1, <1>2, <1>3, <1>4, <1>5, <1>6, <1>7, <1>8, <1>9, <1>10, <1>11 DEF BitcoinNext

\* Evidence, receipt and review of a record belong together; only reviews of a
\* transaction that has been six blocks deep leave for accounting, and a
\* payment shown as posted is booked under its own review.
THEOREM BitcoinInvariant == BitcoinSpec => []PaymentsAreFinal
<1>1. PaymentsAreFinal /\ [BitcoinNext]_vars => PaymentsAreFinal'
  BY StepKeepsFinal
<1> QED BY InitiallyFinal, <1>1, PTL DEF BitcoinSpec

(***************************************************************************)
(* A hold is kept.                                                         *)
(***************************************************************************)

Held == record.recon /\ record.evidence # None /\ record'.evidence = record.evidence
        => record'.recon /\ asked' = asked

\* The operations that replace the record wholesale drop its evidence.
LEMMA CallStepHolds ==
  ASSUME PaymentsAreFinal, NEW k \in CallId, CallStep(k)
  PROVE  Held
<1>1. Sound(record) /\ SoundRest /\ SoundCalls(calls, record, sent)
  BY InvariantSplit
<1>2. asked' = asked
  BY DEF CallStep, InspectRawTransaction, InspectReturns, InspectFails, PrepareAccountingReview,
         PrepareReturns, SubmitReviewedTransaction, ProviderAccepts, SubmitReturns,
         SubmitChanged, CallFails, books
<1>3. CASE UNCHANGED record
  BY <1>2, <1>3 DEF Held
<1>4. CASE InspectFails(k)
  BY <1>4 DEF InspectFails, Failed, BeginReview, Absent, Held
<1>5. CASE \E m \in Mapping, c \in Context : PrepareAccountingReview(k, m, c)
  BY <1>5 DEF PrepareAccountingReview, BeginReview, Absent, Held
<1>6. CASE PrepareReturns(k)
  BY <1>1, <1>6 DEF PrepareReturns, AcceptReview, Sound, SoundRecord, Record, Held
<1>7. CASE SubmitReviewedTransaction(k)
  BY <1>1, <1>2, <1>7 DEF SubmitReviewedTransaction, Sound, SoundRecord, Record, Held
<1>8. CASE SubmitReturns(k)
  <2>1. calls[k].review \in Review /\ calls[k].review.raw \in sent
    BY <1>1, <1>8 DEF SubmitReturns, SoundRest, SoundCalls, Call
  <2> QED BY <1>1, <1>2, <1>8, <2>1, AcceptReceiptSound DEF SubmitReturns, Sound, Held
<1>9. CASE \E c \in Context : SubmitChanged(k, c)
  BY <1>1, <1>9 DEF SubmitChanged, Failed, AcceptReview, Sound, SoundRecord, Record, Held
<1>10. CASE CallFails(k)
  BY <1>1, <1>2, <1>10, FailedSound DEF CallFails, Sound, Held
<1> QED BY <1>3, <1>4, <1>5, <1>6, <1>7, <1>8, <1>9, <1>10
        DEF CallStep, InspectRawTransaction, InspectReturns, ProviderAccepts

LEMMA StatusHolds ==
  ASSUME PaymentsAreFinal, NEW s \in Status, StatusReturns(s)
  PROVE  Held
<1> DEFINE d == RefreshStatus(record, s)
<1>1. Sound(record) /\ SoundRest
  BY InvariantSplit
<1>2. Sound(d)
  BY <1>1, RefreshStatusSound DEF Sound
<1>3. record.recon /\ record.evidence # None => d.recon
  BY <1>1 DEF RefreshStatus, MustReconcile, FreshFinality, Sound, SoundRecord, Record
<1> HIDE DEF d
<1>4. CASE record' = d /\ UNCHANGED <<post, books>>
  BY <1>3, <1>4 DEF Held, books
<1>5. CASE PostWhenReady(d)
  BY <1>1, <1>2, <1>3, <1>5, PostWhenReadyKeeps DEF Held
<1> QED BY <1>4, <1>5 DEF StatusReturns, d

LEMMA StepHolds ==
  ASSUME PaymentsAreFinal, [BitcoinNext]_vars
  PROVE  Held
<1>1. Sound(record) /\ SoundRest
  BY InvariantSplit
<1>2. CASE \E k \in CallId : CallStep(k)
  BY <1>2, CallStepHolds
<1>3. CASE \E s \in Status : StatusReturns(s)
  BY <1>3, StatusHolds
<1>4. ASSUME NEW b \in Block, EvidenceReturns(b) PROVE Held
  BY <1>4 DEF EvidenceReturns, Eligible, Held, books
<1>5. CASE RetryAccountingPost
  BY <1>1, <1>5, PostFromKeeps DEF RetryAccountingPost, Held
<1>6. CASE PostSucceeds
  <2>1. post \in Review /\ post \in booked
    BY <1>1, <1>6 DEF PostSucceeds, PostEnds, SoundRest
  <2> QED BY <1>1, <1>6, <2>1, MarkPostedSound DEF PostSucceeds, PostEnds, Sound, Held, books
<1>7. CASE PostFails
  BY <1>1, <1>7, MarkPostFailedSound DEF PostFails, PostEnds, Sound, Held, books
<1>8. CASE Restart
  BY <1>1, <1>8, RecoveredSound DEF Restart, Sound, Held, books
<1>9. CASE UNCHANGED <<record, asked>>
  BY <1>9 DEF Held
<1> QED BY <1>2, <1>3, <1>4, <1>5, <1>6, <1>7, <1>8, <1>9
        DEF BitcoinNext, TypeRaw, BroadcastElsewhere, SixConfirmations, Reopen, Approve,
            StartCheck, CheckFails, BackendBooks, books, vars

\* A payment put on hold because its confirmations went back stays on hold as
\* long as it keeps its evidence, and nothing is posted meanwhile.
THEOREM HoldStays == BitcoinSpec => HoldIsKept
<1>1. PaymentsAreFinal /\ [BitcoinNext]_vars => [Held]_vars
  BY StepHolds
<1> QED BY BitcoinInvariant, <1>1, PTL DEF BitcoinSpec, HoldIsKept, Held
=============================================================================
