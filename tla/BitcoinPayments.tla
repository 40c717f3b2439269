--------------------------- MODULE BitcoinPayments ---------------------------
(***************************************************************************)
(* Bitcoin payments of one watch-only treasury: inspecting and reviewing a *)
(* transaction signed elsewhere, broadcasting it, polling its status,      *)
(* collecting evidence of finality and posting it to accounting.           *)
(*                                                                         *)
(* The digest of a review is the review: it commits to the raw             *)
(* transaction, the accounting mapping and the context in which the        *)
(* provider saw them (tip, watched addresses, fee advice).  A raw          *)
(* transaction stands for its txid.                                        *)
(*                                                                         *)
(* The chain is known by what it has accepted and by what has once been    *)
(* six blocks deep; blocks are reorganised and transactions evicted at     *)
(* any time, so the provider may also answer anything older than that.     *)
(***************************************************************************)
CONSTANTS
  Raw,      \* finalized raw transactions the operator can paste
  Mapping,  \* accounting mappings: payee and USD value of each output
  Context,
  Block,
  CallId,   \* requests of the panel that can run at the same time
  None

Review == [raw : Raw, mapping : Mapping \union {None}, context : Context]

\* reviewVersion 2: the review carries a mapping.
IsV2(r) == r # None /\ r.mapping # None

VARIABLES
  record,  \* the persisted record of the treasury
  panel,   \* the mounted BitcoinWatchDetail
  calls,   \* its requests to the main process
  check,   \* checkingByTreasury: the finalization check that runs
  post,    \* postingByTreasury: the review whose post is awaited, or None
  sent,    \* transactions the network has accepted
  final,   \* transactions that once had six canonical confirmations
  asked,   \* reviews whose record left for accounting
  booked   \* reviews accounting has booked

vars == <<record, panel, calls, check, post, sent, final, asked, booked>>
chain == <<sent, final>>
books == <<asked, booked>>

Status == [state : {"unknown", "pending"}, block : {None}]
          \union [state : {"confirming", "confirmed"}, block : Block]
Evidence == [review : Review, block : Block]

ASSUME NoneIsNothing ==
  None \notin Raw \union Mapping \union Block \union Review \union Status \union Evidence

AccountingState == {"not_applicable", "awaiting_finalization", "ready", "posting",
                    "posted", "post_failed", "reconciliation_required"}

\* "settled" stands for draft, submitted, already_broadcast, rejected and
\* unavailable: a submit starts from none of them.
UiState == {"absent", "reviewing", "reviewed", "submitting", "settled"}

Record == [ state : UiState,
            raw : Raw \union {None},
            review : Review \union {None},
            receipt : Review \union {None},    \* the review it confirms
            status : Status \union {None},
            evidence : Evidence \union {None}, \* finalizedEvidence
            acct : AccountingState,            \* accountingState
            entry : Review \union {None},      \* whose record and journal names these are
            recon : BOOLEAN ]                  \* reconciliationRequired

Absent == [ state |-> "absent", raw |-> None, review |-> None, receipt |-> None,
            status |-> None, evidence |-> None, acct |-> "not_applicable",
            entry |-> None, recon |-> FALSE ]

Panel == [raw : Raw \union {None}, inspected : BOOLEAN, approved : BOOLEAN, busy : BOOLEAN]
Opened(d) == [raw |-> d.raw, inspected |-> FALSE, approved |-> FALSE, busy |-> FALSE]

\* A prepare carries the review it will come back with, a submit the review
\* it confirms.
Call == [ kind : {"none", "inspect", "prepare", "submit"},
          raw : Raw \union {None},
          review : Review \union {None},
          mine : BOOLEAN,        \* the panel that asked is still mounted
          accepted : BOOLEAN ]   \* the network knows the transaction
NoCall == [kind |-> "none", raw |-> None, review |-> None, mine |-> FALSE, accepted |-> FALSE]

Check == [stage : {"idle", "status", "evidence", "post"}, review : Review \union {None}]
NoCheck == [stage |-> "idle", review |-> None]

TypeOK ==
  /\ record \in Record
  /\ panel \in Panel
  /\ calls \in [CallId -> Call]
  /\ check \in Check
  /\ post \in Review \union {None}
  /\ sent \subseteq Raw /\ final \subseteq Raw
  /\ asked \subseteq Review /\ booked \subseteq Review

\* What earlier versions left behind: a broadcast reviewed without a mapping,
\* and a payment put on hold before there was any evidence.
OldRecords ==
  { [Absent EXCEPT !.state = "settled", !.raw = r.raw, !.review = r, !.receipt = r,
                   !.acct = IF IsV2(r) THEN "reconciliation_required" ELSE "not_applicable",
                   !.recon = IsV2(r)] : r \in Review }

-----------------------------------------------------------------------------
(* The store: the record each operation leaves                             *)

BeginReview(t) == [Absent EXCEPT !.state = "reviewing", !.raw = t]

AfterReview(r) == IF IsV2(r) THEN "awaiting_finalization" ELSE "not_applicable"

AcceptReview(d, r) ==
  [d EXCEPT !.state = "reviewed", !.review = r, !.receipt = None, !.status = None,
            !.evidence = None, !.acct = AfterReview(r), !.entry = None, !.recon = FALSE]

Failed(d) == [d EXCEPT !.state = "settled"]

WithReceipt(d, r) ==
  [d EXCEPT !.state = "settled", !.receipt = r, !.acct = AfterReview(r)]

\* acceptReceipt throws for another review; the handler then fails the record.
AcceptReceipt(d, r) ==
  IF d.review = r THEN WithReceipt(d, r) ELSE Failed(d)

Regressed(old, new) ==
  /\ old # None
  /\ old.state \in {"confirming", "confirmed"}
  /\ \/ new.state \in {"unknown", "pending"}
     \/ old.state = "confirmed" /\ new.state # "confirmed"
     \/ new.block # None /\ new.block # old.block

\* Finality seen before there is any evidence also lifts a hold.
FreshFinality(d, s) ==
  /\ IsV2(d.review)
  /\ d.evidence = None /\ d.entry = None
  /\ d.acct \in {"awaiting_finalization", "reconciliation_required"}
  /\ s.state = "confirmed"

AccountingAtRisk(d) ==
  \/ d.evidence # None \/ d.entry # None
  \/ d.acct \in {"ready", "posting", "post_failed", "posted"}

RegressedNow(d, s) == Regressed(d.status, s) /\ AccountingAtRisk(d) /\ IsV2(d.review)

MustReconcile(d, s) ==
  \/ d.recon /\ ~FreshFinality(d, s)
  \/ RegressedNow(d, s)

RefreshStatus(d, s) ==
  [d EXCEPT !.status = s,
            !.recon = MustReconcile(d, s),
            !.acct = IF MustReconcile(d, s) THEN "reconciliation_required"
                     ELSE IF FreshFinality(d, s) THEN "awaiting_finalization" ELSE d.acct]

\* acceptFinalizedEvidence and assertEvidenceMatches.
Eligible(d, e) ==
  /\ d.receipt # None /\ IsV2(d.review)
  /\ d.status # None /\ d.status.state = "confirmed"
  /\ ~d.recon
  /\ e.review = d.review

AcceptEvidence(d, e) == [d EXCEPT !.evidence = e, !.acct = "ready"]

\* beginAccountingPost.
MayBegin(d) ==
  /\ d.acct \in {"ready", "post_failed"}
  /\ d.status # None /\ d.status.state = "confirmed"
  /\ ~d.recon

\* buildFinalizedBitcoinPaymentRecord, of a record that may begin.
Buildable(d) ==
  /\ IsV2(d.review) /\ d.receipt # None /\ d.evidence # None
  /\ d.evidence.review = d.review

\* A late answer is kept on a record that was put on hold meanwhile.
MarkPosted(d, r) ==
  CASE d.acct = "posting" /\ ~d.recon -> [d EXCEPT !.acct = "posted", !.entry = r]
    [] d.acct = "reconciliation_required" \/ (d.acct = "posting" /\ d.recon) ->
         [d EXCEPT !.acct = "reconciliation_required", !.entry = r]
    [] OTHER -> d

MarkPostFailed(d) == IF d.acct = "posting" THEN [d EXCEPT !.acct = "post_failed"] ELSE d

\* merge: what is loaded after a restart.
Recovered(d) ==
  [d EXCEPT !.acct = IF d.acct = "posting" THEN "post_failed" ELSE d.acct,
            !.state = IF d.state \notin {"reviewing", "submitting"} THEN d.state
                      ELSE IF d.review # None THEN "reviewed" ELSE "settled"]

-----------------------------------------------------------------------------
(* The panel: one request is a call of the main process                    *)

BitcoinInit ==
  /\ record \in {Absent} \union OldRecords
  /\ panel = Opened(record)
  /\ calls = [k \in CallId |-> NoCall]
  /\ check = NoCheck /\ post = None
  /\ sent = {t \in Raw : record.receipt # None /\ record.receipt.raw = t}
  /\ final = {} /\ asked = {} /\ booked = {}

\* An edit of the text: what was inspected or ticked no longer counts.
TypeRaw(t) ==
  /\ panel' = [panel EXCEPT !.raw = t, !.inspected = FALSE, !.approved = FALSE]
  /\ UNCHANGED <<record, calls, check, post, chain, books>>

\* The panel is left and opened again; its requests go on without it.
Reopen ==
  /\ panel' = Opened(record)
  /\ calls' = [k \in CallId |-> [calls[k] EXCEPT !.mine = FALSE]]
  /\ UNCHANGED <<record, check, post, chain, books>>

Ask(k, kind, t, r) ==
  /\ calls[k] = NoCall
  /\ calls' = [calls EXCEPT ![k] =
       [kind |-> kind, raw |-> t, review |-> r, mine |-> TRUE, accepted |-> FALSE]]

InspectRawTransaction(k) ==
  /\ panel.raw # None /\ ~panel.busy /\ record.state # "submitting"
  /\ Ask(k, "inspect", panel.raw, None)
  /\ panel' = [panel EXCEPT !.busy = TRUE, !.approved = FALSE]
  /\ UNCHANGED <<record, check, post, chain, books>>

\* What the answer of call k does to the panel that asked.
PanelAfter(k, inspected) ==
  IF calls[k].mine THEN [panel EXCEPT !.inspected = inspected, !.busy = FALSE] ELSE panel

Done(k) == calls' = [calls EXCEPT ![k] = NoCall]

InspectReturns(k) ==
  /\ calls[k].kind = "inspect"
  /\ panel' = PanelAfter(k, TRUE)
  /\ Done(k)
  /\ UNCHANGED <<record, check, post, chain, books>>

\* Also a transaction that is already known fails its inspection.
InspectFails(k) ==
  /\ calls[k].kind = "inspect"
  /\ record' = Failed(BeginReview(calls[k].raw))
  /\ panel' = PanelAfter(k, panel.inspected)
  /\ Done(k)
  /\ UNCHANGED <<check, post, chain, books>>

\* The mapping was filled in for what was inspected; the text is read again.
PrepareAccountingReview(k, mapping, context) ==
  /\ panel.inspected /\ panel.raw # None
  /\ record.state \notin {"reviewing", "submitting"}
  /\ Ask(k, "prepare", panel.raw,
         [raw |-> panel.raw, mapping |-> mapping, context |-> context])
  /\ record' = BeginReview(panel.raw)
  /\ panel' = [panel EXCEPT !.approved = FALSE]
  /\ UNCHANGED <<check, post, chain, books>>

PrepareReturns(k) ==
  /\ calls[k].kind = "prepare"
  /\ record' = AcceptReview(record, calls[k].review)
  /\ panel' = IF calls[k].mine THEN [panel EXCEPT !.inspected = FALSE] ELSE panel
  /\ Done(k)
  /\ UNCHANGED <<check, post, chain, books>>

\* "I verified ..." is ticked, or the tick taken back.
Approve ==
  /\ record.review # None /\ record.receipt = None
  /\ panel' = [panel EXCEPT !.approved = ~panel.approved]
  /\ UNCHANGED <<record, calls, check, post, chain, books>>

SubmitReviewedTransaction(k) ==
  /\ record.review # None /\ record.receipt = None
  /\ panel.approved /\ record.state = "reviewed"
  /\ Ask(k, "submit", record.raw, record.review)
  /\ record' = [record EXCEPT !.state = "submitting"]
  /\ UNCHANGED <<panel, check, post, chain, books>>

\* confirmBitcoinBroadcast: the same review again, so the transaction is
\* posted, unless the provider knows it already.
ProviderAccepts(k) ==
  /\ calls[k].kind = "submit" /\ ~calls[k].accepted
  /\ calls[k].raw = calls[k].review.raw
  /\ calls' = [calls EXCEPT ![k].accepted = TRUE]
  /\ sent' = sent \union {calls[k].raw}
  /\ UNCHANGED <<record, panel, check, post, final, books>>

SubmitReturns(k) ==
  /\ calls[k].kind = "submit" /\ calls[k].accepted
  /\ record' = AcceptReceipt(record, calls[k].review)
  /\ Done(k)
  /\ UNCHANGED <<panel, check, post, chain, books>>

\* review_changed: the refreshed review replaces the approved one.
SubmitChanged(k, context) ==
  LET refreshed == [calls[k].review EXCEPT !.raw = calls[k].raw, !.context = context]
  IN  /\ calls[k].kind = "submit" /\ ~calls[k].accepted
      /\ refreshed # calls[k].review
      /\ record' = Failed(AcceptReview(record, refreshed))
      /\ Done(k)
      /\ UNCHANGED <<panel, check, post, chain, books>>

\* A refusal, an unreachable provider, or an answer that was lost.
CallFails(k) ==
  /\ calls[k].kind \in {"prepare", "submit"}
  /\ record' = Failed(record)
  /\ Done(k)
  /\ UNCHANGED <<panel, check, post, chain, books>>

-----------------------------------------------------------------------------
(* Finality and accounting                                                 *)

\* A finalized transaction can be broadcast by whoever signed it, too.
BroadcastElsewhere(t) ==
  /\ t \notin sent
  /\ sent' = sent \union {t}
  /\ UNCHANGED <<record, panel, calls, check, post, final, books>>

SixConfirmations(t) ==
  /\ t \in sent \ final
  /\ final' = final \union {t}
  /\ UNCHANGED <<record, panel, calls, check, post, sent, books>>

\* What getBitcoinTransactionStatus may say of t.
Answers(t) ==
  { s \in Status : /\ s.state \in {"pending", "confirming"} => t \in sent
                   /\ s.state = "confirmed" => t \in final }

\* checkBitcoinPaymentFinalization, on a change of the store or the timer.
StartCheck ==
  /\ record.receipt # None /\ check = NoCheck
  /\ check' = [stage |-> "status", review |-> record.receipt]
  /\ UNCHANGED <<record, panel, calls, post, chain, books>>

\* runPost of the record d, unless a post is awaited.
PostFrom(d) ==
  CASE post # None \/ d.acct \notin {"ready", "post_failed"} ->
         record' = d /\ UNCHANGED <<post, books>>
    [] post = None /\ MayBegin(d) /\ Buildable(d) ->
         /\ record' = [d EXCEPT !.acct = "posting"]
         /\ post' = d.review
         /\ asked' = asked \union {d.review}
         /\ UNCHANGED booked
    [] OTHER ->
         /\ record' = IF MayBegin(d) THEN [d EXCEPT !.acct = "post_failed"] ELSE d
         /\ UNCHANGED <<post, books>>

\* The check awaits the post of a record that is ready, or ends.
PostWhenReady(d) ==
  /\ IF d.acct = "ready" THEN PostFrom(d) ELSE record' = d /\ UNCHANGED <<post, books>>
  /\ check' = IF d.acct = "ready" /\ post' # None
               THEN [check EXCEPT !.stage = "post"] ELSE NoCheck

StatusReturns(s) ==
  LET d == RefreshStatus(record, s)
  IN  /\ check.stage = "status"
      /\ s \in Answers(check.review.raw)
      /\ \/ /\ d.receipt = None \/ d.recon
            /\ record' = d /\ check' = NoCheck
            /\ UNCHANGED <<post, books>>
         \/ /\ d.receipt # None /\ ~d.recon
            /\ IsV2(d.review) /\ s.state = "confirmed" /\ d.acct = "awaiting_finalization"
            /\ record' = d /\ check' = [stage |-> "evidence", review |-> d.review]
            /\ UNCHANGED <<post, books>>
         \/ /\ d.receipt # None /\ ~d.recon
            /\ ~(IsV2(d.review) /\ s.state = "confirmed" /\ d.acct = "awaiting_finalization")
            /\ PostWhenReady(d)
      /\ UNCHANGED <<panel, calls, chain>>

\* getFinalizedBitcoinPaymentEvidence found the payment in block b.
EvidenceReturns(b) ==
  LET e == [review |-> check.review, block |-> b]
  IN  /\ check.stage = "evidence"
      /\ check.review.raw \in final
      /\ IF Eligible(record, e) THEN PostWhenReady(AcceptEvidence(record, e))
         ELSE check' = NoCheck /\ UNCHANGED <<record, post, books>>
      /\ UNCHANGED <<panel, calls, chain>>

\* The provider is away, or the evidence not final: the record is kept.
CheckFails ==
  /\ check.stage \in {"status", "evidence"}
  /\ check' = NoCheck
  /\ UNCHANGED <<record, panel, calls, post, chain, books>>

\* "Retry accounting post".
RetryAccountingPost ==
  /\ record.receipt # None /\ IsV2(record.review) /\ record.acct = "post_failed"
  /\ post = None
  /\ PostFrom(record)
  /\ UNCHANGED <<panel, calls, check, chain>>

\* The backend books a payment once per transaction (AccountingLedger), also
\* when nobody waits for the answer any more.
BackendBooks(r) ==
  /\ r \in asked /\ \A b \in booked : b.raw # r.raw
  /\ booked' = booked \union {r}
  /\ UNCHANGED <<record, panel, calls, check, post, chain, asked>>

PostEnds(d) ==
  /\ post # None
  /\ record' = d /\ post' = None
  /\ check' = IF check.stage = "post" THEN NoCheck ELSE check
  /\ UNCHANGED <<panel, calls, chain, books>>

PostSucceeds == post \in booked /\ PostEnds(MarkPosted(record, post))
PostFails == PostEnds(MarkPostFailed(record))

Restart ==
  /\ record' = Recovered(record)
  /\ panel' = Opened(record)
  /\ calls' = [k \in CallId |-> NoCall]
  /\ check' = NoCheck /\ post' = None
  /\ UNCHANGED <<chain, books>>

CallStep(k) ==
  \/ InspectRawTransaction(k) \/ InspectReturns(k) \/ InspectFails(k)
  \/ \E m \in Mapping, c \in Context : PrepareAccountingReview(k, m, c)
  \/ PrepareReturns(k)
  \/ SubmitReviewedTransaction(k) \/ ProviderAccepts(k) \/ SubmitReturns(k)
  \/ \E c \in Context : SubmitChanged(k, c)
  \/ CallFails(k)

BitcoinNext ==
  \/ \E t \in Raw : TypeRaw(t) \/ BroadcastElsewhere(t) \/ SixConfirmations(t)
  \/ Reopen \/ Approve
  \/ \E k \in CallId : CallStep(k)
  \/ StartCheck \/ \E s \in Status : StatusReturns(s)
  \/ \E b \in Block : EvidenceReturns(b)
  \/ CheckFails
  \/ RetryAccountingPost \/ \E r \in Review : BackendBooks(r)
  \/ PostSucceeds \/ PostFails \/ Restart

BitcoinSpec == BitcoinInit /\ [][BitcoinNext]_vars

-----------------------------------------------------------------------------
(* Properties                                                              *)

\* The inductive invariant: evidence, receipt and review of the record belong
\* together, and nothing is posted but reviews of version 2 whose transaction
\* has been final; a payment shown as posted is booked under its own review.
ReceiptMatchesReview ==
  record.receipt # None => /\ record.receipt = record.review
                           /\ record.receipt.raw \in sent

FinalEvidence(e) == IsV2(e.review) /\ e.review.raw \in final

EvidenceMatchesReview ==
  record.evidence # None =>
    /\ record.receipt # None
    /\ record.evidence.review = record.review
    /\ FinalEvidence(record.evidence)

AccountedOnEvidence ==
  /\ record.acct \in {"ready", "posting", "post_failed", "posted"} => record.evidence # None
  /\ record.acct = "posting" => post = record.review
  /\ record.acct = "posted" => record.entry = record.review
  /\ record.entry # None => record.entry \in booked

AskedWhenFinal ==
  /\ \A r \in asked : IsV2(r) /\ r.raw \in final
  /\ booked \subseteq asked
  /\ post # None => post \in asked

CallsAreSound ==
  /\ final \subseteq sent
  /\ record.review # None => record.raw # None
  /\ \A k \in CallId :
       /\ calls[k].kind # "none" => calls[k].raw # None
       /\ calls[k].kind \in {"prepare", "submit"} => calls[k].review # None /\ record.raw # None
       /\ calls[k].accepted => calls[k].review.raw \in sent

PaymentsAreFinal ==
  /\ TypeOK
  /\ ReceiptMatchesReview
  /\ EvidenceMatchesReview
  /\ AccountedOnEvidence
  /\ AskedWhenFinal
  /\ CallsAreSound

\* A payment that regressed after evidence was accepted stays on hold, and
\* nothing is posted for it, as long as it keeps that evidence.
HoldIsKept ==
  [][record.recon /\ record.evidence # None /\ record'.evidence = record.evidence
     => record'.recon /\ asked' = asked]_vars
=============================================================================
