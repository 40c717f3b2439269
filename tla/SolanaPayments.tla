---------------------------- MODULE SolanaPayments ----------------------------
(***************************************************************************)
(* Payments of native SOL under a durable nonce, for one treasury: the     *)
(* page that prepares a review, collects the signatures of the required    *)
(* signers and submits, the record the store keeps of it, the single check *)
(* that follows a submitted payment to its finalized evidence, and its     *)
(* accounting.  A treasury has one record at a time; an answer to a call   *)
(* made for an earlier review may find a later one in its place.           *)
(*                                                                         *)
(* A review is its number, which is its digest.  Its transaction is what   *)
(* is paid under which nonce, so that two reviews may share a transaction. *)
(***************************************************************************)
EXTENDS Naturals, Sequences, FiniteSets

CONSTANTS
  Pays,        \* destination and amount of a payment
  Required,    \* the required signers
  MaxReviews,  \* bound: reviews prepared
  MaxNonce,    \* bound: durable nonces
  MaxCalls,    \* bound: calls of the page in flight
  NoRecord

ASSUME RequiredAssumption == Required # {} /\ IsFiniteSet(Required)
ASSUME SolBoundsAssumption == MaxReviews \in Nat /\ MaxNonce \in Nat

VARIABLES
  reviews,   \* the reviews prepared so far
  record,    \* the record of the treasury
  refused,   \* proposalValidationFailed of the page
  solcalls,  \* calls of the page in flight
  check,     \* checkingByTreasury: how far the check is, and the review it reads
  solpost,   \* postingByTreasury: how far the post is, and its review
  solbooks,  \* reviews the backend has a record of
  wire,      \* transactions sent to the network
  status,    \* what became of each transaction
  durable    \* the durable nonce of the account

solvars == <<reviews, record, refused, solcalls, check, solpost, solbooks,
             wire, status, durable>>
solchain == <<wire, status, durable>>

Tx == [pay : Pays, nonce : 0 .. MaxNonce]
Review == 1 .. MaxReviews
TxState == {"unknown", "processed", "confirmed", "finalized", "failed"}

Record ==
  [review : Review,
   state : {"reviewed", "collecting_signatures", "ready", "submitting", "submitted", "failed"},
   signed : SUBSET Required,
   receipt : BOOLEAN,
   seen : TxState,       \* transactionState, unknown for null
   accounting : {"awaiting_finalization", "ready", "posting", "posted", "post_failed",
                 "reconciliation_required"},
   evidence : Review \union {0},
   rollback : BOOLEAN,   \* rollbackDetected
   reconcile : BOOLEAN]  \* reconciliationRequired

SolCall == [kind : {"prepare", "submit", "sent"}, review : Review]
             \union [kind : {"import"}, review : Review, signer : Required]

SolTypeOK ==
  /\ reviews \in Seq(Tx) /\ Len(reviews) <= MaxReviews
  /\ record \in Record \union {NoRecord}
  /\ refused \in BOOLEAN
  /\ solcalls \subseteq SolCall
  /\ check \in [stage : {"idle", "status", "evidence", "post"}, review : Review \union {0}]
  /\ solpost \in [stage : {"idle", "asked", "booked"}, review : Review \union {0}]
  /\ solbooks \subseteq Review
  /\ wire \subseteq Tx
  /\ status \in [Tx -> TxState]
  /\ durable \in 0 .. MaxNonce + 1

Idle == [stage |-> "idle", review |-> 0]

SolInit ==
  /\ reviews = <<>> /\ record = NoRecord /\ refused = FALSE
  /\ solcalls = {} /\ check = Idle /\ solpost = Idle /\ solbooks = {}
  /\ wire = {} /\ status = [t \in Tx |-> "unknown"] /\ durable = 0

Recorded == record # NoRecord
Complete(r) == r.signed = Required

-----------------------------------------------------------------------------
(* The page                                                                *)

SolStarts(c) ==
  /\ Cardinality(solcalls) < MaxCalls
  /\ solcalls' = solcalls \union {c}
SolEnds(c) == solcalls' = solcalls \ {c}

\* prepareSolanaPayment: the review takes the nonce the account has now.  The
\* form is there while there is no record, so two may be on their way.
PaymentPrepare(pay) ==
  /\ ~Recorded /\ Len(reviews) < MaxReviews /\ durable <= MaxNonce
  /\ reviews' = Append(reviews, [pay |-> pay, nonce |-> durable])
  /\ SolStarts([kind |-> "prepare", review |-> Len(reviews')])
  /\ UNCHANGED <<record, refused, check, solpost, solbooks, solchain>>

\* acceptProposal replaces whatever record there is by then.
AcceptProposal(c) ==
  /\ c.kind = "prepare"
  /\ record' = [review |-> c.review, state |-> "reviewed", signed |-> {}, receipt |-> FALSE,
                seen |-> "unknown", accounting |-> "awaiting_finalization", evidence |-> 0,
                rollback |-> FALSE, reconcile |-> FALSE]
  /\ refused' = FALSE
  /\ SolEnds(c)
  /\ UNCHANGED <<reviews, check, solpost, solbooks, solchain>>

\* fail: a record without a receipt has failed, whatever it was doing.
Failed(r) == [r EXCEPT !.state = IF r.receipt THEN "submitted" ELSE "failed"]

\* The review, or its signatures, could not be validated in the main process.
ValidationFails(review) ==
  /\ Recorded
  /\ record' = Failed(record)
  /\ refused' = (refused \/ review)
  /\ UNCHANGED <<reviews, solcalls, check, solpost, solbooks, solchain>>

\* "Discard review and start over", and "Discard invalid review".
Clear ==
  /\ Recorded /\ (~record.receipt \/ refused)
  /\ record' = NoRecord
  /\ refused' = FALSE
  /\ UNCHANGED <<reviews, solcalls, check, solpost, solbooks, solchain>>

\* importEnvelope: a required signer signed this review, message and digest.
ImportEnvelope(signer) ==
  /\ Recorded /\ ~record.receipt
  /\ SolStarts([kind |-> "import", review |-> record.review, signer |-> signer])
  /\ UNCHANGED <<reviews, record, refused, check, solpost, solbooks, solchain>>

AddVerifiedSignature(c) ==
  /\ c.kind = "import"
  /\ IF /\ Recorded /\ ~record.receipt
        /\ c.review = record.review /\ c.signer \notin record.signed
     THEN LET signed == record.signed \union {c.signer}
          IN  record' = [record EXCEPT !.signed = signed,
                           !.state = IF signed = Required THEN "ready" ELSE "collecting_signatures"]
     ELSE UNCHANGED record
  /\ SolEnds(c)
  /\ UNCHANGED <<reviews, refused, check, solpost, solbooks, solchain>>

-----------------------------------------------------------------------------
(* Submission                                                              *)

Submit ==
  /\ Recorded /\ record.state = "ready" /\ ~refused
  /\ SolStarts([kind |-> "submit", review |-> record.review])
  /\ record' = [record EXCEPT !.state = "submitting"]
  /\ UNCHANGED <<reviews, refused, check, solpost, solbooks, solchain>>

\* submitSolanaPayment: the transaction is not known yet and its nonce still is
\* the durable one.
SendTransaction(c) ==
  /\ c.kind = "submit"
  /\ status[reviews[c.review]] = "unknown"
  /\ reviews[c.review].nonce = durable
  /\ wire' = wire \union {reviews[c.review]}
  /\ solcalls' = (solcalls \ {c}) \union {[c EXCEPT !.kind = "sent"]}
  /\ UNCHANGED <<reviews, record, refused, check, solpost, solbooks, status, durable>>

\* acceptReceipt without the comparison of the digests.
AcceptAnyReceipt(c) ==
  /\ c.kind = "sent" \/ (c.kind = "submit" /\ status[reviews[c.review]] # "unknown")
  /\ record' = IF Recorded
               THEN [record EXCEPT !.state = "submitted", !.receipt = TRUE, !.seen = "processed",
                                   !.accounting = "awaiting_finalization"]
               ELSE record
  /\ SolEnds(c)
  /\ UNCHANGED <<reviews, refused, check, solpost, solbooks, solchain>>

\* The transaction was sent, or the status of an earlier attempt is known.
AcceptReceipt(c) ==
  /\ c.kind = "sent" \/ (c.kind = "submit" /\ status[reviews[c.review]] # "unknown")
  /\ record' = IF Recorded /\ record.review = c.review
               THEN [record EXCEPT !.state = "submitted", !.receipt = TRUE, !.seen = "processed",
                                   !.accounting = "awaiting_finalization"]
               ELSE record
  /\ SolEnds(c)
  /\ UNCHANGED <<reviews, refused, check, solpost, solbooks, solchain>>

\* A refusal, or an answer that is lost; submissionFailed looks at the record
\* of the treasury, not at the review it was called for.
SolCallFails(c) ==
  /\ record' = IF /\ c.kind \in {"submit", "sent"}
                  /\ Recorded /\ ~record.receipt /\ record.state = "submitting"
               THEN [record EXCEPT !.state = IF Complete(record) THEN "ready" ELSE "failed"]
               ELSE record
  /\ SolEnds(c)
  /\ UNCHANGED <<reviews, refused, check, solpost, solbooks, solchain>>

-----------------------------------------------------------------------------
(* The check: status, finalized evidence, post                             *)

CheckStarts ==
  /\ Recorded /\ record.receipt /\ check = Idle
  /\ check' = [stage |-> "status", review |-> record.review]
  /\ UNCHANGED <<reviews, record, refused, solcalls, solpost, solbooks, solchain>>

Rank(s) == IF s \in {"unknown", "failed"} THEN 0
           ELSE IF s = "processed" THEN 1 ELSE IF s = "confirmed" THEN 2 ELSE 3

IsRegression(previous, next) ==
  previous \in {"confirmed", "finalized"} /\ Rank(next) < Rank(previous)

\* updateTransactionState, which forgets that a payment is to be reconciled.
UpdatedAfresh(r, s) ==
  LET rollback == r.rollback \/ IsRegression(r.seen, s)
      reconcile == rollback /\ (r.seen = "finalized" \/ r.accounting = "posted")
  IN  [r EXCEPT !.seen = s, !.rollback = rollback, !.reconcile = reconcile,
                !.accounting = IF reconcile THEN "reconciliation_required" ELSE @]

\* updateTransactionState.  An earlier rollback of a confirmed status counts
\* as well, as soon as there is evidence.
Updated(r, s) ==
  LET rollback == r.rollback \/ IsRegression(r.seen, s)
      reconcile == /\ rollback
                   /\ \/ r.seen = "finalized" \/ r.evidence # 0
                      \/ r.accounting = "posted" \/ r.reconcile
  IN  [r EXCEPT !.seen = s, !.rollback = rollback, !.reconcile = reconcile,
                !.accounting = IF reconcile THEN "reconciliation_required" ELSE @]

\* What a node may say of a transaction: it may lag behind.
Answers(t) == {s \in TxState : s = status[t] \/ (s # "failed" /\ Rank(s) < Rank(status[t]))}

\* buildFinalizedSolanaPaymentRecord and beginAccountingPost.
Postable(r) ==
  /\ r.accounting \in {"ready", "post_failed"} /\ ~r.reconcile
  /\ r.seen = "finalized" /\ r.evidence = r.review

\* runPost, unless a post of the treasury is in flight.
RunPost(r) ==
  IF r.accounting \in {"ready", "post_failed"} /\ solpost = Idle /\ Postable(r)
  THEN /\ record' = [r EXCEPT !.accounting = "posting"]
       /\ solpost' = [stage |-> "asked", review |-> r.review]
  ELSE record' = r /\ UNCHANGED solpost

\* The check awaits the post it started, or the one that was in flight.
AwaitsPost(r) ==
  check' = IF solpost'.stage = "idle" THEN Idle ELSE [stage |-> "post", review |-> r.review]

StatusHeard(s) ==
  /\ check.stage = "status" /\ s \in Answers(reviews[check.review])
  /\ IF ~Recorded \/ ~record.receipt
     THEN check' = Idle /\ UNCHANGED <<record, solpost>>
     ELSE LET r == Updated(record, s)
          IN  IF r.seen = "finalized" /\ r.accounting = "awaiting_finalization"
              THEN /\ record' = r /\ UNCHANGED solpost
                   /\ check' = [stage |-> "evidence", review |-> r.review]
              ELSE IF r.accounting = "ready"
                   THEN RunPost(r) /\ AwaitsPost(r)
                   ELSE record' = r /\ check' = Idle /\ UNCHANGED solpost
  /\ UNCHANGED <<reviews, refused, solcalls, solbooks, solchain>>

\* fail marks a record without a receipt that took this one's place.
StatusFails ==
  /\ check.stage = "status"
  /\ record' = IF Recorded THEN Failed(record) ELSE record
  /\ check' = Idle
  /\ UNCHANGED <<reviews, refused, solcalls, solpost, solbooks, solchain>>

\* acceptFinalizedEvidence with its comparison with the review.
Accepts(r, review) == r.receipt /\ r.seen = "finalized" /\ review = r.review

\* Evidence of a transaction that is only confirmed.
ConfirmedEvidenceHeard ==
  /\ check.stage = "evidence" /\ status[reviews[check.review]] \in {"confirmed", "finalized"}
  /\ IF Recorded /\ Accepts(record, check.review)
     THEN RunPost([record EXCEPT !.evidence = check.review, !.accounting = "ready"]) /\ AwaitsPost(record)
     ELSE check' = Idle /\ UNCHANGED <<record, solpost>>
  /\ UNCHANGED <<reviews, refused, solcalls, solbooks, solchain>>

EvidenceHeard ==
  /\ check.stage = "evidence" /\ status[reviews[check.review]] = "finalized"
  /\ IF Recorded /\ Accepts(record, check.review)
     THEN RunPost([record EXCEPT !.evidence = check.review, !.accounting = "ready"]) /\ AwaitsPost(record)
     ELSE check' = Idle /\ UNCHANGED <<record, solpost>>
  /\ UNCHANGED <<reviews, refused, solcalls, solbooks, solchain>>

\* No finalized evidence yet, or it could not be had.
EvidenceFails ==
  /\ check.stage = "evidence"
  /\ check' = Idle
  /\ UNCHANGED <<reviews, record, refused, solcalls, solpost, solbooks, solchain>>

\* "Retry accounting post".
SolRetryPost ==
  /\ Recorded /\ record.receipt /\ record.accounting = "post_failed" /\ solpost = Idle
  /\ RunPost(record)
  /\ UNCHANGED <<reviews, refused, solcalls, check, solbooks, solchain>>

\* The backend has one record for a transaction and for a digest.
SolBooked ==
  /\ solpost.stage = "asked"
  /\ \A k \in solbooks : k = solpost.review \/ reviews[k] # reviews[solpost.review]
  /\ solbooks' = solbooks \union {solpost.review}
  /\ solpost' = [solpost EXCEPT !.stage = "booked"]
  /\ UNCHANGED <<reviews, record, refused, solcalls, check, solchain>>

\* markAccountingPosted or markAccountingPostFailed, on the record there is.
SolPostEnds(heard) ==
  /\ solpost.stage = "booked" \/ (solpost.stage = "asked" /\ ~heard)
  /\ solpost' = Idle
  /\ record' = IF Recorded /\ record.accounting = "posting"
               THEN [record EXCEPT !.accounting = IF heard THEN "posted" ELSE "post_failed"]
               ELSE record
  /\ check' = IF check.stage = "post" THEN Idle ELSE check
  /\ UNCHANGED <<reviews, refused, solcalls, solbooks, solchain>>

-----------------------------------------------------------------------------
(* The network and the app                                                 *)

\* A transaction advances the nonce it was built for, whether or not it fails.
Land(t, s) ==
  /\ t \in wire /\ status[t] = "unknown" /\ t.nonce = durable
  /\ status' = [status EXCEPT ![t] = s]
  /\ durable' = durable + 1
  /\ UNCHANGED <<reviews, record, refused, solcalls, check, solpost, solbooks, wire>>

Settle(t) ==
  /\ status[t] \in {"processed", "confirmed"}
  /\ status' = [status EXCEPT ![t] = IF @ = "processed" THEN "confirmed" ELSE "finalized"]
  /\ UNCHANGED <<reviews, record, refused, solcalls, check, solpost, solbooks, wire, durable>>

\* The fork with the last of the transactions is abandoned.
Abandon(t) ==
  /\ status[t] \in {"processed", "confirmed"} /\ t.nonce + 1 = durable
  /\ status' = [status EXCEPT ![t] = "unknown"]
  /\ durable' = t.nonce
  /\ UNCHANGED <<reviews, record, refused, solcalls, check, solpost, solbooks, wire>>

\* merge.
SolRestarts ==
  /\ record' = IF ~Recorded THEN record
               ELSE [record EXCEPT !.state = IF @ = "submitting" THEN "ready" ELSE @,
                                   !.accounting = IF @ = "posting" THEN "post_failed" ELSE @]
  /\ refused' = FALSE /\ solcalls' = {} /\ check' = Idle /\ solpost' = Idle
  /\ UNCHANGED <<reviews, solbooks, solchain>>

SolNext ==
  \/ \E pay \in Pays : PaymentPrepare(pay)
  \/ \E c \in solcalls : \/ AcceptProposal(c) \/ AddVerifiedSignature(c)
                         \/ SendTransaction(c) \/ AcceptReceipt(c) \/ SolCallFails(c)
  \/ \E review \in BOOLEAN : ValidationFails(review)
  \/ Clear
  \/ \E signer \in Required : ImportEnvelope(signer)
  \/ Submit
  \/ CheckStarts \/ \E s \in TxState : StatusHeard(s)
  \/ StatusFails \/ EvidenceHeard \/ EvidenceFails
  \/ SolRetryPost \/ SolBooked \/ \E heard \in BOOLEAN : SolPostEnds(heard)
  \/ \E t \in Tx : \/ \E s \in {"processed", "failed"} : Land(t, s)
                   \/ Settle(t) \/ Abandon(t)
  \/ SolRestarts

SolSpec == SolInit /\ [][SolNext]_solvars

-----------------------------------------------------------------------------
(* Properties                                                              *)

\* A record with a receipt is of a transaction that was sent, signed by all
\* who had to: although the record may be discarded, or replaced by another
\* review, while the submission of an earlier one is in flight (acceptReceipt).
ReceiptWasSent ==
  Recorded /\ record.receipt => Complete(record) /\ reviews[record.review] \in wire

\* What is accounted for is finalized, each transaction once and at most one
\* of a durable nonce: although the status that starts it may be that of the
\* record's predecessor, and reviews may share a transaction (runCheck, runPost).
FinalizedBeforeBooked ==
  LET accounted == solbooks
        \union {k \in Review : solpost.stage # "idle" /\ solpost.review = k}
        \union {k \in Review : /\ Recorded /\ record.review = k
                               /\ record.accounting \in {"ready", "posting", "posted"}}
  IN  /\ \A k \in accounted : status[reviews[k]] = "finalized"
      /\ \A j, k \in solbooks : reviews[j].nonce = reviews[k].nonce => j = k
      /\ Recorded /\ record.accounting = "posted" => record.review \in solbooks

\* A payment whose finalized status regressed is left to a person: no later
\* status, evidence or restart lets the app start to account for it
\* (updateTransactionState, beginAccountingPost, merge).
RegressionHolds ==
  [][/\ Recorded /\ record.reconcile /\ record' # NoRecord /\ record'.review = record.review
     => /\ record'.reconcile
        /\ solpost.stage = "idle" => solpost'.stage = "idle"]_solvars
=============================================================================
