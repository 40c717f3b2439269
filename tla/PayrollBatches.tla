--------------------------- MODULE PayrollBatches ----------------------------
(***************************************************************************)
(* The payroll-batches store (stores/payroll-batches.ts) as functions from *)
(* a batch record to the record the store writes back.  Every store action *)
(* maps over the list and rewrites the one batch it names, so the effect   *)
(* of an action on the store is the effect of its function on one record.  *)
(*                                                                         *)
(* A signature is represented by the co-signer slot its public key         *)
(* recovers to under the digest of the batch; Junk recovers to none of     *)
(* them, and an entry is valid exactly when sig = slot.  partialSigs is a  *)
(* set of entries: an entry typed in the payment panel carries its row     *)
(* number (two rows may name one slot), an entry merged from the comm      *)
(* channel carries row 0, so that the cardinality of the set is the length *)
(* of the stored list.                                                     *)
(***************************************************************************)
EXTENDS PayrollStates, Integers, FiniteSets

CONSTANTS
  N,          \* co-signers of the treasury
  M,          \* signatures a payment needs
  Digest,     \* signing digests, one per distinct unsigned transaction
  NoDigest    \* a batch that has no frozen transaction

ASSUME MultisigAssumption == N \in Nat /\ M \in Nat /\ 1 <= M /\ M <= N
ASSUME NoDigestAssumption == NoDigest \notin Digest

Slot == 1..N
Junk == 0
SigValue == {Junk} \union Slot
Entry == [slot : Slot, sig : SigValue, row : 0..M]
Envelope == [slot : Slot, sig : SigValue]

\* A batch; "absent" is an id not handed out yet, or a removed batch.
Batch ==
  [ state    : BatchState \union {"absent"},
    digest   : Digest \union {NoDigest},   \* sighashDigest, with txBytes and lines
    sigs     : SUBSET Entry,               \* partialSigs
    auto     : BOOLEAN,                    \* autoBroadcast
    inFlight : BOOLEAN,                    \* broadcastInFlight
    txid     : Digest \union {NoDigest} ]  \* pendingTxId, named by its digest

AbsentBatch ==
  [ state |-> "absent", digest |-> NoDigest, sigs |-> {}, auto |-> FALSE,
    inFlight |-> FALSE, txid |-> NoDigest ]

Valid(e) == e.sig = e.slot

MoveTo(r, s) == [r EXCEPT !.state = s]

\* What mergeSignatures accepts: exactly M entries, no slot twice, each
\* signature recovering to the key hash of the slot it claims.
Mergeable(entries) ==
  /\ Cardinality(entries) = M
  /\ \A e, f \in entries : e.slot = f.slot => e = f
  /\ \A e \in entries : Valid(e)

(***************************************************************************)
(* drainIncomingSigsInto on one batch.  The guard that would start the     *)
(* automatic broadcast asks canTransition("approved", ...), not the state  *)
(* the batch is in.                                                        *)
(***************************************************************************)
AcceptableUnverified(r, buffered) ==
  {e \in buffered : \A p \in r.sigs : p.slot # e.slot}

Acceptable(r, buffered) ==
  {e \in buffered : Valid(e) /\ \A p \in r.sigs : p.slot # e.slot}

Merged(r, buffered) ==
  r.sigs \union {[slot |-> e.slot, sig |-> e.sig, row |-> 0] :
                   e \in Acceptable(r, buffered)}

CrossesM(r, buffered) ==
  /\ Cardinality(Merged(r, buffered)) = M
  /\ Cardinality(r.sigs) < M

AutoBroadcasts(r, buffered) ==
  /\ CrossesM(r, buffered)
  /\ r.auto
  /\ canTransition("approved", "broadcast_countdown")

Promotes(r, buffered) ==
  /\ CrossesM(r, buffered)
  /\ ~AutoBroadcasts(r, buffered)
  /\ canTransition(r.state, "approved")

DrainInto(r, buffered) ==
  IF r.digest = NoDigest \/ Acceptable(r, buffered) = {} THEN r
  ELSE [r EXCEPT !.sigs = Merged(r, buffered),
                 !.state = IF AutoBroadcasts(r, buffered)
                             THEN "broadcast_countdown"
                           ELSE IF Promotes(r, buffered)
                             THEN "approved" ELSE r.state]

\* transition to broadcasted, then updateBatch with the hash that was returned.
RecordBroadcast(r, d) ==
  [r EXCEPT !.state = "broadcasted", !.txid = d, !.sigs = {}]

cancelAutoBroadcast(r) ==
  IF r.state # "broadcast_countdown" THEN r
  ELSE [r EXCEPT !.state = "approved", !.inFlight = FALSE]

\* The claim markBroadcastInitiating reports as its result.
Claims(r) == ~r.inFlight /\ canTransition(r.state, "broadcast_initiating")

markBroadcastInitiating(r) ==
  IF Claims(r) THEN [r EXCEPT !.state = "broadcast_initiating", !.inFlight = TRUE]
  ELSE r

markBroadcastFailedAnywhere(r) ==
  [r EXCEPT !.state = "broadcast_failed", !.inFlight = FALSE]

markBroadcastFailed(r) ==
  IF ~canTransition(r.state, "broadcast_failed") THEN r
  ELSE [r EXCEPT !.state = "broadcast_failed", !.inFlight = FALSE]

retryAutoBroadcast(r) ==
  IF ~canTransition(r.state, "broadcast_countdown") THEN r
  ELSE [r EXCEPT !.state = "broadcast_countdown", !.inFlight = FALSE]

recoverNothing(r) == r

\* recoverInterruptedPostings, run once when the store rehydrates.
recoverInterruptedPostings(r) ==
  IF r.state = "posting" THEN MoveTo(r, "post_failed") ELSE r

=============================================================================
