-------------------------- MODULE ComplianceExport --------------------------
(***************************************************************************)
(* Payment records over the life of the backend, and the compliance export *)
(* that vouches for them.  A record's digest covers the record as the code *)
(* of its day wrote it: every chain that was added put one more key in     *)
(* it.  The records stay, the code moves on; the export of today rebuilds  *)
(* the digest from the stored columns and refuses what does not match.     *)
(*                                                                         *)
(* Past versions are known here by the shapes compliance.py still accepts. *)
(***************************************************************************)
EXTENDS Naturals, FiniteSets

CONSTANTS
  Batch,      \* external ids of confirmed payments
  ChainOf,    \* the kind of chain each of them is on
  DayOf,      \* the day each of them was confirmed
  MaxEdits,   \* bound: values edited behind the application's back
  NoReport    \* an export that is refused

Chains == {"ckb", "evm", "sol", "btc"}
ASSUME ChainAssumption == ChainOf \in [Batch -> Chains]
ASSUME DayAssumption == DayOf \in [Batch -> Nat]
ASSUME EditsAssumption == MaxEdits \in Nat

\* The evidence object of a chain: its key, the version that introduced it.
EvidenceKey == [ckb |-> "none", evm |-> "evm", sol |-> "solana", btc |-> "bitcoin"]
Since == [ckb |-> 0, evm |-> 1, sol |-> 2, btc |-> 3]
Latest == 3
Keys(version) == {"body"} \union {EvidenceKey[c] : c \in {d \in Chains \ {"ckb"} : Since[d] <= version}}

\* What normalise_evidence puts into the object, by groups of fields.
Fields(chain) ==
  CASE chain = "ckb" -> {}
    [] chain = "evm" -> {"safe_tx_hash", "outer_tx_hash", "evm_block", "gas"}
    [] chain = "sol" -> {"review_digest", "nonce", "sol_slot", "fee"}
    [] chain = "btc" -> {"review_digest", "outputs", "btc_height", "fee"}

\* The columns of the document that persist fills and a digest covers; it leaves
\* out outer_tx_hash.
Covered(chain) == {"body", "tx_hash"} \union (Fields(chain) \ {"outer_tx_hash"})

\* Every document has the columns the export reads whatever its chain is: those
\* of no evidence of its own (fx_snapshot has none at all) are unset.
Heights == {"btc_height", "sol_slot", "evm_block"}
Columns(chain) == Covered(chain) \union Heights \union {"safe_tx_hash", "fx"}

Null == [f \in {} |-> "sent"]

\* The digest stands for the object it is taken of.
Digest(version, chain, body, evidence) ==
  [k \in Keys(version) |-> IF k = "body" THEN body
                           ELSE IF k = EvidenceKey[chain] THEN evidence ELSE Null]

Body(cols) == [f \in {"body", "tx_hash"} |-> cols[f]]

VARIABLES
  version,  \* the version of the backend that runs
  rows,     \* batches with a submitted Crypto Payment Batch
  cols,     \* per batch, its columns: as the client sent them, or edited since
  digest,   \* per batch, record_digest
  posted,   \* batches with journal_posted
  journal,  \* per batch, its entry: none, submitted, cancelled, and the identity it carries
  calls     \* batches whose call has persisted and not yet posted

bookvars == <<version, rows, cols, digest, posted, journal, calls>>

Stored(b) == [f \in Columns(ChainOf[b]) |-> IF f \in Covered(ChainOf[b]) THEN "sent" ELSE "unset"]

Value == {"unset", "sent", "edited", "other", "garbled"}
Entry == [state : {"none", "submitted", "cancelled"}, tx : Value, safe : Value]
NoEntry == [state |-> "none", tx |-> "unset", safe |-> "unset"]

BooksTypeOK ==
  /\ version \in 0..Latest
  /\ rows \subseteq Batch /\ posted \subseteq rows
  /\ DOMAIN cols = Batch
  /\ \A b \in Batch : cols[b] \in [Columns(ChainOf[b]) -> Value]
  /\ DOMAIN digest = Batch
  /\ journal \in [Batch -> Entry]
  /\ calls \subseteq rows

BooksInit ==
  /\ version = 0 /\ rows = {} /\ posted = {} /\ calls = {}
  /\ cols = [b \in Batch |-> Stored(b)]
  /\ digest = [b \in Batch |-> Null]
  /\ journal = [b \in Batch |-> NoEntry]

----------------------------------------------------------------------------
\* _normalise_record and _digest, for the record the client sends.
RecordDigest(b) ==
  Digest(version, ChainOf[b], [f \in {"body", "tx_hash"} |-> "sent"],
         [f \in Fields(ChainOf[b]) |-> "sent"])

Persist(b) ==
  /\ Since[ChainOf[b]] <= version /\ b \notin rows /\ b \notin calls
  /\ rows' = rows \union {b}
  /\ digest' = [digest EXCEPT ![b] = RecordDigest(b)]
  /\ calls' = calls \union {b}
  /\ UNCHANGED <<version, cols, posted, journal>>

\* _existing_batch finds the record and refuses it as "different immutable
\* data" when the digest is not the one this version computes.
AcceptsRepeat(b) == digest[b] = RecordDigest(b)

Replay(b) ==
  /\ b \in rows /\ b \notin calls
  /\ AcceptsRepeat(b)
  /\ calls' = calls \union {b}
  /\ UNCHANGED <<version, rows, cols, digest, posted, journal>>

\* post_journal: the entry carries the identity the columns show, and an entry
\* that is there must be submitted and carry the same one (_submitted_journal
\* looks at its Safe hash only if the document has one).
Carries(entry, b) ==
  /\ entry.state = "submitted" /\ entry.tx = cols[b]["tx_hash"]
  /\ cols[b]["safe_tx_hash"] # "unset" => entry.safe = cols[b]["safe_tx_hash"]

PostJournal(b) ==
  /\ b \in calls
  /\ calls' = calls \ {b}
  /\ IF journal[b] = NoEntry
     THEN /\ posted' = posted \union {b}
          /\ journal' = [journal EXCEPT ![b] = [state |-> "submitted", tx |-> cols[b]["tx_hash"],
                                               safe |-> cols[b]["safe_tx_hash"]]]
     ELSE /\ posted' = IF Carries(journal[b], b) THEN posted \union {b} ELSE posted
          /\ UNCHANGED journal
  /\ UNCHANGED <<version, rows, cols, digest>>

\* The call ends between its two database transactions.
CallDies(b) ==
  /\ b \in calls
  /\ calls' = calls \ {b}
  /\ UNCHANGED <<version, rows, cols, digest, posted, journal>>

Upgrade ==
  /\ version < Latest /\ calls = {}
  /\ version' = version + 1
  /\ UNCHANGED <<rows, cols, digest, posted, journal, calls>>

----------------------------------------------------------------------------
(* Whoever administers the database edits a submitted document or entry.  *)
Changed == {"edited", "other", "garbled"}
Edits ==
  Cardinality(UNION { {b} \X ({f \in DOMAIN cols[b] : cols[b][f] \in Changed}
                              \union {f \in {"tx", "safe"} : journal[b][f] \in Changed}) : b \in Batch })

\* A garbled snapshot is no longer JSON; the other body has another day or chain,
\* with which no filter selects it, the edited one may be selected by any.
Edit(b, f, value) ==
  /\ b \in rows /\ b \notin calls
  /\ value = "garbled" => f = "fx"
  /\ value = "other" => f = "body"
  /\ cols' = [cols EXCEPT ![b][f] = value]
  /\ UNCHANGED <<version, rows, digest, posted, journal, calls>>

\* journal_posted is cleared.
ClearPosted(b) ==
  /\ b \in posted /\ b \notin calls
  /\ posted' = posted \ {b}
  /\ UNCHANGED <<version, rows, cols, digest, journal, calls>>

\* To what a document has been edited to as well, or to anything else.
RebindJournal(b, f, value) ==
  /\ journal[b].state = "submitted" /\ b \notin calls
  /\ journal' = [journal EXCEPT ![b][f] = value]
  /\ UNCHANGED <<version, rows, cols, digest, posted, calls>>

CancelJournal(b) ==
  /\ journal[b].state = "submitted" /\ b \notin calls
  /\ journal' = [journal EXCEPT ![b].state = "cancelled"]
  /\ UNCHANGED <<version, rows, cols, digest, posted, calls>>

----------------------------------------------------------------------------
\* rebuild_evidence reads the columns; the outer hash of an EVM record is its
\* transaction hash.
RebuildEvidence(b) ==
  [f \in Fields(ChainOf[b]) |-> IF f = "outer_tx_hash" THEN cols[b]["tx_hash"] ELSE cols[b][f]]

\* Every shape a record of this chain can have been written in.
ShapesSinceSolana(b) == {2, 3}
Shapes(b) == {1, 2, 3} \union (IF ChainOf[b] = "ckb" THEN {0} ELSE {})

SourceDigests(b) ==
  { Digest(v, ChainOf[b], Body(cols[b]), RebuildEvidence(b)) : v \in Shapes(b) }

ValidSourceWithAnyJournal(b) == digest[b] \in SourceDigests(b)

ValidSource(b) ==
  /\ digest[b] \in SourceDigests(b)
  /\ journal[b].state = "submitted" /\ journal[b].tx = cols[b]["tx_hash"]
  /\ journal[b].safe = cols[b]["safe_tx_hash"]

\* normalise_filters refuses from > to; another chain has no rows to report.
Filters == {filter \in [chain : {ChainOf[b] : b \in Batch} \union {"any"},
                        from : {DayOf[b] : b \in Batch}, to : {DayOf[b] : b \in Batch}] :
              filter.from <= filter.to}

\* Whether the payment belongs into the report, and whether its document says so.
Belongs(b, filter) ==
  /\ filter.chain \in {"any", ChainOf[b]}
  /\ filter.from <= DayOf[b] /\ DayOf[b] <= filter.to

Matches(b, filter) ==
  /\ cols[b]["body"] # "other"
  /\ cols[b]["body"] = "sent" => Belongs(b, filter)

Source(filter) == {b \in posted : Matches(b, filter)}

\* The height reported is the first of three columns that is set.
ConfirmedBlock(b) ==
  IF cols[b]["btc_height"] # "unset" THEN cols[b]["btc_height"]
  ELSE IF cols[b]["sol_slot"] # "unset" THEN cols[b]["sol_slot"] ELSE cols[b]["evm_block"]

Row(b) == [of |-> b, confirmed_block |-> ConfirmedBlock(b),
           shown |-> [f \in Columns(ChainOf[b]) \ Heights |-> cols[b][f]]]

\* export_payload reads and writes nothing: refused as a whole, or the rows.
ExportPayload(filter) ==
  IF /\ Source(filter) # {}
     /\ \A b \in Source(filter) : ValidSource(b) /\ cols[b]["fx"] # "garbled"
  THEN {Row(b) : b \in Source(filter)} ELSE NoReport

BooksNext ==
  \/ \E b \in Batch :
       \/ Persist(b) \/ Replay(b) \/ PostJournal(b) \/ CallDies(b)
       \/ CancelJournal(b) \/ ClearPosted(b)
  \/ /\ Edits < MaxEdits
     /\ \E b \in Batch :
          \/ \E f \in {"tx", "safe"} : \E value \in {"edited", "other"} : RebindJournal(b, f, value)
          \/ \E f \in Columns(ChainOf[b]) : \E value \in {"edited", "other", "garbled"} : Edit(b, f, value)
  \/ Upgrade

BooksSpec == BooksInit /\ [][BooksNext]_bookvars

----------------------------------------------------------------------------
\* The digest vouches for a record of any age: today's export accepts it
\* exactly while nobody has edited a column that persist filled since the record
\* was written; what was written to the others does not matter to it.
DigestsVouch ==
  version = Latest =>
    \A b \in rows : digest[b] \in SourceDigests(b) <=>
                      \A f \in Covered(ChainOf[b]) : cols[b][f] = "sent"

\* What a report shows that nothing vouches for: the FX snapshot, and columns
\* that belong to another chain's evidence.
Unvouched(chain) == {"fx"} \union (IF chain = "evm" THEN {} ELSE {"safe_tx_hash"})

\* A report that is handed out is the books of its filter: of the payments that
\* belong into it none is missing but those whose document was edited so that it
\* is not selected, none is there that does not belong, each has an entry of its
\* own that is neither cancelled nor bound to another payment, and each shows what
\* was written when it was confirmed, but for the columns that nothing vouches for.
ReportIsTheBooks ==
  version = Latest =>
    \A filter \in Filters :
      LET report == ExportPayload(filter) IN
      report # NoReport =>
        /\ {row.of : row \in report} = {b \in posted : cols[b]["body"] # "other" /\ Belongs(b, filter)}
        /\ \A row \in report :
             /\ journal[row.of].state = "submitted" /\ journal[row.of].tx = "sent"
             /\ \A f \in DOMAIN row.shown \ Unvouched(ChainOf[row.of]) :
                  row.shown[f] = Stored(row.of)[f]
             /\ ChainOf[row.of] = "btc" => row.confirmed_block = "sent"

=============================================================================
