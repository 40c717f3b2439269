-------------------------- MODULE AccountingBackend --------------------------
(***************************************************************************)
(* The accounting API of the Frappe app: post_confirmed_payment persists   *)
(* the confirmed payment record and then derives its Journal Entry.  The   *)
(* two halves are two database transactions, each of them reads before it  *)
(* writes, and any number of calls run at the same time: a client that     *)
(* timed out sends the same record again while its first call still runs.  *)
(*                                                                         *)
(* Within one database transaction the reads see one state (InnoDB's       *)
(* consistent read), and inserting checks the unique indices against what  *)
(* is committed at that moment; so one read is one action, and one insert  *)
(* with the commit that follows it is another.                             *)
(***************************************************************************)
EXTENDS Naturals, FiniteSets

CONSTANTS
  Id,        \* external_id of a payment record
  Tx,        \* transaction hashes
  Safe,      \* SafeTx hashes, the second identity of an EVM payment
  Amount,    \* fiat totals
  Detail,    \* everything else the digest of a record covers
  None,      \* an identity that is not set
  MaxCalls,  \* bound: calls that run at once
  Requests   \* the records that callers send

\* A normalised confirmed payment; its record_digest stands for all of it.
Record == [ id : Id, tx : Tx, safe : Safe \union {None},
            amount : Amount, detail : Detail ]

ASSUME NoneAssumption == None \notin Tx /\ None \notin Safe
ASSUME CallsAssumption == MaxCalls \in Nat
ASSUME RequestsAssumption == Requests \subseteq Record

\* Crypto Payment Batch, submitted; unique: external_id, tx_hash, safe_tx_hash.
Row == [rec : Record, posted : BOOLEAN, cancelled : BOOLEAN]

\* Journal Entry, submitted; unique: crypto_batch_id, _tx_hash, _safe_tx_hash.
Journal == [ id : Id, tx : Tx \union {None}, safe : Safe \union {None},
             amount : Amount, cancelled : BOOLEAN ]

CallId == 1..MaxCalls

Stage == {"idle", "persist", "insert", "reread", "post", "bind", "book",
          "recheck", "ok", "rejected"}

VARIABLES
  rows,      \* the submitted Crypto Payment Batch documents
  journals,  \* the Journal Entries ChainPay is the source of
  at,        \* where each call is: [CallId -> Stage]
  rec,       \* the record of each call, None between calls
  told       \* the <<id, transaction>> pairs answered with a Journal Entry

db == <<rows, journals>>
vars == <<rows, journals, at, rec, told>>

TypeOK ==
  /\ rows \subseteq Row
  /\ journals \subseteq Journal
  /\ at \in [CallId -> Stage]
  /\ rec \in [CallId -> Record \union {None}]
  /\ \A k \in CallId : at[k] # "idle" => rec[k] \in Record
  /\ told \subseteq Id \X Tx

\* The Journal Entries the endpoint before the persisted records left behind.
OldJournals ==
  {J \in SUBSET [id : Id, tx : {None}, safe : {None}, amount : Amount,
                 cancelled : {FALSE}] :
     \A i, j \in J : i.id = j.id => i = j}

Init ==
  /\ rows = {}
  /\ journals \in OldJournals
  /\ at = [k \in CallId |-> "idle"]
  /\ rec = [k \in CallId |-> None]
  /\ told = {}

-----------------------------------------------------------------------------
\* x (a record or a journal) has an identity of r in common with it.
Shares(x, r) ==
  \/ x.id = r.id
  \/ x.tx = r.tx
  \/ r.safe # None /\ x.safe = r.safe

Goto(k, stage) == at' = [at EXCEPT ![k] = stage]

\* A call arrives.  A caller may also post a record persisted before.
Submit(k, r) ==
  /\ at[k] = "idle"
  /\ rec' = [rec EXCEPT ![k] = r]
  /\ Goto(k, "persist")
  /\ UNCHANGED <<rows, journals, told>>

SubmitPost(k, row) ==
  /\ at[k] = "idle"
  /\ rec' = [rec EXCEPT ![k] = row.rec]
  /\ Goto(k, "post")
  /\ UNCHANGED <<rows, journals, told>>

(***************************************************************************)
(* persist_confirmed_payment                                               *)
(***************************************************************************)
RowsOf(r) == {row \in rows : Shares(row.rec, r)}

\* _existing_batch finds the one row, and its digest is that of the record.
Persisted(r) == \E row \in rows : RowsOf(r) = {row} /\ row.rec = r /\ ~row.cancelled

Persist(k) ==
  /\ at[k] = "persist"
  /\ Goto(k, IF RowsOf(rec[k]) = {} THEN "insert"
             ELSE IF Persisted(rec[k]) THEN "post" ELSE "rejected")
  /\ UNCHANGED <<rows, journals, rec, told>>

InsertRaises(k) ==
  /\ at[k] = "insert"
  /\ IF RowsOf(rec[k]) = {}
     THEN /\ rows' = rows \union {[rec |-> rec[k], posted |-> FALSE, cancelled |-> FALSE]}
          /\ Goto(k, "post")
     ELSE /\ Goto(k, "rejected")
          /\ UNCHANGED rows
  /\ UNCHANGED <<journals, rec, told>>

\* Insert, submit and commit; a duplicate of a unique value rolls back.
Insert(k) ==
  /\ at[k] = "insert"
  /\ IF RowsOf(rec[k]) = {}
     THEN /\ rows' = rows \union {[rec |-> rec[k], posted |-> FALSE, cancelled |-> FALSE]}
          /\ Goto(k, "post")
     ELSE /\ Goto(k, "reread")
          /\ UNCHANGED rows
  /\ UNCHANGED <<journals, rec, told>>

Reread(k) ==
  /\ at[k] = "reread"
  /\ Goto(k, IF Persisted(rec[k]) THEN "post" ELSE "rejected")
  /\ UNCHANGED <<rows, journals, rec, told>>

(***************************************************************************)
(* post_journal                                                            *)
(***************************************************************************)
JournalsOf(r) == {j \in journals : Shares(j, r)}

\* An old entry of this payment id, without a transaction, with its total.
Adoptable(j, r) ==
  /\ j.id = r.id /\ j.tx = None
  /\ j.amount = r.amount

BookedById(j, r) == j.id = r.id

\* The entry carries every identity of the record.
Booked(j, r) ==
  /\ j.id = r.id /\ j.tx = r.tx
  /\ r.safe # None => j.safe = r.safe

Entry(r) == [ id |-> r.id, tx |-> r.tx, safe |-> r.safe,
              amount |-> r.amount, cancelled |-> FALSE ]

Mark(r) == {IF row.rec = r THEN [row EXCEPT !.posted = TRUE] ELSE row : row \in rows}

\* _load_confirmed_batch and _submitted_journal, in one consistent read.
Post(k) ==
  LET r == rec[k]
  IN  /\ at[k] = "post"
      /\ IF ~\E row \in rows : row.rec.id = r.id /\ ~row.cancelled
         THEN Goto(k, "rejected") /\ UNCHANGED rows
         ELSE IF JournalsOf(r) = {}
         THEN Goto(k, "book") /\ UNCHANGED rows
         ELSE IF \E j \in journals : JournalsOf(r) = {j} /\ ~j.cancelled /\ Booked(j, r)
         THEN Goto(k, "ok") /\ rows' = Mark(r)
         ELSE IF /\ r.safe = None
                 /\ \E j \in journals : JournalsOf(r) = {j} /\ ~j.cancelled /\ Adoptable(j, r)
         THEN Goto(k, "bind") /\ UNCHANGED rows
         ELSE Goto(k, "rejected") /\ UNCHANGED rows
      /\ UNCHANGED <<journals, rec, told>>

\* The old entry gets the transaction hash, unless another entry has it.
Bind(k) ==
  LET r == rec[k]
  IN  /\ at[k] = "bind"
      /\ \E j \in journals :
           /\ j.id = r.id
           /\ IF \E i \in journals : i.id # r.id /\ i.tx = r.tx
              THEN Goto(k, "rejected") /\ UNCHANGED db
              ELSE /\ journals' = (journals \ {j}) \union {[j EXCEPT !.tx = r.tx]}
                   /\ rows' = Mark(r)
                   /\ Goto(k, "ok")
      /\ UNCHANGED <<rec, told>>

BookForgetsRow(k) ==
  LET r == rec[k]
  IN  /\ at[k] = "book"
      /\ IF JournalsOf(r) = {}
         THEN /\ journals' = journals \union {Entry(r)}
              /\ Goto(k, "ok")
         ELSE /\ Goto(k, "recheck")
              /\ UNCHANGED journals
      /\ UNCHANGED <<rows, rec, told>>

\* Insert and submit the entry, mark the row, commit.
Book(k) ==
  LET r == rec[k]
  IN  /\ at[k] = "book"
      /\ IF JournalsOf(r) = {}
         THEN /\ journals' = journals \union {Entry(r)}
              /\ rows' = Mark(r)
              /\ Goto(k, "ok")
         ELSE /\ Goto(k, "recheck")
              /\ UNCHANGED db
      /\ UNCHANGED <<rec, told>>

\* After a rollback: the entry somebody else made meanwhile.
Recheck(k) ==
  LET r == rec[k]
  IN  /\ at[k] = "recheck"
      /\ Goto(k, IF \E j \in journals : JournalsOf(r) = {j} /\ ~j.cancelled /\ Booked(j, r)
                 THEN "ok" ELSE "rejected")
      /\ UNCHANGED <<rows, journals, rec, told>>

\* An exception of the database or the server process: everything that is
\* not committed is rolled back.
Fail(k) ==
  /\ at[k] \notin {"idle", "ok", "rejected"}
  /\ Goto(k, "rejected")
  /\ UNCHANGED <<rows, journals, rec, told>>

\* The answer leaves the server; whether anybody hears it is the caller's affair.
Answer(k) ==
  /\ at[k] \in {"ok", "rejected"}
  /\ told' = IF at[k] = "ok" THEN told \union {<<rec[k].id, rec[k].tx>>} ELSE told
  /\ Goto(k, "idle")
  /\ rec' = [rec EXCEPT ![k] = None]
  /\ UNCHANGED <<rows, journals>>

\* An accountant cancels a submitted document in the ERP.
CancelRow(row) ==
  /\ ~row.cancelled
  /\ rows' = (rows \ {row}) \union {[row EXCEPT !.cancelled = TRUE]}
  /\ UNCHANGED <<journals, at, rec, told>>

CancelJournal(j) ==
  /\ ~j.cancelled
  /\ journals' = (journals \ {j}) \union {[j EXCEPT !.cancelled = TRUE]}
  /\ UNCHANGED <<rows, at, rec, told>>

-----------------------------------------------------------------------------
CallStep(k) ==
  \/ Persist(k) \/ Insert(k) \/ Reread(k)
  \/ Post(k) \/ Bind(k) \/ Book(k) \/ Recheck(k)

Accountant ==
  \/ \E row \in rows : CancelRow(row)
  \/ \E j \in journals : CancelJournal(j)

Call(k) ==
  \/ \E r \in Requests : Submit(k, r)
  \/ \E row \in rows : SubmitPost(k, row)
  \/ CallStep(k) \/ Fail(k) \/ Answer(k)

Next == (\E k \in CallId : Call(k)) \/ Accountant

Spec == Init /\ [][Next]_vars

-----------------------------------------------------------------------------
(* Properties                                                              *)

\* Rows and journals have their identities for themselves, which is what the
\* unique indices and the reads before each insert are for.
IdentitiesUnique ==
  /\ \A a, b \in rows : Shares(a.rec, b.rec) => a = b
  /\ \A i, j \in journals : \/ i.id = j.id
                            \/ i.tx # None /\ i.tx = j.tx
                            \/ i.safe # None /\ i.safe = j.safe
                            => i = j

\* Every entry with a transaction is that of a persisted record, amount
\* included; an old entry has neither of the later identities.
EntriesMatchRecords ==
  \A j \in journals :
    IF j.tx = None THEN j.safe = None
    ELSE \E row \in rows : /\ Booked(j, row.rec)
                           /\ j.safe = row.rec.safe
                           /\ j.amount = row.rec.amount

\* The compliance export trusts journal_posted: it is set exactly on the
\* records that have their entry.
FlagMatchesEntry ==
  \A row \in rows : row.posted <=> \E j \in journals : Booked(j, row.rec)

\* What a call has read holds until it acts on it, whatever others do.
CallIsCurrent(k) ==
  /\ at[k] \in {"post", "bind", "book", "recheck", "ok"} =>
       \E row \in rows : row.rec = rec[k]
  /\ at[k] = "reread" => RowsOf(rec[k]) # {}
  /\ at[k] = "recheck" => JournalsOf(rec[k]) # {}
  /\ at[k] = "bind" =>
       /\ rec[k].safe = None
       /\ \E j \in journals : /\ j.id = rec[k].id /\ j.safe = None
                              /\ j.tx \in {None, rec[k].tx}
                              /\ j.amount = rec[k].amount
  /\ at[k] = "ok" => \E j \in journals : Booked(j, rec[k])

CallsAreCurrent == \A k \in CallId : CallIsCurrent(k)

\* Whoever was answered with a Journal Entry can find it.
ToldIsBooked ==
  \A p \in told : \E j \in journals : <<j.id, j.tx>> = p

\* The books and the calls agree under every interleaving of concurrent,
\* repeated and failing calls of post_confirmed_payment: the inductive
\* invariant of the two unique-index-then-recheck protocols.
BooksConsistent ==
  /\ TypeOK
  /\ IdentitiesUnique
  /\ EntriesMatchRecords
  /\ FlagMatchesEntry
  /\ CallsAreCurrent
  /\ ToldIsBooked

\* The backend books each payment at most once and keeps its word
\* (AccountingLedger), with the entries as ledger.
Ledger == INSTANCE AccountingLedger WITH
  NoTx <- None,
  ledger <- {[id |-> j.id, tx |-> j.tx, amount |-> j.amount] : j \in journals}

LedgerSpec == Ledger!LSpec

\* Another document, or a cancelled one, stands in the way of the record.
Contested(r) ==
  \/ \E row \in rows : Shares(row.rec, r) /\ (row.rec # r \/ row.cancelled)
  \/ \E j \in journals : Shares(j, r) /\ (j.cancelled \/ ~Booked(j, r))

\* "idempotently": a record that is sent again, while or after its first call
\* runs, is never refused on account of that first call; the API only refuses
\* what conflicts with another document or with a cancelled one.
RetryIsSafe ==
  [][\A k \in CallId :
       CallStep(k) /\ at'[k] = "rejected" => Contested(rec[k])]_vars
=============================================================================
