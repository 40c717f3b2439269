--------------------------- MODULE AccountingLedger ---------------------------
(***************************************************************************)
(* What accounting promises its callers: each payment is booked at most    *)
(* once, under its own payment id and chain transaction, the amount of an  *)
(* entry never changes, and whoever is told that a payment is booked can   *)
(* rely on it.  The backend implements it (AccountingBackend).             *)
(***************************************************************************)
CONSTANTS
  Id,      \* payment ids
  Tx,      \* chain transactions
  Amount,  \* booked totals
  NoTx     \* the transaction of an entry made before transactions were kept

VARIABLES
  ledger,   \* the entries of the general ledger
  told      \* the <<id, transaction>> pairs some caller was told are booked

lvars == <<ledger, told>>

LedgerEntry == [id : Id, tx : Tx \union {NoTx}, amount : Amount]

LInit ==
  /\ ledger \in SUBSET [id : Id, tx : {NoTx}, amount : Amount]
  /\ \A e, f \in ledger : e.id = f.id => e = f
  /\ told = {}

\* A new entry, for a payment that has none.
Enter(e) ==
  /\ e.tx # NoTx
  /\ \A f \in ledger : f.id # e.id /\ f.tx # e.tx
  /\ ledger' = ledger \union {e}
  /\ UNCHANGED told

\* An old entry learns its transaction.
Identify(e, t) ==
  /\ e.tx = NoTx
  /\ \A f \in ledger : f.tx # t
  /\ ledger' = (ledger \ {e}) \union {[e EXCEPT !.tx = t]}
  /\ UNCHANGED told

Tell(e) ==
  /\ e.tx # NoTx
  /\ told' = told \union {<<e.id, e.tx>>}
  /\ UNCHANGED ledger

LNext ==
  \/ \E e \in LedgerEntry : Enter(e)
  \/ \E e \in ledger : Tell(e) \/ \E t \in Tx : Identify(e, t)

LSpec == LInit /\ [][LNext]_lvars

=============================================================================
