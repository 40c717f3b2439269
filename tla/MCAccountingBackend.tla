------------------------- MODULE MCAccountingBackend -------------------------
EXTENDS AccountingBackend, TLC
CONSTANTS id1, id2, tx1, tx2, safe1

Rec(i, t, s, a, d) == [id |-> i, tx |-> t, safe |-> s, amount |-> a, detail |-> d]

\* A payment, the same payment with other data, the same id with a SafeTx,
\* that SafeTx executed under another id and hash, and an unrelated payment.
MixedRequests ==
  { Rec(id1, tx1, None, 5, 1), Rec(id1, tx1, None, 7, 2),
    Rec(id1, tx1, safe1, 5, 1), Rec(id2, tx2, safe1, 5, 1), Rec(id2, tx2, None, 5, 1) }
=============================================================================
