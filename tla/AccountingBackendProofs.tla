----------------------- MODULE AccountingBackendProofs -----------------------
(***************************************************************************)
(* Proofs about the accounting API: under every interleaving of any number *)
(* of concurrent, repeated and failing calls the books stay consistent     *)
(* (BooksConsistent is inductive), the backend implements AccountingLedger *)
(* and a repeated call is only refused over a foreign or cancelled         *)
(* document.                                                               *)
(***************************************************************************)
EXTENDS AccountingBackend, TLAPS

\* A record identity is never None, and requests are records.
LEMMA RecordFacts ==
  ASSUME NEW r \in Record
  PROVE  /\ r.id \in Id /\ r.tx \in Tx /\ r.tx # None
         /\ r.safe \in Safe \union {None}
         /\ r.amount \in Amount
BY NoneAssumption DEF Record

\* The entry of a record is a journal with the identities of the record.
LEMMA EntryFacts ==
  ASSUME NEW r \in Record
  PROVE  /\ Entry(r) \in Journal
         /\ Booked(Entry(r), r)
         /\ Entry(r).id = r.id /\ Entry(r).tx = r.tx /\ Entry(r).safe = r.safe
         /\ Entry(r).amount = r.amount /\ Entry(r).cancelled = FALSE
BY RecordFacts DEF Entry, Journal, Booked

\* The row of a record is the only one with any of its identities.
LEMMA RowOfRecord ==
  ASSUME BooksConsistent, NEW row \in rows, NEW r \in Record, row.rec = r
  PROVE  /\ RowsOf(r) = {row}
         /\ \A b \in rows : b.rec.id = r.id => b = row
<1>1. \A b \in rows : Shares(b.rec, r) => b = row
  BY DEF BooksConsistent, IdentitiesUnique
<1>2. Shares(r, r)
  BY DEF Shares
<1>3. \A b \in rows : b.rec.id = r.id => Shares(b.rec, r)
  BY DEF Shares
<1> QED BY <1>1, <1>2, <1>3 DEF RowsOf

\* The journal booked for a record is the only one with any of its identities.
LEMMA JournalOfRecord ==
  ASSUME BooksConsistent, NEW j \in journals, NEW r \in Record, Booked(j, r)
  PROVE  JournalsOf(r) = {j}
<1>1. Shares(j, r)
  BY DEF Shares, Booked
<1>2. \A i \in journals : Shares(i, r) => i = j
  BY RecordFacts DEF BooksConsistent, IdentitiesUnique, Shares, Booked
<1> QED BY <1>1, <1>2 DEF JournalsOf

\* A journal with the identities of a record means that a row with its
\* payment id was persisted.
LEMMA BookedHasRow ==
  ASSUME BooksConsistent, NEW j \in journals, NEW r \in Record, Booked(j, r)
  PROVE  \E row \in rows : row.rec.id = r.id
BY RecordFacts DEF BooksConsistent, EntriesMatchRecords, Booked

-----------------------------------------------------------------------------
LEMMA InitBooks ==
  ASSUME Init
  PROVE  BooksConsistent
<1>1. \A j \in journals : j.tx = None /\ j.safe = None /\ j \in Journal
  BY DEF Init, OldJournals, Journal
<1>2. \A i, j \in journals : i.id = j.id => i = j
  BY DEF Init, OldJournals
<1>3. TypeOK
  BY <1>1 DEF Init, TypeOK, CallId, Stage
<1>4. IdentitiesUnique
  BY <1>1, <1>2 DEF Init, IdentitiesUnique
<1>5. EntriesMatchRecords
  BY <1>1 DEF EntriesMatchRecords
<1>6. FlagMatchesEntry /\ CallsAreCurrent /\ ToldIsBooked
  BY DEF Init, FlagMatchesEntry, CallsAreCurrent, CallIsCurrent, ToldIsBooked
<1> QED BY <1>3, <1>4, <1>5, <1>6 DEF BooksConsistent

\* A step that only moves call k keeps the books if k stays current.
LEMMA CallMoves ==
  ASSUME BooksConsistent, NEW k \in CallId, NEW stage \in Stage, NEW r \in Record \union {None},
         rows' = rows, journals' = journals,
         at' = [at EXCEPT ![k] = stage], rec' = [rec EXCEPT ![k] = r],
         stage # "idle" => r \in Record,
         ToldIsBooked', told' \subseteq Id \X Tx,
         stage # "idle" => CallIsCurrent(k)'
  PROVE  BooksConsistent'
<1>1. TypeOK'
  BY DEF BooksConsistent, TypeOK
<1>2. \A m \in CallId : at'[m] = (IF m = k THEN stage ELSE at[m]) /\ rec'[m] = (IF m = k THEN r ELSE rec[m])
  BY DEF BooksConsistent, TypeOK
<1>3. CallsAreCurrent'
  <2> SUFFICES ASSUME NEW m \in CallId PROVE CallIsCurrent(m)'
    BY DEF CallsAreCurrent
  <2>1. CASE m = k
    BY <2>1, <1>2 DEF CallIsCurrent
  <2>2. CASE m # k
    BY <2>2, <1>2 DEF BooksConsistent, CallsAreCurrent, CallIsCurrent, RowsOf, JournalsOf
  <2> QED BY <2>1, <2>2
<1>4. (IdentitiesUnique /\ EntriesMatchRecords /\ FlagMatchesEntry /\ ToldIsBooked)'
  BY DEF BooksConsistent, IdentitiesUnique, EntriesMatchRecords, FlagMatchesEntry
<1> QED BY <1>1, <1>3, <1>4 DEF BooksConsistent

LEMMA QuietStep ==
  ASSUME BooksConsistent, NEW k \in CallId,
         \/ \E r \in Requests : Submit(k, r)
         \/ \E row \in rows : SubmitPost(k, row)
         \/ Persist(k) \/ Reread(k) \/ Recheck(k) \/ Fail(k) \/ Answer(k)
  PROVE  BooksConsistent'
<1>0. at \in [CallId -> Stage] /\ rec \in [CallId -> Record \union {None}]
      /\ rows \subseteq Row /\ rec[k] \in Record \union {None}
      /\ (at[k] # "idle" => rec[k] \in Record)
  BY DEF BooksConsistent, TypeOK
<1>t. (UNCHANGED <<journals, told>>) => ToldIsBooked' /\ told' \subseteq Id \X Tx
  BY DEF BooksConsistent, TypeOK, ToldIsBooked
<1>1. CASE \E r \in Requests : Submit(k, r)
  <2>1. PICK r \in Requests : Submit(k, r)
    BY <1>1
  <2>2. "persist" \in Stage /\ r \in Record /\ CallIsCurrent(k)'
    BY <2>1, <1>0, RequestsAssumption DEF Submit, Goto, Stage, CallIsCurrent
  <2>u. rows' = rows /\ journals' = journals /\ told' = told
    BY <2>1 DEF Submit
  <2>v. ToldIsBooked' /\ told' \subseteq Id \X Tx
    BY <2>u, <1>t
  <2> QED BY <2>1, <2>2, <2>u, <2>v, CallMoves DEF Submit, Goto
<1>2. CASE \E row \in rows : SubmitPost(k, row)
  <2>1. PICK row \in rows : SubmitPost(k, row)
    BY <1>2
  <2>2. "post" \in Stage /\ row.rec \in Record
    BY <1>0 DEF Stage, Row
  <2>3. CallIsCurrent(k)'
    BY <2>1, <1>0 DEF SubmitPost, Goto, CallIsCurrent
  <2>u. rows' = rows /\ journals' = journals /\ told' = told
    BY <2>1 DEF SubmitPost
  <2>v. ToldIsBooked' /\ told' \subseteq Id \X Tx
    BY <2>u, <1>t
  <2> QED BY <2>1, <2>2, <2>3, <2>u, <2>v, CallMoves DEF SubmitPost, Goto
<1> DEFINE s == at'[k]
<1>3. CASE Persist(k)
  <2>1. s \in Stage /\ at' = [at EXCEPT ![k] = s] /\ rec' = [rec EXCEPT ![k] = rec[k]]
        /\ s # "idle" /\ rec[k] \in Record
    BY <1>3, <1>0 DEF Persist, Goto, Stage
  <2>2. CallIsCurrent(k)'
    BY <1>3, <1>0 DEF Persist, Goto, CallIsCurrent, Persisted
  <2> HIDE DEF s
  <2>u. rows' = rows /\ journals' = journals /\ told' = told
    BY <1>3 DEF Persist
  <2>v. ToldIsBooked' /\ told' \subseteq Id \X Tx
    BY <2>u, <1>t
  <2> QED BY <1>3, <2>1, <2>2, <2>u, <2>v, CallMoves DEF Persist
<1>4. CASE Reread(k)
  <2>1. s \in Stage /\ at' = [at EXCEPT ![k] = s] /\ rec' = [rec EXCEPT ![k] = rec[k]]
        /\ s # "idle" /\ rec[k] \in Record
    BY <1>4, <1>0 DEF Reread, Goto, Stage
  <2>2. CallIsCurrent(k)'
    BY <1>4, <1>0 DEF Reread, Goto, CallIsCurrent, Persisted
  <2> HIDE DEF s
  <2>u. rows' = rows /\ journals' = journals /\ told' = told
    BY <1>4 DEF Reread
  <2>v. ToldIsBooked' /\ told' \subseteq Id \X Tx
    BY <2>u, <1>t
  <2> QED BY <1>4, <2>1, <2>2, <2>u, <2>v, CallMoves DEF Reread
<1>5. CASE Recheck(k)
  <2>1. s \in Stage /\ at' = [at EXCEPT ![k] = s] /\ rec' = [rec EXCEPT ![k] = rec[k]]
        /\ s # "idle" /\ rec[k] \in Record
    BY <1>5, <1>0 DEF Recheck, Goto, Stage
  <2>2. CallIsCurrent(k)'
    BY <1>5, <1>0 DEF Recheck, Goto, CallIsCurrent, BooksConsistent, CallsAreCurrent
  <2> HIDE DEF s
  <2>u. rows' = rows /\ journals' = journals /\ told' = told
    BY <1>5 DEF Recheck
  <2>v. ToldIsBooked' /\ told' \subseteq Id \X Tx
    BY <2>u, <1>t
  <2> QED BY <1>5, <2>1, <2>2, <2>u, <2>v, CallMoves DEF Recheck
<1>6. CASE Fail(k)
  <2>1. "rejected" \in Stage /\ rec' = [rec EXCEPT ![k] = rec[k]] /\ rec[k] \in Record
    BY <1>6, <1>0 DEF Fail, Stage
  <2>2. CallIsCurrent(k)'
    BY <1>6, <1>0 DEF Fail, Goto, CallIsCurrent
  <2>u. rows' = rows /\ journals' = journals /\ told' = told
    BY <1>6 DEF Fail
  <2>v. ToldIsBooked' /\ told' \subseteq Id \X Tx
    BY <2>u, <1>t
  <2> QED BY <1>6, <2>1, <2>2, <2>u, <2>v, CallMoves DEF Fail, Goto
<1>7. CASE Answer(k)
  <2>1. "idle" \in Stage /\ rec[k] \in Record
    BY <1>7, <1>0 DEF Answer, Stage
  <2>2. told' \subseteq Id \X Tx
    BY <1>7, <2>1, RecordFacts DEF Answer, BooksConsistent, TypeOK
  <2>3. ToldIsBooked'
    BY <1>7, <2>1 DEF Answer, BooksConsistent, CallsAreCurrent, CallIsCurrent, ToldIsBooked, Booked
  <2> QED BY <1>7, <2>1, <2>2, <2>3, CallMoves DEF Answer, Goto
<1> QED BY <1>1, <1>2, <1>3, <1>4, <1>5, <1>6, <1>7

-----------------------------------------------------------------------------
\* The call of k moves and rows is replaced by one of the same records:
\* what concerns journals and the other calls stays.
LEMMA RowsReplaced ==
  ASSUME BooksConsistent, rows' \subseteq Row,
         \A a \in rows' : \E b \in rows : a.rec = b.rec,
         \A b \in rows : \E a \in rows' : a.rec = b.rec,
         \A a, b \in rows' : Shares(a.rec, b.rec) => a = b,
         journals' = journals, told' = told
  PROVE  /\ (IdentitiesUnique /\ EntriesMatchRecords /\ ToldIsBooked)'
         /\ \A m \in CallId : at'[m] = at[m] /\ rec'[m] = rec[m] => CallIsCurrent(m)'
<1>1. IdentitiesUnique'
  BY DEF BooksConsistent, IdentitiesUnique
<1>2. EntriesMatchRecords'
  BY DEF BooksConsistent, EntriesMatchRecords, Booked
<1>3. ToldIsBooked'
  BY DEF BooksConsistent, ToldIsBooked
<1>4. ASSUME NEW m \in CallId, at'[m] = at[m], rec'[m] = rec[m]
      PROVE  CallIsCurrent(m)'
  <2>1. CallIsCurrent(m)
    BY DEF BooksConsistent, CallsAreCurrent
  <2>2. RowsOf(rec[m]) # {} => (RowsOf(rec[m]))' # {}
    <3> SUFFICES ASSUME NEW b \in rows, Shares(b.rec, rec[m])
                 PROVE  \E a \in rows' : Shares(a.rec, rec'[m])
      BY DEF RowsOf
    <3> QED BY <1>4 DEF Shares
  <2>3. (JournalsOf(rec[m]))' = JournalsOf(rec[m])
    BY <1>4 DEF JournalsOf, Shares
  <2> QED BY <1>4, <2>1, <2>2, <2>3 DEF CallIsCurrent, Booked
<1> QED BY <1>1, <1>2, <1>3, <1>4

\* Persisting a record: its identities were free, and no journal had them.
LEMMA InsertStep ==
  ASSUME BooksConsistent, NEW k \in CallId, Insert(k)
  PROVE  BooksConsistent'
<1> DEFINE r == rec[k]
           new == [rec |-> r, posted |-> FALSE, cancelled |-> FALSE]
<1>0. /\ at \in [CallId -> Stage] /\ rec \in [CallId -> Record \union {None}]
      /\ rows \subseteq Row /\ journals \subseteq Journal /\ told \subseteq Id \X Tx
      /\ r \in Record /\ at[k] = "insert" /\ rec' = rec /\ journals' = journals /\ told' = told
      /\ \A m \in CallId : m # k => at'[m] = at[m]
      /\ \A m \in CallId : at[m] # "idle" => rec[m] \in Record
  BY DEF BooksConsistent, TypeOK, Insert, Goto
<1>1. CASE RowsOf(r) = {}
  <2>1. rows' = rows \union {new} /\ at' = [at EXCEPT ![k] = "post"]
    BY <1>1 DEF Insert, Goto
  <2>2. new \in Row /\ new.rec = r /\ new.posted = FALSE
    BY <1>0 DEF Row
  <2>3. \A b \in rows : ~Shares(b.rec, r)
    BY <1>1 DEF RowsOf
  <2>4. TypeOK'
    <3>1. at' \in [CallId -> Stage] /\ rows' \subseteq Row
      BY <2>1, <2>2, <1>0 DEF Stage
    <3>2. \A m \in CallId : at'[m] # "idle" => rec'[m] \in Record
      BY <2>1, <1>0
    <3> QED BY <3>1, <3>2, <1>0 DEF TypeOK
  <2>5. \A a, b \in rows' : Shares(a.rec, b.rec) => a = b
    <3>1. \A b \in rows : ~Shares(r, b.rec)
      BY <2>3, <1>0, RecordFacts DEF Shares, Row
    <3> QED BY <3>1, <2>1, <2>2, <2>3 DEF BooksConsistent, IdentitiesUnique
  <2>6. IdentitiesUnique'
    BY <2>5, <1>0 DEF BooksConsistent, IdentitiesUnique
  <2>7. EntriesMatchRecords'
    BY <2>1, <1>0 DEF BooksConsistent, EntriesMatchRecords, Booked
  <2>8. \A j \in journals : ~Booked(j, r)
    BY BookedHasRow, <2>3, <1>0 DEF Shares
  <2>9. FlagMatchesEntry'
    BY <2>1, <2>2, <2>8, <1>0 DEF BooksConsistent, FlagMatchesEntry, Booked
  <2>10. CallsAreCurrent'
    <3> SUFFICES ASSUME NEW m \in CallId PROVE CallIsCurrent(m)'
      BY DEF CallsAreCurrent
    <3>1. CASE m = k
      BY <3>1, <2>1, <2>2, <1>0 DEF CallIsCurrent
    <3>2. CASE m # k
      <4>1. CallIsCurrent(m)
        BY DEF BooksConsistent, CallsAreCurrent
      <4>2. RowsOf(rec[m]) # {} => (RowsOf(rec[m]))' # {}
        BY <2>1, <1>0 DEF RowsOf, Shares
      <4>3. (JournalsOf(rec[m]))' = JournalsOf(rec[m])
        BY <1>0 DEF JournalsOf, Shares
      <4> QED BY <3>2, <4>1, <4>2, <4>3, <2>1, <1>0 DEF CallIsCurrent, Booked
    <3> QED BY <3>1, <3>2
  <2>11. ToldIsBooked'
    BY <1>0 DEF BooksConsistent, ToldIsBooked
  <2> QED BY <2>4, <2>6, <2>7, <2>9, <2>10, <2>11 DEF BooksConsistent
<1>2. CASE RowsOf(r) # {}
  <2>1. at' = [at EXCEPT ![k] = "reread"] /\ rows' = rows /\ "reread" \in Stage
    BY <1>2 DEF Insert, Goto, Stage
  <2>2. rec' = [rec EXCEPT ![k] = r]
    BY <1>0
  <2>3. CallIsCurrent(k)'
    BY <1>2, <2>1, <1>0 DEF CallIsCurrent, RowsOf, Shares
  <2>4. ToldIsBooked'
    BY <1>0 DEF BooksConsistent, ToldIsBooked
  <2> QED BY <1>0, <2>1, <2>2, <2>3, <2>4, CallMoves
<1> QED BY <1>1, <1>2

\* Marking the row of a record whose journal exists.
LEMMA MarkUnique ==
  ASSUME BooksConsistent, NEW r
  PROVE  /\ Mark(r) \subseteq Row
         /\ \A a \in Mark(r) : \E b \in rows : a.rec = b.rec
         /\ \A b \in rows : \E a \in Mark(r) : a.rec = b.rec
         /\ \A a, b \in Mark(r) : Shares(a.rec, b.rec) => a = b
         /\ \A a \in Mark(r) : /\ a.rec = r => a.posted = TRUE
                               /\ a.rec # r => a \in rows
<1>1. rows \subseteq Row
  BY DEF BooksConsistent, TypeOK
<1> DEFINE M(b) == IF b.rec = r THEN [b EXCEPT !.posted = TRUE] ELSE b
<1>2. \A b \in rows : /\ M(b) \in Row /\ M(b).rec = b.rec
                      /\ b.rec = r => M(b).posted = TRUE
                      /\ b.rec # r => M(b) = b
  BY <1>1 DEF Row
<1>3. Mark(r) = {M(b) : b \in rows}
  BY DEF Mark
<1> HIDE DEF M
<1>4. \A a \in Mark(r) : \E b \in rows : a = M(b) /\ a.rec = b.rec
  BY <1>2, <1>3
<1>5. \A a, b \in Mark(r) : Shares(a.rec, b.rec) => a = b
  BY <1>4 DEF BooksConsistent, IdentitiesUnique
<1>6. \A b \in rows : M(b) \in Mark(r) /\ M(b).rec = b.rec
  BY <1>2, <1>3
<1>7. Mark(r) \subseteq Row
  BY <1>2, <1>3
<1>8. \A a \in Mark(r) : /\ a.rec = r => a.posted = TRUE
                         /\ a.rec # r => a \in rows
  BY <1>2, <1>4
<1> QED BY <1>4, <1>5, <1>6, <1>7, <1>8

LEMMA PostStep ==
  ASSUME BooksConsistent, NEW k \in CallId, Post(k)
  PROVE  BooksConsistent'
<1> DEFINE r == rec[k]
           s == at'[k]
<1>0. /\ at \in [CallId -> Stage] /\ rec \in [CallId -> Record \union {None}]
      /\ rows \subseteq Row /\ journals \subseteq Journal /\ told \subseteq Id \X Tx
      /\ r \in Record /\ at[k] = "post" /\ rec' = rec /\ journals' = journals /\ told' = told
      /\ \A m \in CallId : m # k => at'[m] = at[m]
      /\ \A m \in CallId : at[m] # "idle" => rec[m] \in Record
      /\ at' \in [CallId -> Stage] /\ at' = [at EXCEPT ![k] = s] /\ s # "idle" /\ s \in Stage
  BY DEF BooksConsistent, TypeOK, Post, Goto, Stage
<1>1. \E row \in rows : row.rec = r
  BY <1>0 DEF BooksConsistent, CallsAreCurrent, CallIsCurrent
<1>2. ToldIsBooked'
  BY <1>0 DEF BooksConsistent, ToldIsBooked
<1>3. CASE rows' = rows /\ s \in {"book", "rejected"}
  <2>1. CallIsCurrent(k)'
    BY <1>3, <1>1, <1>0 DEF CallIsCurrent
  <2>2. rec' = [rec EXCEPT ![k] = r]
    BY <1>0
  <2> HIDE DEF s, r
  <2> QED BY <1>0, <1>2, <1>3, <2>1, <2>2, CallMoves
<1>4. CASE /\ s = "bind" /\ rows' = rows /\ r.safe = None
           /\ \E j \in journals : JournalsOf(r) = {j} /\ ~j.cancelled /\ Adoptable(j, r)
  <2>1. PICK j \in journals : Adoptable(j, r)
    BY <1>4
  <2>2. j.safe = None
    BY <2>1 DEF Adoptable, BooksConsistent, EntriesMatchRecords
  <2>3. CallIsCurrent(k)'
    BY <1>4, <1>1, <1>0, <2>1, <2>2 DEF CallIsCurrent, Adoptable
  <2>4. rec' = [rec EXCEPT ![k] = r]
    BY <1>0
  <2> HIDE DEF s, r
  <2> QED BY <1>0, <1>2, <1>4, <2>3, <2>4, CallMoves
<1>5. CASE /\ s = "ok" /\ rows' = Mark(r)
           /\ \E j \in journals : Booked(j, r)
  <2>1. TypeOK'
    BY <1>5, <1>0, MarkUnique DEF TypeOK
  <2>2. /\ (IdentitiesUnique /\ EntriesMatchRecords /\ ToldIsBooked)'
        /\ \A m \in CallId : at'[m] = at[m] /\ rec'[m] = rec[m] => CallIsCurrent(m)'
    BY <1>5, <1>0, MarkUnique, RowsReplaced
  <2>3. FlagMatchesEntry'
    <3>1. ASSUME NEW row \in Mark(r)
          PROVE  row.posted <=> \E j \in journals : Booked(j, row.rec)
      <4>1. CASE row.rec = r
        BY <1>5, <3>1, <4>1, MarkUnique
      <4>2. CASE row.rec # r
        <5>1. row \in rows
          BY <3>1, <4>2, MarkUnique
        <5> QED BY <5>1 DEF BooksConsistent, FlagMatchesEntry
      <4> QED BY <4>1, <4>2
    <3> HIDE DEF s, r
    <3> QED BY <1>5, <1>0, <3>1 DEF FlagMatchesEntry, Booked
  <2>4. CallIsCurrent(k)'
    <3>1. \E row \in rows' : row.rec = r
      <4>1. PICK row \in rows : row.rec = r
        BY <1>1
      <4>2. \E a \in Mark(r) : a.rec = row.rec
        BY MarkUnique
      <4> QED BY <1>5, <4>1, <4>2
    <3> QED BY <1>5, <1>0, <3>1 DEF CallIsCurrent, Booked
  <2>5. CallsAreCurrent'
    BY <2>2, <2>4, <1>0 DEF CallsAreCurrent
  <2> QED BY <2>1, <2>2, <2>3, <2>5 DEF BooksConsistent
<1>6. \/ rows' = rows /\ s \in {"book", "rejected"}
      \/ /\ s = "bind" /\ rows' = rows /\ r.safe = None
         /\ \E j \in journals : JournalsOf(r) = {j} /\ ~j.cancelled /\ Adoptable(j, r)
      \/ s = "ok" /\ rows' = Mark(r) /\ \E j \in journals : Booked(j, r)
  BY <1>0 DEF Post, Goto
<1> QED BY <1>3, <1>4, <1>5, <1>6

\* Giving an old entry its transaction: it is the only entry of the payment.
LEMMA BindStep ==
  ASSUME BooksConsistent, NEW k \in CallId, Bind(k)
  PROVE  BooksConsistent'
<1> DEFINE r == rec[k]
           s == at'[k]
<1>0. /\ at \in [CallId -> Stage] /\ rec \in [CallId -> Record \union {None}]
      /\ rows \subseteq Row /\ journals \subseteq Journal /\ told \subseteq Id \X Tx
      /\ r \in Record /\ at[k] = "bind" /\ rec' = rec /\ told' = told
      /\ \A m \in CallId : m # k => at'[m] = at[m]
      /\ \A m \in CallId : at[m] # "idle" => rec[m] \in Record
      /\ at' \in [CallId -> Stage] /\ at' = [at EXCEPT ![k] = s] /\ s # "idle" /\ s \in Stage
  BY DEF BooksConsistent, TypeOK, Bind, Goto, Stage
<1>1. PICK row \in rows : row.rec = r
  BY <1>0 DEF BooksConsistent, CallsAreCurrent, CallIsCurrent
<1>2. r.safe = None
  BY <1>0 DEF BooksConsistent, CallsAreCurrent, CallIsCurrent
<1>3. PICK j \in journals :
        /\ j.id = r.id
        /\ \/ s = "rejected" /\ rows' = rows /\ journals' = journals
           \/ /\ \A i \in journals : i.id # r.id => i.tx # r.tx
              /\ journals' = (journals \ {j}) \union {[j EXCEPT !.tx = r.tx]}
              /\ rows' = Mark(r)
              /\ s = "ok"
  BY <1>0 DEF Bind, Goto, db
<1>4. j.safe = None /\ j.tx \in {None, r.tx} /\ j.amount = r.amount
  <2>1. PICK i \in journals : i.id = r.id /\ i.safe = None /\ i.tx \in {None, r.tx} /\ i.amount = r.amount
    BY <1>0 DEF BooksConsistent, CallsAreCurrent, CallIsCurrent
  <2>2. i = j
    BY <1>3, <2>1 DEF BooksConsistent, IdentitiesUnique
  <2> QED BY <2>1, <2>2
<1>5. CASE s = "rejected" /\ rows' = rows /\ journals' = journals
  <2>1. CallIsCurrent(k)'
    BY <1>5, <1>0 DEF CallIsCurrent
  <2>2. rec' = [rec EXCEPT ![k] = r] /\ ToldIsBooked'
    BY <1>0, <1>5 DEF BooksConsistent, ToldIsBooked
  <2> HIDE DEF s, r
  <2> QED BY <1>0, <1>5, <2>1, <2>2, CallMoves
<1> DEFINE new == [j EXCEPT !.tx = r.tx]
<1>6. CASE /\ \A i \in journals : i.id # r.id => i.tx # r.tx
           /\ journals' = (journals \ {j}) \union {new}
           /\ rows' = Mark(r)
           /\ s = "ok"
  <2>1. /\ new \in Journal /\ new.id = r.id /\ new.tx = r.tx /\ new.safe = None
        /\ new.amount = r.amount /\ new.cancelled = j.cancelled /\ r.tx # None
        /\ (j.tx = r.tx => new = j)
    BY <1>0, <1>3, <1>4, RecordFacts DEF Journal
  <2>2. \A i \in journals : i # j => i.id # r.id
    BY <1>3 DEF BooksConsistent, IdentitiesUnique
  <2>3. \A i \in journals' : i = new \/ (i \in journals /\ i.id # r.id /\ i.tx # r.tx)
    BY <1>6, <2>2
  <2>4. \A i \in journals : i \in journals' \/ (i = j /\ new \in journals')
    BY <1>6
  <2> HIDE DEF new
  <2>5. TypeOK'
    BY <1>6, <2>1, <1>0, MarkUnique DEF TypeOK
  <2>6. \A a, b \in rows' : Shares(a.rec, b.rec) => a = b
    BY <1>6, MarkUnique
  <2>7. IdentitiesUnique'
    BY <2>1, <2>3, <2>6 DEF BooksConsistent, IdentitiesUnique
  <2>8. \A b \in rows : \E a \in rows' : a.rec = b.rec
    BY <1>6, MarkUnique
  <2>9. PICK mine \in rows' : mine.rec = r
    BY <2>8, <1>1
  <2>10. EntriesMatchRecords'
    <3> SUFFICES ASSUME NEW i \in journals'
                 PROVE  IF i.tx = None THEN i.safe = None
                        ELSE \E a \in rows' : /\ Booked(i, a.rec)
                                               /\ i.safe = a.rec.safe
                                               /\ i.amount = a.rec.amount
      BY DEF EntriesMatchRecords, Booked
    <3>1. CASE i = new
      BY <3>1, <2>1, <2>9, <1>2 DEF Booked
    <3>2. CASE i \in journals
      <4>1. CASE i.tx = None
        BY <4>1, <3>2 DEF BooksConsistent, EntriesMatchRecords
      <4>2. CASE i.tx # None
        <5>1. PICK b \in rows : Booked(i, b.rec) /\ i.safe = b.rec.safe /\ i.amount = b.rec.amount
          BY <4>2, <3>2 DEF BooksConsistent, EntriesMatchRecords
        <5>2. PICK a \in rows' : a.rec = b.rec
          BY <2>8
        <5> QED BY <4>2, <5>1, <5>2
      <4> QED BY <4>1, <4>2
    <3> QED BY <3>1, <3>2, <2>3
  <2>11. FlagMatchesEntry'
    <3> SUFFICES ASSUME NEW a \in rows'
                 PROVE  a.posted <=> \E i \in journals' : Booked(i, a.rec)
      BY DEF FlagMatchesEntry, Booked
    <3>1. CASE a.rec = r
      <4>1. new \in journals' /\ Booked(new, a.rec)
        BY <3>1, <1>6, <2>1, <1>2 DEF Booked
      <4>2. a.posted = TRUE
        BY <3>1, <1>6, MarkUnique
      <4> QED BY <4>1, <4>2
    <3>2. CASE a.rec # r
      <4>1. a \in rows
        BY <3>2, <1>6, MarkUnique
      <4>2. a.rec.id # r.id
        BY <4>1, <3>2, <1>1 DEF BooksConsistent, IdentitiesUnique, Shares
      <4>3. (\E i \in journals' : Booked(i, a.rec)) <=> (\E i \in journals : Booked(i, a.rec))
        BY <4>2, <2>1, <2>3, <2>4, <1>3 DEF Booked
      <4> QED BY <4>1, <4>3 DEF BooksConsistent, FlagMatchesEntry
    <3> QED BY <3>1, <3>2
  <2>12. CallsAreCurrent'
    <3> SUFFICES ASSUME NEW m \in CallId PROVE CallIsCurrent(m)'
      BY DEF CallsAreCurrent
    <3>1. CASE m = k
      <4>1. new \in journals' /\ Booked(new, r)
        BY <1>6, <2>1, <1>2 DEF Booked
      <4> QED BY <3>1, <4>1, <2>9, <1>6, <1>0 DEF CallIsCurrent, Booked
    <3>2. CASE m # k
      <4> DEFINE q == rec[m]
      <4>1. at'[m] = at[m] /\ rec'[m] = q /\ CallIsCurrent(m)
        BY <3>2, <1>0 DEF BooksConsistent, CallsAreCurrent
      <4>2. CASE at[m] \in {"idle", "persist", "insert", "rejected"}
        BY <4>1, <4>2 DEF CallIsCurrent
      <4>3. CASE at[m] = "reread"
        <5>1. PICK b \in rows : Shares(b.rec, q)
          BY <4>1, <4>3 DEF CallIsCurrent, RowsOf
        <5>2. PICK a \in rows' : a.rec = b.rec
          BY <2>8
        <5> QED BY <4>1, <4>3, <5>1, <5>2 DEF CallIsCurrent, RowsOf, Shares
      <4>4. CASE at[m] \in {"post", "bind", "book", "recheck", "ok"}
        <5>1. PICK b \in rows : b.rec = q
          BY <4>1, <4>4 DEF CallIsCurrent
        <5>2. PICK a \in rows' : a.rec = q
          BY <2>8, <5>1
        <5>3. q \in Record /\ q.tx # None
          BY <4>4, <1>0, RecordFacts
        <5>4. at[m] = "recheck" => (JournalsOf(q))' # {}
          <6> SUFFICES ASSUME at[m] = "recheck" PROVE \E i \in journals' : Shares(i, rec'[m])
            BY DEF JournalsOf
          <6>1. PICK i \in journals : Shares(i, q)
            BY <4>1 DEF CallIsCurrent, JournalsOf
          <6>2. Shares(j, q) => Shares(new, q)
            BY <2>1, <1>3, <1>4, <5>3 DEF Shares
          <6> QED BY <6>1, <6>2, <2>4, <4>1 DEF Shares
        <5>5. at[m] = "bind" =>
                \E i \in journals' : /\ i.id = q.id /\ i.safe = None
                                      /\ i.tx \in {None, q.tx} /\ i.amount = q.amount
          <6> SUFFICES ASSUME at[m] = "bind"
                       PROVE \E i \in journals' : /\ i.id = q.id /\ i.safe = None
                                                   /\ i.tx \in {None, q.tx} /\ i.amount = q.amount
            OBVIOUS
          <6>1. PICK i \in journals : /\ i.id = q.id /\ i.safe = None
                                      /\ i.tx \in {None, q.tx} /\ i.amount = q.amount
            BY <4>1 DEF CallIsCurrent
          <6>2. i = j => q = r
            BY <6>1, <1>3, <1>1, <5>1 DEF BooksConsistent, IdentitiesUnique, Shares
          <6> HIDE DEF q, r
          <6> QED BY <6>1, <6>2, <2>1, <2>4
        <5>6. at[m] = "ok" => \E i \in journals' : Booked(i, q)
          <6> SUFFICES ASSUME at[m] = "ok" PROVE \E i \in journals' : Booked(i, q)
            OBVIOUS
          <6>1. PICK i \in journals : Booked(i, q)
            BY <4>1 DEF CallIsCurrent
          <6>2. i = j => i = new
            BY <6>1, <5>3, <1>4, <2>1 DEF Booked
          <6> QED BY <6>1, <6>2, <2>4
        <5>7. at[m] = "bind" => q.safe = None
          BY <4>1 DEF CallIsCurrent
        <5> QED BY <4>1, <4>4, <5>2, <5>4, <5>5, <5>6, <5>7 DEF CallIsCurrent, Booked
      <4> QED BY <4>2, <4>3, <4>4, <1>0 DEF Stage
    <3> QED BY <3>1, <3>2
  <2>13. ToldIsBooked'
    <3> SUFFICES ASSUME NEW t \in told PROVE \E i \in journals' : <<i.id, i.tx>> = t
      BY <1>0 DEF ToldIsBooked
    <3>1. PICK i \in journals : <<i.id, i.tx>> = t
      BY DEF BooksConsistent, ToldIsBooked
    <3>2. i.tx # None
      BY <3>1, <1>0, NoneAssumption
    <3> QED BY <3>1, <3>2, <1>4, <2>1, <2>4
  <2> QED BY <2>5, <2>7, <2>10, <2>11, <2>12, <2>13 DEF BooksConsistent
<1> QED BY <1>3, <1>5, <1>6

\* Booking: none of the identities of the record was in the journals.
LEMMA BookStep ==
  ASSUME BooksConsistent, NEW k \in CallId, Book(k)
  PROVE  BooksConsistent'
<1> DEFINE r == rec[k]
           s == at'[k]
<1>0. /\ at \in [CallId -> Stage] /\ rec \in [CallId -> Record \union {None}]
      /\ rows \subseteq Row /\ journals \subseteq Journal /\ told \subseteq Id \X Tx
      /\ r \in Record /\ at[k] = "book" /\ rec' = rec /\ told' = told
      /\ \A m \in CallId : m # k => at'[m] = at[m]
      /\ \A m \in CallId : at[m] # "idle" => rec[m] \in Record
      /\ at' \in [CallId -> Stage] /\ at' = [at EXCEPT ![k] = s] /\ s # "idle" /\ s \in Stage
  BY DEF BooksConsistent, TypeOK, Book, Goto, Stage
<1>1. PICK row \in rows : row.rec = r
  BY <1>0 DEF BooksConsistent, CallsAreCurrent, CallIsCurrent
<1>2. CASE JournalsOf(r) # {}
  <2>1. s = "recheck" /\ rows' = rows /\ journals' = journals
    BY <1>2, <1>0 DEF Book, Goto, db
  <2>2. CallIsCurrent(k)'
    BY <1>1, <1>2, <2>1, <1>0 DEF CallIsCurrent, JournalsOf, Shares
  <2>3. rec' = [rec EXCEPT ![k] = r] /\ ToldIsBooked'
    BY <1>0, <2>1 DEF BooksConsistent, ToldIsBooked
  <2> HIDE DEF s, r
  <2> QED BY <1>0, <2>1, <2>2, <2>3, CallMoves
<1> DEFINE new == Entry(r)
<1>3. CASE JournalsOf(r) = {}
  <2>1. s = "ok" /\ journals' = journals \union {new} /\ rows' = Mark(r)
    BY <1>3, <1>0 DEF Book, Goto
  <2>2. /\ new \in Journal /\ Booked(new, r) /\ new.id = r.id /\ new.tx = r.tx
        /\ new.safe = r.safe /\ new.amount = r.amount /\ r.tx # None
    BY <1>0, EntryFacts, RecordFacts
  <2>3. \A i \in journals : /\ i.id # r.id /\ i.tx # r.tx
                            /\ r.safe # None => i.safe # r.safe
    BY <1>3 DEF JournalsOf, Shares
  <2> HIDE DEF new
  <2>5. TypeOK'
    BY <2>1, <2>2, <1>0, MarkUnique DEF TypeOK
  <2>6. \A a, b \in rows' : Shares(a.rec, b.rec) => a = b
    <3>1. rows' = Mark(r)
      BY <2>1
    <3> HIDE DEF s, r
    <3> QED BY <3>1, MarkUnique
  <2>7. IdentitiesUnique'
    BY <2>1, <2>2, <2>3, <2>6 DEF BooksConsistent, IdentitiesUnique
  <2>8. \A b \in rows : \E a \in rows' : a.rec = b.rec
    BY <2>1, MarkUnique
  <2>9. PICK mine \in rows' : mine.rec = r
    BY <2>8, <1>1
  <2>10. EntriesMatchRecords'
    <3> SUFFICES ASSUME NEW i \in journals'
                 PROVE  IF i.tx = None THEN i.safe = None
                        ELSE \E a \in rows' : /\ Booked(i, a.rec)
                                               /\ i.safe = a.rec.safe
                                               /\ i.amount = a.rec.amount
      BY DEF EntriesMatchRecords, Booked
    <3>1. CASE i = new
      BY <3>1, <2>2, <2>9
    <3>2. CASE i \in journals
      <4>1. CASE i.tx = None
        BY <4>1, <3>2 DEF BooksConsistent, EntriesMatchRecords
      <4>2. CASE i.tx # None
        <5>1. PICK b \in rows : Booked(i, b.rec) /\ i.safe = b.rec.safe /\ i.amount = b.rec.amount
          BY <4>2, <3>2 DEF BooksConsistent, EntriesMatchRecords
        <5>2. PICK a \in rows' : a.rec = b.rec
          BY <2>8
        <5> QED BY <4>2, <5>1, <5>2
      <4> QED BY <4>1, <4>2
    <3> QED BY <3>1, <3>2, <2>1
  <2>11. FlagMatchesEntry'
    <3> SUFFICES ASSUME NEW a \in rows'
                 PROVE  a.posted <=> \E i \in journals' : Booked(i, a.rec)
      BY DEF FlagMatchesEntry, Booked
    <3>1. CASE a.rec = r
      BY <3>1, <2>1, <2>2, MarkUnique
    <3>2. CASE a.rec # r
      <4>1. a \in rows
        BY <3>2, <2>1, MarkUnique
      <4>2. a.rec.id # r.id
        BY <4>1, <3>2, <1>1 DEF BooksConsistent, IdentitiesUnique, Shares
      <4>3. ~Booked(new, a.rec)
        BY <4>2, <2>2 DEF Booked
      <4> QED BY <4>1, <4>3, <2>1 DEF BooksConsistent, FlagMatchesEntry
    <3> QED BY <3>1, <3>2
  <2>12. CallsAreCurrent'
    <3> SUFFICES ASSUME NEW m \in CallId PROVE CallIsCurrent(m)'
      BY DEF CallsAreCurrent
    <3>1. CASE m = k
      BY <3>1, <2>1, <2>2, <2>9, <1>0 DEF CallIsCurrent, Booked
    <3>2. CASE m # k
      <4>1. at'[m] = at[m] /\ rec'[m] = rec[m] /\ CallIsCurrent(m)
        BY <3>2, <1>0 DEF BooksConsistent, CallsAreCurrent
      <4>2. RowsOf(rec[m]) # {} => (RowsOf(rec[m]))' # {}
        <5> SUFFICES ASSUME NEW b \in rows, Shares(b.rec, rec[m])
                     PROVE  \E a \in rows' : Shares(a.rec, rec'[m])
          BY DEF RowsOf
        <5>1. PICK a \in rows' : a.rec = b.rec
          BY <2>8
        <5> QED BY <5>1, <4>1 DEF Shares
      <4>3. JournalsOf(rec[m]) # {} => (JournalsOf(rec[m]))' # {}
        BY <4>1, <2>1 DEF JournalsOf, Shares
      <4>4. \A b \in rows : b.rec = rec[m] => \E a \in rows' : a.rec = rec'[m]
        BY <2>8, <4>1
      <4> QED BY <4>1, <4>2, <4>3, <4>4, <2>1 DEF CallIsCurrent, Booked
    <3> QED BY <3>1, <3>2
  <2>13. ToldIsBooked'
    BY <1>0, <2>1 DEF BooksConsistent, ToldIsBooked
  <2> QED BY <2>5, <2>7, <2>10, <2>11, <2>12, <2>13 DEF BooksConsistent
<1> QED BY <1>2, <1>3

LEMMA CancelRowStep ==
  ASSUME BooksConsistent, NEW row \in rows, CancelRow(row)
  PROVE  BooksConsistent'
<1> DEFINE new == [row EXCEPT !.cancelled = TRUE]
<1>0. /\ rows \subseteq Row /\ rows' = (rows \ {row}) \union {new} /\ new \in Row
      /\ new.rec = row.rec /\ new.posted = row.posted
      /\ journals' = journals /\ at' = at /\ rec' = rec /\ told' = told
  BY DEF BooksConsistent, TypeOK, CancelRow, Row
<1> HIDE DEF new
<1>1. TypeOK'
  BY <1>0 DEF BooksConsistent, TypeOK
<1>2. \A a, b \in rows' : Shares(a.rec, b.rec) => a = b
  BY <1>0 DEF BooksConsistent, IdentitiesUnique
<1>3. /\ rows' \subseteq Row
      /\ \A a \in rows' : \E b \in rows : a.rec = b.rec
      /\ \A b \in rows : \E a \in rows' : a.rec = b.rec
  BY <1>0
<1>4. /\ (IdentitiesUnique /\ EntriesMatchRecords /\ ToldIsBooked)'
      /\ \A m \in CallId : at'[m] = at[m] /\ rec'[m] = rec[m] => CallIsCurrent(m)'
  BY <1>0, <1>2, <1>3, RowsReplaced
<1>5. FlagMatchesEntry'
  BY <1>0 DEF BooksConsistent, FlagMatchesEntry, Booked
<1> QED BY <1>0, <1>1, <1>4, <1>5 DEF BooksConsistent, CallsAreCurrent

LEMMA CancelJournalStep ==
  ASSUME BooksConsistent, NEW j \in journals, CancelJournal(j)
  PROVE  BooksConsistent'
<1> DEFINE new == [j EXCEPT !.cancelled = TRUE]
<1>0. /\ journals \subseteq Journal /\ journals' = (journals \ {j}) \union {new} /\ new \in Journal
      /\ new.id = j.id /\ new.tx = j.tx /\ new.safe = j.safe /\ new.amount = j.amount
      /\ rows' = rows /\ at' = at /\ rec' = rec /\ told' = told
  BY DEF BooksConsistent, TypeOK, CancelJournal, Journal
<1> HIDE DEF new
<1>1. /\ \A i \in journals : \E h \in journals' : h.id = i.id /\ h.tx = i.tx /\ h.safe = i.safe /\ h.amount = i.amount
      /\ \A h \in journals' : \E i \in journals : h.id = i.id /\ h.tx = i.tx /\ h.safe = i.safe /\ h.amount = i.amount
  BY <1>0
<1>2. TypeOK'
  BY <1>0 DEF BooksConsistent, TypeOK
<1>3. IdentitiesUnique'
  BY <1>0 DEF BooksConsistent, IdentitiesUnique
<1>4. EntriesMatchRecords'
  BY <1>0, <1>1 DEF BooksConsistent, EntriesMatchRecords, Booked
<1>5. FlagMatchesEntry'
  BY <1>0, <1>1 DEF BooksConsistent, FlagMatchesEntry, Booked
<1>6. CallsAreCurrent'
  <2> SUFFICES ASSUME NEW m \in CallId PROVE CallIsCurrent(m)'
    BY DEF CallsAreCurrent
  <2>1. CallIsCurrent(m)
    BY DEF BooksConsistent, CallsAreCurrent
  <2>2. JournalsOf(rec[m]) # {} => (JournalsOf(rec[m]))' # {}
    BY <1>0, <1>1 DEF JournalsOf, Shares
  <2>3. (RowsOf(rec[m]))' = RowsOf(rec[m])
    BY <1>0 DEF RowsOf, Shares
  <2> QED BY <1>0, <1>1, <2>1, <2>2, <2>3 DEF CallIsCurrent, Booked
<1>7. ToldIsBooked'
  BY <1>0, <1>1 DEF BooksConsistent, ToldIsBooked
<1> QED BY <1>2, <1>3, <1>4, <1>5, <1>6, <1>7 DEF BooksConsistent

-----------------------------------------------------------------------------
LEMMA NextBooks ==
  ASSUME BooksConsistent, [Next]_vars
  PROVE  BooksConsistent'
<1>1. ASSUME NEW k \in CallId, Call(k)
      PROVE  BooksConsistent'
  BY <1>1, QuietStep, InsertStep, PostStep, BindStep, BookStep DEF Call, CallStep
<1>2. CASE Accountant
  BY <1>2, CancelRowStep, CancelJournalStep DEF Accountant
<1>3. CASE UNCHANGED vars
  BY <1>3 DEF vars, BooksConsistent, TypeOK, IdentitiesUnique, EntriesMatchRecords,
              FlagMatchesEntry, CallsAreCurrent, CallIsCurrent, ToldIsBooked,
              RowsOf, JournalsOf, Shares, Booked
<1> QED BY <1>1, <1>2, <1>3 DEF Next

\* The books stay consistent whatever the number of concurrent calls and
\* whatever records they carry: unique indices, the recheck after a duplicate
\* and the reads before each insert of api/__init__.py work together.
THEOREM BackendInvariant == Spec => []BooksConsistent
<1>1. Init => BooksConsistent
  BY InitBooks
<1>2. BooksConsistent /\ [Next]_vars => BooksConsistent'
  BY NextBooks
<1> QED BY <1>1, <1>2, PTL DEF Spec

-----------------------------------------------------------------------------
(* The backend implements the abstract ledger.                             *)

EntryOf(j) == [id |-> j.id, tx |-> j.tx, amount |-> j.amount]
Entries == {EntryOf(j) : j \in journals}

\* The ledger of the refinement, under a name of its own.
LEMMA LedgerIsEntries ==
  /\ {[id |-> j.id, tx |-> j.tx, amount |-> j.amount] : j \in journals} = Entries
  /\ {[id |-> j.id, tx |-> j.tx, amount |-> j.amount] : j \in journals}' = Entries'
BY DEF Entries, EntryOf

LEMMA InitEntries ==
  ASSUME Init
  PROVE  Ledger!LInit
<1>1. \A j \in journals : EntryOf(j) \in [id : Id, tx : {None}, amount : Amount]
  BY DEF Init, OldJournals, EntryOf
<1>2. \A i, j \in journals : EntryOf(i).id = EntryOf(j).id => i = j
  BY DEF Init, OldJournals, EntryOf
<1>3. told = {}
  BY DEF Init
<1> HIDE DEF EntryOf
<1>4. /\ Entries \in SUBSET [id : Id, tx : {None}, amount : Amount]
      /\ \A e, f \in Entries : e.id = f.id => e = f
  BY <1>1, <1>2 DEF Entries
<1> QED BY <1>3, <1>4, LedgerIsEntries DEF Ledger!LInit

LEMMA BookEnters ==
  ASSUME BooksConsistent, NEW k \in CallId, Book(k)
  PROVE  \/ journals' = journals
         \/ \E e \in Ledger!LedgerEntry : Ledger!Enter(e)
<1> DEFINE r == rec[k]
           e == EntryOf(Entry(r))
<1>0. r \in Record /\ told' = told
  BY DEF BooksConsistent, TypeOK, Book
<1>1. CASE JournalsOf(r) # {}
  BY <1>1 DEF Book, db
<1>2. CASE JournalsOf(r) = {}
  <2>1. journals' = journals \union {Entry(r)}
    BY <1>2 DEF Book
  <2>2. e.id = r.id /\ e.tx = r.tx /\ e.tx # None /\ e \in Ledger!LedgerEntry
    BY <1>0, EntryFacts, RecordFacts DEF EntryOf, Ledger!LedgerEntry
  <2>3. \A f \in Entries : f.id # e.id /\ f.tx # e.tx
    BY <1>2, <2>2 DEF Entries, EntryOf, JournalsOf, Shares
  <2>4. Entries' = Entries \union {e}
    BY <2>1 DEF Entries, EntryOf
  <2> HIDE DEF e
  <2>5. PICK new : new = e
    OBVIOUS
  <2>6. Ledger!Enter(new)
    BY <1>0, <2>2, <2>3, <2>4, <2>5, LedgerIsEntries DEF Ledger!Enter
  <2> QED BY <2>2, <2>5, <2>6
<1> QED BY <1>1, <1>2

LEMMA BindIdentifies ==
  ASSUME BooksConsistent, NEW k \in CallId, Bind(k)
  PROVE  \/ journals' = journals
         \/ \E e \in Entries, t \in Tx : Ledger!Identify(e, t)
<1> DEFINE r == rec[k]
<1>0. r \in Record /\ told' = told /\ journals \subseteq Journal /\ r.tx \in Tx
  BY RecordFacts DEF BooksConsistent, TypeOK, Bind
<1>1. PICK j \in journals :
        /\ j.id = r.id
        /\ \/ journals' = journals
           \/ /\ \A i \in journals : i.id # r.id => i.tx # r.tx
              /\ journals' = (journals \ {j}) \union {[j EXCEPT !.tx = r.tx]}
  BY DEF Bind, db
<1>2. j.tx \in {None, r.tx}
  <2>1. PICK i \in journals : i.id = r.id /\ i.tx \in {None, r.tx}
    BY DEF BooksConsistent, CallsAreCurrent, CallIsCurrent, Bind
  <2>2. i = j
    BY <1>1, <2>1 DEF BooksConsistent, IdentitiesUnique
  <2> QED BY <2>1, <2>2
<1>3. CASE j.tx = r.tx
  <2>1. [j EXCEPT !.tx = r.tx] = j
    BY <1>0, <1>3 DEF Journal
  <2> HIDE DEF r
  <2> QED BY <1>1, <2>1
<1>4. CASE /\ j.tx = None /\ r.tx # None
           /\ \A i \in journals : i.id # r.id => i.tx # r.tx
           /\ journals' = (journals \ {j}) \union {[j EXCEPT !.tx = r.tx]}
  <2> DEFINE e == EntryOf(j)
             n == [j EXCEPT !.tx = r.tx]
  <2>1. \A i \in journals : i # j => i.id # r.id /\ i.tx # r.tx
    BY <1>1, <1>4 DEF BooksConsistent, IdentitiesUnique
  <2>2. e \in Entries /\ e.tx = None /\ \A f \in Entries : f.tx # r.tx
    BY <1>4, <2>1 DEF Entries, EntryOf
  <2>3. EntryOf(n) = [e EXCEPT !.tx = r.tx]
    BY <1>0 DEF EntryOf, Journal
  <2>4. \A i \in journals : i # j => EntryOf(i) # e
    BY <1>1, <2>1 DEF EntryOf
  <2> HIDE DEF e, n
  <2>5. Entries' = (Entries \ {e}) \union {EntryOf(n)}
    <3>1. journals' = (journals \ {j}) \union {n}
      BY <1>4 DEF n
    <3>2. e = EntryOf(j)
      BY DEF e
    <3>3. Entries' = {EntryOf(i) : i \in journals'}
      BY DEF Entries, EntryOf
    <3> QED BY <2>4, <3>1, <3>2, <3>3 DEF Entries
  <2>6. PICK t \in Tx : t = r.tx
    BY <1>0
  <2>7. Ledger!Identify(EntryOf(j), t)
    BY <1>0, <2>2, <2>3, <2>5, <2>6, LedgerIsEntries DEF Ledger!Identify, e
  <2> QED BY <2>2, <2>7 DEF e
<1> QED BY <1>0, <1>1, <1>2, <1>3, <1>4, RecordFacts

LEMMA AnswerTells ==
  ASSUME BooksConsistent, NEW k \in CallId, Answer(k)
  PROVE  \/ UNCHANGED <<journals, told>>
         \/ \E e \in Entries : Ledger!Tell(e)
<1> DEFINE r == rec[k]
<1>1. journals' = journals /\ r \in Record
  BY DEF BooksConsistent, TypeOK, Answer
<1>2. CASE at[k] # "ok"
  BY <1>2 DEF Answer
<1>3. CASE at[k] = "ok"
  <2>1. PICK j \in journals : Booked(j, r)
    BY <1>3 DEF BooksConsistent, CallsAreCurrent, CallIsCurrent
  <2>2. /\ EntryOf(j) \in Entries /\ EntryOf(j).id = r.id
        /\ EntryOf(j).tx = r.tx /\ r.tx # None
    BY <1>1, <2>1, RecordFacts DEF Entries, EntryOf, Booked
  <2>3. told' = told \union {<<r.id, r.tx>>}
    BY <1>3 DEF Answer
  <2>4. Ledger!Tell(EntryOf(j))
    BY <1>1, <2>2, <2>3 DEF Ledger!Tell
  <2> QED BY <2>2, <2>4
<1> QED BY <1>2, <1>3

LEMMA CancelKeepsEntries ==
  ASSUME BooksConsistent, NEW j \in journals, CancelJournal(j)
  PROVE  UNCHANGED <<Entries, told>>
<1> DEFINE n == [j EXCEPT !.cancelled = TRUE]
<1>1. EntryOf(n) = EntryOf(j)
  BY DEF BooksConsistent, TypeOK, Journal, EntryOf
<1>2. journals' = (journals \ {j}) \union {n} /\ told' = told
  BY DEF CancelJournal
<1> HIDE DEF n
<1>3. Entries' = {EntryOf(i) : i \in journals'}
  BY DEF Entries, EntryOf
<1>4. Entries' = Entries
  BY <1>1, <1>2, <1>3 DEF Entries
<1> QED BY <1>2, <1>4

LEMMA NextEntries ==
  ASSUME BooksConsistent, [Next]_vars
  PROVE  [Ledger!LNext]_(Ledger!lvars)
<1>1. ASSUME UNCHANGED <<journals, told>>
      PROVE  UNCHANGED Ledger!lvars
  BY <1>1 DEF Ledger!lvars
<1>2. ASSUME \E e \in Entries : Ledger!Tell(e) \/ \E t \in Tx : Ledger!Identify(e, t)
      PROVE  Ledger!LNext
  BY <1>2, LedgerIsEntries DEF Ledger!LNext
<1>3. ASSUME NEW k \in CallId, Call(k)
      PROVE  [Ledger!LNext]_(Ledger!lvars)
  <2>1. CASE Book(k)
    BY <2>1, <1>1, BookEnters DEF Book, Ledger!LNext
  <2>2. CASE Bind(k)
    BY <2>2, <1>1, <1>2, BindIdentifies DEF Bind
  <2>3. CASE Answer(k)
    BY <2>3, <1>1, <1>2, AnswerTells
  <2>4. CASE \/ \E r \in Requests : Submit(k, r)
             \/ \E row \in rows : SubmitPost(k, row)
             \/ Persist(k) \/ Insert(k) \/ Reread(k) \/ Post(k) \/ Recheck(k) \/ Fail(k)
    BY <2>4, <1>1 DEF Submit, SubmitPost, Persist, Insert, Reread, Post, Recheck, Fail
  <2> QED BY <1>3, <2>1, <2>2, <2>3, <2>4 DEF Call, CallStep
<1>4. ASSUME Accountant
      PROVE  UNCHANGED Ledger!lvars
  <2>1. ASSUME NEW row \in rows, CancelRow(row)
        PROVE  UNCHANGED Ledger!lvars
    BY <2>1, <1>1 DEF CancelRow
  <2>2. ASSUME NEW j \in journals, CancelJournal(j)
        PROVE  UNCHANGED Ledger!lvars
    BY <2>2, CancelKeepsEntries DEF Ledger!lvars, Entries, EntryOf
  <2> QED BY <1>4, <2>1, <2>2 DEF Accountant
<1>5. CASE UNCHANGED vars
  BY <1>5, <1>1 DEF vars
<1> QED BY <1>3, <1>4, <1>5 DEF Next

\* The API keeps the promise of AccountingLedger: every payment is booked at
\* most once, the amount of an entry never changes, and a caller is only told
\* of a booking that exists.
THEOREM BackendImplementsLedger == Spec => LedgerSpec
<1>1. Init => Ledger!LInit
  BY InitEntries
<1>2. BooksConsistent /\ [Next]_vars => [Ledger!LNext]_(Ledger!lvars)
  BY NextEntries
<1> QED BY <1>1, <1>2, BackendInvariant, PTL DEF Spec, LedgerSpec, Ledger!LSpec

-----------------------------------------------------------------------------
(* Only a foreign or a cancelled document refuses a call.                  *)

\* A row or journal with an identity of r, none of which is the live one of
\* r itself, contests r.
LEMMA NotPersistedIsContested ==
  ASSUME BooksConsistent, NEW r \in Record, RowsOf(r) # {}, ~Persisted(r)
  PROVE  Contested(r)
<1>1. PICK row \in rows : Shares(row.rec, r)
  BY DEF RowsOf
<1>2. CASE row.rec = r /\ ~row.cancelled
  BY <1>2, RowOfRecord DEF Persisted
<1>3. CASE row.rec # r \/ row.cancelled
  BY <1>1, <1>3 DEF Contested
<1> QED BY <1>2, <1>3 DEF BooksConsistent, TypeOK, Row

LEMMA NotBookedIsContested ==
  ASSUME BooksConsistent, NEW r \in Record, JournalsOf(r) # {},
         ~\E j \in journals : JournalsOf(r) = {j} /\ ~j.cancelled /\ Booked(j, r)
  PROVE  Contested(r)
<1>1. PICK j \in journals : Shares(j, r)
  BY DEF JournalsOf
<1>2. CASE Booked(j, r) /\ ~j.cancelled
  BY <1>2, JournalOfRecord
<1>3. CASE ~Booked(j, r) \/ j.cancelled
  BY <1>1, <1>3 DEF Contested
<1> QED BY <1>2, <1>3

LEMMA RejectedIsContested ==
  ASSUME BooksConsistent, NEW k \in CallId, CallStep(k), at'[k] = "rejected"
  PROVE  Contested(rec[k])
<1> DEFINE r == rec[k]
<1>0. at \in [CallId -> Stage] /\ (at[k] # "idle" => r \in Record) /\ CallIsCurrent(k)
  BY DEF BooksConsistent, TypeOK, CallsAreCurrent
<1>1. CASE Persist(k)
  <2>1. RowsOf(r) # {} /\ ~Persisted(r) /\ r \in Record
    BY <1>0, <1>1 DEF Persist, Goto
  <2> QED BY <2>1, NotPersistedIsContested
<1>2. CASE Reread(k)
  <2>1. RowsOf(r) # {} /\ ~Persisted(r) /\ r \in Record
    BY <1>0, <1>2 DEF Reread, Goto, CallIsCurrent
  <2> QED BY <2>1, NotPersistedIsContested
<1>3. CASE Recheck(k)
  <2>1. /\ JournalsOf(r) # {} /\ r \in Record
        /\ ~\E j \in journals : JournalsOf(r) = {j} /\ ~j.cancelled /\ Booked(j, r)
    BY <1>0, <1>3 DEF Recheck, Goto, CallIsCurrent
  <2> QED BY <2>1, NotBookedIsContested
<1>4. CASE Post(k)
  <2>1. r \in Record /\ \E row \in rows : row.rec = r
    BY <1>0, <1>4 DEF Post, CallIsCurrent
  <2>2. \/ ~\E row \in rows : row.rec.id = r.id /\ ~row.cancelled
        \/ /\ JournalsOf(r) # {}
           /\ ~\E j \in journals : JournalsOf(r) = {j} /\ ~j.cancelled /\ Booked(j, r)
    BY <1>0, <1>4 DEF Post, Goto
  <2>3. CASE ~\E row \in rows : row.rec.id = r.id /\ ~row.cancelled
    BY <2>1, <2>3 DEF Contested, Shares
  <2> QED BY <2>1, <2>2, <2>3, NotBookedIsContested
<1>5. CASE Bind(k)
  <2>1. PICK i \in journals : i.id # r.id /\ i.tx = r.tx
    BY <1>0, <1>5 DEF Bind, Goto
  <2> QED BY <2>1 DEF Contested, Shares, Booked
<1>6. CASE Insert(k) \/ Book(k)
  BY <1>0, <1>6 DEF Insert, Book, Goto
<1> QED BY <1>1, <1>2, <1>3, <1>4, <1>5, <1>6 DEF CallStep

\* A record sent again, while its first call runs or after it, is never
\* refused because of that call.
THEOREM RetrySafe == Spec => RetryIsSafe
<1> DEFINE A == \A k \in CallId : CallStep(k) /\ at'[k] = "rejected" => Contested(rec[k])
<1>1. BooksConsistent /\ [Next]_vars => [A]_vars
  BY RejectedIsContested
<1> QED BY <1>1, BackendInvariant, PTL DEF Spec, RetryIsSafe
=============================================================================
