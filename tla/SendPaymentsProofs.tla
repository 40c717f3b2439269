-------------------------- MODULE SendPaymentsProofs --------------------------
(***************************************************************************)
(* Theorems about single-signature sends and the accounting backend they   *)
(* post to, for any number of sends, calls and records.                    *)
(***************************************************************************)
EXTENDS SendPayments, AccountingBackendProofs

-----------------------------------------------------------------------------
(***************************************************************************)
(* The inductive invariant: what the runs check, that every send but an    *)
(* absent one has a time its record can be stamped with, and the           *)
(* invariant of the backend itself, from which a heard "ok" is a booking.  *)
(***************************************************************************)
StampIsKnown == \A s \in Id : sends[s].state # "absent" => Stamp(sends[s]) # None

SendInvariant == BooksConsistent /\ SendsMatchBooks /\ StampIsKnown

\* A record of the send s left the app and reached the backend.
WasSent(s) ==
  \/ \E row \in rows : row.rec.id = s
  \/ \E k \in CallId : at[k] # "idle" /\ rec[k].id = s

\* What the parts say of a send that is now d, with its work w.
Accepted(d, w, accepted) ==
  /\ d.tx # None => d.tx \in accepted
  /\ w.stage = "accepted" => w.tx \in accepted
  /\ w.stage \in {"signing", "sent", "accepted"} => w.tx # None /\ d.state = "signing"
  /\ d.state \in {"broadcasted", "confirmed", "posting", "posted"} => d.tx # None

Kept(d, e) ==
  /\ e.state \in {"posting", "post_failed", "posted"}
  /\ e.tx = d.tx /\ e.fiat = d.fiat /\ e.confirmedAt = d.confirmedAt
  /\ ~e.valueError

-----------------------------------------------------------------------------
(* What the operators of the model return                                  *)

LEMMA StampIsDetail ==
  ASSUME NEW d \in Send, Stamp(d) # None
  PROVE  Stamp(d) \in Detail
BY DEF Send, Stamp

\* The update time is read only while there is no confirmation time.
LEMMA TouchedIs ==
  ASSUME NEW d \in Send, NEW now \in Detail
  PROVE  /\ Touched(d, now) \in Send
         /\ Touched(d, now).state = d.state /\ Touched(d, now).tx = d.tx
         /\ Touched(d, now).fiat = d.fiat /\ Touched(d, now).confirmedAt = d.confirmedAt
         /\ Touched(d, now).valueError = d.valueError
         /\ Stamp(Touched(d, now)) # None
         /\ d.confirmedAt # None => Stamp(Touched(d, now)) = Stamp(d)
BY NoneIsNoData DEF Send, Touched, Stamp

LEMMA PinnedIs ==
  ASSUME NEW d \in Send, Stamp(d) # None
  PROVE  /\ Pinned(d) \in Send
         /\ Pinned(d).tx = d.tx /\ Pinned(d).fiat = d.fiat
         /\ Pinned(d).confirmedAt = Stamp(d) /\ Pinned(d).valueError = FALSE
BY StampIsDetail DEF Send, Pinned

\* The record of a send depends on its hash, its value and its stamp only.
LEMMA SameRecord ==
  ASSUME NEW s, NEW d, NEW e, e.tx = d.tx, e.fiat = d.fiat, Stamp(e) = Stamp(d)
  PROVE  RecordOf(s, e) = RecordOf(s, d)
BY DEF RecordOf

LEMMA RecordIsRequest ==
  ASSUME NEW s \in Id, NEW d \in Send, d.tx # None, d.fiat # Unvalued, Stamp(d) # None
  PROVE  RecordOf(s, d) \in Requests /\ RecordOf(s, d).id = s
BY StampIsDetail, SendRequestsAssumption DEF RecordOf, SendRecord, Send, Unvalued

\* A send that left the app is past "broadcasted", with all its record pinned.
LEMMA WasSentIs ==
  ASSUME SendInvariant, NEW s \in Id, WasSent(s)
  PROVE  /\ sends[s].state \in {"posting", "post_failed", "posted"}
         /\ sends[s].tx # None /\ sends[s].fiat # Unvalued
         /\ sends[s].confirmedAt # None /\ ~sends[s].valueError
BY DEF SendInvariant, SendsMatchBooks, SentIsPinned, WasSent

\* A send that is waited for was sent, and is posting.
LEMMA WaitingIs ==
  ASSUME SendInvariant, NEW s \in Id, Waiting(s)
  PROVE  sends[s].state = "posting" /\ WasSent(s)
BY NoneIsNoData DEF SendInvariant, SendsMatchBooks, WaitersPost, Waiting, WasSent

-----------------------------------------------------------------------------
(* The steps of one send that call nobody                                  *)

LEMMA SendChanges ==
  ASSUME SendInvariant, NEW s \in Id, NEW e \in Send, NEW w \in Work,
         sends' = [sends EXCEPT ![s] = e], work' = [work EXCEPT ![s] = w],
         chain \subseteq chain', chain' \subseteq Tx, UNCHANGED <<vars, waits>>,
         Accepted(e, w, chain'),
         e.state # "absent" => Stamp(e) # None,
         WasSent(s) => Kept(sends[s], e),
         Waiting(s) => e.state = "posting",
         e.state = "posted" => sends[s] = e
  PROVE  SendInvariant'
<1> USE DEF vars
<1>t. sends \in [Id -> Send] /\ work \in [Id -> Work] /\ chain \subseteq Tx /\ waits \in [CallId -> Id \union {None}]
  BY DEF SendInvariant, SendsMatchBooks, SendTypeOK
<1>s. /\ sends'[s] = e /\ work'[s] = w
      /\ \A t \in Id \ {s} : sends'[t] = sends[t] /\ work'[t] = work[t]
  BY <1>t
<1>1. BooksConsistent'
  BY NextBooks DEF SendInvariant
<1>2. SendTypeOK'
  BY <1>t DEF SendTypeOK
<1>3. HashIsAccepted'
  BY <1>s DEF SendInvariant, SendsMatchBooks, HashIsAccepted, Accepted
<1>4. WaitersPost'
  BY <1>t, <1>s DEF SendInvariant, SendsMatchBooks, WaitersPost, Waiting
<1>5. SentIsPinned'
  <2> SUFFICES ASSUME NEW t \in Id, WasSent(t)
               PROVE  /\ sends'[t].state \in {"posting", "post_failed", "posted"}
                      /\ sends'[t].tx # None /\ sends'[t].fiat # Unvalued
                      /\ sends'[t].confirmedAt # None /\ ~sends'[t].valueError
    BY DEF SentIsPinned, WasSent
  <2> QED BY <1>s, WasSentIs DEF Kept
<1>6. RecordIsFrozen'
  <2>1. \A t \in Id : WasSent(t) => RecordOf(t, sends'[t]) = RecordOf(t, sends[t])
    <3> SUFFICES ASSUME NEW t \in Id, WasSent(t)
                 PROVE  RecordOf(t, sends'[t]) = RecordOf(t, sends[t])
      OBVIOUS
    <3>1. CASE t = s
      <4>1. sends'[t].tx = sends[t].tx /\ sends'[t].fiat = sends[t].fiat
            /\ sends'[t].confirmedAt = sends[t].confirmedAt /\ sends[t].confirmedAt # None
        BY <1>s, <3>1, WasSentIs DEF Kept
      <4> QED BY <4>1 DEF Stamp, RecordOf
    <3>2. CASE t # s
      BY <1>s, <3>2
    <3> QED BY <3>1, <3>2
  <2>2. \A row \in rows : row.rec.id \in Id /\ WasSent(row.rec.id)
    BY DEF SendInvariant, BooksConsistent, TypeOK, Row, Record, WasSent
  <2>3. \A k \in CallId : at[k] # "idle" => rec[k].id \in Id /\ WasSent(rec[k].id)
    BY DEF SendInvariant, BooksConsistent, TypeOK, Record, WasSent
  <2> QED BY <2>1, <2>2, <2>3 DEF SendInvariant, SendsMatchBooks, RecordIsFrozen
<1>7. PostedIsBooked'
  BY <1>s DEF SendInvariant, SendsMatchBooks, PostedIsBooked
<1>8. StampIsKnown'
  BY <1>s DEF SendInvariant, StampIsKnown
<1> QED BY <1>1, <1>2, <1>3, <1>4, <1>5, <1>6, <1>7, <1>8 DEF SendInvariant, SendsMatchBooks

\* A send that is in no posting state was not sent and is not waited for.
LEMMA NotSentYet ==
  ASSUME SendInvariant, NEW s \in Id, sends[s].state \notin {"posting", "post_failed", "posted"}
  PROVE  ~WasSent(s) /\ ~Waiting(s)
BY WasSentIs, WaitingIs

LEMMA SendIs ==
  ASSUME SendInvariant, NEW s \in Id
  PROVE  /\ sends[s] \in Send /\ work[s] \in Work /\ chain \subseteq Tx
         /\ sends \in [Id -> Send] /\ work \in [Id -> Work]
         /\ Accepted(sends[s], work[s], chain)
         /\ sends[s].state # "absent" => Stamp(sends[s]) # None
BY DEF SendInvariant, SendsMatchBooks, SendTypeOK, HashIsAccepted, StampIsKnown, Accepted

\* buildAndSend moves on and the send itself stays as it is.
LEMMA WorkMoves ==
  ASSUME SendInvariant, NEW s \in Id, NEW w \in Work,
         UNCHANGED <<sends, waits, vars>>, work' = [work EXCEPT ![s] = w],
         chain \subseteq chain', chain' \subseteq Tx,
         Accepted(sends[s], w, chain')
  PROVE  SendInvariant'
<1>1. sends[s] \in Send /\ sends' = [sends EXCEPT ![s] = sends[s]]
  BY SendIs
<1>2. WasSent(s) => Kept(sends[s], sends[s])
  BY WasSentIs DEF Kept
<1> QED BY <1>1, <1>2, SendIs, WaitingIs, SendChanges

\* A send that has not been posted yet moves on with buildAndSend.
LEMMA SendMoves ==
  ASSUME SendInvariant, NEW s \in Id, NEW d \in Send, NEW now \in Detail, NEW w \in Work,
         sends[s].state \notin {"posting", "post_failed", "posted"},
         d.state \in SendState \ {"posted"},
         sends' = [sends EXCEPT ![s] = Touched(d, now)], work' = [work EXCEPT ![s] = w],
         UNCHANGED <<chain, waits, vars>>, Accepted(d, w, chain)
  PROVE  SendInvariant'
<1> DEFINE e == Touched(d, now)
<1>1. /\ e \in Send /\ e.state = d.state /\ e.tx = d.tx /\ Stamp(e) # None
  BY TouchedIs
<1>2. Accepted(e, w, chain)
  BY <1>1 DEF Accepted
<1>3. ~WasSent(s) /\ ~Waiting(s)
  BY NotSentYet
<1> HIDE DEF e
<1>4. sends' = [sends EXCEPT ![s] = e]
  BY DEF e
<1> QED BY <1>1, <1>2, <1>3, <1>4, SendIs, SendChanges

LEMMA BuildSteps ==
  ASSUME SendInvariant, NEW s \in Id, NEW now \in Detail,
         \/ \E value \in Amount : HandleSend(s, value, now)
         \/ BuildFails(s) \/ \E x \in Tx : StartSigning(s, x, now)
         \/ Broadcast(s) \/ NetworkAccepts(s) \/ BroadcastReturns(s, now) \/ SendFails(s, now)
  PROVE  SendInvariant'
<1> DEFINE d == sends[s]
<1>s. /\ d \in Send /\ work[s] \in Work /\ chain \subseteq Tx /\ work \in [Id -> Work]
      /\ Accepted(d, work[s], chain)
  BY SendIs
<1>i. Idle \in Work /\ Idle.stage = "none" /\ Idle.tx = None
  BY DEF Idle, Work
<1>1. ASSUME NEW value \in Amount, HandleSend(s, value, now)
      PROVE  SendInvariant'
  <2> DEFINE e == [d EXCEPT !.state = "built", !.fiat = value]
             w == [Idle EXCEPT !.stage = "building"]
  <2>1. /\ d.state = "absent" /\ sends' = [sends EXCEPT ![s] = Touched(e, now)]
        /\ work' = [work EXCEPT ![s] = w] /\ UNCHANGED <<chain, waits, vars>>
    BY <1>1 DEF HandleSend
  <2>2. e \in Send /\ e.state = "built" /\ e.tx = d.tx
    BY <1>s DEF Send, SendState
  <2>3. w \in Work /\ w.stage = "building"
    BY DEF Idle, Work
  <2>4. Accepted(e, w, chain)
    BY <1>s, <2>2, <2>3 DEF Accepted
  <2> HIDE DEF e, w
  <2> QED BY <2>1, <2>2, <2>3, <2>4, SendMoves DEF SendState
<1>2. CASE BuildFails(s)
  <2>1. Accepted(d, Idle, chain)
    BY <1>s, <1>i DEF Accepted
  <2> QED BY <1>2, <1>s, <1>i, <2>1, WorkMoves DEF BuildFails
<1>3. ASSUME NEW x \in Tx, StartSigning(s, x, now)
      PROVE  SendInvariant'
  <2> DEFINE e == [d EXCEPT !.state = "signing"]
             w == [stage |-> "signing", tx |-> x]
  <2>1. /\ d.state = "built" /\ sends' = [sends EXCEPT ![s] = Touched(e, now)]
        /\ work' = [work EXCEPT ![s] = w] /\ UNCHANGED <<chain, waits, vars>>
    BY <1>3 DEF StartSigning, Transition, canTransition
  <2>2. e \in Send /\ e.state = "signing" /\ e.tx = d.tx
    BY <1>s DEF Send, SendState
  <2>3. w \in Work /\ w.stage = "signing" /\ w.tx # None
    BY NoneAssumption DEF Work
  <2>4. Accepted(e, w, chain)
    BY <1>s, <2>2, <2>3 DEF Accepted
  <2> HIDE DEF e, w
  <2> QED BY <2>1, <2>2, <2>3, <2>4, SendMoves DEF SendState
<1>4. CASE Broadcast(s)
  <2> DEFINE w == [work[s] EXCEPT !.stage = "sent"]
  <2>1. w \in Work /\ w.stage = "sent" /\ w.tx = work[s].tx
    BY <1>s DEF Work
  <2>2. Accepted(d, w, chain)
    BY <1>4, <1>s, <2>1 DEF Broadcast, Accepted
  <2>3. work' = [work EXCEPT ![s] = w] /\ UNCHANGED <<sends, chain, waits, vars>>
    BY <1>4, <1>s DEF Broadcast
  <2> HIDE DEF w
  <2> QED BY <1>s, <2>1, <2>2, <2>3, WorkMoves
<1>5. CASE NetworkAccepts(s)
  <2> DEFINE w == [work[s] EXCEPT !.stage = "accepted"]
  <2>1. w \in Work /\ w.stage = "accepted" /\ w.tx = work[s].tx
    BY <1>s DEF Work
  <2>2. work[s].tx \in Tx /\ d.state = "signing"
    BY <1>5, <1>s DEF NetworkAccepts, Accepted, Work
  <2>3. chain' = chain \union {work[s].tx}
    BY <1>5 DEF NetworkAccepts
  <2>4. Accepted(d, w, chain')
    BY <1>s, <2>1, <2>2, <2>3, NoneAssumption DEF Accepted
  <2>5. work' = [work EXCEPT ![s] = w] /\ UNCHANGED <<sends, waits, vars>>
    BY <1>5, <1>s DEF NetworkAccepts
  <2> HIDE DEF w
  <2> QED BY <1>s, <2>1, <2>2, <2>3, <2>4, <2>5, WorkMoves
<1>6. CASE BroadcastReturns(s, now)
  <2> DEFINE e == [[d EXCEPT !.tx = work[s].tx] EXCEPT !.state = "broadcasted"]
  <2>1. /\ d.state = "signing" /\ sends' = [sends EXCEPT ![s] = Touched(e, now)]
        /\ work' = [work EXCEPT ![s] = Idle] /\ UNCHANGED <<chain, waits, vars>>
        /\ work[s].stage = "accepted"
    BY <1>6 DEF BroadcastReturns, Transition, canTransition
  <2>2. work[s].tx \in chain /\ work[s].tx # None
    BY <1>s, <2>1 DEF Accepted
  <2>3. e \in Send /\ e.state = "broadcasted" /\ e.tx = work[s].tx
    BY <1>s, <2>2 DEF Send, SendState, Work
  <2>4. Accepted(e, Idle, chain)
    BY <1>i, <2>2, <2>3 DEF Accepted
  <2> HIDE DEF e
  <2> QED BY <1>i, <2>1, <2>3, <2>4, SendMoves DEF SendState
<1>7. CASE SendFails(s, now)
  <2> DEFINE e == [d EXCEPT !.state = "built"]
  <2>1. /\ d.state = "signing" /\ sends' = [sends EXCEPT ![s] = Touched(e, now)]
        /\ work' = [work EXCEPT ![s] = Idle] /\ UNCHANGED <<chain, waits, vars>>
    BY <1>7, <1>s DEF SendFails, Transition, canTransition, Accepted
  <2>2. e \in Send /\ e.state = "built" /\ e.tx = d.tx
    BY <1>s DEF Send, SendState
  <2>3. Accepted(e, Idle, chain)
    BY <1>s, <1>i, <2>2 DEF Accepted
  <2> HIDE DEF e
  <2> QED BY <1>i, <2>1, <2>2, <2>3, SendMoves DEF SendState
<1> QED BY <1>1, <1>2, <1>3, <1>4, <1>5, <1>6, <1>7

\* The editor is open only for a send whose record never left the app.
LEMMA SaveValueStep ==
  ASSUME SendInvariant, NEW s \in Id, NEW value \in Amount, NEW now \in Detail,
         SaveValue(s, value, now)
  PROVE  SendInvariant'
<1> DEFINE d == sends[s]
           f == [d EXCEPT !.fiat = value, !.valueError = FALSE]
           e == Touched(f, now)
<1>s. /\ d \in Send /\ work[s] \in Work /\ chain \subseteq Tx /\ work \in [Id -> Work]
      /\ Accepted(d, work[s], chain)
  BY SendIs
<1>1. /\ d.state = "post_failed" /\ (d.fiat = Unvalued \/ d.valueError)
      /\ sends' = [sends EXCEPT ![s] = e] /\ UNCHANGED <<work, chain, waits, vars>>
  BY DEF SaveValue
<1>2. f \in Send /\ f.state = "post_failed" /\ f.tx = d.tx
  BY <1>s, <1>1 DEF Send
<1> HIDE DEF f
<1>3. e \in Send /\ e.state = "post_failed" /\ e.tx = d.tx /\ Stamp(e) # None
  BY <1>2, TouchedIs
<1>4. ~WasSent(s) /\ ~Waiting(s)
  BY <1>1, WasSentIs, WaitingIs
<1>5. Accepted(e, work[s], chain)
  BY <1>s, <1>1, <1>3 DEF Accepted
<1>6. work' = [work EXCEPT ![s] = work[s]]
  BY <1>s, <1>1
<1> HIDE DEF e
<1> QED BY <1>s, <1>1, <1>3, <1>4, <1>5, <1>6, SendChanges

-----------------------------------------------------------------------------
(***************************************************************************)
(* Posting.  The send goes out as d: the send itself on a retry, and with  *)
(* its time of confirmation after "Mark confirmed".                        *)
(***************************************************************************)
CanPost(s, d) ==
  /\ d \in Send /\ Stamp(d) # None
  /\ sends[s].state \in {"broadcasted", "post_failed"} /\ d.tx = sends[s].tx
  /\ sends[s].state = "post_failed" => d = sends[s]

LEMMA PostFailsStep ==
  ASSUME SendInvariant, NEW s \in Id, NEW d, NEW now \in Detail, CanPost(s, d),
         PostFailsAs(s, d, now)
  PROVE  SendInvariant'
<1> DEFINE b == d.tx # None /\ d.fiat = Unvalued
           f == [Pinned(d) EXCEPT !.state = "post_failed", !.valueError = b]
           e == Touched(f, now)
<1>s. /\ sends[s] \in Send /\ work[s] \in Work /\ chain \subseteq Tx /\ work \in [Id -> Work]
      /\ Accepted(sends[s], work[s], chain)
  BY SendIs
<1>1. /\ ~Waiting(s) /\ sends' = [sends EXCEPT ![s] = e] /\ UNCHANGED <<work, chain, waits, vars>>
  BY DEF PostFailsAs
<1>2. /\ f \in Send /\ f.state = "post_failed" /\ f.tx = d.tx /\ f.fiat = d.fiat
      /\ f.confirmedAt = Stamp(d) /\ f.valueError = b
  <2>1. /\ Pinned(d) \in Send /\ Pinned(d).tx = d.tx /\ Pinned(d).fiat = d.fiat
        /\ Pinned(d).confirmedAt = Stamp(d)
    BY PinnedIs DEF CanPost
  <2>2. b \in BOOLEAN /\ "post_failed" \in SendState
    BY DEF SendState
  <2> HIDE DEF b
  <2> QED BY <2>1, <2>2 DEF Send
<1> HIDE DEF f
<1>3. /\ e \in Send /\ e.state = "post_failed" /\ e.tx = d.tx /\ e.fiat = d.fiat
      /\ e.confirmedAt = Stamp(d) /\ e.valueError = b /\ Stamp(e) # None
  BY <1>2, TouchedIs
<1>4. WasSent(s) => Kept(sends[s], e)
  <2> HAVE WasSent(s)
  <2>1. /\ sends[s].state # "broadcasted" /\ sends[s].fiat # Unvalued
        /\ sends[s].confirmedAt # None
    BY WasSentIs
  <2>2. d = sends[s] /\ Stamp(d) = d.confirmedAt
    BY <2>1 DEF CanPost, Stamp
  <2> QED BY <1>3, <2>1, <2>2 DEF Kept
<1>5. Accepted(e, work[s], chain)
  BY <1>s, <1>3 DEF Accepted, CanPost
<1>6. work' = [work EXCEPT ![s] = work[s]]
  BY <1>s, <1>1
<1> HIDE DEF e
<1> QED BY <1>s, <1>1, <1>3, <1>4, <1>5, <1>6, SendChanges

LEMMA PostStepSends ==
  ASSUME SendInvariant, NEW s \in Id, NEW d, NEW k \in CallId, NEW now \in Detail,
         CanPost(s, d), PostAs(s, d, k, now)
  PROVE  SendInvariant' /\ Call(k)
<1> DEFINE f == [Pinned(d) EXCEPT !.state = "posting"]
           e == Touched(f, now)
           r == RecordOf(s, d)
<1>s. /\ sends[s] \in Send /\ work \in [Id -> Work] /\ chain \subseteq Tx /\ sends \in [Id -> Send]
      /\ Accepted(sends[s], work[s], chain)
      /\ waits \in [CallId -> Id \union {None}]
      /\ at \in [CallId -> Stage] /\ rec \in [CallId -> Record \union {None}]
  BY SendIs DEF SendInvariant, SendsMatchBooks, SendTypeOK, BooksConsistent, TypeOK
<1>1. /\ ~Waiting(s) /\ d.tx # None /\ d.fiat # Unvalued
      /\ sends' = [sends EXCEPT ![s] = e] /\ UNCHANGED <<work, chain>>
      /\ Submit(k, r) /\ waits' = [waits EXCEPT ![k] = s]
  BY DEF PostAs
<1>2. /\ f \in Send /\ f.state = "posting" /\ f.tx = d.tx /\ f.fiat = d.fiat
      /\ f.confirmedAt = Stamp(d) /\ f.valueError = FALSE
  <2>1. /\ Pinned(d) \in Send /\ Pinned(d).tx = d.tx /\ Pinned(d).fiat = d.fiat
        /\ Pinned(d).confirmedAt = Stamp(d) /\ Pinned(d).valueError = FALSE
    BY PinnedIs DEF CanPost
  <2> QED BY <2>1 DEF Send, SendState
<1> HIDE DEF f
<1>3. /\ e \in Send /\ e.state = "posting" /\ e.tx = d.tx /\ e.fiat = d.fiat
      /\ e.confirmedAt = Stamp(d) /\ ~e.valueError /\ Stamp(d) # None /\ Stamp(e) = Stamp(d)
  BY <1>2, TouchedIs DEF CanPost, Stamp
<1> HIDE DEF e
<1>4. r \in Requests /\ r.id = s /\ r = RecordOf(s, e)
  BY <1>1, <1>3, RecordIsRequest, SameRecord DEF CanPost
<1>5. Call(k)
  BY <1>1, <1>4 DEF Call
<1> HIDE DEF r
<1>6. /\ rows' = rows /\ journals' = journals /\ at[k] = "idle"
      /\ at'[k] # "idle" /\ rec'[k] = r /\ waits'[k] = s /\ sends'[s] = e
      /\ \A m \in CallId \ {k} : at'[m] = at[m] /\ rec'[m] = rec[m] /\ waits'[m] = waits[m]
      /\ \A t \in Id \ {s} : sends'[t] = sends[t]
  BY <1>s, <1>1 DEF Submit, Goto
<1>7. WasSent(s) => RecordOf(s, sends[s]) = RecordOf(s, e)
  <2> HAVE WasSent(s)
  <2>1. sends[s].state # "broadcasted"
    BY WasSentIs
  <2>2. d = sends[s]
    BY <2>1 DEF CanPost
  <2> QED BY <1>3, <2>2, SameRecord
<1>8. BooksConsistent'
  BY <1>5, NextBooks DEF Next, SendInvariant
<1>9. SendTypeOK'
  BY <1>s, <1>1, <1>3 DEF SendTypeOK
<1>10. HashIsAccepted'
  BY <1>1, <1>3, <1>6 DEF SendInvariant, SendsMatchBooks, HashIsAccepted, CanPost
<1>11. WaitersPost'
  <2> SUFFICES ASSUME NEW m \in CallId, waits'[m] # None
               PROVE  /\ at'[m] # "idle" /\ rec'[m].id = waits'[m]
                      /\ sends'[waits'[m]].state = "posting"
                      /\ \A n \in CallId : waits'[n] = waits'[m] => n = m
    BY DEF WaitersPost
  <2>1. CASE m = k
    BY <1>1, <1>3, <1>4, <1>6, <2>1 DEF Waiting
  <2>2. CASE m # k
    <3>1. waits'[m] = waits[m] /\ waits[m] \in Id /\ waits[m] # s
      BY <1>s, <1>1, <1>6, <2>2 DEF Waiting
    <3>2. /\ at[m] # "idle" /\ rec[m].id = waits[m] /\ sends[waits[m]].state = "posting"
          /\ \A n \in CallId : waits[n] = waits[m] => n = m
      BY <3>1 DEF SendInvariant, SendsMatchBooks, WaitersPost
    <3> QED BY <1>6, <2>2, <3>1, <3>2
  <2> QED BY <2>1, <2>2
<1>12. SentIsPinned'
  <2> SUFFICES ASSUME NEW t \in Id, t # s => WasSent(t)
               PROVE  /\ sends'[t].state \in {"posting", "post_failed", "posted"}
                      /\ sends'[t].tx # None /\ sends'[t].fiat # Unvalued
                      /\ sends'[t].confirmedAt # None /\ ~sends'[t].valueError
    BY <1>4, <1>6 DEF SentIsPinned, WasSent
  <2> QED BY <1>1, <1>3, <1>6, WasSentIs
<1>13. RecordIsFrozen'
  <2>1. \A t \in Id : WasSent(t) => RecordOf(t, sends'[t]) = RecordOf(t, sends[t])
    BY <1>6, <1>7
  <2>2. \A row \in rows : row.rec.id \in Id /\ WasSent(row.rec.id)
    BY DEF SendInvariant, BooksConsistent, TypeOK, Row, Record, WasSent
  <2>3. \A m \in CallId : at[m] # "idle" => rec[m].id \in Id /\ WasSent(rec[m].id)
    BY DEF SendInvariant, BooksConsistent, TypeOK, Record, WasSent
  <2>4. \A row \in rows' : row.rec = RecordOf(row.rec.id, sends'[row.rec.id])
    BY <1>6, <2>1, <2>2 DEF SendInvariant, SendsMatchBooks, RecordIsFrozen
  <2>5. \A m \in CallId : at'[m] # "idle" => rec'[m] = RecordOf(rec'[m].id, sends'[rec'[m].id])
    BY <1>4, <1>6, <2>1, <2>3 DEF SendInvariant, SendsMatchBooks, RecordIsFrozen
  <2> QED BY <2>4, <2>5 DEF RecordIsFrozen
<1>14. PostedIsBooked'
  BY <1>1, <1>3, <1>6 DEF SendInvariant, SendsMatchBooks, PostedIsBooked
<1>15. StampIsKnown'
  BY <1>3, <1>6 DEF SendInvariant, StampIsKnown
<1> QED
  BY <1>5, <1>8, <1>9, <1>10, <1>11, <1>12, <1>13, <1>14, <1>15 DEF SendInvariant, SendsMatchBooks

LEMMA RunPostStep ==
  ASSUME SendInvariant, NEW s \in Id, NEW now \in Detail,
         MarkConfirmed(s, now) \/ RetryPost(s, now)
  PROVE  SendInvariant' /\ [Next]_vars
<1>s. /\ sends[s] \in Send
      /\ sends[s].state # "absent" => Stamp(sends[s]) # None
  BY SendIs
<1>1. PICK d : CanPost(s, d) /\ RunPostSendJournal(s, d, now)
  <2>1. CASE MarkConfirmed(s, now)
    <3> DEFINE d == [sends[s] EXCEPT !.state = "confirmed", !.confirmedAt = now, !.updatedAt = None]
    <3>1. sends[s].state = "broadcasted" /\ RunPostSendJournal(s, d, now)
      BY <2>1 DEF MarkConfirmed, canTransition
    <3>2. d \in Send /\ d.tx = sends[s].tx /\ d.confirmedAt = now
      BY <1>s DEF Send, SendState
    <3>3. Stamp(d) # None
      BY <3>2, NoneIsNoData DEF Stamp
    <3> HIDE DEF d
    <3> QED BY <3>1, <3>2, <3>3 DEF CanPost
  <2>2. CASE RetryPost(s, now)
    BY <1>s, <2>2 DEF RetryPost, CanPost
  <2> QED BY <2>1, <2>2
<1>2. ASSUME NEW k \in CallId, PostAs(s, d, k, now)
      PROVE  SendInvariant' /\ [Next]_vars
  BY <1>1, <1>2, PostStepSends DEF Next
<1>3. CASE PostFailsAs(s, d, now)
  BY <1>1, <1>3, PostFailsStep DEF PostFailsAs
<1> QED BY <1>1, <1>2, <1>3 DEF RunPostSendJournal

-----------------------------------------------------------------------------
(***************************************************************************)
(* The backend at work.  No step of it makes a record of its own: a row is *)
(* that of a call, a running call keeps its record, and an entry with a    *)
(* transaction keeps its payment, transaction and amount.                  *)
(***************************************************************************)
NoRecordAppears ==
  /\ \A row \in rows' : \/ \E a \in rows : a.rec = row.rec
                        \/ \E k \in CallId : at[k] # "idle" /\ row.rec = rec[k]
  /\ \A k \in CallId : at'[k] # "idle" => at[k] # "idle" /\ rec'[k] = rec[k]

EntriesStay ==
  \A j \in journals : j.tx # None =>
    \E i \in journals' : i.id = j.id /\ i.tx = j.tx /\ i.amount = j.amount

LEMMA CallStepKeeps ==
  ASSUME BooksConsistent, NEW k \in CallId, CallStep(k) \/ Fail(k)
  PROVE  /\ NoRecordAppears /\ EntriesStay
         /\ \A m \in CallId : at[m] # "idle" => at'[m] # "idle" /\ rec'[m] = rec[m]
<1>0. /\ at \in [CallId -> Stage] /\ rec \in [CallId -> Record \union {None}]
      /\ rows \subseteq Row /\ journals \subseteq Journal
      /\ at[k] # "idle" /\ rec' = rec
      /\ \A m \in CallId : m # k => at'[m] = at[m]
      /\ at'[k] # "idle"
  BY DEF BooksConsistent, TypeOK, CallStep, Persist, Insert, Reread, Post, Bind, Book, Recheck, Fail, Goto
<1>1. /\ \A m \in CallId : at[m] # "idle" => at'[m] # "idle" /\ rec'[m] = rec[m]
      /\ \A m \in CallId : at'[m] # "idle" => at[m] # "idle" /\ rec'[m] = rec[m]
  BY <1>0
<1>2. \A row \in rows' : \/ \E a \in rows : a.rec = row.rec
                         \/ \E m \in CallId : at[m] # "idle" /\ row.rec = rec[m]
  <2>1. CASE Insert(k)
    BY <1>0, <2>1 DEF Insert
  <2>2. CASE rows' = Mark(rec[k])
    BY <2>2, MarkUnique
  <2>3. CASE rows' = rows
    BY <2>3
  <2>4. Insert(k) \/ rows' = Mark(rec[k]) \/ rows' = rows
    BY DEF CallStep, Persist, Reread, Post, Bind, Book, Recheck, Fail, db
  <2> QED BY <2>1, <2>2, <2>3, <2>4
<1>3. EntriesStay
  <2>1. CASE journals \subseteq journals'
    BY <2>1 DEF EntriesStay
  <2>2. CASE Bind(k)
    <3>1. PICK j \in journals :
            /\ j.id = rec[k].id
            /\ \/ journals' = journals
               \/ journals' = (journals \ {j}) \union {[j EXCEPT !.tx = rec[k].tx]}
      BY <2>2 DEF Bind, db
    <3>2. CASE journals' = journals
      BY <3>2 DEF EntriesStay
    <3>3. CASE journals' = (journals \ {j}) \union {[j EXCEPT !.tx = rec[k].tx]}
      <4> DEFINE n == [j EXCEPT !.tx = rec[k].tx]
      <4>1. j.tx \in {None, rec[k].tx}
        <5>1. PICK i \in journals : i.id = rec[k].id /\ i.tx \in {None, rec[k].tx}
          BY <2>2 DEF Bind, BooksConsistent, CallsAreCurrent, CallIsCurrent
        <5> QED BY <3>1, <5>1 DEF BooksConsistent, IdentitiesUnique
      <4>2. n.id = j.id /\ n.tx = rec[k].tx /\ n.amount = j.amount /\ n \in journals'
        BY <1>0, <3>3 DEF Journal
      <4> HIDE DEF n
      <4>3. journals \ {j} \subseteq journals'
        BY <3>3
      <4> QED BY <4>1, <4>2, <4>3 DEF EntriesStay
    <3> QED BY <3>1, <3>2, <3>3
  <2>3. Bind(k) \/ journals \subseteq journals'
    BY DEF CallStep, Persist, Insert, Reread, Post, Book, Recheck, Fail, db
  <2> QED BY <2>1, <2>2, <2>3
<1> QED BY <1>1, <1>2, <1>3 DEF NoRecordAppears

LEMMA AccountantKeeps ==
  ASSUME BooksConsistent, Accountant
  PROVE  NoRecordAppears /\ EntriesStay /\ UNCHANGED <<at, rec>>
<1>0. rows \subseteq Row /\ journals \subseteq Journal
  BY DEF BooksConsistent, TypeOK
<1>1. ASSUME NEW row \in rows, CancelRow(row)
      PROVE  NoRecordAppears /\ EntriesStay /\ UNCHANGED <<at, rec>>
  <2>1. [row EXCEPT !.cancelled = TRUE].rec = row.rec
    BY <1>0 DEF Row
  <2> QED BY <1>1, <2>1 DEF CancelRow, NoRecordAppears, EntriesStay
<1>2. ASSUME NEW j \in journals, CancelJournal(j)
      PROVE  NoRecordAppears /\ EntriesStay /\ UNCHANGED <<at, rec>>
  <2> DEFINE n == [j EXCEPT !.cancelled = TRUE]
  <2>1. n.id = j.id /\ n.tx = j.tx /\ n.amount = j.amount
    BY <1>0 DEF Journal
  <2>2. journals' = (journals \ {j}) \union {n} /\ UNCHANGED <<rows, at, rec>>
    BY <1>2 DEF CancelJournal
  <2> HIDE DEF n
  <2> QED BY <2>1, <2>2 DEF NoRecordAppears, EntriesStay
<1> QED BY <1>1, <1>2 DEF Accountant

LEMMA AnswerKeeps ==
  ASSUME BooksConsistent, NEW k \in CallId, Answer(k)
  PROVE  /\ NoRecordAppears /\ EntriesStay
         /\ \A m \in CallId \ {k} : at'[m] = at[m] /\ rec'[m] = rec[m]
<1>1. /\ at \in [CallId -> Stage] /\ rec \in [CallId -> Record \union {None}]
      /\ at'[k] = "idle" /\ rows' = rows /\ journals' = journals
      /\ \A m \in CallId \ {k} : at'[m] = at[m] /\ rec'[m] = rec[m]
  BY DEF BooksConsistent, TypeOK, Answer, Goto
<1> QED BY <1>1 DEF NoRecordAppears, EntriesStay

\* While no record appears and the sends that left the app keep theirs, the
\* records stay frozen.
LEMMA StaysFrozen ==
  ASSUME SendInvariant, NoRecordAppears,
         \A s \in Id : WasSent(s) => Kept(sends[s], sends'[s])
  PROVE  RecordIsFrozen' /\ SentIsPinned'
<1>1. ASSUME NEW s \in Id, WasSent(s)
      PROVE  /\ RecordOf(s, sends'[s]) = RecordOf(s, sends[s])
             /\ sends'[s].state \in {"posting", "post_failed", "posted"}
             /\ sends'[s].tx # None /\ sends'[s].fiat # Unvalued
             /\ sends'[s].confirmedAt # None /\ ~sends'[s].valueError
  <2>1. Kept(sends[s], sends'[s])
    BY <1>1
  <2>2. Stamp(sends'[s]) = Stamp(sends[s])
    BY <1>1, <2>1, WasSentIs DEF Kept, Stamp
  <2>3. RecordOf(s, sends'[s]) = RecordOf(s, sends[s])
    BY <2>1, <2>2, SameRecord DEF Kept
  <2> QED BY <1>1, <2>1, <2>3, WasSentIs DEF Kept
<1>2. \A row \in rows : /\ row.rec.id \in Id /\ WasSent(row.rec.id)
                        /\ row.rec = RecordOf(row.rec.id, sends[row.rec.id])
  BY DEF SendInvariant, SendsMatchBooks, RecordIsFrozen, BooksConsistent, TypeOK, Row, Record, WasSent
<1>3. \A k \in CallId : at[k] # "idle" => /\ rec[k].id \in Id /\ WasSent(rec[k].id)
                                          /\ rec[k] = RecordOf(rec[k].id, sends[rec[k].id])
  BY DEF SendInvariant, SendsMatchBooks, RecordIsFrozen, BooksConsistent, TypeOK, Record, WasSent
<1>4. \A row \in rows' : /\ row.rec.id \in Id /\ WasSent(row.rec.id)
                         /\ row.rec = RecordOf(row.rec.id, sends[row.rec.id])
  BY <1>2, <1>3 DEF NoRecordAppears
<1>5. \A k \in CallId : at'[k] # "idle" => /\ rec'[k].id \in Id /\ WasSent(rec'[k].id)
                                           /\ rec'[k] = RecordOf(rec'[k].id, sends[rec'[k].id])
  BY <1>3 DEF NoRecordAppears
<1>6. RecordIsFrozen'
  BY <1>1, <1>4, <1>5 DEF RecordIsFrozen
<1>7. SentIsPinned'
  <2> SUFFICES ASSUME NEW s \in Id,
                      (\E row \in rows' : row.rec.id = s) \/ (\E k \in CallId : at'[k] # "idle" /\ rec'[k].id = s)
               PROVE  WasSent(s)
    BY <1>1 DEF SentIsPinned
  <2> QED BY <1>4, <1>5
<1> QED BY <1>6, <1>7

\* A send that was posted stays booked.
LEMMA StaysBooked ==
  ASSUME SendInvariant, EntriesStay, chain' = chain,
         NEW s \in Id, sends[s].state = "posted",
         sends'[s].tx = sends[s].tx, sends'[s].fiat = sends[s].fiat
  PROVE  /\ sends'[s].tx \in chain'
         /\ \E j \in journals' : j.id = s /\ j.tx = sends'[s].tx /\ j.amount = sends'[s].fiat
<1>1. sends[s].tx # None
  BY DEF SendInvariant, SendsMatchBooks, HashIsAccepted
<1> QED BY <1>1 DEF SendInvariant, SendsMatchBooks, PostedIsBooked, EntriesStay

\* Nothing happens to the sends.
LEMMA BackendMoves ==
  ASSUME SendInvariant, [Next]_vars, NoRecordAppears, EntriesStay, UNCHANGED svars,
         \A m \in CallId : waits[m] # None => at'[m] # "idle" /\ rec'[m] = rec[m]
  PROVE  SendInvariant'
<1> USE DEF svars
<1>1. BooksConsistent'
  BY NextBooks DEF SendInvariant
<1>2. SendTypeOK' /\ HashIsAccepted' /\ StampIsKnown'
  BY DEF SendInvariant, SendsMatchBooks, SendTypeOK, HashIsAccepted, StampIsKnown
<1>3. WaitersPost'
  BY DEF SendInvariant, SendsMatchBooks, WaitersPost
<1>4. RecordIsFrozen' /\ SentIsPinned'
  <2>1. \A s \in Id : WasSent(s) => Kept(sends[s], sends'[s])
    BY WasSentIs DEF Kept
  <2> QED BY <2>1, StaysFrozen
<1>5. PostedIsBooked'
  BY StaysBooked DEF PostedIsBooked
<1> QED BY <1>1, <1>2, <1>3, <1>4, <1>5 DEF SendInvariant, SendsMatchBooks

LEMMA BackendStepSends ==
  ASSUME SendInvariant, BackendStep \/ \E k \in CallId : AnswerUnheard(k)
  PROVE  SendInvariant' /\ [Next]_vars
<1>b. BooksConsistent
  BY DEF SendInvariant
<1>w. \A m \in CallId : waits[m] # None => at[m] # "idle"
  BY DEF SendInvariant, SendsMatchBooks, WaitersPost
<1>1. ASSUME NEW k \in CallId, CallStep(k) \/ Fail(k), UNCHANGED svars
      PROVE  SendInvariant' /\ [Next]_vars
  <2>1. Next
    BY <1>1 DEF Next, Call
  <2> QED BY <1>1, <1>b, <1>w, <2>1, CallStepKeeps, BackendMoves
<1>2. ASSUME Accountant, UNCHANGED svars
      PROVE  SendInvariant' /\ [Next]_vars
  <2>1. Next
    BY <1>2 DEF Next
  <2> QED BY <1>2, <1>b, <1>w, <2>1, AccountantKeeps, BackendMoves
<1>3. ASSUME NEW k \in CallId, AnswerUnheard(k)
      PROVE  SendInvariant' /\ [Next]_vars
  <2>1. Next
    BY <1>3 DEF AnswerUnheard, Next, Call
  <2>2. waits[k] = None /\ Answer(k) /\ UNCHANGED svars
    BY <1>3 DEF AnswerUnheard
  <2> QED BY <1>b, <1>w, <2>1, <2>2, AnswerKeeps, BackendMoves
<1> QED BY <1>1, <1>2, <1>3 DEF BackendStep

-----------------------------------------------------------------------------
(* The answer of a call, a timeout, a restart                              *)

\* A call that is answered "ok" has its entry, with the amount of its record:
\* the row of the record is the only one with its payment id.
LEMMA OkIsBooked ==
  ASSUME BooksConsistent, NEW k \in CallId, at[k] = "ok"
  PROVE  \E j \in journals : j.id = rec[k].id /\ j.tx = rec[k].tx /\ j.amount = rec[k].amount
<1>1. /\ rec[k] \in Record /\ \E row \in rows : row.rec = rec[k]
      /\ \E j \in journals : Booked(j, rec[k])
  BY DEF BooksConsistent, TypeOK, CallsAreCurrent, CallIsCurrent
<1>2. PICK j \in journals : Booked(j, rec[k])
  BY <1>1
<1>3. j.id = rec[k].id /\ j.tx = rec[k].tx /\ j.tx # None
  BY <1>1, <1>2, RecordFacts DEF Booked
<1>4. PICK row \in rows : Booked(j, row.rec) /\ j.amount = row.rec.amount
  BY <1>3 DEF BooksConsistent, EntriesMatchRecords
<1>5. row.rec = rec[k]
  BY <1>1, <1>3, <1>4, RowOfRecord DEF Booked
<1> QED BY <1>3, <1>4, <1>5

\* The send that waits for call k is posted or has failed, and waits no more.
LEMMA PostingEnds ==
  ASSUME SendInvariant, [Next]_vars, NEW k \in CallId, NEW s \in Id, waits[k] = s,
         NEW now \in Detail, NEW to \in {"posted", "post_failed"},
         Transition(s, [sends[s] EXCEPT !.valueError = FALSE], to, now),
         waits' = [waits EXCEPT ![k] = None], UNCHANGED <<work, chain>>,
         NoRecordAppears, EntriesStay,
         \A m \in CallId \ {k} : at'[m] = at[m] /\ rec'[m] = rec[m],
         to = "posted" => at[k] = "ok"
  PROVE  SendInvariant'
<1> DEFINE g == [sends[s] EXCEPT !.valueError = FALSE]
           f == [g EXCEPT !.state = to]
           e == Touched(f, now)
<1>s. /\ sends[s] \in Send /\ sends \in [Id -> Send]
      /\ waits \in [CallId -> Id \union {None}] /\ s # None
  BY SendIs, NoneIsNoData DEF SendInvariant, SendsMatchBooks, SendTypeOK
<1>w. /\ at[k] # "idle" /\ rec[k].id = s /\ sends[s].state = "posting"
      /\ \A m \in CallId : waits[m] = s => m = k
  BY <1>s DEF SendInvariant, SendsMatchBooks, WaitersPost
<1>1. sends' = [sends EXCEPT ![s] = e]
  BY DEF Transition
<1>2. /\ g \in Send /\ g.tx = sends[s].tx /\ g.fiat = sends[s].fiat
      /\ g.confirmedAt = sends[s].confirmedAt /\ g.valueError = FALSE
  BY <1>s DEF Send
<1> HIDE DEF g
<1>3. /\ f \in Send /\ f.state = to /\ f.tx = sends[s].tx /\ f.fiat = sends[s].fiat
      /\ f.confirmedAt = sends[s].confirmedAt /\ f.valueError = FALSE
  <2>1. to \in SendState
    BY DEF SendState
  <2> QED BY <1>2, <2>1 DEF Send
<1> HIDE DEF f
<1>4. /\ e \in Send /\ e.state = to /\ e.tx = sends[s].tx /\ e.fiat = sends[s].fiat
      /\ e.confirmedAt = sends[s].confirmedAt /\ ~e.valueError /\ Stamp(e) # None
  BY <1>3, TouchedIs
<1> HIDE DEF e
<1>5. /\ sends'[s] = e /\ waits'[k] = None
      /\ \A t \in Id \ {s} : sends'[t] = sends[t]
      /\ \A m \in CallId \ {k} : waits'[m] = waits[m]
  BY <1>s, <1>1
<1>6. BooksConsistent'
  BY NextBooks DEF SendInvariant
<1>7. SendTypeOK'
  BY <1>s, <1>1, <1>4 DEF SendInvariant, SendsMatchBooks, SendTypeOK
<1>8. HashIsAccepted'
  <2>1. sends[s].tx # None /\ sends[s].tx \in chain
    BY <1>w DEF SendInvariant, SendsMatchBooks, HashIsAccepted
  <2>2. work[s].stage \notin {"signing", "sent", "accepted"}
    BY <1>w DEF SendInvariant, SendsMatchBooks, HashIsAccepted
  <2> QED BY <1>4, <1>5, <2>1, <2>2 DEF SendInvariant, SendsMatchBooks, HashIsAccepted
<1>9. WaitersPost'
  <2> SUFFICES ASSUME NEW m \in CallId, waits'[m] # None
               PROVE  /\ at'[m] # "idle" /\ rec'[m].id = waits'[m]
                      /\ sends'[waits'[m]].state = "posting"
                      /\ \A n \in CallId : waits'[n] = waits'[m] => n = m
    BY DEF WaitersPost
  <2>1. m # k /\ waits'[m] = waits[m] /\ waits[m] # s /\ waits[m] \in Id
    BY <1>s, <1>w, <1>5
  <2>2. /\ at[m] # "idle" /\ rec[m].id = waits[m] /\ sends[waits[m]].state = "posting"
        /\ \A n \in CallId : waits[n] = waits[m] => n = m
    BY <2>1 DEF SendInvariant, SendsMatchBooks, WaitersPost
  <2> QED BY <1>5, <2>1, <2>2
<1>10. RecordIsFrozen' /\ SentIsPinned'
  <2>1. \A t \in Id : WasSent(t) => Kept(sends[t], sends'[t])
    BY <1>4, <1>5, WasSentIs DEF Kept
  <2> QED BY <2>1, StaysFrozen
<1>11. PostedIsBooked'
  <2> SUFFICES ASSUME NEW t \in Id, sends'[t].state = "posted"
               PROVE  /\ sends'[t].tx \in chain'
                      /\ \E j \in journals' : j.id = t /\ j.tx = sends'[t].tx /\ j.amount = sends'[t].fiat
    BY DEF PostedIsBooked
  <2>1. CASE t # s
    BY <1>5, <2>1, StaysBooked
  <2>2. CASE t = s
    <3>1. at[k] = "ok"
      BY <1>4, <1>5, <2>2
    <3>2. PICK j \in journals : j.id = rec[k].id /\ j.tx = rec[k].tx /\ j.amount = rec[k].amount
      BY <3>1, OkIsBooked DEF SendInvariant
    <3>3. rec[k] = RecordOf(s, sends[s])
      BY <1>w DEF SendInvariant, SendsMatchBooks, RecordIsFrozen
    <3>4. rec[k].tx = sends[s].tx /\ rec[k].amount = sends[s].fiat
      BY <3>3 DEF RecordOf
    <3>5. sends[s].tx # None /\ sends[s].tx \in chain
      BY <1>w DEF SendInvariant, SendsMatchBooks, HashIsAccepted
    <3>6. \E i \in journals' : i.id = j.id /\ i.tx = j.tx /\ i.amount = j.amount
      BY <3>2, <3>4, <3>5 DEF EntriesStay
    <3> QED BY <1>w, <1>4, <1>5, <2>2, <3>2, <3>4, <3>5, <3>6
  <2> QED BY <2>1, <2>2
<1>12. StampIsKnown'
  BY <1>4, <1>5 DEF SendInvariant, StampIsKnown
<1> QED BY <1>6, <1>7, <1>8, <1>9, <1>10, <1>11, <1>12 DEF SendInvariant, SendsMatchBooks

LEMMA AnswerStep ==
  ASSUME SendInvariant, NEW k \in CallId, NEW now \in Detail,
         AnswerHeard(k, now) \/ GiveUp(k, now)
  PROVE  SendInvariant' /\ [Next]_vars
<1>b. BooksConsistent
  BY DEF SendInvariant
<1>1. waits[k] \in Id
  BY DEF SendInvariant, SendsMatchBooks, SendTypeOK, AnswerHeard, GiveUp
<1>2. PICK s \in Id : s = waits[k]
  BY <1>1
<1>3. CASE AnswerHeard(k, now)
  <2>1. PICK to \in {"posted", "post_failed"} :
          /\ Transition(s, [sends[s] EXCEPT !.valueError = FALSE], to, now)
          /\ to = "posted" => at[k] = "ok"
    BY <1>2, <1>3 DEF AnswerHeard
  <2>2. Answer(k) /\ waits' = [waits EXCEPT ![k] = None] /\ UNCHANGED <<work, chain>>
    BY <1>3 DEF AnswerHeard
  <2>3. Next
    BY <2>2 DEF Next, Call
  <2>4. /\ NoRecordAppears /\ EntriesStay
        /\ \A m \in CallId \ {k} : at'[m] = at[m] /\ rec'[m] = rec[m]
    BY <1>b, <2>2, AnswerKeeps
  <2> QED BY <1>2, <2>1, <2>2, <2>3, <2>4, PostingEnds
<1>4. CASE GiveUp(k, now)
  <2>1. /\ Transition(s, [sends[s] EXCEPT !.valueError = FALSE], "post_failed", now)
        /\ waits' = [waits EXCEPT ![k] = None] /\ UNCHANGED <<work, chain, vars>>
    BY <1>2, <1>4 DEF GiveUp
  <2>2. /\ NoRecordAppears /\ EntriesStay
        /\ \A m \in CallId \ {k} : at'[m] = at[m] /\ rec'[m] = rec[m]
    BY <2>1 DEF vars, NoRecordAppears, EntriesStay
  <2> QED BY <1>2, <2>1, <2>2, PostingEnds
<1> QED BY <1>3, <1>4

\* Nothing that awaits survives a restart; a posting send has failed.
LEMMA RestartStep ==
  ASSUME SendInvariant, NEW now \in Detail, Restart(now)
  PROVE  SendInvariant'
<1> DEFINE f(s) == [sends[s] EXCEPT !.state = "post_failed", !.valueError = FALSE]
<1>1. /\ sends' = [s \in Id |-> IF sends[s].state = "posting" THEN Touched(f(s), now) ELSE sends[s]]
      /\ work' = [s \in Id |-> Idle] /\ waits' = [k \in CallId |-> None]
      /\ UNCHANGED <<chain, vars>>
  BY DEF Restart
<1>2. ASSUME NEW s \in Id
      PROVE  /\ sends'[s] \in Send /\ sends'[s].tx = sends[s].tx /\ sends'[s].fiat = sends[s].fiat
             /\ sends'[s].confirmedAt = sends[s].confirmedAt
             /\ sends'[s].state = (IF sends[s].state = "posting" THEN "post_failed" ELSE sends[s].state)
             /\ sends'[s].valueError => sends[s].valueError
             /\ sends'[s].state # "absent" => Stamp(sends'[s]) # None
  <2>1. sends[s].state # "absent" => Stamp(sends[s]) # None
    BY SendIs
  <2>2. sends[s] \in Send
    BY SendIs
  <2>3. CASE sends[s].state = "posting"
    <3>1. /\ f(s) \in Send /\ f(s).state = "post_failed" /\ f(s).tx = sends[s].tx
          /\ f(s).fiat = sends[s].fiat /\ f(s).confirmedAt = sends[s].confirmedAt
          /\ f(s).valueError = FALSE
      BY <2>2 DEF Send, SendState
    <3> HIDE DEF f
    <3> QED BY <1>1, <2>3, <3>1, TouchedIs
  <2>4. CASE sends[s].state # "posting"
    BY <1>1, <2>1, <2>2, <2>4
  <2> QED BY <2>3, <2>4
<1>3. \A s \in Id : WasSent(s) => Kept(sends[s], sends'[s])
  BY <1>2, WasSentIs DEF Kept
<1>4. NoRecordAppears /\ EntriesStay
  BY <1>1 DEF vars, NoRecordAppears, EntriesStay
<1>5. BooksConsistent'
  BY <1>1, NextBooks DEF SendInvariant
<1>6. SendTypeOK'
  <2>1. sends' \in [Id -> Send]
    BY <1>1, <1>2
  <2> QED BY <1>1, <2>1 DEF SendInvariant, SendsMatchBooks, SendTypeOK, Work, Idle
<1>7. HashIsAccepted'
  <2>1. \A s \in Id : work'[s].stage = "none"
    BY <1>1 DEF Idle
  <2> QED BY <1>1, <1>2, <2>1 DEF SendInvariant, SendsMatchBooks, HashIsAccepted
<1>8. WaitersPost'
  BY <1>1 DEF WaitersPost
<1>9. RecordIsFrozen' /\ SentIsPinned'
  BY <1>3, <1>4, StaysFrozen
<1>10. PostedIsBooked'
  BY <1>1, <1>2, <1>4, StaysBooked DEF PostedIsBooked
<1>11. StampIsKnown'
  BY <1>2 DEF StampIsKnown
<1> QED BY <1>5, <1>6, <1>7, <1>8, <1>9, <1>10, <1>11 DEF SendInvariant, SendsMatchBooks

-----------------------------------------------------------------------------
(* The invariant                                                           *)

LEMMA SendInitInvariant ==
  ASSUME SendInit
  PROVE  SendInvariant
<1>1. BooksConsistent
  BY InitBooks DEF SendInit
<1>2. /\ sends \in [Id -> Send] /\ rows = {} /\ \A k \in CallId : at[k] = "idle"
      /\ work = [s \in Id |-> Idle] /\ waits = [k \in CallId |-> None]
      /\ chain = {sends[s].tx : s \in Old}
  BY DEF SendInit, Init
<1>3. \A s \in Id : /\ s \notin Old => /\ sends[s].state = "absent" /\ sends[s].tx = None
                    /\ s \in Old => /\ sends[s].state \in {"broadcasted", "post_failed"}
                                    /\ sends[s].tx # None /\ Stamp(sends[s]) # None
  BY DEF SendInit, Stamp
<1>4. SendTypeOK
  <2>1. chain \subseteq Tx
    BY <1>2, <1>3, OldAssumption DEF Send
  <2> QED BY <1>2, <2>1 DEF SendTypeOK, Work, Idle
<1>5. HashIsAccepted
  <2>1. \A s \in Id : work[s].stage = "none"
    BY <1>2 DEF Idle
  <2> QED BY <1>2, <1>3, <2>1 DEF HashIsAccepted
<1>6. WaitersPost /\ SentIsPinned /\ RecordIsFrozen
  BY <1>2 DEF WaitersPost, SentIsPinned, RecordIsFrozen
<1>7. PostedIsBooked /\ StampIsKnown
  BY <1>3 DEF PostedIsBooked, StampIsKnown
<1> QED BY <1>1, <1>4, <1>5, <1>6, <1>7 DEF SendInvariant, SendsMatchBooks

LEMMA SendStepInvariant ==
  ASSUME SendInvariant, [SendNext]_allvars
  PROVE  SendInvariant' /\ [Next]_vars
<1>1. ASSUME NEW s \in Id, NEW now \in Detail, SendStep(s, now)
      PROVE  SendInvariant' /\ [Next]_vars
  <2>1. CASE MarkConfirmed(s, now) \/ RetryPost(s, now)
    BY <2>1, RunPostStep
  <2>2. ASSUME NEW value \in Amount, SaveValue(s, value, now)
        PROVE  SendInvariant' /\ [Next]_vars
    BY <2>2, SaveValueStep DEF SaveValue
  <2>3. CASE \/ \E value \in Amount : HandleSend(s, value, now)
             \/ BuildFails(s) \/ \E x \in Tx : StartSigning(s, x, now)
             \/ Broadcast(s) \/ NetworkAccepts(s) \/ BroadcastReturns(s, now) \/ SendFails(s, now)
    <3>1. SendInvariant'
      BY <2>3, BuildSteps
    <3>2. UNCHANGED vars
      BY <2>3 DEF HandleSend, BuildFails, StartSigning, Broadcast, NetworkAccepts,
                  BroadcastReturns, SendFails
    <3> QED BY <3>1, <3>2
  <2> QED BY <1>1, <2>1, <2>2, <2>3 DEF SendStep
<1>2. ASSUME NEW k \in CallId, NEW now \in Detail, AnswerHeard(k, now) \/ GiveUp(k, now)
      PROVE  SendInvariant' /\ [Next]_vars
  BY <1>2, AnswerStep
<1>3. ASSUME NEW now \in Detail, Restart(now)
      PROVE  SendInvariant' /\ [Next]_vars
  BY <1>3, RestartStep DEF Restart
<1>4. CASE BackendStep \/ \E k \in CallId : AnswerUnheard(k)
  BY <1>4, BackendStepSends
<1>5. CASE UNCHANGED allvars
  <2>1. UNCHANGED svars /\ UNCHANGED vars
    BY <1>5 DEF allvars
  <2>2. NoRecordAppears /\ EntriesStay
    BY <2>1 DEF vars, NoRecordAppears, EntriesStay
  <2>3. \A m \in CallId : waits[m] # None => at'[m] # "idle" /\ rec'[m] = rec[m]
    BY <2>1 DEF vars, SendInvariant, SendsMatchBooks, WaitersPost
  <2> QED BY <2>1, <2>2, <2>3, BackendMoves
<1> QED BY <1>1, <1>2, <1>3, <1>4, <1>5 DEF SendNext

-----------------------------------------------------------------------------
(* Theorems                                                                *)

\* Whatever is lost, repeated or restarted between a send and the accounting
\* backend: a record that left the app is frozen, a waiting call is that of
\* its posting send, and a send shown as posted has its entry with its
\* transaction and its value (buildAndSend, postSendJournal, markPosting,
\* recoverInterruptedPostings, post_confirmed_payment).
THEOREM SendsAgreeWithBooks == SendSpec => []SendsMatchBooks
<1>1. SendInit => SendInvariant
  BY SendInitInvariant
<1>2. SendInvariant /\ [SendNext]_allvars => SendInvariant'
  BY SendStepInvariant
<1>3. SendInvariant => SendsMatchBooks
  BY DEF SendInvariant
<1> QED BY <1>1, <1>2, <1>3, PTL DEF SendSpec

\* The app calls the backend only in ways the backend is specified for: every
\* record a send posts is a complete request, and with that the invariant and
\* the promise of the backend hold in the composition (postSendJournal,
\* buildConfirmedSendRecord).
THEOREM SendsUseTheBackend == SendSpec => Spec
<1>1. SendInit => SendInvariant /\ Init
  BY SendInitInvariant DEF SendInit
<1>2. SendInvariant /\ [SendNext]_allvars => SendInvariant' /\ [Next]_vars
  BY SendStepInvariant
<1> QED BY <1>1, <1>2, PTL DEF SendSpec, Spec

\* What the sends post is booked at most once, with an amount that never
\* changes, as AccountingLedger promises (post_confirmed_payment).
THEOREM SendsKeepTheLedger == SendSpec => LedgerSpec
BY SendsUseTheBackend, BackendImplementsLedger, PTL

=============================================================================
