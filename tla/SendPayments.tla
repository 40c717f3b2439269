----------------------------- MODULE SendPayments -----------------------------
(***************************************************************************)
(* Single-signature sends: the sends store, buildAndSend, the send history *)
(* with its accounting retry, and the accounting backend they post to.     *)
(* The renderer calls post_confirmed_payment over HTTP; it may give up     *)
(* while the call still runs, restart while it waits, and ask again.       *)
(*                                                                         *)
(* A timestamp is a value of Detail: it is the part of the record that     *)
(* could differ between two posts of one send.                             *)
(***************************************************************************)
EXTENDS AccountingBackend

CONSTANT Old   \* sends an earlier version of the app left unposted

\* What buildConfirmedSendRecord can produce; it never has a SafeTx.
SendRecord == [id : Id, tx : Tx, safe : {None}, amount : Amount, detail : Detail]

\* The fiat value of an output nobody entered a value for.
Unvalued == None

ASSUME OldAssumption == Old \subseteq Id
ASSUME SendRequestsAssumption == Requests = SendRecord
ASSUME NoneIsNoData == None \notin Amount \union Detail \union Id

VARIABLES
  sends,   \* the persisted sends: [Id -> Send]
  work,    \* buildAndSend of each send: where it is and with which transaction
  chain,   \* transactions the network accepted
  waits    \* the send that waits for the answer of each call, or None

svars == <<sends, work, chain, waits>>
allvars == <<vars, svars>>

SendState == {"absent", "built", "signing", "broadcasted", "confirmed",
              "posting", "posted", "post_failed"}

Send == [ state       : SendState,
          tx          : Tx \union {None},          \* txHash
          fiat        : Amount \union {Unvalued},  \* outputs[].fiat.minor
          confirmedAt : Detail \union {None},
          updatedAt   : Detail \union {None},
          valueError  : BOOLEAN ]  \* postError asks for an accounting value

Work == [stage : {"none", "building", "signing", "sent", "accepted"}, tx : Tx \union {None}]
Idle == [stage |-> "none", tx |-> None]

SendTypeOK ==
  /\ sends \in [Id -> Send]
  /\ work \in [Id -> Work]
  /\ chain \subseteq Tx
  /\ waits \in [CallId -> Id \union {None}]

\* TRANSITIONS; draft is left in the synchronous step that enters it.
canTransition(from, to) ==
  <<from, to>> \in
    { <<"built", "signing">>, <<"signing", "broadcasted">>, <<"signing", "built">>,
      <<"broadcasted", "confirmed">>, <<"confirmed", "posting">>,
      <<"posting", "posted">>, <<"posting", "post_failed">>,
      <<"post_failed", "posting">> }

\* The update time is only read while there is no confirmedAt; it is kept as
\* long as it can be read.
Touched(d, now) == [d EXCEPT !.updatedAt = IF d.confirmedAt = None THEN now ELSE None]

\* transition(): the patched send in its new state, with its update time.
Transition(s, patched, to, now) ==
  /\ canTransition(sends[s].state, to)
  /\ sends' = [sends EXCEPT ![s] = Touched([patched EXCEPT !.state = to], now)]

SendInit ==
  /\ Init
  /\ sends \in [Id -> Send]
  /\ \A s \in Id \ Old :
       sends[s] = [ state |-> "absent", tx |-> None, fiat |-> Unvalued,
                    confirmedAt |-> None, updatedAt |-> None,
                    valueError |-> FALSE ]
  /\ \A s \in Old : /\ sends[s].state \in {"broadcasted", "post_failed"}
                    /\ sends[s].tx # None /\ sends[s].valueError = FALSE
                    /\ sends[s].confirmedAt = None /\ sends[s].updatedAt # None
  /\ \A j \in journals : j.id \in Old /\ sends[j.id].state = "post_failed"
  /\ chain = {sends[s].tx : s \in Old}
  /\ work = [s \in Id |-> Idle]
  /\ waits = [k \in CallId |-> None]

-----------------------------------------------------------------------------
(* SendPanel and buildAndSend                                              *)

\* handleSend: a validated draft has a positive value; it is built at once.
HandleSend(s, value, now) ==
  /\ sends[s].state = "absent"
  /\ sends' = [sends EXCEPT ![s] =
       Touched([sends[s] EXCEPT !.state = "built", !.fiat = value], now)]
  /\ work' = [work EXCEPT ![s] = [Idle EXCEPT !.stage = "building"]]
  /\ UNCHANGED <<chain, waits, vars>>

\* No cells, an unknown address or too little capacity: the send stays built.
BuildFails(s) ==
  /\ work[s].stage = "building"
  /\ work' = [work EXCEPT ![s] = Idle]
  /\ UNCHANGED <<sends, chain, waits, vars>>

StartSigning(s, t, now) ==
  /\ work[s].stage = "building"
  /\ Transition(s, sends[s], "signing", now)
  /\ work' = [work EXCEPT ![s] = [stage |-> "signing", tx |-> t]]
  /\ UNCHANGED <<chain, waits, vars>>

Broadcast(s) ==
  /\ work[s].stage = "signing"
  /\ work' = [work EXCEPT ![s].stage = "sent"]
  /\ UNCHANGED <<sends, chain, waits, vars>>

NetworkAccepts(s) ==
  /\ work[s].stage = "sent"
  /\ work' = [work EXCEPT ![s].stage = "accepted"]
  /\ chain' = chain \union {work[s].tx}
  /\ UNCHANGED <<sends, waits, vars>>

BroadcastReturns(s, now) ==
  /\ work[s].stage = "accepted"
  /\ Transition(s, [sends[s] EXCEPT !.tx = work[s].tx], "broadcasted", now)
  /\ work' = [work EXCEPT ![s] = Idle]
  /\ UNCHANGED <<chain, waits, vars>>

\* The signer declines, the node refuses, or the answer of the node is lost.
SendFails(s, now) ==
  /\ work[s].stage \in {"signing", "sent", "accepted"}
  /\ Transition(s, sends[s], "built", now)
  /\ work' = [work EXCEPT ![s] = Idle]
  /\ UNCHANGED <<chain, waits, vars>>

-----------------------------------------------------------------------------
(* SendHistory, the reactor and postSendJournal                            *)

Stamp(d) == IF d.confirmedAt # None THEN d.confirmedAt ELSE d.updatedAt

\* buildConfirmedSendRecord of the send s as it is.
RecordOf(s, d) ==
  [ id |-> s, tx |-> d.tx, safe |-> None, amount |-> d.fiat, detail |-> Stamp(d) ]

\* markPosting: the stamp of the record that goes out is kept for the next.
PinnedNever(d) == [d EXCEPT !.valueError = FALSE]
Pinned(d) == [d EXCEPT !.confirmedAt = Stamp(d), !.valueError = FALSE]

\* postSendJournal is single-flight.
Waiting(s) == \E k \in CallId : waits[k] = s

\* runPostSendJournal of the send s, as d: the record goes out as call k.
PostAs(s, d, k, now) ==
  /\ ~Waiting(s)
  /\ d.tx # None /\ d.fiat # Unvalued
  /\ sends' = [sends EXCEPT ![s] = Touched([Pinned(d) EXCEPT !.state = "posting"], now)]
  /\ Submit(k, RecordOf(s, d))
  /\ waits' = [waits EXCEPT ![k] = s]
  /\ UNCHANGED <<work, chain>>

\* No record can be built, or the request does not reach the backend:
\* posting and post_failed, without a call that anybody waits for.
PostFailsAs(s, d, now) ==
  /\ ~Waiting(s)
  /\ sends' = [sends EXCEPT ![s] =
       Touched([Pinned(d) EXCEPT !.state = "post_failed",
                  !.valueError = d.tx # None /\ d.fiat = Unvalued], now)]
  /\ UNCHANGED <<work, chain, waits, vars>>

RunPostSendJournal(s, d, now) ==
  \/ \E k \in CallId : PostAs(s, d, k, now)
  \/ PostFailsAs(s, d, now)

\* "Mark confirmed"; the reactor posts in the same step.
MarkConfirmed(s, now) ==
  /\ canTransition(sends[s].state, "confirmed")
  /\ RunPostSendJournal(s, [sends[s] EXCEPT !.state = "confirmed", !.confirmedAt = now,
                                            !.updatedAt = None], now)

\* "Retry accounting only".
RetryPost(s, now) ==
  /\ sends[s].state = "post_failed"
  /\ RunPostSendJournal(s, sends[s], now)

\* The answer of call k is heard.
AnswerHeard(k, now) ==
  LET s == waits[k]
  IN  /\ s # None
      /\ Answer(k)
      /\ Transition(s, [sends[s] EXCEPT !.valueError = FALSE],
                    IF at[k] = "ok" THEN "posted" ELSE "post_failed", now)
      /\ waits' = [waits EXCEPT ![k] = None]
      /\ UNCHANGED <<work, chain>>

\* The answer of a call nobody waits for.
AnswerUnheard(k) ==
  /\ waits[k] = None
  /\ Answer(k)
  /\ UNCHANGED svars

\* The timeout of the accounting host, or a lost connection.
GiveUp(k, now) ==
  LET s == waits[k]
  IN  /\ s # None
      /\ Transition(s, [sends[s] EXCEPT !.valueError = FALSE], "post_failed", now)
      /\ waits' = [waits EXCEPT ![k] = None]
      /\ UNCHANGED <<work, chain, vars>>

\* The editor is shown for a missing value only; updateAccountingValues.
SaveValue(s, value, now) ==
  /\ sends[s].state = "post_failed"
  /\ sends[s].fiat = Unvalued \/ sends[s].valueError
  /\ sends' = [sends EXCEPT ![s] =
       Touched([sends[s] EXCEPT !.fiat = value, !.valueError = FALSE], now)]
  /\ UNCHANGED <<work, chain, waits, vars>>

\* Nothing that awaits survives; recoverInterruptedPostings runs on load.
Restart(now) ==
  /\ sends' = [s \in Id |->
       IF sends[s].state = "posting"
       THEN Touched([sends[s] EXCEPT !.state = "post_failed", !.valueError = FALSE], now)
       ELSE sends[s]]
  /\ work' = [s \in Id |-> Idle]
  /\ waits' = [k \in CallId |-> None]
  /\ UNCHANGED <<chain, vars>>

-----------------------------------------------------------------------------
SendStep(s, now) ==
  \/ \E value \in Amount : HandleSend(s, value, now) \/ SaveValue(s, value, now)
  \/ BuildFails(s) \/ \E t \in Tx : StartSigning(s, t, now)
  \/ Broadcast(s) \/ NetworkAccepts(s) \/ BroadcastReturns(s, now) \/ SendFails(s, now)
  \/ MarkConfirmed(s, now) \/ RetryPost(s, now)

BackendStep ==
  /\ \/ \E k \in CallId : CallStep(k) \/ Fail(k)
     \/ Accountant
  /\ UNCHANGED svars

SendNext ==
  \/ \E now \in Detail :
       \/ \E s \in Id : SendStep(s, now)
       \/ \E k \in CallId : AnswerHeard(k, now) \/ GiveUp(k, now)
       \/ Restart(now)
  \/ \E k \in CallId : AnswerUnheard(k)
  \/ BackendStep

SendSpec == SendInit /\ [][SendNext]_allvars

-----------------------------------------------------------------------------
(* Properties                                                              *)

\* Calls and rows of a send carry the very record its next retry would carry:
\* confirmedAt is pinned at the first post and the value editor is closed
\* once a record could have left the app, so a retry is never refused for
\* "different immutable data" (markPosting, SendHistory).
RecordIsFrozen ==
  /\ \A row \in rows : row.rec = RecordOf(row.rec.id, sends[row.rec.id])
  /\ \A k \in CallId : at[k] # "idle" => rec[k] = RecordOf(rec[k].id, sends[rec[k].id])

\* What a send that was sent to the backend looks like from then on.
SentIsPinned ==
  \A s \in Id :
    (\E row \in rows : row.rec.id = s) \/ (\E k \in CallId : at[k] # "idle" /\ rec[k].id = s)
    => /\ sends[s].state \in {"posting", "post_failed", "posted"}
       /\ sends[s].tx # None /\ sends[s].fiat # Unvalued
       /\ sends[s].confirmedAt # None /\ ~sends[s].valueError

\* A call that a send waits for is that of the send, and the send is posting.
WaitersPost ==
  \A k \in CallId : waits[k] # None =>
    /\ at[k] # "idle" /\ rec[k].id = waits[k]
    /\ sends[waits[k]].state = "posting"
    /\ \A m \in CallId : waits[m] = waits[k] => m = k

\* A send shown as posted has a Journal Entry with its id, its transaction
\* and its value, and that transaction was accepted by the network.
PostedIsBooked ==
  \A s \in Id : sends[s].state = "posted" =>
    /\ sends[s].tx \in chain
    /\ \E j \in journals : j.id = s /\ j.tx = sends[s].tx /\ j.amount = sends[s].fiat

\* A transaction hash is recorded for accepted transactions only.
HashIsAccepted ==
  /\ \A s \in Id : /\ sends[s].tx # None => sends[s].tx \in chain
                   /\ work[s].stage = "accepted" => work[s].tx \in chain
                   /\ work[s].stage \in {"signing", "sent", "accepted"} =>
                        work[s].tx # None /\ sends[s].state = "signing"
                   /\ sends[s].state \in {"broadcasted", "confirmed", "posting", "posted"} =>
                        sends[s].tx # None

\* The sends, the calls and the books agree: the inductive invariant.
SendsMatchBooks ==
  /\ SendTypeOK
  /\ HashIsAccepted
  /\ WaitersPost
  /\ SentIsPinned
  /\ RecordIsFrozen
  /\ PostedIsBooked
=============================================================================
