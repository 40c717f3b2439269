----------------------------- MODULE CommDelivery -----------------------------
(***************************************************************************)
(* The packet of one batch on its way to the co-signers: the dispatch and  *)
(* the retry schedule of the operator, the cells on the chain, the watcher *)
(* and the automatic acknowledgement of each signer, and the watcher of    *)
(* the operator that hears the acknowledgements.                           *)
(*                                                                         *)
(* The copies of the packet that a retry leaves on the chain are the same  *)
(* message: of the copies for one signer the model keeps whether there are *)
(* any, whether some are not yet marked processed, and whether some are    *)
(* being decrypted.  What the panel dispatches and what the schedule       *)
(* retries are kept apart, because their deadlines differ.  A timer fires  *)
(* some time after it was set.                                             *)
(***************************************************************************)
EXTENDS Naturals

CONSTANT N   \* slots of the treasury; a slot is its signer

ASSUME SlotsAssumption == N \in Nat \ {0}

VARIABLES
  slots,    \* commSendStatus of the batch: [state, dismissed] of each slot
  open,     \* the batch is in none of TERMINAL_BATCH_STATES
  peers,    \* slots with a peer in the operator's book
  timers,   \* slots with a timer in timersRef
  strays,   \* slots with a pending timer that timersRef has forgotten
  loop,     \* the slot that sendAll awaits, 0 for none, and how far it is
  retries,  \* how far the retry of each slot is
  stale,    \* slots on whose clock a day has passed since createdAt of the batch
  packets,  \* the copies of the packet for each slot, by their origin
  acks,     \* the acknowledgements of each slot, on their way to the operator
  acking,   \* slots whose watcher awaits sendAck
  ears,     \* the watcher of each party: off, deaf (no ack handler), on
  got       \* history: slots whose watcher dispatched the packet

commvars == <<slots, open, peers, timers, strays, loop, retries, stale,
              packets, acks, acking, ears, got>>

Slot == 1 .. N
Operator == 0
Party == Slot \union {Operator}

\* What is on the chain for one recipient, and what its watcher does with it; while
\* there is none all of it is fresh.
Mail == [onChain : BOOLEAN, fresh : BOOLEAN, opening : BOOLEAN]
NoMail == [onChain |-> FALSE, fresh |-> FALSE, opening |-> FALSE]
PostedOnce(mail) == [mail EXCEPT !.onChain = TRUE, !.fresh = ~mail.onChain]
Posted(mail) == [mail EXCEPT !.onChain = TRUE, !.fresh = TRUE]

\* The packet of the panel expires a day after the panel was drawn, that of a
\* retry a day after the batch was created, which is never later.
Origin == {"panel", "retry"}

Stage == {"idle", "sending", "accepted"}

CommTypeOK ==
  /\ slots \in [Slot -> [state : {"none", "sending", "sent", "acked", "error"},
                         dismissed : BOOLEAN]]
  /\ open \in BOOLEAN /\ stale \subseteq Slot
  /\ peers \subseteq Slot /\ timers \subseteq Slot /\ strays \subseteq Slot
  /\ loop \in [slot : Slot \union {0}, stage : Stage]
  /\ loop.slot = 0 <=> loop.stage = "idle"
  /\ retries \in [Slot -> Stage]
  /\ packets \in [Slot -> [Origin -> Mail]] /\ acks \in [Slot -> Mail]
  /\ acking \subseteq Slot /\ got \subseteq Slot
  /\ ears \in [Party -> {"off", "deaf", "on"}]

CommInit ==
  /\ slots = [s \in Slot |-> [state |-> "none", dismissed |-> FALSE]]
  /\ open = TRUE /\ stale = {}
  /\ peers \in SUBSET Slot
  /\ timers = {} /\ strays = {} /\ acking = {} /\ got = {}
  /\ loop = [slot |-> 0, stage |-> "idle"]
  /\ retries = [s \in Slot |-> "idle"]
  /\ packets = [s \in Slot |-> [o \in Origin |-> NoMail]]
  /\ acks = [s \in Slot |-> NoMail]
  /\ ears = [p \in Party |-> "off"]

-----------------------------------------------------------------------------
(* The store and the retry schedule                                        *)

Eligible(all, s, isOpen) ==
  all[s].state = "sent" /\ ~all[s].dismissed /\ isOpen

\* scheduleAll, which runs on every change of the store.  batch.expiresAt is
\* never set by the code, so its condition does not occur.
ScheduleAll(all, isOpen) == timers' = {s \in Slot : Eligible(all, s, isOpen)}

\* recordCommSendStatus keeps the other fields of the slot.
Recorded(all, s, state) == [all EXCEPT ![s].state = state]

Store(all) == slots' = all /\ ScheduleAll(all, open)

\* "Retry now" and the dismiss button are there for sent and failed rows.
retryNow(s) ==
  /\ slots[s].state \in {"sent", "error"}
  /\ Store([slots EXCEPT ![s].dismissed = FALSE])
  /\ UNCHANGED <<open, peers, strays, loop, retries, stale, packets, acks, acking, ears, got>>

dismissRetry(s) ==
  /\ slots[s].state \in {"sent", "error"}
  /\ Store([slots EXCEPT ![s].dismissed = TRUE])
  /\ UNCHANGED <<open, peers, strays, loop, retries, stale, packets, acks, acking, ears, got>>

\* The batch enters or leaves a terminal state, or the store changes otherwise.
BatchMoves(isOpen) ==
  /\ open' = isOpen
  /\ ScheduleAll(slots, isOpen)
  /\ UNCHANGED <<slots, peers, strays, loop, retries, stale, packets, acks, acking, ears, got>>

\* addPeer, removePeer, setAssociatedSignerHash.
MapPeer(s) ==
  /\ peers' = IF s \in peers THEN peers \ {s} ELSE peers \union {s}
  /\ UNCHANGED <<slots, open, timers, strays, loop, retries, stale, packets, acks, acking, ears, got>>

\* createdAt + 24 h passes: from here on every retry leaves already expired.  A
\* copy that has expired is dropped by its reader without a trace, so the model
\* keeps those still good and those being decrypted.
Expire(s) ==
  /\ s \notin stale
  /\ stale' = stale \union {s}
  /\ packets' = [packets EXCEPT ![s]["retry"] = [@ EXCEPT !.onChain = FALSE, !.fresh = FALSE]]
  /\ UNCHANGED <<slots, open, peers, timers, strays, loop, retries, acks, acking, ears, got>>

\* Some or all of the copies that the panel sent expire: never before the retries.
Lapse(s, left) ==
  /\ s \in stale
  /\ LET mail == packets[s]["panel"]
     IN  /\ left # mail
         /\ left.onChain => mail.onChain
         /\ left.fresh => left.onChain /\ mail.fresh
         /\ left.opening => left.onChain /\ mail.opening
         /\ ears[s] = "off" => left.fresh = left.onChain
  /\ packets' = [packets EXCEPT ![s]["panel"] = left]
  /\ UNCHANGED <<slots, open, peers, timers, strays, loop, retries, stale, acks, acking, ears, got>>

-----------------------------------------------------------------------------
(* sendAll: one slot after the other                                       *)

\* sendAll returns.
EndedUnreset == [loop EXCEPT !.slot = 0]
Ended == [slot |-> 0, stage |-> "idle"]

\* sendAll after slot s: slots without a peer fail at once, the next one with
\* a peer is being sent to.
Advance(all, s) ==
  LET rest == {t \in peers : t > s}
      next == CHOOSE t \in rest : \A u \in rest : t <= u
      skipped == {t \in Slot : t > s /\ (rest = {} \/ t < next)}
      failed == [t \in Slot |-> IF t \in skipped THEN [all[t] EXCEPT !.state = "error"] ELSE all[t]]
  IN  IF rest = {} THEN /\ Store(failed)
                        /\ loop' = Ended
                   ELSE /\ Store(Recorded(failed, next, "sending"))
                        /\ loop' = [slot |-> next, stage |-> "sending"]

SendAll ==
  /\ loop.slot = 0
  /\ peers # {}
  /\ Advance(slots, 0)
  /\ UNCHANGED <<open, peers, strays, retries, stale, packets, acks, acking, ears, got>>

\* The network accepts the message cell of the packet.
LoopAccepted ==
  /\ loop.stage = "sending"
  /\ loop' = [loop EXCEPT !.stage = "accepted"]
  /\ packets' = [packets EXCEPT ![loop.slot]["panel"] = Posted(@)]
  /\ UNCHANGED <<slots, open, peers, timers, strays, retries, stale, acks, acking, ears, got>>

\* sendOne settles: it was accepted, or anything failed, its reply included.
LoopSettles(state) ==
  /\ loop.stage # "idle"
  /\ state = "sent" => loop.stage = "accepted"
  /\ Advance(Recorded(slots, loop.slot, state), loop.slot)
  /\ UNCHANGED <<open, peers, strays, retries, stale, packets, acks, acking, ears, got>>

-----------------------------------------------------------------------------
(* useCommSendRetry                                                        *)

\* A timer of slot s fires; left says whether another stray one stays.
TimerFires(s, left) ==
  /\ s \in timers \union strays
  /\ left => s \in strays

\* fireRetry with a peer.  Its synchronous part records the slot as sent, and
\* the schedule that follows sets a timer under the key; the callback then
\* deletes the key, and with it the handle of that new timer.
FireForgetting(s, left) ==
  /\ TimerFires(s, left) /\ s \in peers /\ retries[s] = "idle"
  /\ slots' = Recorded(slots, s, "sent")
  /\ timers' = {t \in Slot : Eligible(slots, t, open)} \ {s}
  /\ strays' = IF left THEN strays ELSE strays \ {s}
  /\ retries' = [retries EXCEPT ![s] = "sending"]
  /\ UNCHANGED <<open, peers, loop, stale, packets, acks, acking, ears, got>>

FireRetry(s, left) ==
  /\ TimerFires(s, left) /\ s \in peers /\ retries[s] = "idle"
  /\ LET all == Recorded(slots, s, "sent")
     IN  /\ slots' = all
         /\ timers' = {t \in Slot : Eligible(all, t, open)} \ {s}
         /\ strays' = IF left \/ Eligible(all, s, open) THEN strays \union {s} ELSE strays \ {s}
  /\ retries' = [retries EXCEPT ![s] = "sending"]
  /\ UNCHANGED <<open, peers, loop, stale, packets, acks, acking, ears, got>>

\* No peer any more, or no transport.
FireFails(s, left) ==
  /\ TimerFires(s, left)
  /\ Store(Recorded(slots, s, "error"))
  /\ strays' = IF left THEN strays ELSE strays \ {s}
  /\ UNCHANGED <<open, peers, loop, retries, stale, packets, acks, acking, ears, got>>

RetryAccepted(s) ==
  /\ retries[s] = "sending"
  /\ retries' = [retries EXCEPT ![s] = "accepted"]
  /\ packets' = IF s \in stale THEN packets ELSE [packets EXCEPT ![s]["retry"] = Posted(@)]
  /\ UNCHANGED <<slots, open, peers, timers, strays, loop, stale, acks, acking, ears, got>>

RetrySettles(s, state) ==
  /\ retries[s] # "idle"
  /\ state = "sent" => retries[s] = "accepted"
  /\ Store(Recorded(slots, s, state))
  /\ retries' = [retries EXCEPT ![s] = "idle"]
  /\ UNCHANGED <<open, peers, strays, loop, stale, packets, acks, acking, ears, got>>

-----------------------------------------------------------------------------
(* The watchers                                                            *)

\* What a watcher has processed is forgotten with it: the next one reads all.
Unread(mail) == [mail EXCEPT !.fresh = mail.onChain, !.opening = FALSE]

\* start: the watcher exists and polls; handlers come later.  Those of a signer
\* are in SignDesk.
Start(p) ==
  /\ ears[p] = "off"
  /\ ears' = [ears EXCEPT ![p] = "deaf"]
  /\ UNCHANGED <<slots, open, peers, timers, strays, loop, retries, stale, packets, acks, acking, got>>

\* onIncomingAck: refused while there is no watcher.
Attach ==
  /\ ears[Operator] = "deaf"
  /\ ears' = [ears EXCEPT ![Operator] = "on"]
  /\ UNCHANGED <<slots, open, peers, timers, strays, loop, retries, stale, packets, acks, acking, got>>

\* poll: a cell is marked processed before it is decrypted.
Taken(mail) == [mail EXCEPT !.fresh = FALSE, !.opening = TRUE]

PollPackets(s, origin) ==
  /\ ears[s] # "off" /\ packets[s][origin].fresh
  /\ packets' = [packets EXCEPT ![s][origin] = Taken(@)]
  /\ UNCHANGED <<slots, open, peers, timers, strays, loop, retries, stale, acks, acking, ears, got>>

PollAcks(s) ==
  /\ ears[Operator] # "off" /\ acks[s].fresh
  /\ acks' = [acks EXCEPT ![s] = Taken(@)]
  /\ UNCHANGED <<slots, open, peers, timers, strays, loop, retries, stale, packets, acking, ears, got>>

\* Anything that goes wrong with a cell drops it silently.
DecryptFails(s) ==
  /\ \/ /\ \E o \in Origin : /\ packets[s][o].opening
                             /\ packets' = [packets EXCEPT ![s][o].opening = FALSE]
        /\ UNCHANGED acks
     \/ /\ acks[s].opening
        /\ acks' = [acks EXCEPT ![s].opening = FALSE]
        /\ UNCHANGED packets
  /\ UNCHANGED <<slots, open, peers, timers, strays, loop, retries, stale, acking, ears, got>>

\* dispatch of a packet: an expired one is dropped without an answer, any
\* other is answered whether or not a handler took it.
Expired(s, origin) == origin = "retry" /\ s \in stale

DispatchAnsweringAll(s, origin) ==
  /\ packets[s][origin].opening
  /\ packets' = [packets EXCEPT ![s][origin].opening = FALSE]
  /\ acking' = acking \union {s}
  /\ got' = IF Expired(s, origin) THEN got ELSE got \union {s}
  /\ UNCHANGED <<slots, open, peers, timers, strays, loop, retries, stale, acks, ears>>

DispatchPacket(s, origin) ==
  /\ packets[s][origin].opening
  /\ packets' = [packets EXCEPT ![s][origin].opening = FALSE]
  /\ acking' = IF Expired(s, origin) THEN acking ELSE acking \union {s}
  /\ got' = IF Expired(s, origin) THEN got ELSE got \union {s}
  /\ UNCHANGED <<slots, open, peers, timers, strays, loop, retries, stale, acks, ears>>

\* dispatch of an acknowledgement; the handler finds the slot by the peer.
DispatchAck(s) ==
  /\ acks[s].opening
  /\ acks' = [acks EXCEPT ![s].opening = FALSE]
  /\ IF ears[Operator] = "on" /\ s \in peers
     THEN Store(Recorded(slots, s, "acked"))
     ELSE UNCHANGED <<slots, timers>>
  /\ UNCHANGED <<open, peers, strays, loop, retries, stale, packets, acking, ears, got>>

SendAck(s) ==
  /\ s \in acking
  /\ acking' = acking \ {s}
  /\ acks' = [acks EXCEPT ![s] = Posted(@)]
  /\ UNCHANGED <<slots, open, peers, timers, strays, loop, retries, stale, packets, ears, got>>

\* The sender is a stranger to the signer, or the acknowledgement fails.
AckFails(s) ==
  /\ s \in acking
  /\ acking' = acking \ {s}
  /\ UNCHANGED <<slots, open, peers, timers, strays, loop, retries, stale, packets, acks, ears, got>>

\* A signer's app stops; the chain and the operator go on.
SignerStops(s) ==
  /\ ears[s] # "off"
  /\ ears' = [ears EXCEPT ![s] = "off"]
  /\ packets' = [packets EXCEPT ![s] = [o \in Origin |-> Unread(@[o])]]
  /\ acking' = acking \ {s}
  /\ UNCHANGED <<slots, open, peers, timers, strays, loop, retries, stale, acks, got>>

\* The operator's app starts again: the schedule is made anew from the store.
OperatorRestarts ==
  /\ ears' = [ears EXCEPT ![Operator] = "off"]
  /\ acks' = [s \in Slot |-> Unread(acks[s])]
  /\ loop' = [slot |-> 0, stage |-> "idle"]
  /\ retries' = [s \in Slot |-> "idle"]
  /\ strays' = {}
  /\ ScheduleAll(slots, open)
  /\ UNCHANGED <<slots, open, peers, stale, packets, acking, got>>

-----------------------------------------------------------------------------
CommNext ==
  \/ \E s \in Slot :
       \/ retryNow(s) \/ dismissRetry(s) \/ MapPeer(s)
       \/ \E left \in BOOLEAN : FireRetry(s, left) \/ FireFails(s, left)
       \/ RetryAccepted(s) \/ \E state \in {"sent", "error"} : RetrySettles(s, state)
       \/ Expire(s) \/ \E left \in Mail : Lapse(s, left)
       \/ \E origin \in Origin : PollPackets(s, origin) \/ DispatchPacket(s, origin)
       \/ PollAcks(s) \/ DecryptFails(s) \/ DispatchAck(s) \/ SendAck(s) \/ AckFails(s)
       \/ SignerStops(s)
  \/ \E isOpen \in BOOLEAN : BatchMoves(isOpen)
  \/ SendAll \/ LoopAccepted \/ \E state \in {"sent", "error"} : LoopSettles(state)
  \/ \E p \in Party : Start(p)
  \/ Attach
  \/ OperatorRestarts

\* Timers fire and intervals poll.  Of the world: a retry settles (one that
\* hangs would keep the next one waiting in this model, though not in the
\* code), a packet broadcast again and again is accepted, and a signer is
\* there again and again and does not fail to decrypt for ever.  Nothing is
\* assumed of what the panel dispatches.
CommFairness ==
  \A s \in Slot :
    /\ WF_<<slots, timers, strays, retries>>(\E left \in BOOLEAN : FireRetry(s, left) \/ FireFails(s, left))
    /\ WF_retries(\E state \in {"sent", "error"} : RetrySettles(s, state))
    /\ SF_retries(RetryAccepted(s))
    /\ WF_ears(Start(s))
    /\ SF_packets(PollPackets(s, "retry"))
    /\ SF_packets(DispatchPacket(s, "retry"))

CommSpec == CommInit /\ [][CommNext]_commvars /\ CommFairness

-----------------------------------------------------------------------------
(* Properties                                                              *)

\* A slot shown as acknowledged belongs to a signer whose app had the packet
\* before it expired, whatever was lost, repeated or restarted in between
\* (the acknowledgement is the only thing that says so).
AckedWasDelivered ==
  \A s \in Slot : slots[s].state = "acked" \/ acks[s].onChain \/ s \in acking => s \in got

\* A packet recorded as sent is not forgotten: some timer will send it again
\* unless the operator dismissed it or the batch is over, although the
\* schedule loses the handles of its timers (scheduleAll, fireRetry).
SentIsScheduled ==
  \A s \in Slot : Eligible(slots, s, open) => s \in timers \union strays

\* A packet that was lost on its way is sent again until the signer's app has
\* it, or the retries end: an error, a dismissal, the end of the batch, or a
\* day after the batch was created, from when on the watcher drops every retry
\* although the packet of the panel may be good for longer (packetForBatch).
SentGetsThrough ==
  \A s \in Slot :
    slots[s].state = "sent" ~>
      \/ s \in got \/ s \in stale \/ ~open
      \/ slots[s].state # "sent" \/ slots[s].dismissed

=============================================================================
