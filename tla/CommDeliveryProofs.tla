-------------------------- MODULE CommDeliveryProofs --------------------------
(***************************************************************************)
(* Theorems about the delivery of one batch's packet, for any number of    *)
(* slots.  Safety only: that a packet gets through is under fairness and   *)
(* is left to TLC.                                                         *)
(***************************************************************************)
EXTENDS CommDelivery, NaturalsInduction, WellFoundedInduction, TLAPS

-----------------------------------------------------------------------------
(***************************************************************************)
(* The inductive invariant.  An acknowledgement that is read or decrypted  *)
(* is one that is on the chain; with that, a slot becomes acked only from  *)
(* an acknowledgement that a signer who had the packet sent.               *)
(***************************************************************************)
AcksAreOnChain == \A s \in Slot : acks[s].fresh \/ acks[s].opening => acks[s].onChain

CommInvariant == CommTypeOK /\ AcksAreOnChain /\ AckedWasDelivered /\ SentIsScheduled

-----------------------------------------------------------------------------
(* What the operators of the model return                                  *)

SlotStatus == [state : {"none", "sending", "sent", "acked", "error"}, dismissed : BOOLEAN]

LEMMA SlotsAreNumbers == Slot \subseteq Nat \ {0} /\ Operator \notin Slot /\ Party = Slot \union {0}
BY SlotsAssumption DEF Slot, Operator, Party

LEMMA MailOps ==
  ASSUME NEW mail \in Mail
  PROVE  /\ Posted(mail) \in Mail /\ Posted(mail).onChain
         /\ Unread(mail) \in Mail /\ Unread(mail).onChain = mail.onChain
         /\ Unread(mail).fresh = mail.onChain /\ Unread(mail).opening = FALSE
         /\ Taken(mail) \in Mail /\ Taken(mail).onChain = mail.onChain
         /\ [mail EXCEPT !.onChain = FALSE, !.fresh = FALSE] \in Mail
         /\ [mail EXCEPT !.opening = FALSE] \in Mail
         /\ [mail EXCEPT !.opening = FALSE].onChain = mail.onChain
         /\ [mail EXCEPT !.opening = FALSE].fresh = mail.fresh
         /\ [mail EXCEPT !.opening = FALSE].opening = FALSE
BY DEF Mail, Posted, Unread, Taken

LEMMA RecordedIs ==
  ASSUME NEW all \in [Slot -> SlotStatus], NEW s \in Slot,
         NEW state \in {"none", "sending", "sent", "acked", "error"}
  PROVE  /\ Recorded(all, s, state) \in [Slot -> SlotStatus]
         /\ Recorded(all, s, state)[s].state = state
         /\ \A t \in Slot \ {s} : Recorded(all, s, state)[t] = all[t]
         /\ state # "acked" => \A t \in Slot :
              Recorded(all, s, state)[t].state = "acked" => all[t].state = "acked"
<1>1. /\ Recorded(all, s, state) \in [Slot -> SlotStatus]
      /\ Recorded(all, s, state)[s].state = state
      /\ \A t \in Slot \ {s} : Recorded(all, s, state)[t] = all[t]
  BY DEF Recorded, SlotStatus
<1> QED BY <1>1

\* The mail of one slot changes.
LEMMA MailChanges ==
  ASSUME NEW boxes \in [Slot -> Mail], NEW s \in Slot, NEW mail \in Mail
  PROVE  /\ [boxes EXCEPT ![s] = mail] \in [Slot -> Mail]
         /\ [boxes EXCEPT ![s] = mail][s] = mail
         /\ \A t \in Slot \ {s} : [boxes EXCEPT ![s] = mail][t] = boxes[t]
OBVIOUS

\* The copies of one origin for one slot change.
LEMMA CopiesChange ==
  ASSUME packets \in [Slot -> [Origin -> Mail]], NEW s \in Slot, NEW o \in Origin, NEW mail \in Mail
  PROVE  [packets EXCEPT ![s][o] = mail] \in [Slot -> [Origin -> Mail]]
OBVIOUS

\* A step that changes only the packets, and what the signers did with them.
LEMMA PacketsKeep ==
  ASSUME CommTypeOK, AcksAreOnChain, AckedWasDelivered, SentIsScheduled,
         packets' \in [Slot -> [Origin -> Mail]], loop' \in [slot : Slot \union {0}, stage : Stage],
         loop'.slot = 0 <=> loop'.stage = "idle", retries' \in [Slot -> Stage], stale' \subseteq Slot,
         got \subseteq got', got' \subseteq Slot, acking' \subseteq acking \union got', acking' \subseteq Slot,
         UNCHANGED <<slots, open, peers, timers, strays, acks, ears>>
  PROVE  CommInvariant'
BY DEF CommInvariant, CommTypeOK, AcksAreOnChain, AckedWasDelivered, SentIsScheduled

\* Every nonempty set of slots has a least one: the next peer of sendAll exists.
LEMMA LeastSlot ==
  ASSUME NEW T, T \subseteq Slot, T # {}
  PROVE  \E x \in T : \A y \in T : x <= y
<1>1. T \subseteq Nat
  BY SlotsAreNumbers
<1>2. PICK x \in T : \A y \in T : ~(<<y, x>> \in OpToRel(<, Nat))
  BY <1>1, Zenon, WFMin, NatLessThanWellFounded
<1>3. \A y \in T : ~(y < x)
  BY <1>1, <1>2, Zenon DEF OpToRel
<1> QED BY <1>1, <1>3

\* sendAll marks slots as failed or as being sent to, never as sent or
\* acknowledged, and its loop is at a slot exactly while it is not idle.
LEMMA AdvanceIs ==
  ASSUME NEW all \in [Slot -> SlotStatus], NEW s \in Slot \union {0}, peers \subseteq Slot,
         Advance(all, s)
  PROVE  /\ slots' \in [Slot -> SlotStatus]
         /\ \A t \in Slot : slots'[t].state = "acked" => all[t].state = "acked"
         /\ ScheduleAll(slots', open)
         /\ loop' \in [slot : Slot \union {0}, stage : Stage]
         /\ loop'.slot = 0 <=> loop'.stage = "idle"
<1> DEFINE rest == {t \in peers : t > s}
           next == CHOOSE t \in rest : \A u \in rest : t <= u
           skipped == {t \in Slot : t > s /\ (rest = {} \/ t < next)}
           failed == [t \in Slot |-> IF t \in skipped THEN [all[t] EXCEPT !.state = "error"] ELSE all[t]]
<1>1. failed \in [Slot -> SlotStatus] /\ \A t \in Slot : failed[t].state = "acked" => all[t].state = "acked"
  <2> HIDE DEF skipped
  <2>1. \A t \in Slot : [all[t] EXCEPT !.state = "error"] \in SlotStatus
    BY DEF SlotStatus
  <2>2. \A t \in Slot : [all[t] EXCEPT !.state = "error"].state = "error"
    BY DEF SlotStatus
  <2> QED BY <2>1, <2>2
<1>2. CASE rest = {}
  <2>1. Store(failed) /\ loop' = Ended
    BY <1>2 DEF Advance
  <2> HIDE DEF failed
  <2> QED BY <1>1, <2>1 DEF Store, Ended, Stage
<1>3. CASE rest # {}
  <2>1. Store(Recorded(failed, next, "sending")) /\ loop' = [slot |-> next, stage |-> "sending"]
    BY <1>3 DEF Advance
  <2>2. rest \subseteq Slot
    OBVIOUS
  <2>3. next \in Slot
    <3> HIDE DEF rest
    <3>1. \E t \in rest : \A u \in rest : t <= u
      BY <1>3, <2>2, LeastSlot
    <3> QED BY <2>2, <3>1
  <2> HIDE DEF next, failed
  <2>4. /\ Recorded(failed, next, "sending") \in [Slot -> SlotStatus]
        /\ \A t \in Slot : Recorded(failed, next, "sending")[t].state = "acked" => failed[t].state = "acked"
    BY <1>1, <2>3, RecordedIs
  <2> QED BY <1>1, <2>1, <2>3, <2>4, SlotsAreNumbers DEF Store, Stage
<1> QED BY <1>2, <1>3

-----------------------------------------------------------------------------
(* The steps                                                               *)

LEMMA CommInitInvariant ==
  ASSUME CommInit
  PROVE  CommInvariant
BY SlotsAreNumbers
   DEF CommInit, CommInvariant, CommTypeOK, AcksAreOnChain, AckedWasDelivered, SentIsScheduled,
       Eligible, Mail, NoMail, Stage

\* What scheduleAll sets keeps every eligible slot on some timer.
LEMMA ScheduleKeeps ==
  ASSUME NEW all, slots' = all, open' \in BOOLEAN, ScheduleAll(all, open')
  PROVE  SentIsScheduled' /\ timers' \subseteq Slot
BY DEF ScheduleAll, SentIsScheduled, Eligible

\* The store, the schedule and the loop: steps that touch no mail.
LEMMA StoreKeeps ==
  ASSUME CommInvariant, slots' \in [Slot -> SlotStatus],
         \A t \in Slot : slots'[t].state = "acked" => slots[t].state = "acked",
         ScheduleAll(slots', open), UNCHANGED <<open, acks, acking, got>>
  PROVE  AcksAreOnChain' /\ AckedWasDelivered' /\ SentIsScheduled' /\ timers' \subseteq Slot
<1>1. SentIsScheduled' /\ timers' \subseteq Slot
  BY ScheduleKeeps DEF CommInvariant, CommTypeOK
<1>2. AcksAreOnChain'
  BY DEF CommInvariant, AcksAreOnChain
<1>3. AckedWasDelivered'
  BY DEF CommInvariant, AckedWasDelivered
<1> QED BY <1>1, <1>2, <1>3

LEMMA CommStepInvariant ==
  ASSUME CommInvariant, [CommNext]_commvars
  PROVE  CommInvariant'
<1> USE SlotsAreNumbers
<1>t. /\ slots \in [Slot -> SlotStatus] /\ open \in BOOLEAN /\ stale \subseteq Slot
      /\ peers \subseteq Slot /\ timers \subseteq Slot /\ strays \subseteq Slot
      /\ loop \in [slot : Slot \union {0}, stage : Stage]
      /\ loop.slot = 0 <=> loop.stage = "idle"
      /\ retries \in [Slot -> Stage]
      /\ packets \in [Slot -> [Origin -> Mail]] /\ acks \in [Slot -> Mail]
      /\ acking \subseteq Slot /\ got \subseteq Slot
      /\ ears \in [Party -> {"off", "deaf", "on"}]
  BY DEF CommInvariant, CommTypeOK, SlotStatus
<1>i. AcksAreOnChain /\ AckedWasDelivered /\ SentIsScheduled
  BY DEF CommInvariant
<1>y. CommTypeOK
  BY DEF CommInvariant
<1>m. ASSUME NEW s \in Slot, NEW o \in Origin
      PROVE  /\ Posted(packets[s][o]) \in Mail /\ Taken(packets[s][o]) \in Mail
             /\ Unread(packets[s][o]) \in Mail
             /\ [packets[s][o] EXCEPT !.opening = FALSE] \in Mail
             /\ [packets[s][o] EXCEPT !.onChain = FALSE, !.fresh = FALSE] \in Mail
  <2>1. packets[s][o] \in Mail
    BY <1>t
  <2> QED BY <2>1, MailOps
<1>1. ASSUME NEW s \in Slot, retryNow(s) \/ dismissRetry(s)
      PROVE  CommInvariant'
  <2>1. PICK d \in BOOLEAN : Store([slots EXCEPT ![s].dismissed = d])
    BY <1>1 DEF retryNow, dismissRetry
  <2>2. UNCHANGED <<open, peers, strays, loop, retries, stale, packets, acks, acking, ears, got>>
    BY <1>1 DEF retryNow, dismissRetry
  <2>3. slots' = [slots EXCEPT ![s].dismissed = d] /\ ScheduleAll(slots', open)
    BY <2>1 DEF Store
  <2>4. slots' \in [Slot -> SlotStatus] /\ \A t \in Slot : slots'[t].state = slots[t].state
    BY <1>t, <2>3 DEF SlotStatus
  <2> QED BY <1>t, <2>2, <2>3, <2>4, StoreKeeps DEF CommInvariant, CommTypeOK, SlotStatus
<1>2. ASSUME NEW s \in Slot, MapPeer(s)
      PROVE  CommInvariant'
  BY <1>2, <1>t, <1>i
     DEF MapPeer, CommInvariant, CommTypeOK, SlotStatus, AcksAreOnChain, AckedWasDelivered, SentIsScheduled
<1>3. ASSUME NEW s \in Slot, NEW left \in BOOLEAN, FireRetry(s, left)
      PROVE  CommInvariant'
  <2> DEFINE all == Recorded(slots, s, "sent")
  <2>1. /\ slots' = all /\ timers' = {t \in Slot : Eligible(all, t, open)} \ {s}
        /\ strays' = IF left \/ Eligible(all, s, open) THEN strays \union {s} ELSE strays \ {s}
        /\ retries' = [retries EXCEPT ![s] = "sending"]
        /\ UNCHANGED <<open, peers, loop, stale, packets, acks, acking, ears, got>>
    BY <1>3 DEF FireRetry
  <2>2. /\ all \in [Slot -> SlotStatus] /\ all[s].state = "sent"
        /\ \A t \in Slot \ {s} : all[t] = slots[t]
    BY <1>t, RecordedIs
  <2> HIDE DEF all
  <2>3. SentIsScheduled'
    <3>1. \A t \in Slot : Eligible(slots, t, open)' => Eligible(all, t, open)
      BY <2>1 DEF Eligible
    <3>2. \A t \in Slot : Eligible(all, t, open) => t \in timers' \/ t \in strays'
      BY <2>1
    <3> QED BY <3>1, <3>2 DEF SentIsScheduled
  <2>4. AckedWasDelivered' /\ AcksAreOnChain'
    BY <1>i, <2>1, <2>2 DEF AckedWasDelivered, AcksAreOnChain
  <2>5. retries' \in [Slot -> Stage]
    BY <1>t, <2>1 DEF Stage
  <2> QED BY <1>t, <2>1, <2>2, <2>3, <2>4, <2>5 DEF CommInvariant, CommTypeOK, SlotStatus
<1>4. ASSUME NEW s \in Slot, NEW left \in BOOLEAN, FireFails(s, left)
      PROVE  CommInvariant'
  <2>1. slots' = Recorded(slots, s, "error") /\ ScheduleAll(slots', open)
    BY <1>4 DEF FireFails, Store
  <2>2. /\ slots' \in [Slot -> SlotStatus]
        /\ \A t \in Slot : slots'[t].state = "acked" => slots[t].state = "acked"
    BY <1>t, <2>1, RecordedIs
  <2>3. strays' \subseteq Slot
    BY <1>t, <1>4 DEF FireFails
  <2>4. UNCHANGED <<open, peers, loop, retries, stale, packets, acks, acking, ears, got>>
    BY <1>4 DEF FireFails
  <2> QED BY <1>t, <2>1, <2>2, <2>3, <2>4, StoreKeeps DEF CommInvariant, CommTypeOK, SlotStatus
<1>5. ASSUME NEW s \in Slot, RetryAccepted(s)
      PROVE  CommInvariant'
  <2>1. packets[s]["retry"] \in Mail /\ "retry" \in Origin
    BY <1>t DEF Origin
  <2>2. packets' = packets \/ packets' = [packets EXCEPT ![s]["retry"] = Posted(packets[s]["retry"])]
    BY <1>5, <1>t DEF RetryAccepted
  <2>3. packets' \in [Slot -> [Origin -> Mail]]
    <3>1. CASE packets' = packets
      BY <1>t, <3>1
    <3>2. CASE packets' = [packets EXCEPT ![s]["retry"] = Posted(packets[s]["retry"])]
      <4>1. Posted(packets[s]["retry"]) \in Mail
        BY <1>m, <2>1
      <4> QED BY <1>t, <2>1, <3>2, <4>1, CopiesChange
    <3> QED BY <2>2, <3>1, <3>2
  <2>4. retries' \in [Slot -> Stage]
    BY <1>5, <1>t DEF RetryAccepted, Stage
  <2> QED BY <1>5, <1>t, <1>i, <1>y, <2>3, <2>4, PacketsKeep DEF RetryAccepted
<1>6. ASSUME NEW s \in Slot, NEW state \in {"sent", "error"}, RetrySettles(s, state)
      PROVE  CommInvariant'
  <2>1. slots' = Recorded(slots, s, state) /\ ScheduleAll(slots', open)
    BY <1>6 DEF RetrySettles, Store
  <2>2. /\ slots' \in [Slot -> SlotStatus]
        /\ \A t \in Slot : slots'[t].state = "acked" => slots[t].state = "acked"
    <3>1. state \in {"none", "sending", "sent", "acked", "error"} /\ state # "acked"
      OBVIOUS
    <3> QED BY <1>t, <2>1, <3>1, RecordedIs
  <2>3. retries' \in [Slot -> Stage]
    BY <1>t, <1>6 DEF RetrySettles, Stage
  <2>4. UNCHANGED <<open, peers, strays, loop, stale, packets, acks, acking, ears, got>>
    BY <1>6 DEF RetrySettles
  <2> QED BY <1>t, <2>1, <2>2, <2>3, <2>4, StoreKeeps DEF CommInvariant, CommTypeOK, SlotStatus
<1>7. ASSUME NEW s \in Slot, NEW origin \in Origin, PollPackets(s, origin)
      PROVE  CommInvariant'
  <2>1. packets' = [packets EXCEPT ![s][origin] = Taken(packets[s][origin])]
    BY <1>7, <1>t DEF PollPackets
  <2>2. packets' \in [Slot -> [Origin -> Mail]]
    BY <1>t, <1>m, <2>1, CopiesChange
  <2> QED BY <1>7, <1>t, <1>i, <1>y, <2>2, PacketsKeep DEF PollPackets
<1>8. ASSUME NEW s \in Slot, PollAcks(s)
      PROVE  CommInvariant'
  <2>1. /\ acks' \in [Slot -> Mail] /\ acks[s].onChain
        /\ \A t \in Slot : acks'[t].onChain = acks[t].onChain
        /\ \A t \in Slot \ {s} : acks'[t] = acks[t]
    <3>1. acks[s] \in Mail /\ acks' = [acks EXCEPT ![s] = Taken(acks[s])] /\ acks[s].fresh
      BY <1>8, <1>t DEF PollAcks
    <3>2. Taken(acks[s]) \in Mail /\ Taken(acks[s]).onChain = acks[s].onChain
      BY <3>1, MailOps
    <3>3. /\ acks' \in [Slot -> Mail] /\ acks'[s] = Taken(acks[s])
          /\ \A t \in Slot \ {s} : acks'[t] = acks[t]
      BY <1>t, <3>1, <3>2, MailChanges
    <3> QED BY <1>i, <3>1, <3>2, <3>3 DEF AcksAreOnChain
  <2>2. AcksAreOnChain'
    BY <1>i, <2>1 DEF AcksAreOnChain
  <2> QED BY <1>8, <1>t, <1>i, <2>1, <2>2
          DEF PollAcks, CommInvariant, CommTypeOK, SlotStatus, AckedWasDelivered, SentIsScheduled
<1>9. ASSUME NEW s \in Slot, DecryptFails(s)
      PROVE  CommInvariant'
  <2>1. /\ packets' \in [Slot -> [Origin -> Mail]] /\ acks' \in [Slot -> Mail]
        /\ \A t \in Slot : acks'[t].onChain = acks[t].onChain
        /\ \A t \in Slot : acks'[t].fresh = acks[t].fresh
        /\ \A t \in Slot : acks'[t].opening => acks[t].opening
    <3>1. acks[s] \in Mail
      BY <1>t
    <3>2. acks' = acks \/ acks' = [acks EXCEPT ![s] = [acks[s] EXCEPT !.opening = FALSE]]
      BY <1>9, <1>t DEF DecryptFails
    <3>3. /\ [acks[s] EXCEPT !.opening = FALSE] \in Mail
          /\ [acks[s] EXCEPT !.opening = FALSE].onChain = acks[s].onChain
          /\ [acks[s] EXCEPT !.opening = FALSE].fresh = acks[s].fresh
          /\ [acks[s] EXCEPT !.opening = FALSE].opening = FALSE
      BY <3>1, MailOps DEF Mail
    <3>4. packets' \in [Slot -> [Origin -> Mail]]
      <4>1. CASE packets' = packets
        BY <1>t, <4>1
      <4>2. CASE \E o \in Origin : packets' = [packets EXCEPT ![s][o].opening = FALSE]
        <5>1. PICK o \in Origin : packets' = [packets EXCEPT ![s][o].opening = FALSE]
          BY <4>2
        <5>2. packets' = [packets EXCEPT ![s][o] = [packets[s][o] EXCEPT !.opening = FALSE]]
          BY <1>t, <5>1
        <5> QED BY <1>t, <1>m, <5>2, CopiesChange
      <4> QED BY <1>9, <4>1, <4>2 DEF DecryptFails
    <3>5. CASE acks' = acks
      BY <1>t, <3>4, <3>5
    <3>6. CASE acks' = [acks EXCEPT ![s] = [acks[s] EXCEPT !.opening = FALSE]]
      <4>1. /\ acks' \in [Slot -> Mail] /\ acks'[s] = [acks[s] EXCEPT !.opening = FALSE]
            /\ \A t \in Slot \ {s} : acks'[t] = acks[t]
        BY <1>t, <3>3, <3>6, MailChanges
      <4> QED BY <3>3, <3>4, <4>1
    <3> QED BY <3>2, <3>5, <3>6
  <2>2. AcksAreOnChain'
    BY <1>i, <2>1 DEF AcksAreOnChain
  <2> QED BY <1>9, <1>t, <1>i, <2>1, <2>2
          DEF DecryptFails, CommInvariant, CommTypeOK, SlotStatus, AckedWasDelivered, SentIsScheduled
<1>10. ASSUME NEW s \in Slot, NEW origin \in Origin, DispatchPacket(s, origin)
       PROVE  CommInvariant'
  <2>1. packets' = [packets EXCEPT ![s][origin] = [packets[s][origin] EXCEPT !.opening = FALSE]]
    BY <1>10, <1>t DEF DispatchPacket
  <2>2. packets' \in [Slot -> [Origin -> Mail]]
    BY <1>t, <1>m, <2>1, CopiesChange
  <2>3. got \subseteq got' /\ got' \subseteq Slot /\ acking' \subseteq acking \union got' /\ acking' \subseteq Slot
    BY <1>10, <1>t DEF DispatchPacket
  <2> QED BY <1>10, <1>t, <1>i, <1>y, <2>2, <2>3, PacketsKeep DEF DispatchPacket
<1>11. ASSUME NEW s \in Slot, DispatchAck(s)
       PROVE  CommInvariant'
  <2>1. /\ acks' \in [Slot -> Mail] /\ acks[s].onChain
        /\ \A t \in Slot : acks'[t].onChain = acks[t].onChain
        /\ \A t \in Slot : acks'[t].fresh \/ acks'[t].opening => acks[t].fresh \/ acks[t].opening
    <3>1. acks[s] \in Mail /\ acks[s].opening
      BY <1>11, <1>t DEF DispatchAck
    <3>2. acks' = [acks EXCEPT ![s] = [acks[s] EXCEPT !.opening = FALSE]]
      BY <1>11, <1>t DEF DispatchAck
    <3>3. /\ [acks[s] EXCEPT !.opening = FALSE] \in Mail
          /\ [acks[s] EXCEPT !.opening = FALSE].onChain = acks[s].onChain
          /\ [acks[s] EXCEPT !.opening = FALSE].fresh = acks[s].fresh
          /\ [acks[s] EXCEPT !.opening = FALSE].opening = FALSE
      BY <3>1, MailOps DEF Mail
    <3>4. /\ acks' \in [Slot -> Mail] /\ acks'[s] = [acks[s] EXCEPT !.opening = FALSE]
          /\ \A t \in Slot \ {s} : acks'[t] = acks[t]
      BY <1>t, <3>2, <3>3, MailChanges
    <3> QED BY <1>i, <3>1, <3>3, <3>4 DEF AcksAreOnChain
  <2>2. AcksAreOnChain'
    BY <1>i, <2>1 DEF AcksAreOnChain
  <2>3. UNCHANGED <<open, peers, strays, loop, retries, stale, packets, acking, ears, got>>
    BY <1>11 DEF DispatchAck
  <2>4. CASE ears[Operator] = "on" /\ s \in peers
    <3>1. slots' = Recorded(slots, s, "acked") /\ ScheduleAll(slots', open)
      BY <1>11, <2>4 DEF DispatchAck, Store
    <3>2. /\ slots' \in [Slot -> SlotStatus]
          /\ \A t \in Slot \ {s} : slots'[t] = slots[t]
      BY <1>t, <3>1, RecordedIs
    <3>3. s \in got
      BY <1>i, <2>1 DEF AckedWasDelivered
    <3>4. AckedWasDelivered'
      BY <1>i, <2>1, <2>3, <3>2, <3>3 DEF AckedWasDelivered
    <3>5. SentIsScheduled' /\ timers' \subseteq Slot
      BY <1>t, <2>3, <3>1, ScheduleKeeps
    <3> QED BY <1>t, <2>1, <2>2, <2>3, <3>2, <3>4, <3>5 DEF CommInvariant, CommTypeOK, SlotStatus
  <2>5. CASE UNCHANGED <<slots, timers>>
    BY <1>t, <1>i, <2>1, <2>2, <2>3, <2>5
       DEF CommInvariant, CommTypeOK, SlotStatus, AckedWasDelivered, SentIsScheduled
  <2> QED BY <1>11, <2>4, <2>5 DEF DispatchAck
<1>12. ASSUME NEW s \in Slot, SendAck(s)
       PROVE  CommInvariant'
  <2>1. /\ acks' \in [Slot -> Mail] /\ acks'[s].onChain
        /\ \A t \in Slot \ {s} : acks'[t] = acks[t]
    <3>1. acks[s] \in Mail /\ acks' = [acks EXCEPT ![s] = Posted(acks[s])]
      BY <1>12, <1>t DEF SendAck
    <3>2. Posted(acks[s]) \in Mail /\ Posted(acks[s]).onChain
      BY <3>1, MailOps
    <3> QED BY <1>t, <3>1, <3>2, MailChanges
  <2>2. AcksAreOnChain' /\ AckedWasDelivered'
    BY <1>12, <1>i, <2>1 DEF SendAck, AcksAreOnChain, AckedWasDelivered
  <2> QED BY <1>12, <1>t, <1>i, <2>1, <2>2
          DEF SendAck, CommInvariant, CommTypeOK, SlotStatus, SentIsScheduled
<1>13. ASSUME NEW s \in Slot, AckFails(s) \/ SignerStops(s)
       PROVE  CommInvariant'
  <2>1. packets' \in [Slot -> [Origin -> Mail]]
    <3>1. CASE packets' = packets
      BY <1>t, <3>1
    <3>2. CASE SignerStops(s)
      <4>1. packets' = [packets EXCEPT ![s] = [o \in Origin |-> Unread(packets[s][o])]]
        BY <1>t, <3>2 DEF SignerStops
      <4>2. [o \in Origin |-> Unread(packets[s][o])] \in [Origin -> Mail]
        BY <1>m
      <4> QED BY <1>t, <4>1, <4>2
    <3> QED BY <1>13, <3>1, <3>2 DEF AckFails
  <2>2. ears' \in [Party -> {"off", "deaf", "on"}]
    BY <1>13, <1>t DEF AckFails, SignerStops
  <2>3. /\ acking' = acking \ {s}
        /\ UNCHANGED <<slots, open, peers, timers, strays, loop, retries, stale, acks, got>>
    BY <1>13 DEF AckFails, SignerStops
  <2> QED BY <1>t, <1>i, <2>1, <2>2, <2>3
          DEF CommInvariant, CommTypeOK, SlotStatus, AcksAreOnChain, AckedWasDelivered, SentIsScheduled
<1>14. ASSUME NEW isOpen \in BOOLEAN, BatchMoves(isOpen)
       PROVE  CommInvariant'
  <2>1. SentIsScheduled' /\ timers' \subseteq Slot
    BY <1>14, ScheduleKeeps DEF BatchMoves
  <2> QED BY <1>14, <1>t, <1>i, <2>1
          DEF BatchMoves, CommInvariant, CommTypeOK, SlotStatus, AcksAreOnChain, AckedWasDelivered
<1>15. ASSUME NEW s \in Slot, Expire(s)
       PROVE  CommInvariant'
  <2>1. packets[s]["retry"] \in Mail /\ "retry" \in Origin
    BY <1>t DEF Origin
  <2>2. packets' = [packets EXCEPT ![s]["retry"] =
                      [packets[s]["retry"] EXCEPT !.onChain = FALSE, !.fresh = FALSE]]
    BY <1>15, <1>t DEF Expire
  <2>3. packets' \in [Slot -> [Origin -> Mail]]
    BY <1>t, <1>m, <2>1, <2>2, CopiesChange
  <2> QED BY <1>15, <1>t, <1>i, <1>y, <2>3, PacketsKeep DEF Expire
<1>23. ASSUME NEW s \in Slot, NEW left \in Mail, Lapse(s, left)
       PROVE  CommInvariant'
  <2>1. packets' \in [Slot -> [Origin -> Mail]]
    BY <1>23, <1>t, CopiesChange DEF Lapse, Origin
  <2> QED BY <1>23, <1>t, <1>i, <1>y, <2>1, PacketsKeep DEF Lapse
<1>16. CASE SendAll
  <2>1. Advance(slots, 0) /\ UNCHANGED <<open, peers, strays, retries, stale, packets, acks, acking, ears, got>>
    BY <1>16 DEF SendAll
  <2>2. /\ slots' \in [Slot -> SlotStatus]
        /\ \A t \in Slot : slots'[t].state = "acked" => slots[t].state = "acked"
        /\ ScheduleAll(slots', open)
        /\ loop' \in [slot : Slot \union {0}, stage : Stage]
        /\ loop'.slot = 0 <=> loop'.stage = "idle"
    BY <1>t, <2>1, AdvanceIs
  <2> QED BY <1>t, <2>1, <2>2, StoreKeeps DEF CommInvariant, CommTypeOK, SlotStatus
<1>17. CASE LoopAccepted
  <2>1. PICK l \in Slot : l = loop.slot
    BY <1>17, <1>t DEF LoopAccepted
  <2>2. packets[l]["panel"] \in Mail /\ "panel" \in Origin
    BY <1>t DEF Origin
  <2>3. packets' = [packets EXCEPT ![l]["panel"] = Posted(packets[l]["panel"])]
    BY <1>17, <1>t, <2>1 DEF LoopAccepted
  <2>4. packets' \in [Slot -> [Origin -> Mail]]
    BY <1>t, <1>m, <2>2, <2>3, CopiesChange
  <2>5. loop' \in [slot : Slot \union {0}, stage : Stage] /\ (loop'.slot = 0 <=> loop'.stage = "idle")
    BY <1>17, <1>t, <2>1 DEF LoopAccepted, Stage
  <2> QED BY <1>17, <1>t, <1>i, <1>y, <2>4, <2>5, PacketsKeep DEF LoopAccepted
<1>18. ASSUME NEW state \in {"sent", "error"}, LoopSettles(state)
       PROVE  CommInvariant'
  <2>1. loop.slot \in Slot
    BY <1>18, <1>t DEF LoopSettles
  <2>2. /\ Advance(Recorded(slots, loop.slot, state), loop.slot)
        /\ UNCHANGED <<open, peers, strays, retries, stale, packets, acks, acking, ears, got>>
    BY <1>18 DEF LoopSettles
  <2>3. /\ Recorded(slots, loop.slot, state) \in [Slot -> SlotStatus]
        /\ \A t \in Slot : Recorded(slots, loop.slot, state)[t].state = "acked" => slots[t].state = "acked"
    <3>1. state \in {"none", "sending", "sent", "acked", "error"} /\ state # "acked"
      OBVIOUS
    <3>2. PICK l \in Slot : l = loop.slot
      BY <2>1
    <3>3. /\ Recorded(slots, l, state) \in [Slot -> SlotStatus]
          /\ \A t \in Slot : Recorded(slots, l, state)[t].state = "acked" => slots[t].state = "acked"
      BY <1>t, <3>1, RecordedIs
    <3> QED BY <3>2, <3>3
  <2>4. /\ slots' \in [Slot -> SlotStatus]
        /\ \A t \in Slot : slots'[t].state = "acked" => slots[t].state = "acked"
        /\ ScheduleAll(slots', open)
        /\ loop' \in [slot : Slot \union {0}, stage : Stage]
        /\ loop'.slot = 0 <=> loop'.stage = "idle"
    BY <1>t, <2>1, <2>2, <2>3, AdvanceIs
  <2> QED BY <1>t, <2>2, <2>4, StoreKeeps DEF CommInvariant, CommTypeOK, SlotStatus
<1>19. ASSUME NEW p \in Party, Start(p)
       PROVE  CommInvariant'
  <2>1. ears' \in [Party -> {"off", "deaf", "on"}]
    BY <1>19, <1>t DEF Start
  <2> QED BY <1>19, <1>t, <1>i, <2>1
          DEF Start, CommInvariant, CommTypeOK, SlotStatus, AcksAreOnChain, AckedWasDelivered,
              SentIsScheduled
<1>20. CASE Attach
  BY <1>20, <1>t, <1>i
     DEF Attach, CommInvariant, CommTypeOK, SlotStatus, AcksAreOnChain, AckedWasDelivered, SentIsScheduled
<1>21. CASE OperatorRestarts
  <2>1. /\ acks' \in [Slot -> Mail]
        /\ \A t \in Slot : acks'[t].onChain = acks[t].onChain
        /\ \A t \in Slot : acks'[t].fresh = acks[t].onChain
        /\ \A t \in Slot : ~acks'[t].opening
    <3>1. acks' = [s \in Slot |-> Unread(acks[s])]
      BY <1>21 DEF OperatorRestarts
    <3>2. \A s \in Slot : acks[s] \in Mail
      BY <1>t
    <3> QED BY <3>1, <3>2, MailOps
  <2>2. AcksAreOnChain'
    BY <1>i, <2>1 DEF AcksAreOnChain
  <2>3. SentIsScheduled' /\ timers' \subseteq Slot
    BY <1>21, <1>t, ScheduleKeeps DEF OperatorRestarts
  <2>4. AckedWasDelivered'
    BY <1>21, <1>i, <2>1 DEF OperatorRestarts, AckedWasDelivered
  <2> QED BY <1>21, <1>t, <2>1, <2>2, <2>3, <2>4
          DEF OperatorRestarts, CommInvariant, CommTypeOK, SlotStatus, Stage
<1>22. CASE UNCHANGED commvars
  BY <1>22, <1>t, <1>i
     DEF commvars, CommInvariant, CommTypeOK, SlotStatus, AcksAreOnChain, AckedWasDelivered, SentIsScheduled
<1> QED
  BY <1>1, <1>2, <1>3, <1>4, <1>5, <1>6, <1>7, <1>8, <1>9, <1>10, <1>11, <1>12, <1>13, <1>14, <1>15,
     <1>16, <1>17, <1>18, <1>19, <1>20, <1>21, <1>22, <1>23
     DEF CommNext

-----------------------------------------------------------------------------
(* Theorems                                                                *)

\* The statuses of the slots, the timers, the mail on the chain and the
\* watchers have their types in every state of the operator and the signers
\* (useCommDispatch, useCommSendRetry, watcher); sendAll is at a slot
\* exactly while it is not idle.
THEOREM CommTypeCorrect == CommSpec => []CommTypeOK
<1>1. CommInit => CommInvariant
  BY CommInitInvariant
<1>2. CommInvariant /\ [CommNext]_commvars => CommInvariant'
  BY CommStepInvariant
<1>3. CommInvariant => CommTypeOK
  BY DEF CommInvariant
<1> QED BY <1>1, <1>2, <1>3, PTL DEF CommSpec

\* A slot shown as acknowledged belongs to a signer whose app had the packet
\* before it expired, however messages were lost, repeated or read again
\* after restarts (dispatch of the watcher, onIncomingAck).
THEOREM AcknowledgedWasDelivered == CommSpec => []AckedWasDelivered
<1>1. CommInit => CommInvariant
  BY CommInitInvariant
<1>2. CommInvariant /\ [CommNext]_commvars => CommInvariant'
  BY CommStepInvariant
<1>3. CommInvariant => AckedWasDelivered
  BY DEF CommInvariant
<1> QED BY <1>1, <1>2, <1>3, PTL DEF CommSpec

\* A packet recorded as sent always has a timer that will send it again,
\* unless it was dismissed or the batch is over, although the schedule loses
\* the handles of its timers (scheduleAll, fireRetry).
THEOREM SentStaysScheduled == CommSpec => []SentIsScheduled
<1>1. CommInit => CommInvariant
  BY CommInitInvariant
<1>2. CommInvariant /\ [CommNext]_commvars => CommInvariant'
  BY CommStepInvariant
<1>3. CommInvariant => SentIsScheduled
  BY DEF CommInvariant
<1> QED BY <1>1, <1>2, <1>3, PTL DEF CommSpec

=============================================================================
