-------------------------- MODULE MobileCaptureProofs --------------------------
(***************************************************************************)
(* Theorems about MobileCapture, for any number of photographs, pairing    *)
(* codes, certificates and restarts of either side.                        *)
(***************************************************************************)
EXTENDS MobileCapture, FiniteSetTheorems, SequenceTheorems, TLAPS

(***************************************************************************)
(* The invariant, by what the steps disturb together: the queue and its    *)
(* images, the drain loop, the desktop's side of the channel, and what the *)
(* desktop remembers of the ids it has handed over.                        *)
(***************************************************************************)
QueuePart ==
  /\ DOMAIN items \subseteq 1 .. taken /\ \A i \in DOMAIN items : items[i] \in Statuses
  /\ images \subseteq 1 .. taken /\ taken \in 0 .. MaxCaptures
  /\ screen \in {"home", "capture", "processing"}
  /\ DOMAIN items \subseteq images
  /\ screen = "processing" => taken \in images \ DOMAIN items

\* The capture whose upload is in flight is in the queue, and no clearing or
\* purge takes it.
UploadPart ==
  upload # Absent => /\ upload \in Request
                     /\ upload.id \in DOMAIN items /\ items[upload.id] = "syncing"

DrainPart ==
  /\ {stored, pairing} \subseteq Pairings \cup {Absent} /\ ticks \subseteq Pairings
  /\ loading \in BOOLEAN
  /\ pairing # Absent /\ Waiting # {} => ticks # {} \/ upload # Absent

ChannelPart ==
  /\ wire \subseteq Captures \X Pairings
  /\ cert \in 1 .. MaxChanges + 1 /\ codes \in Seq(1 .. cert) /\ Len(codes) <= MaxPairings
  /\ refused \subseteq Pairings /\ up \in BOOLEAN

\* What was handed over is remembered, once; nothing was evicted to make room.
SeenPart ==
  /\ seen \in Seq(Captures) /\ Len(seen) <= Capacity
  /\ handed \in [Captures -> Nat]

RememberedPart ==
  /\ \A j, k \in 1 .. Len(seen) : seen[j] = seen[k] => j = k
  /\ \A c \in Captures : handed[c] <= 1
  /\ \A c \in Captures : handed[c] # 0 => \E k \in 1 .. Len(seen) : seen[k] = c

MobileInvariant == QueuePart /\ UploadPart /\ DrainPart /\ ChannelPart /\ SeenPart

LEMMA MobileInvariantTypes == MobileInvariant => MobileTypeOK
<1> SUFFICES ASSUME MobileInvariant
             PROVE  MobileTypeOK
  OBVIOUS
<1>1. {loading, up} \subseteq BOOLEAN
  BY DEF MobileInvariant, DrainPart, ChannelPart
<1>2. upload = Absent \/ (upload \in Request /\ upload.id \in DOMAIN items)
  BY DEF MobileInvariant, UploadPart
<1> HIDE DEF Request
<1> QED BY <1>1, <1>2 DEF MobileInvariant, QueuePart, DrainPart, ChannelPart, SeenPart, MobileTypeOK

(***************************************************************************)
(* The operators of the queue.                                             *)
(***************************************************************************)

\* A non-empty set of naturals has a least member.
LEMMA LeastNatural ==
  ASSUME NEW T, T \subseteq Nat, T # {}
  PROVE  \E x \in T : \A y \in T : x <= y
<1>1. PICK x \in T : \A y \in T : ~(<<y, x>> \in OpToRel(<, Nat))
  BY Zenon, WFMin, NatLessThanWellFounded
<1>2. \A y \in T : ~(y < x)
  BY Zenon, <1>1 DEF OpToRel
<1> QED BY <1>2

\* The next capture to upload is one that waits.
LEMMA CandidateWaits ==
  ASSUME QueuePart, Waiting # {}
  PROVE  NextDrainCandidate \in Waiting
<1>1. Waiting \subseteq Nat
  BY DEF Waiting, QueuePart
<1>2. \E i \in Waiting : \A j \in Waiting : i <= j
  BY <1>1, LeastNatural
<1> QED BY <1>2 DEF NextDrainCandidate

LEMMA KeepingIs ==
  ASSUME NEW ids, items' = Keeping(ids)
  PROVE  DOMAIN items' = ids /\ \A i \in ids : items'[i] = items[i]
  BY DEF Keeping

LEMMA RequestKept ==
  ASSUME NEW u \in Request, NEW answer \in Final \cup {"building", "sent"}
  PROVE  /\ [u EXCEPT !.answer = answer] \in Request
         /\ [u EXCEPT !.answer = answer].id = u.id
         /\ [u EXCEPT !.answer = answer] # Absent
  BY MobileAssumption DEF Request

\* A step that only gives the upload in flight an answer.
LEMMA AnswerKeeps ==
  ASSUME UploadPart, DrainPart, upload # Absent, NEW answer \in Final \cup {"building", "sent"},
         upload' = [upload EXCEPT !.answer = answer],
         UNCHANGED <<items, stored, pairing, loading, ticks>>
  PROVE  UploadPart' /\ DrainPart'
  BY RequestKept DEF UploadPart, DrainPart, Waiting

LEMMA PhoneUnchanged ==
  ASSUME QueuePart, UploadPart, DrainPart, UNCHANGED phone
  PROVE  QueuePart' /\ UploadPart' /\ DrainPart'
  BY DEF QueuePart, UploadPart, DrainPart, Waiting, phone

LEMMA DesktopUnchanged ==
  ASSUME ChannelPart, SeenPart, UNCHANGED desktop
  PROVE  ChannelPart' /\ SeenPart'
  BY DEF ChannelPart, SeenPart, desktop

-----------------------------------------------------------------------------
LEMMA MobileInitInvariant ==
  ASSUME MobileInit
  PROVE  MobileInvariant /\ RememberedPart
<1>1. DOMAIN items = {} /\ Waiting = {}
  BY DEF MobileInit, Waiting
<1>2. 0 \in 0 .. MaxCaptures /\ 1 \in 1 .. MaxChanges + 1 /\ 0 <= MaxPairings /\ 0 <= Capacity
  BY MobileAssumption
<1>3. seen \in Seq(Captures) /\ codes \in Seq(1 .. cert) /\ Len(seen) = 0 /\ Len(codes) = 0
  BY EmptySeq DEF MobileInit
<1>4. QueuePart /\ UploadPart /\ DrainPart
  BY <1>1, <1>2 DEF MobileInit, QueuePart, UploadPart, DrainPart
<1>5. ChannelPart /\ SeenPart /\ RememberedPart
  BY <1>2, <1>3 DEF MobileInit, ChannelPart, SeenPart, RememberedPart
<1> QED BY <1>4, <1>5 DEF MobileInvariant

(***************************************************************************)
(* The steps of the phone.                                                 *)
(***************************************************************************)
LEMMA CaptureSteps ==
  ASSUME MobileInvariant, OpenCapture \/ Shutter
  PROVE  MobileInvariant'
<1>1. ChannelPart' /\ SeenPart'
  BY DesktopUnchanged DEF MobileInvariant, OpenCapture, Shutter
<1>2. UploadPart' /\ DrainPart'
  BY DEF MobileInvariant, OpenCapture, Shutter, UploadPart, DrainPart, Waiting
<1>3. ASSUME OpenCapture PROVE QueuePart'
  BY <1>3 DEF MobileInvariant, OpenCapture, QueuePart
<1>4. ASSUME Shutter PROVE QueuePart'
  BY <1>4, MobileAssumption DEF MobileInvariant, Shutter, QueuePart
<1> QED BY <1>1, <1>2, <1>3, <1>4 DEF MobileInvariant

LEMMA EnqueueStep ==
  ASSUME MobileInvariant, EnqueueCapture
  PROVE  MobileInvariant'
<1>1. ChannelPart' /\ SeenPart'
  BY DesktopUnchanged DEF MobileInvariant, EnqueueCapture
<1>2. /\ DOMAIN items' = DOMAIN items \cup {taken} /\ items'[taken] = "pending"
      /\ \A i \in DOMAIN items : i # taken => items'[i] = items[i]
  BY DEF EnqueueCapture, With
<1>3. QueuePart'
  BY <1>2 DEF MobileInvariant, EnqueueCapture, QueuePart, Statuses
<1>4. UploadPart'
  BY <1>2 DEF MobileInvariant, EnqueueCapture, QueuePart, UploadPart
<1>5. DrainPart'
  BY DEF MobileInvariant, EnqueueCapture, DrainPart, Woken
<1> QED BY <1>1, <1>3, <1>4, <1>5 DEF MobileInvariant

LEMMA TickStep ==
  ASSUME MobileInvariant, NEW p \in Pairings, Tick(p)
  PROVE  MobileInvariant'
<1>1. ChannelPart' /\ SeenPart'
  BY DesktopUnchanged DEF MobileInvariant, Tick
<1>2. CASE upload # Absent \/ Waiting = {}
  BY <1>1, <1>2 DEF MobileInvariant, Tick, QueuePart, UploadPart, DrainPart, Waiting
<1>3. CASE upload = Absent /\ Waiting # {}
  <2> DEFINE id == NextDrainCandidate
             u == [id |-> id, by |-> p, answer |-> "building"]
  <2>1. id \in DOMAIN items /\ items[id] = "pending"
    BY <1>3, CandidateWaits DEF MobileInvariant, Waiting
  <2>2. id \in Captures
    BY <2>1, MobileAssumption DEF MobileInvariant, QueuePart, Captures
  <2> HIDE DEF id
  <2>3. u \in Request /\ u.id = id /\ u # Absent
    BY <2>2, MobileAssumption DEF Request
  <2> HIDE DEF u
  <2>4. items' = With("syncing", id) /\ upload' = u /\ ticks' = ticks \ {p}
        /\ UNCHANGED <<images, taken, screen, stored, pairing, loading>>
    BY <1>3 DEF Tick, id, u
  <2>5. /\ DOMAIN items' = DOMAIN items /\ items'[id] = "syncing"
        /\ \A i \in DOMAIN items : i # id => items'[i] = items[i]
    BY <2>1, <2>4 DEF With
  <2>6. QueuePart'
    BY <2>4, <2>5 DEF MobileInvariant, QueuePart, Statuses
  <2>7. UploadPart' /\ DrainPart'
    BY <2>1, <2>3, <2>4, <2>5 DEF MobileInvariant, UploadPart, DrainPart
  <2> QED BY <1>1, <2>6, <2>7 DEF MobileInvariant
<1> QED BY <1>2, <1>3

LEMMA SendStep ==
  ASSUME MobileInvariant, SendInvoiceViaIp
  PROVE  MobileInvariant'
<1>1. upload \in Request /\ upload # Absent
  BY DEF MobileInvariant, UploadPart, SendInvoiceViaIp
<1>2. QueuePart' /\ SeenPart'
  BY DEF MobileInvariant, SendInvoiceViaIp, QueuePart, SeenPart
<1>3. \E answer \in Final \cup {"building", "sent"} : upload' = [upload EXCEPT !.answer = answer]
  BY DEF SendInvoiceViaIp, Final
<1>4. UploadPart' /\ DrainPart'
  BY <1>1, <1>3, AnswerKeeps DEF MobileInvariant, SendInvoiceViaIp
<1>5. <<upload.id, upload.by>> \in Captures \X Pairings
  BY <1>1 DEF Request
<1>6. ChannelPart'
  BY <1>5 DEF MobileInvariant, SendInvoiceViaIp, ChannelPart
<1> QED BY <1>2, <1>4, <1>6 DEF MobileInvariant

LEMMA UploadFailsStep ==
  ASSUME MobileInvariant, UploadFails
  PROVE  MobileInvariant'
<1>1. QueuePart' /\ ChannelPart' /\ SeenPart'
  BY DesktopUnchanged DEF MobileInvariant, UploadFails, QueuePart
<1>2. \E answer \in Final \cup {"building", "sent"} : upload' = [upload EXCEPT !.answer = answer]
  BY DEF UploadFails, Final
<1>3. UploadPart' /\ DrainPart'
  BY <1>2, AnswerKeeps DEF MobileInvariant, UploadFails
<1> QED BY <1>1, <1>3 DEF MobileInvariant

LEMMA SettleStep ==
  ASSUME MobileInvariant, Settle
  PROVE  MobileInvariant'
<1>1. ChannelPart' /\ SeenPart'
  BY DesktopUnchanged DEF MobileInvariant, Settle
<1>2. upload \in Request /\ upload.id \in DOMAIN items /\ items[upload.id] = "syncing"
  BY DEF MobileInvariant, UploadPart, Settle
<1>3. Outcome(upload.answer) \in Statuses
  BY DEF Outcome, Statuses
<1>4. /\ DOMAIN items' = DOMAIN items /\ items'[upload.id] = Outcome(upload.answer)
      /\ \A i \in DOMAIN items : i # upload.id => items'[i] = items[i]
  BY <1>2 DEF Settle, With
<1>5. QueuePart'
  BY <1>3, <1>4 DEF MobileInvariant, Settle, QueuePart
<1>6. upload.by \in Pairings
  BY <1>2 DEF Request
<1>7. UploadPart' /\ DrainPart'
  BY <1>6 DEF MobileInvariant, Settle, UploadPart, DrainPart, Rescheduled
<1> QED BY <1>1, <1>5, <1>7 DEF MobileInvariant

LEMMA PairingSteps ==
  ASSUME MobileInvariant, LoadPairing \/ Unpair \/ \E p \in Pairings : Pair(p)
  PROVE  MobileInvariant'
<1>1. QueuePart' /\ UploadPart' /\ ChannelPart' /\ SeenPart'
  BY DesktopUnchanged DEF MobileInvariant, LoadPairing, Unpair, Pair, QueuePart, UploadPart
<1>2. ASSUME LoadPairing PROVE DrainPart'
  BY <1>2 DEF MobileInvariant, LoadPairing, DrainPart, Woken
<1>3. ASSUME Unpair PROVE DrainPart'
  BY <1>3 DEF MobileInvariant, Unpair, DrainPart
<1>4. ASSUME NEW p \in Pairings, Pair(p) PROVE DrainPart'
  <2>1. p # Absent
    BY MobileAssumption DEF Pairings
  <2> QED BY <1>4, <2>1 DEF MobileInvariant, Pair, DrainPart, Woken, Waiting
<1> QED BY <1>1, <1>2, <1>3, <1>4 DEF MobileInvariant

\* Clearing and purging take neither a capture that waits nor the one in flight.
LEMMA RemovalKeeps ==
  ASSUME MobileInvariant, NEW gone, items' = Keeping(DOMAIN items \ gone),
         \A i \in DOMAIN items \cap gone : items[i] \in {"rejected", "synced"},
         UNCHANGED <<taken, screen, stored, pairing, loading, upload>>,
         ticks' \in {ticks, Woken(pairing)}
  PROVE  UploadPart' /\ DrainPart'
<1> DEFINE kept == DOMAIN items \ gone
<1>1. DOMAIN items' = kept /\ \A i \in kept : items'[i] = items[i]
  BY KeepingIs
<1> HIDE DEF kept
<1>2. UploadPart'
  BY <1>1 DEF MobileInvariant, UploadPart, kept
<1>3. Waiting' = Waiting
  BY <1>1 DEF Waiting, kept
<1>4. DrainPart'
  BY <1>3 DEF MobileInvariant, DrainPart, Woken
<1> QED BY <1>2, <1>4

LEMMA ClearRejectedStep ==
  ASSUME MobileInvariant, ClearRejected
  PROVE  MobileInvariant'
<1>1. ChannelPart' /\ SeenPart'
  BY DesktopUnchanged DEF MobileInvariant, ClearRejected
<1> DEFINE gone == {i \in DOMAIN items : items[i] = "rejected"}
<1>2. UploadPart' /\ DrainPart'
  BY RemovalKeeps DEF ClearRejected
<1>3. DOMAIN items' = DOMAIN items \ gone /\ \A i \in DOMAIN items \ gone : items'[i] = items[i]
  BY KeepingIs DEF ClearRejected
<1>4. images' = images \ gone /\ taken' = taken /\ screen' = screen /\ screen = "home"
  BY DEF ClearRejected
<1> HIDE DEF gone
<1>5. QueuePart'
  BY <1>3, <1>4 DEF MobileInvariant, QueuePart
<1> QED BY <1>1, <1>2, <1>5 DEF MobileInvariant

LEMMA PurgeStep ==
  ASSUME MobileInvariant, NEW before, Purge(before)
  PROVE  MobileInvariant'
<1>1. ChannelPart' /\ SeenPart'
  BY DesktopUnchanged DEF MobileInvariant, Purge
<1> DEFINE gone == {i \in DOMAIN items : Purgeable(i) /\ i < before}
<1>2. UploadPart' /\ DrainPart'
  BY RemovalKeeps DEF Purge, Purgeable
<1> DEFINE kept == DOMAIN items \ gone
           fresh == IF screen = "processing" THEN {taken} ELSE {}
<1>3. PICK orphans \in {{}, images \ (kept \cup fresh)} : images' = (images \ gone) \ orphans
  BY DEF Purge, Referenced
<1>4. items' = Keeping(kept) /\ UNCHANGED <<taken, screen>>
  BY DEF Purge
<1>5. gone \subseteq DOMAIN items
  OBVIOUS
<1>6. DOMAIN items' = kept /\ \A i \in kept : items'[i] = items[i]
  BY <1>4, KeepingIs
<1> HIDE DEF gone
<1>7. QueuePart'
  BY <1>3, <1>4, <1>5, <1>6 DEF MobileInvariant, QueuePart
<1> QED BY <1>1, <1>2, <1>7 DEF MobileInvariant

LEMMA RestartPhoneStep ==
  ASSUME MobileInvariant, RestartPhone
  PROVE  MobileInvariant'
<1>1. ChannelPart' /\ SeenPart'
  BY DesktopUnchanged DEF MobileInvariant, RestartPhone
<1>2. QueuePart' /\ UploadPart' /\ DrainPart'
  BY DEF MobileInvariant, RestartPhone, QueuePart, UploadPart, DrainPart
<1> QED BY <1>1, <1>2 DEF MobileInvariant

(***************************************************************************)
(* The steps of the desktop.                                               *)
(***************************************************************************)
LEMMA IssueStep ==
  ASSUME MobileInvariant, Issue
  PROVE  MobileInvariant'
<1>1. QueuePart' /\ UploadPart' /\ DrainPart'
  BY PhoneUnchanged DEF MobileInvariant, Issue
<1>2. cert \in 1 .. cert
  BY MobileAssumption DEF MobileInvariant, ChannelPart
<1>3. codes' \in Seq(1 .. cert) /\ Len(codes') = Len(codes) + 1
  BY <1>2, AppendProperties DEF MobileInvariant, ChannelPart, Issue
<1>4. Len(codes') <= MaxPairings
  BY <1>3, LenProperties, MobileAssumption DEF MobileInvariant, ChannelPart, Issue
<1>5. ChannelPart' /\ SeenPart'
  BY <1>3, <1>4 DEF MobileInvariant, ChannelPart, SeenPart, Issue
<1> QED BY <1>1, <1>5 DEF MobileInvariant

LEMMA RevokeStep ==
  ASSUME MobileInvariant, NEW p \in Pairings, Revoke(p)
  PROVE  MobileInvariant'
<1>1. QueuePart' /\ UploadPart' /\ DrainPart'
  BY PhoneUnchanged DEF MobileInvariant, Revoke
<1>2. ChannelPart' /\ SeenPart'
  BY DEF MobileInvariant, ChannelPart, SeenPart, Revoke
<1> QED BY <1>1, <1>2 DEF MobileInvariant

LEMMA RotateCertStep ==
  ASSUME MobileInvariant, NEW listens \in BOOLEAN, RotateCert(listens)
  PROVE  MobileInvariant'
<1>1. QueuePart' /\ UploadPart' /\ DrainPart'
  BY PhoneUnchanged DEF MobileInvariant, RotateCert
<1>2. Cardinality(refused) \in Nat
  <2>1. IsFiniteSet(Pairings)
    BY FS_Interval, MobileAssumption DEF Pairings
  <2>2. IsFiniteSet(refused)
    BY <2>1, FS_Subset DEF MobileInvariant, ChannelPart
  <2> QED BY <2>2, FS_CardinalityType
<1>3. cert' \in 1 .. MaxChanges + 1 /\ 1 .. cert \subseteq 1 .. cert'
  BY <1>2, MobileAssumption DEF MobileInvariant, ChannelPart, RotateCert, Changes
<1>4. codes \in Seq(1 .. cert')
  BY <1>3, SeqMonotonic DEF MobileInvariant, ChannelPart
<1>5. ChannelPart' /\ SeenPart'
  BY <1>3, <1>4 DEF MobileInvariant, ChannelPart, SeenPart, RotateCert
<1> QED BY <1>1, <1>5 DEF MobileInvariant

LEMMA RestartDesktopStep ==
  ASSUME MobileInvariant, RestartDesktop
  PROVE  MobileInvariant' /\ RememberedPart'
<1>1. QueuePart' /\ UploadPart' /\ DrainPart'
  BY PhoneUnchanged DEF MobileInvariant, RestartDesktop
<1>2. seen' \in Seq(Captures) /\ Len(seen') = 0 /\ 0 <= Capacity
  BY EmptySeq, MobileAssumption DEF RestartDesktop
<1>3. ChannelPart' /\ SeenPart' /\ RememberedPart'
  BY <1>2 DEF MobileInvariant, ChannelPart, SeenPart, RememberedPart, RestartDesktop
<1> QED BY <1>1, <1>3 DEF MobileInvariant

\* Recording an id keeps the list within its capacity.
LEMMA RecordSeenType ==
  ASSUME MobileInvariant, NEW id \in Captures
  PROVE  RecordSeen(id) \in Seq(Captures) /\ Len(RecordSeen(id)) <= Capacity
<1> DEFINE rest == IF Len(seen) >= Capacity THEN Tail(seen) ELSE seen
<1>1. seen \in Seq(Captures) /\ Len(seen) \in Nat /\ Len(seen) <= Capacity
  BY LenProperties DEF MobileInvariant, SeenPart
<1>2. CASE Len(seen) >= Capacity
  <2>1. seen # <<>>
    BY <1>1, <1>2, EmptySeq, MobileAssumption
  <2>2. rest \in Seq(Captures) /\ Len(rest) = Len(seen) - 1
    BY <1>1, <1>2, <2>1, HeadTailProperties
  <2> QED BY <1>1, <2>2, AppendProperties, MobileAssumption DEF RecordSeen
<1>3. CASE Len(seen) < Capacity
  BY <1>1, <1>3, AppendProperties, MobileAssumption DEF RecordSeen
<1> QED BY <1>1, <1>2, <1>3, MobileAssumption

\* The request that is answered is the one in flight, or nobody waits for it.
LEMMA AnsweredKeeps ==
  ASSUME MobileInvariant, NEW id, NEW p, NEW kind \in Final, Answered(id, p, kind),
         UNCHANGED <<items, images, taken, screen, stored, pairing, loading, ticks>>
  PROVE  QueuePart' /\ UploadPart' /\ DrainPart'
<1>1. QueuePart'
  BY DEF MobileInvariant, QueuePart
<1>2. CASE UNCHANGED upload
  BY <1>1, <1>2, PhoneUnchanged DEF MobileInvariant, phone
<1>3. CASE upload # Absent /\ upload' = [upload EXCEPT !.answer = kind]
  BY <1>1, <1>3, AnswerKeeps DEF MobileInvariant
<1> QED BY <1>2, <1>3 DEF Answered

LEMMA HandleStep ==
  ASSUME MobileInvariant, NEW id \in Captures, NEW p \in Pairings, HandleInvoices(id, p)
  PROVE  MobileInvariant'
<1>1. \E kind \in Final : Answered(id, p, kind)
  BY DEF HandleInvoices, Unauthorized, InvalidPayload, Duplicate, ReceiveMobileInvoice, Final
<1>2. QueuePart' /\ UploadPart' /\ DrainPart'
  BY <1>1, AnsweredKeeps DEF HandleInvoices
<1>3. ChannelPart'
  BY DEF MobileInvariant, HandleInvoices, ChannelPart
<1>4. ASSUME UNCHANGED <<seen, handed>> PROVE SeenPart'
  BY <1>4 DEF MobileInvariant, SeenPart
<1>5. ASSUME NEW window \in BOOLEAN, ReceiveMobileInvoice(id, p, window) PROVE SeenPart'
  <2>1. seen' \in Seq(Captures) /\ Len(seen') <= Capacity
    BY <1>5, RecordSeenType DEF ReceiveMobileInvoice
  <2>2. handed' \in [Captures -> Nat]
    BY <1>5 DEF MobileInvariant, SeenPart, ReceiveMobileInvoice
  <2> QED BY <2>1, <2>2 DEF SeenPart
<1>6. SeenPart'
  BY <1>4, <1>5 DEF HandleInvoices, Unauthorized, InvalidPayload, Duplicate
<1> QED BY <1>2, <1>3, <1>6 DEF MobileInvariant

-----------------------------------------------------------------------------
LEMMA MobileStepInvariant ==
  ASSUME MobileInvariant, [MobileNext]_mobileVars
  PROVE  MobileInvariant'
<1>1. CASE UNCHANGED mobileVars
  BY <1>1, PhoneUnchanged, DesktopUnchanged DEF mobileVars, MobileInvariant
<1> QED BY <1>1, CaptureSteps, EnqueueStep, TickStep, SendStep, UploadFailsStep, SettleStep,
           PairingSteps, ClearRejectedStep, PurgeStep, RestartPhoneStep, IssueStep, RevokeStep,
           RotateCertStep, RestartDesktopStep, HandleStep DEF MobileNext

LEMMA MobileAlwaysInvariant == MobileSpec => []MobileInvariant
<1>1. MobileInit => MobileInvariant
  BY MobileInitInvariant
<1>2. MobileInvariant /\ [MobileNext]_mobileVars => MobileInvariant'
  BY MobileStepInvariant
<1> QED BY <1>1, <1>2, PTL DEF MobileSpec

\* While a desktop is paired, a capture that waits has an upload in flight or
\* an attempt scheduled: the chain of timers of useDrainQueue is never broken.
THEOREM DrainNeverStalls == MobileSpec => []PendingIsDriven
<1>1. MobileInvariant => PendingIsDriven
  BY DEF MobileInvariant, DrainPart, PendingIsDriven
<1> QED BY <1>1, MobileAlwaysInvariant, PTL

\* A capture in the queue has its image, whatever is cleared, purged or swept.
THEOREM ImagesOutliveQueue == MobileSpec => []QueueKeepsImages
<1>1. MobileInvariant => QueueKeepsImages
  BY DEF MobileInvariant, QueuePart, QueueKeepsImages
<1> QED BY <1>1, MobileAlwaysInvariant, PTL

-----------------------------------------------------------------------------
(***************************************************************************)
(* Handing over once: as long as there are no more captures than ids the   *)
(* desktop remembers, none is forgotten while the desktop runs.            *)
(***************************************************************************)

\* The ids that are remembered are distinct, so one that is not among them
\* finds room.
LEMMA RoomForNew ==
  ASSUME MaxCaptures <= Capacity, MobileInvariant, RememberedPart, NEW id \in Captures,
         \A k \in DOMAIN seen : seen[k] # id
  PROVE  Len(seen) < Capacity
<1> DEFINE others == Captures \ {id}
<1>1. seen \in [1 .. Len(seen) -> Captures] /\ Len(seen) \in Nat /\ DOMAIN seen = 1 .. Len(seen)
  BY LenProperties DEF MobileInvariant, SeenPart
<1>2. IsFiniteSet(Captures) /\ Cardinality(Captures) = MaxCaptures
  BY FS_Interval, MobileAssumption DEF Captures
<1>3. IsFiniteSet(others) /\ Cardinality(others) = MaxCaptures - 1
  BY <1>2, FS_RemoveElement
<1>4. seen \in [1 .. Len(seen) -> others]
  BY <1>1
<1>5. IsInjective(seen)
  BY <1>1 DEF IsInjective, RememberedPart
<1>6. seen \in Injection(1 .. Len(seen), others)
  BY <1>4, <1>5 DEF Injection
<1> HIDE DEF others
<1>7. Cardinality(1 .. Len(seen)) <= Cardinality(others)
  BY <1>3, <1>6, FS_Injection
<1>8. Cardinality(1 .. Len(seen)) = Len(seen)
  <2>1. \A n \in Nat : Cardinality(1 .. n) = n
    BY FS_Interval
  <2> QED BY <1>1, <2>1
<1> QED BY <1>1, <1>3, <1>7, <1>8, MobileAssumption

LEMMA RememberStep ==
  ASSUME MaxCaptures <= Capacity, MobileInvariant, RememberedPart,
         NEW id \in Captures, NEW p, NEW window \in BOOLEAN, ReceiveMobileInvoice(id, p, window)
  PROVE  RememberedPart'
<1>1. seen \in Seq(Captures) /\ Len(seen) \in Nat /\ DOMAIN seen = 1 .. Len(seen)
  BY LenProperties DEF MobileInvariant, SeenPart
<1>2. \A k \in 1 .. Len(seen) : seen[k] # id
  BY <1>1 DEF ReceiveMobileInvoice
<1>3. Len(seen) < Capacity
  BY <1>1, <1>2, RoomForNew
<1>4. seen' = Append(seen, id)
  BY <1>1, <1>3, MobileAssumption DEF ReceiveMobileInvoice, RecordSeen
<1>5. /\ Len(seen') = Len(seen) + 1 /\ seen'[Len(seen) + 1] = id
      /\ \A k \in 1 .. Len(seen) : seen'[k] = seen[k]
  BY <1>1, <1>4, AppendProperties
<1>6. \A j, k \in 1 .. Len(seen') : seen'[j] = seen'[k] => j = k
  BY <1>1, <1>2, <1>5 DEF RememberedPart
<1>7. handed[id] = 0
  BY <1>2 DEF RememberedPart
<1>8. \A c \in Captures : handed'[c] = handed[c] \/ (c = id /\ handed'[c] = 1)
  BY <1>7 DEF ReceiveMobileInvoice, MobileInvariant, SeenPart
<1>9. \A c \in Captures : handed'[c] <= 1
  BY <1>8 DEF RememberedPart
<1>10. ASSUME NEW c \in Captures, handed'[c] # 0
       PROVE  \E k \in 1 .. Len(seen') : seen'[k] = c
  <2>1. CASE c = id
    BY <1>1, <1>5, <2>1
  <2>2. CASE c # id
    <3>1. PICK k \in 1 .. Len(seen) : seen[k] = c
      BY <1>8, <1>10, <2>2 DEF RememberedPart
    <3> QED BY <1>1, <1>5, <3>1
  <2> QED BY <2>1, <2>2
<1> QED BY <1>6, <1>9, <1>10 DEF RememberedPart

LEMMA RememberedStep ==
  ASSUME MaxCaptures <= Capacity, MobileInvariant, RememberedPart, [MobileNext]_mobileVars
  PROVE  RememberedPart'
<1>1. ASSUME UNCHANGED <<seen, handed>> PROVE RememberedPart'
  BY <1>1 DEF RememberedPart
<1>2. ASSUME RestartDesktop PROVE RememberedPart'
  BY <1>2, RestartDesktopStep
<1>3. ASSUME NEW id \in Captures, NEW p \in Pairings, HandleInvoices(id, p)
      PROVE  RememberedPart'
  BY <1>1, <1>3, RememberStep DEF HandleInvoices, Unauthorized, InvalidPayload, Duplicate
<1> QED BY <1>1, <1>2, <1>3
        DEF MobileNext, mobileVars, phone, desktop, OpenCapture, Shutter, EnqueueCapture,
            SendInvoiceViaIp, UploadFails, Settle, LoadPairing, Unpair, ClearRejected, RestartPhone,
            Issue, Purge, RotateCert, Tick, Pair, Revoke

\* However often an upload is repeated because its answer was lost, one run of
\* the desktop hands a capture to its window once, as long as it remembers as
\* many ids as there are captures.
THEOREM HandedOnceWithinCapacity ==
  ASSUME MaxCaptures <= Capacity
  PROVE  MobileSpec => []HandedOverOnce
<1>1. MobileInit => RememberedPart
  BY MobileInitInvariant
<1>2. MobileInvariant /\ RememberedPart /\ [MobileNext]_mobileVars => RememberedPart'
  BY RememberedStep
<1>3. RememberedPart => HandedOverOnce
  BY DEF RememberedPart, HandedOverOnce
<1> QED BY <1>1, <1>2, <1>3, MobileAlwaysInvariant, PTL DEF MobileSpec
=============================================================================
