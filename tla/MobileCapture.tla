---------------------------- MODULE MobileCapture ----------------------------
(* The phone captures invoices into a queue that survives restarts, and a      *)
(* drain loop uploads them to the paired desktop, which hands each one to its  *)
(* window. The loop is a chain of timers: every tick was made by a render of   *)
(* the home screen and uses the pairing of that render.                        *)
(* Sources: apps/mobile/{stores/sync-queue,stores/pairing,lib/useDrainQueue,   *)
(* lib/reconcile-orphans,lib/transport/*,app/*}, apps/desktop/electron/main/   *)
(* {pair-server,pair-store,invoice-receiver,tls-cert-store}.ts.                *)
(* One home screen is mounted, device-store and secure-store calls are atomic, *)
(* and the edits of the review screen are left out.                            *)
EXTENDS Naturals, FiniteSets, Sequences

CONSTANTS MaxCaptures,  \* bound on photographs taken
          MaxPairings,  \* bound on pairing codes issued
          MaxChanges,   \* bound on new certificates and tokens revoked or expired
          Capacity,     \* DEDUP_CAPACITY
          Absent

Captures == 1 .. MaxCaptures
Pairings == 1 .. MaxPairings
Final == {"created", "duplicate", "unauthorized", "mismatch", "client", "failed", "threw"}

\* A request for a capture, made with a pairing: its stage, then its outcome.
Request == [id : Captures, by : Pairings, answer : Final \cup {"building", "sent"}]

ASSUME MobileAssumption ==
    /\ {MaxCaptures, MaxPairings, MaxChanges, Capacity} \subseteq Nat \ {0}
    /\ Absent \notin Nat \cup Request

VARIABLES
    items,    \* the queue: capture -> status; a capture's number is its order
    images,   \* captures whose image file exists
    taken,    \* photographs taken so far
    screen,   \* "home", "capture", or "processing": a photograph is being read
    stored,   \* the pairing in the secure store, or Absent
    pairing,  \* the pairing in memory, or Absent
    loading,  \* the stored pairing has not been read yet
    ticks,    \* pairings of the scheduled ticks
    upload,   \* the request in flight (running), or Absent
    wire,     \* requests the desktop has not handled: <<capture, pairing>>
    cert,     \* the desktop's certificate
    codes,    \* pairing codes issued: the certificate each one pins
    refused,  \* pairings whose token is revoked or expired
    up,       \* the desktop's server listens
    seen,     \* seenIds, oldest first
    handed    \* how often each capture was handed to the window in this run

phone == <<items, images, taken, screen, stored, pairing, loading,
           ticks, upload>>
desktop == <<wire, cert, codes, refused, up, seen, handed>>
mobileVars == <<phone, desktop>>

Statuses == {"pending", "syncing", "synced", "rejected"}

MobileTypeOK ==
    /\ DOMAIN items \subseteq 1 .. taken /\ \A i \in DOMAIN items : items[i] \in Statuses
    /\ images \subseteq 1 .. taken /\ taken \in 0 .. MaxCaptures
    /\ screen \in {"home", "capture", "processing"}
    /\ {stored, pairing} \subseteq Pairings \cup {Absent} /\ ticks \subseteq Pairings
    /\ {loading, up} \subseteq BOOLEAN
    /\ upload = Absent \/ (upload \in Request /\ upload.id \in DOMAIN items)
    /\ wire \subseteq Captures \X Pairings
    /\ cert \in 1 .. MaxChanges + 1 /\ codes \in Seq(1 .. cert) /\ Len(codes) <= MaxPairings
    /\ refused \subseteq Pairings
    /\ seen \in Seq(Captures) /\ Len(seen) <= Capacity
    /\ handed \in [Captures -> Nat]

MobileInit ==
    /\ items = <<>> /\ images = {} /\ taken = 0 /\ screen = "home"
    /\ stored = Absent /\ pairing = Absent /\ loading = TRUE
    /\ ticks = {} /\ upload = Absent
    /\ wire = {} /\ cert = 1 /\ codes = <<>> /\ refused = {} /\ up = TRUE
    /\ seen = <<>> /\ handed = [c \in Captures |-> 0]

With(status, id) == [i \in DOMAIN items \cup {id} |-> IF i = id THEN status ELSE items[i]]
Keeping(ids) == [i \in ids |-> items[i]]

\* The effect on [items.length, pairing?.auth_token] schedules a tick of the
\* current render; without a pairing that tick does nothing.
Woken(p) == ticks \cup ({p} \ {Absent})

-----------------------------------------------------------------------------
OpenCapture ==
    /\ screen = "home" /\ pairing # Absent
    /\ screen' = "capture"
    /\ UNCHANGED <<items, images, taken, stored, pairing, loading, ticks, upload, desktop>>

\* onShutter: the photograph is moved to the cache before it is read.
Shutter ==
    /\ screen = "capture" /\ taken < MaxCaptures
    /\ screen' = "processing"
    /\ taken' = taken + 1
    /\ images' = images \cup {taken + 1}
    /\ UNCHANGED <<items, stored, pairing, loading, ticks, upload, desktop>>

\* The text was recognised: the capture is queued, then reviewed.
EnqueueCapture ==
    /\ screen = "processing"
    /\ screen' = "home"
    /\ items' = With("pending", taken)
    /\ ticks' = Woken(pairing)
    /\ UNCHANGED <<images, taken, stored, pairing, loading, upload, desktop>>

Waiting == {i \in DOMAIN items : items[i] = "pending"}
NextDrainCandidate == CHOOSE i \in Waiting : \A j \in Waiting : i <= j

Tick(p) ==
    /\ p \in ticks
    /\ ticks' = ticks \ {p}
    /\ IF upload # Absent \/ Waiting = {} THEN UNCHANGED <<items, upload>>
       ELSE /\ items' = With("syncing", NextDrainCandidate)
            /\ upload' = [id |-> NextDrainCandidate, by |-> p, answer |-> "building"]
    /\ UNCHANGED <<images, taken, screen, stored, pairing, loading, desktop>>

\* pinnedFetch: the request leaves only when the desktop shows the pinned certificate.
SendInvoiceViaIp ==
    /\ upload # Absent /\ up
    /\ upload.answer = "building"
    /\ IF codes[upload.by] = cert
       THEN /\ upload' = [upload EXCEPT !.answer = "sent"]
            /\ wire' = wire \cup {<<upload.id, upload.by>>}
       ELSE upload' = [upload EXCEPT !.answer = "mismatch"] /\ UNCHANGED wire
    /\ UNCHANGED <<items, images, taken, screen, stored, pairing, loading, ticks,
                   cert, codes, refused, up, seen, handed>>

\* The network fails or times out, whether or not the request arrived; or the
\* payload cannot be built, or the answer cannot be read.
UploadFails ==
    /\ upload # Absent
    /\ \/ upload.answer \in {"building", "sent"} /\ upload' = [upload EXCEPT !.answer = "failed"]
       \/ upload.answer \in {"building", "created", "duplicate"}
          /\ upload' = [upload EXCEPT !.answer = "threw"]
    /\ UNCHANGED <<items, images, taken, screen, stored, pairing, loading, ticks, desktop>>

Outcome(answer) ==
    CASE answer \in {"created", "duplicate"} -> "synced"
      [] answer = "failed" -> "pending"
      [] answer = "threw" -> "syncing"
      [] OTHER -> "rejected"

\* The finally block schedules the next tick of the same render.
RescheduledOnFailure(by, answer) == IF answer = "failed" THEN ticks \cup {by} ELSE ticks
Rescheduled(by, answer) == ticks \cup {by}

Settle ==
    /\ upload # Absent /\ upload.answer \in Final
    /\ items' = With(Outcome(upload.answer), upload.id)
    /\ IF upload.answer = "mismatch"
       THEN stored' = Absent /\ pairing' = Absent
       ELSE UNCHANGED <<stored, pairing>>
    /\ ticks' = Rescheduled(upload.by, upload.answer)
    /\ upload' = Absent
    /\ UNCHANGED <<images, taken, screen, loading, desktop>>

-----------------------------------------------------------------------------
LoadPairing ==
    /\ loading
    /\ loading' = FALSE
    /\ pairing' = stored
    /\ ticks' = Woken(stored)
    /\ UNCHANGED <<items, images, taken, screen, stored, upload, desktop>>

\* The code is scanned: the health check passes only on the pinned certificate.
Pair(p) ==
    /\ screen = "home" /\ ~loading /\ up
    /\ p \in DOMAIN codes /\ codes[p] = cert
    /\ stored' = p /\ pairing' = p
    /\ ticks' = IF p = pairing THEN ticks ELSE Woken(p)
    /\ UNCHANGED <<items, images, taken, screen, loading, upload, desktop>>

Unpair ==
    /\ screen = "home" /\ pairing # Absent
    /\ stored' = Absent /\ pairing' = Absent
    /\ UNCHANGED <<items, images, taken, screen, loading, ticks, upload, desktop>>

ClearRejected ==
    LET gone == {i \in DOMAIN items : items[i] = "rejected"} IN
    /\ screen = "home" /\ gone # {}
    /\ items' = Keeping(DOMAIN items \ gone)
    /\ images' = images \ gone
    /\ ticks' = Woken(pairing)
    /\ UNCHANGED <<taken, screen, stored, pairing, loading, upload, desktop>>

\* The images reconcileOrphanImages leaves alone.
ReferencedWaiting(ids) == ids \cap Waiting
Referenced(ids) == ids

\* Mutant: a capture that stays syncing is purged as well.
PurgeableStuck(i) == items[i] \in {"synced", "syncing"}
Purgeable(i) == items[i] = "synced"

\* The purge removes the synced captures taken before a moment, then files no
\* item names; a file just made, as the one being read, is too fresh.
Purge(before) ==
    LET gone  == {i \in DOMAIN items : Purgeable(i) /\ i < before}
        kept  == DOMAIN items \ gone
        fresh == IF screen = "processing" THEN {taken} ELSE {}
    IN /\ items' = Keeping(kept)
       /\ \E orphans \in {{}, images \ (Referenced(kept) \cup fresh)} :
             /\ gone \cup orphans # {}
             /\ images' = (images \ gone) \ orphans
       /\ ticks' = IF gone = {} THEN ticks ELSE Woken(pairing)
       /\ UNCHANGED <<taken, screen, stored, pairing, loading, upload, desktop>>

\* The app is closed or killed and opened again: the queue and the secure store stay.
RestartPhone ==
    /\ pairing' = Absent /\ loading' = TRUE /\ screen' = "home"
    /\ ticks' = {} /\ upload' = Absent
    /\ UNCHANGED <<items, images, taken, stored, desktop>>

-----------------------------------------------------------------------------
\* pair:issue; the code shown pins the current certificate.
Issue ==
    /\ up /\ Len(codes) < MaxPairings
    /\ codes' = Append(codes, cert)
    /\ UNCHANGED <<phone, wire, cert, refused, up, seen, handed>>

\* Bound: what changes on the desktop's side.
Changes == Cardinality(refused) + cert - 1

\* pair:revoke, or the token's thirty days are over.
Revoke(p) ==
    /\ p \in DOMAIN codes \ refused /\ Changes < MaxChanges
    /\ refused' = refused \cup {p}
    /\ UNCHANGED <<phone, wire, cert, codes, up, seen, handed>>

\* pair:rotateCert: open connections are dropped; the port may not open again.
\* Bound: the first certificate is kept until a code pins it.
RotateCert(listens) ==
    /\ up /\ Changes < MaxChanges /\ codes # <<>>
    /\ cert' = cert + 1
    /\ up' = listens
    /\ wire' = {}
    /\ UNCHANGED <<phone, codes, refused, seen, handed>>

RestartDesktop ==
    /\ up' = TRUE /\ wire' = {} /\ seen' = <<>>
    /\ handed' = [c \in Captures |-> 0]
    /\ UNCHANGED <<phone, cert, codes, refused>>

\* Mutant: the id is not recorded.
NotRecorded(id) == seen
RecordSeen(id) == Append(IF Len(seen) >= Capacity THEN Tail(seen) ELSE seen, id)

\* A request that the phone still waits for is answered; any other answer is dropped.
Answered(id, p, kind) ==
    IF upload # Absent /\ upload.id = id /\ upload.by = p /\ upload.answer = "sent"
    THEN upload' = [upload EXCEPT !.answer = kind] ELSE UNCHANGED upload

Unauthorized(id, p) ==
    /\ p \in refused
    /\ Answered(id, p, "unauthorized")
    /\ UNCHANGED <<seen, handed>>

InvalidPayload(id, p) ==
    /\ p \notin refused
    /\ Answered(id, p, "client")
    /\ UNCHANGED <<seen, handed>>

Duplicate(id, p) ==
    /\ p \notin refused /\ \E k \in DOMAIN seen : seen[k] = id
    /\ Answered(id, p, "duplicate")
    /\ UNCHANGED <<seen, handed>>

\* The id is recorded before the window is told: when the window is gone the
\* answer is a failure, and the next attempt is a duplicate.
ReceiveMobileInvoice(id, p, window) ==
    /\ p \notin refused /\ \A k \in DOMAIN seen : seen[k] # id
    /\ seen' = RecordSeen(id)
    /\ handed' = IF window THEN [handed EXCEPT ![id] = @ + 1] ELSE handed
    /\ Answered(id, p, IF window THEN "created" ELSE "failed")

HandleInvoices(id, p) ==
    /\ <<id, p>> \in wire /\ up
    /\ wire' = wire \ {<<id, p>>}
    /\ \/ Unauthorized(id, p) \/ InvalidPayload(id, p) \/ Duplicate(id, p)
       \/ \E window \in BOOLEAN : ReceiveMobileInvoice(id, p, window)
    /\ UNCHANGED <<items, images, taken, screen, stored, pairing, loading, ticks,
                   cert, codes, refused, up>>

MobileNext ==
    \/ OpenCapture \/ Shutter \/ EnqueueCapture \/ SendInvoiceViaIp \/ UploadFails \/ Settle
    \/ LoadPairing \/ Unpair \/ ClearRejected \/ RestartPhone
    \/ Issue \/ RestartDesktop
    \/ \E before \in 1 .. taken + 1 : Purge(before)
    \/ \E listens \in BOOLEAN : RotateCert(listens)
    \/ \E p \in Pairings : Tick(p) \/ Pair(p) \/ Revoke(p)
    \/ \E id \in Captures, p \in Pairings : HandleInvoices(id, p)

MobileSpec == MobileInit /\ [][MobileNext]_mobileVars

-----------------------------------------------------------------------------
(* While a desktop is paired, a capture that waits has an upload in flight or  *)
(* an attempt scheduled: no wake-up of the drain loop is lost between the      *)
(* timer chain, the effects, a restart and a new pairing.                      *)
PendingIsDriven == pairing # Absent /\ Waiting # {} => ticks # {} \/ upload # Absent

(* Every capture in the queue still has its image, so an upload can be built:  *)
(* neither purge takes the file of a capture that is still waiting.            *)
QueueKeepsImages == DOMAIN items \subseteq images

(* However often the phone repeats an upload whose answer was lost, one run of *)
(* the desktop hands a capture to its window once.                             *)
HandedOverOnce == \A c \in Captures : handed[c] <= 1
=============================================================================
