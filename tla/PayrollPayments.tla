--------------------------- MODULE PayrollPayments ---------------------------
(***************************************************************************)
(* One payroll payment from build to accounting, as the desktop renderer   *)
(* runs it: the payroll-batches store, the payment panel (PayPanel with    *)
(* useAutoBroadcast and the countdown), the batch list with its transition *)
(* buttons, signatures delivered by the comm channel, asynchronous         *)
(* broadcasts, asynchronous accounting posts, and restarts of the app.     *)
(*                                                                         *)
(* JavaScript handlers run to completion between awaits, so a handler is   *)
(* one action up to its first await and another one from there.            *)
(***************************************************************************)
EXTENDS PayrollBatches

CONSTANTS
  MaxBatches,   \* bound: batches ever created
  MaxSends,     \* bound: broadcasts in flight at once
  MaxPosts,     \* bound: accounting posts in flight for one batch
  ManualMoves,      \* the transition buttons of the batch list the operator uses
  TypedSignatures,  \* what the operator may type or paste into a signature row
  CommSignatures    \* the signatures co-signers send over the comm channel

ASSUME BoundsAssumption ==
  MaxBatches \in Nat /\ MaxSends \in Nat /\ MaxPosts \in Nat
ASSUME InputsAssumption ==
  /\ ManualMoves \subseteq Edges
  /\ TypedSignatures \subseteq SigValue
  /\ CommSignatures \subseteq Envelope

\* Ids are random; naming them in creation order loses nothing, and the
\* store's find() returns the smallest match.
BatchId == 1..MaxBatches
NoBatch == 0
Blank == -1

Row == [slot : Slot, sig : SigValue \union {Blank}]
Rows == [1..M -> Row]

VARIABLES
  batch,      \* the persisted list: [BatchId -> Batch]
  made,       \* ids handed out
  incoming,   \* the incoming-sigs buffer, persisted: [Digest -> SUBSET Envelope]
  panel,      \* the mounted PayPanel, if any
  sends,      \* broadcasts in flight
  built,      \* digests of the transactions built so far, on any of the panels
  building,   \* a handleBuild awaiting the live cells, if any
  chain,      \* transactions the network has accepted
  posts       \* postBatchJournal calls awaiting the reply: [BatchId -> 0..MaxPosts]

vars == <<batch, made, incoming, panel, sends, built, building, chain, posts>>

Send == [ id   : 1..MaxSends,
          kind : {"manual", "auto"},
          b    : BatchId \union {NoBatch},
          d    : Digest,
          live : BOOLEAN,       \* the panel that started it is still mounted
          net  : {"pending", "accepted", "error"} ]

\* The slots are pre-filled 1..M, with no signature text.
BlankRows == [i \in 1..M |-> [slot |-> i, sig |-> Blank]]

FreshPanel ==
  [ open |-> TRUE, phase |-> "draft", active |-> NoBatch, digest |-> NoDigest,
    rows |-> BlankRows, busy |-> FALSE ]

NoPanel == [FreshPanel EXCEPT !.open = FALSE]

Panel ==
  [ open   : BOOLEAN,
    phase  : {"draft", "packet-ready", "broadcasted"},
    active : BatchId \union {NoBatch},
    digest : Digest \union {NoDigest},
    rows   : Rows,
    busy   : BOOLEAN ]

TypeOK ==
  /\ batch \in [BatchId -> Batch]
  /\ made \in 0..MaxBatches
  /\ incoming \in [Digest -> SUBSET Envelope]
  /\ panel \in Panel
  /\ sends \subseteq Send
  /\ built \subseteq Digest
  /\ building \in {"no", "live", "left"}
  /\ chain \subseteq Digest
  /\ posts \in [BatchId -> 0..MaxPosts]

Init ==
  /\ batch = [b \in BatchId |-> AbsentBatch]
  /\ made = 0
  /\ incoming = [d \in Digest |-> {}]
  /\ panel = NoPanel
  /\ sends = {}
  /\ built = {}
  /\ building = "no"
  /\ chain = {}
  /\ posts = [b \in BatchId |-> 0]

-----------------------------------------------------------------------------
(* The payment panel                                                       *)

\* A call number no broadcast in flight uses; none is free at the bound.
FreeIds == {n \in 1..MaxSends : \A s \in sends : s.id # n}

Started(kind, b, d) ==
  [ id |-> CHOOSE n \in FreeIds : TRUE, kind |-> kind, b |-> b, d |-> d,
    live |-> TRUE, net |-> "pending" ]

Active == panel.active
ActiveBatch == batch[panel.active]

\* activeBatch?.state for the render gates: "none" without an active batch.
ActiveState == IF Active = NoBatch THEN "none" ELSE ActiveBatch.state

\* SignaturePanel is rendered.
SignaturesShown ==
  /\ panel.open
  /\ panel.phase = "packet-ready"
  /\ ActiveState \notin {"broadcast_countdown", "broadcast_initiating"}

\* The stored entries find() returns for a slot: the first of the list.
Found(r, slot) ==
  {e \in r.sigs : /\ e.slot = slot
                  /\ \A f \in r.sigs : f.slot = slot => e.row <= f.row}

\* The rows after stored signatures were copied into those that name them.
Refilled(rows, r) ==
  [i \in 1..M |->
     [slot |-> rows[i].slot,
      sig  |-> IF Found(r, rows[i].slot) = {} THEN rows[i].sig
               ELSE (CHOOSE e \in Found(r, rows[i].slot) : TRUE).sig]]

\* The drain effect, which runs after activeBatchId is set.
DrainEffect(r, rows) ==
  LET r1 == DrainInto(r, incoming[r.digest])
  IN  [batch |-> r1,
       rows  |-> IF r1 = r THEN rows ELSE Refilled(rows, r1)]

\* Navigation to and from /payments mounts and unmounts the panel.
OpenPanel ==
  /\ ~panel.open
  /\ panel' = FreshPanel
  /\ UNCHANGED <<batch, made, incoming, sends, chain, posts, built, building>>

LeavePanel ==
  /\ panel.open
  /\ panel' = NoPanel
  /\ sends' = {[s EXCEPT !.live = FALSE] : s \in sends}
  /\ building' = IF building = "no" THEN "no" ELSE "left"
  /\ UNCHANGED <<batch, made, incoming, chain, posts, built>>

\* "Send another", or a treasury switch: lifecycle.reset keeps `busy`.
ResetPanel ==
  /\ panel.open
  /\ panel.phase # "draft"
  /\ panel' = [FreshPanel EXCEPT !.busy = panel.busy]
  /\ UNCHANGED <<batch, made, incoming, sends, chain, posts, built, building>>

(***************************************************************************)
(* handleBuild up to its await of the live cells, and from there.  The     *)
(* await may fail.  When the panel was left meanwhile, its state is gone   *)
(* but the store is still written.  Bound: one build awaits at a time.     *)
(***************************************************************************)
StartBuild ==
  /\ panel.open /\ panel.phase = "draft" /\ ~panel.busy
  /\ building = "no"
  /\ building' = "live"
  /\ panel' = [panel EXCEPT !.busy = TRUE]
  /\ UNCHANGED <<batch, made, incoming, sends, chain, posts, built>>

BuildFails ==
  /\ building # "no"
  /\ building' = "no"
  /\ panel' = IF building = "live" THEN [panel EXCEPT !.busy = FALSE] ELSE panel
  /\ UNCHANGED <<batch, made, incoming, sends, chain, posts, built>>

NewBatch(d) == [AbsentBatch EXCEPT !.state = "calculated", !.digest = d]

\* Rows that name payees make a batch, which the mounted panel then drains.
BuildBatch(d) ==
  /\ building # "no"
  /\ made < MaxBatches
  /\ LET drained == DrainEffect(NewBatch(d), BlankRows)
     IN  IF building = "live"
         THEN /\ batch' = [batch EXCEPT ![made + 1] = drained.batch]
              /\ incoming' = [incoming EXCEPT ![d] = {}]
              /\ panel' = [panel EXCEPT !.phase = "packet-ready",
                                        !.active = made + 1,
                                        !.digest = d,
                                        !.rows = drained.rows,
                                        !.busy = FALSE]
         ELSE /\ batch' = [batch EXCEPT ![made + 1] = NewBatch(d)]
              /\ UNCHANGED <<incoming, panel>>
  /\ made' = made + 1
  /\ built' = built \union {d}
  /\ building' = "no"
  /\ UNCHANGED <<sends, chain, posts>>

\* A one-off payment has no batch; its packet lives in the panel alone.
BuildOneOff(d) ==
  /\ building = "live"
  /\ panel' = [panel EXCEPT !.phase = "packet-ready", !.digest = d,
                            !.rows = BlankRows, !.busy = FALSE]
  /\ built' = built \union {d}
  /\ building' = "no"
  /\ UNCHANGED <<batch, made, incoming, sends, chain, posts>>

\* updateSigs: the rows replace whatever the batch had stored.
TypedEntries(rows) ==
  {[slot |-> rows[i].slot, sig |-> rows[i].sig, row |-> i] :
     i \in {j \in 1..M : rows[j].sig # Blank}}

UpdateSigs(rows) ==
  /\ panel' = [panel EXCEPT !.rows = rows]
  /\ batch' = IF Active = NoBatch THEN batch
              ELSE [batch EXCEPT ![Active].sigs = TypedEntries(rows)]
  /\ UNCHANGED <<made, incoming, sends, chain, posts, built, building>>

ChooseSlot(i, s) ==
  /\ SignaturesShown
  /\ s # panel.rows[i].slot
  /\ UpdateSigs([panel.rows EXCEPT ![i].slot = s])

EnterSignature(i, v) ==
  /\ SignaturesShown
  /\ v # panel.rows[i].sig
  /\ UpdateSigs([panel.rows EXCEPT ![i].sig = v])

\* handleBroadcast up to the await: approve if legal, then merge and send.
StartBroadcast ==
  /\ SignaturesShown
  /\ ~panel.busy
  /\ \A i \in 1..M : panel.rows[i].sig # Blank
  /\ batch' = IF Active # NoBatch /\ canTransition(ActiveState, "approved")
              THEN [batch EXCEPT ![Active].state = "approved"]
              ELSE batch
  /\ IF Mergeable(TypedEntries(panel.rows))
     THEN /\ FreeIds # {}
          /\ panel' = [panel EXCEPT !.busy = TRUE]
          /\ sends' = sends \union {Started("manual", Active, panel.digest)}
     ELSE UNCHANGED <<panel, sends>>
  /\ UNCHANGED <<made, incoming, chain, posts, built, building>>

\* The auto-broadcast toggle, shown while the batch is approved.
ToggleAuto ==
  /\ panel.open /\ ActiveState = "approved"
  /\ batch' = [batch EXCEPT ![Active].auto = ~@]
  /\ UNCHANGED <<made, incoming, panel, sends, chain, posts, built, building>>

CancelCountdown ==
  /\ panel.open /\ ActiveState = "broadcast_countdown"
  /\ batch' = [batch EXCEPT ![Active] = cancelAutoBroadcast(@)]
  /\ UNCHANGED <<made, incoming, panel, sends, chain, posts, built, building>>

RetryBroadcast ==
  /\ panel.open /\ ActiveState = "broadcast_failed"
  /\ batch' = [batch EXCEPT ![Active] = retryAutoBroadcast(@)]
  /\ UNCHANGED <<made, incoming, panel, sends, chain, posts, built, building>>

(***************************************************************************)
(* The countdown elapses (useAutoBroadcast up to its await).  Without a    *)
(* broadcast RPC URL, without stored signatures, or when the stored        *)
(* entries do not merge, the batch lands in broadcast_failed; a batch that *)
(* cannot be claimed is left alone.                                        *)
(***************************************************************************)
CountdownElapses(rpcUrlSet) ==
  /\ panel.open /\ ActiveState = "broadcast_countdown"
  /\ LET r == ActiveBatch
         sendable == rpcUrlSet /\ r.digest # NoDigest /\ r.sigs # {}
         claimed == sendable /\ Claims(r)
         merges == claimed /\ Mergeable(r.sigs)
     IN  /\ merges => FreeIds # {}
         /\ batch' = [batch EXCEPT ![Active] =
                        IF ~sendable THEN markBroadcastFailed(r)
                        ELSE IF claimed /\ ~merges
                          THEN markBroadcastFailed(markBroadcastInitiating(r))
                        ELSE markBroadcastInitiating(r)]
         /\ sends' = IF merges
                     THEN sends \union {Started("auto", Active, r.digest)}
                     ELSE sends
  /\ UNCHANGED <<made, incoming, panel, chain, posts, built, building>>

-----------------------------------------------------------------------------
(* Broadcasts in flight.  A node accepts a transaction once; an error may  *)
(* be a rejection, an unreachable node, or a reply lost after acceptance.  *)

Become(s, net) == (sends \ {s}) \union {[s EXCEPT !.net = net]}

NodeAccepts(s) ==
  /\ s.net = "pending"
  /\ sends' = Become(s, "accepted")
  /\ chain' = chain \union {s.d}
  /\ UNCHANGED <<batch, made, incoming, panel, posts, built, building>>

CallFails(s) ==
  /\ s.net \in {"pending", "accepted"}
  /\ sends' = Become(s, "error")
  /\ UNCHANGED <<batch, made, incoming, panel, chain, posts, built, building>>

\* The instance that started the send, if still mounted, sees the result.
PanelAfter(s) ==
  IF ~s.live THEN panel
  ELSE [panel EXCEPT !.phase = IF s.net = "accepted" THEN "broadcasted" ELSE @,
                     !.busy = IF s.kind = "manual" THEN FALSE ELSE @]

ManualReplyUnchecked(s) ==
  /\ s.kind = "manual" /\ s.net # "pending"
  /\ batch' = IF s.b # NoBatch /\ canTransition(batch[s.b].state, "broadcasted")
              THEN [batch EXCEPT ![s.b] = RecordBroadcast(@, s.d)]
              ELSE batch
  /\ sends' = sends \ {s}
  /\ panel' = PanelAfter(s)
  /\ UNCHANGED <<made, incoming, chain, posts, built, building>>

ManualReplyToActive(s) ==
  /\ s.kind = "manual" /\ s.net # "pending"
  /\ batch' = IF /\ s.net = "accepted" /\ Active # NoBatch
                 /\ canTransition(ActiveState, "broadcasted")
              THEN [batch EXCEPT ![Active] = RecordBroadcast(@, s.d)]
              ELSE batch
  /\ sends' = sends \ {s}
  /\ panel' = PanelAfter(s)
  /\ UNCHANGED <<made, incoming, chain, posts, built, building>>

\* handleBroadcast after the await: an illegal transition is swallowed.
ManualSendReturns(s) ==
  /\ s.kind = "manual" /\ s.net # "pending"
  /\ batch' = IF /\ s.net = "accepted" /\ s.b # NoBatch
                 /\ canTransition(batch[s.b].state, "broadcasted")
              THEN [batch EXCEPT ![s.b] = RecordBroadcast(@, s.d)]
              ELSE batch
  /\ sends' = sends \ {s}
  /\ panel' = PanelAfter(s)
  /\ UNCHANGED <<made, incoming, chain, posts, built, building>>

\* useAutoBroadcast after the await: an illegal transition is a failure too.
AutoSendReturns(s) ==
  /\ s.kind = "auto" /\ s.net # "pending"
  /\ batch' = [batch EXCEPT ![s.b] =
                 IF s.net = "accepted" /\ canTransition(@.state, "broadcasted")
                 THEN RecordBroadcast(@, s.d)
                 ELSE markBroadcastFailed(@)]
  /\ sends' = sends \ {s}
  /\ panel' = PanelAfter(s)
  /\ UNCHANGED <<made, incoming, chain, posts, built, building>>

-----------------------------------------------------------------------------
(* The batch list (shown while the panel is not) and accounting            *)

CreateDraft ==
  /\ ~panel.open
  /\ made < MaxBatches
  /\ made' = made + 1
  /\ batch' = [batch EXCEPT ![made + 1] = MoveTo(AbsentBatch, "draft")]
  /\ UNCHANGED <<incoming, panel, sends, chain, posts, built, building>>

PostableWithoutHash(r) == r.digest # NoDigest

(***************************************************************************)
(* postBatchJournal up to the await, for a batch that is confirmed or      *)
(* post_failed: building the record throws without a pendingTxId or        *)
(* without payment lines, and the failure is recorded at once.             *)
(***************************************************************************)
Postable(r) == r.txid # NoDigest /\ r.digest # NoDigest

PostBatchJournal(b, r) ==
  IF Postable(r)
  THEN /\ posts[b] < MaxPosts
       /\ batch' = [batch EXCEPT ![b] = MoveTo(r, "posting")]
       /\ posts' = [posts EXCEPT ![b] = @ + 1]
  ELSE /\ batch' = [batch EXCEPT ![b] = MoveTo(r, "post_failed")]
       /\ UNCHANGED posts

\* A transition button.  Reaching confirmed wakes the accounting reactor,
\* which posts before the store update returns.
PressTransition(b, to) ==
  /\ ~panel.open
  /\ <<batch[b].state, to>> \in ManualMoves
  /\ canTransition(batch[b].state, to)
  /\ IF to = "confirmed"
     THEN PostBatchJournal(b, MoveTo(batch[b], "confirmed"))
     ELSE /\ batch' = [batch EXCEPT ![b] = MoveTo(@, to)]
          /\ UNCHANGED posts
  /\ UNCHANGED <<made, incoming, panel, sends, chain, built, building>>

RetryPost(b) ==
  /\ ~panel.open
  /\ batch[b].state = "post_failed"
  /\ PostBatchJournal(b, batch[b])
  /\ UNCHANGED <<made, incoming, panel, sends, chain, built, building>>

(***************************************************************************)
(* postBatchJournal after the await.  markPosted and markPostFailed assert *)
(* the transition; when both assertions fail the promise rejects.  A batch *)
(* that was deleted meanwhile is silently skipped.                         *)
(***************************************************************************)
PostReturns(b, ok) ==
  /\ posts[b] > 0
  /\ posts' = [posts EXCEPT ![b] = @ - 1]
  /\ batch' = IF batch[b].state = "posting"
              THEN [batch EXCEPT ![b] = MoveTo(@, IF ok THEN "posted" ELSE "post_failed")]
              ELSE batch
  /\ UNCHANGED <<made, incoming, panel, sends, chain, built, building>>

RemoveBatch(b) ==
  /\ ~panel.open
  /\ batch[b].state \in terminalStates
  /\ batch' = [batch EXCEPT ![b] = AbsentBatch]
  /\ UNCHANGED <<made, incoming, panel, sends, chain, posts, built, building>>

\* Resume: select the batch, navigate, and let the panel hydrate from it.
ResumeBatch(b) ==
  /\ ~panel.open
  /\ batch[b].digest # NoDigest
  /\ batch[b].state \in {"calculated", "approved"}
  /\ LET drained == DrainEffect(batch[b], Refilled(BlankRows, batch[b]))
     IN  /\ batch' = [batch EXCEPT ![b] = drained.batch]
         /\ panel' = [FreshPanel EXCEPT !.phase = "packet-ready", !.active = b,
                                        !.digest = batch[b].digest,
                                        !.rows = drained.rows]
  /\ incoming' = [incoming EXCEPT ![batch[b].digest] = {}]
  /\ UNCHANGED <<made, sends, chain, posts, built, building>>

-----------------------------------------------------------------------------
(* The comm channel and the application                                    *)

\* findBatchByDigest: the first batch of the list that holds the digest.
Holders(d) == {b \in BatchId : batch[b].digest = d}
FirstHolder(d) == {b \in Holders(d) : \A c \in Holders(d) : b <= c}

(***************************************************************************)
(* A signature notification reaches the App handler: it is buffered, and   *)
(* the first batch with that digest, in whatever state, drains the buffer. *)
(* A co-signer signs a transaction that was built here, now or before.      *)
(***************************************************************************)
DeliverSignature(d, e) ==
  LET buffer == incoming[d] \union {e}
  IN  /\ d \in built
      /\ IF FirstHolder(d) = {}
         THEN /\ incoming' = [incoming EXCEPT ![d] = buffer]
              /\ UNCHANGED batch
         ELSE /\ incoming' = [incoming EXCEPT ![d] = {}]
              /\ \E b \in FirstHolder(d) :
                   batch' = [batch EXCEPT ![b] = DrainInto(@, buffer)]
      /\ UNCHANGED <<made, panel, sends, chain, posts, built, building>>

\* The app quits or crashes and starts again: what is not persisted is lost,
\* the watcher dispatches every live notification cell again.
Restart ==
  /\ batch' = [b \in BatchId |-> recoverInterruptedPostings(batch[b])]
  /\ panel' = NoPanel
  /\ sends' = {}
  /\ posts' = [b \in BatchId |-> 0]
  /\ building' = "no"
  /\ UNCHANGED <<made, incoming, chain, built>>

-----------------------------------------------------------------------------
PanelStep ==
  \/ OpenPanel \/ LeavePanel \/ ResetPanel
  \/ StartBuild \/ BuildFails
  \/ \E d \in Digest : BuildBatch(d) \/ BuildOneOff(d)
  \/ \E i \in 1..M : \/ \E s \in Slot : ChooseSlot(i, s)
                     \/ \E v \in TypedSignatures \union {Blank} : EnterSignature(i, v)
  \/ StartBroadcast
  \/ ToggleAuto \/ CancelCountdown \/ RetryBroadcast
  \/ \E rpcUrlSet \in BOOLEAN : CountdownElapses(rpcUrlSet)

NetworkStep ==
  \E s \in sends : \/ NodeAccepts(s) \/ CallFails(s)
                   \/ ManualSendReturns(s) \/ AutoSendReturns(s)

ListStep ==
  \/ CreateDraft
  \/ \E b \in BatchId : \/ \E to \in BatchState : PressTransition(b, to)
                        \/ RetryPost(b) \/ RemoveBatch(b) \/ ResumeBatch(b)
                        \/ \E ok \in BOOLEAN : PostReturns(b, ok)

CommStep ==
  \E d \in Digest, e \in CommSignatures : DeliverSignature(d, e)

Next == PanelStep \/ NetworkStep \/ ListStep \/ CommStep \/ Restart

Spec == Init /\ [][Next]_vars

\* The accounting host answers or gives up after its timeout.
PostFairness == \A b \in BatchId : WF_vars(\E ok \in BOOLEAN : PostReturns(b, ok))

FairSpec == Spec /\ PostFairness

-----------------------------------------------------------------------------
(* Properties                                                              *)

\* The hash stored in pendingTxId belongs to the very transaction whose
\* digest the co-signers signed, and the network accepted that transaction:
\* whatever panel, countdown or other batch the reply of a broadcast finds
\* when it comes back (handleBroadcast and useAutoBroadcast after the await).
RecordedTxIsAccepted ==
  \A b \in BatchId :
    batch[b].txid # NoDigest =>
      batch[b].txid = batch[b].digest /\ batch[b].txid \in chain

\* Accounting is only ever asked to book a payment the network accepted,
\* whichever buttons of the batch list were pressed before
\* (batch-to-journal-inputs.ts demands pendingTxId).
PostsAreForAcceptedPayments ==
  \A b \in BatchId :
    posts[b] > 0 /\ batch[b].state # "absent" =>
      batch[b].txid = batch[b].digest /\ batch[b].txid \in chain

\* Ids that were not handed out name no batch and no post.
UnusedIdsAreFresh ==
  \A b \in BatchId :
    /\ b > made => batch[b].state = "absent" /\ posts[b] = 0
    /\ batch[b].state = "absent" => batch[b] = AbsentBatch

\* The panel works on the transaction its batch has frozen.
PanelMatchesBatch ==
  /\ panel.phase = "draft" \/ building = "live" => panel.active = NoBatch
  /\ building = "live" => panel.open
  /\ panel.phase = "packet-ready" => panel.digest \in Digest
  /\ panel.active # NoBatch =>
       /\ panel.open
       /\ panel.active <= made
       /\ ActiveBatch.state # "absent"
       /\ ActiveBatch.digest = panel.digest

\* A broadcast in flight carries the frozen transaction of the batch it was
\* started for, unless that batch was deleted meanwhile, and it counts as
\* accepted only when the network has its transaction.
SendsMatchBatches ==
  \A s \in sends :
    /\ s.net = "accepted" => s.d \in chain
    /\ s.kind = "auto" => s.b # NoBatch
    /\ s.b # NoBatch => /\ s.b <= made
                        /\ batch[s.b].state = "absent" \/ batch[s.b].digest = s.d

\* The inductive invariant behind RecordedTxIsAccepted and
\* PostsAreForAcceptedPayments: from the packet in the panel, over the
\* broadcast in flight, to the recorded hash and the accounting post, it is
\* one and the same transaction (handleBroadcast, useAutoBroadcast).
OneTransactionThroughout ==
  /\ TypeOK
  /\ UnusedIdsAreFresh
  /\ PanelMatchesBatch
  /\ SendsMatchBatches
  /\ RecordedTxIsAccepted
  /\ PostsAreForAcceptedPayments

\* Signatures collected over the comm channel alone always merge: when M of
\* them are stored and the operator has typed none, the automatic broadcast
\* cannot fail at mergeSignatures (existingSlots and the recovery check of
\* drainIncomingSigsInto).
CommCollectionMerges ==
  \A b \in BatchId :
    LET sigs == batch[b].sigs
    IN  Cardinality(sigs) = M /\ (\A e \in sigs : e.row = 0) => Mergeable(sigs)

\* A move of one batch that the table allows, or one of the moves that go
\* around the table: creation, deletion, the accounting steps taken in one
\* synchronous turn, and the recovery of an interrupted post at start-up.
MoveInTable(from, to) ==
  \/ to = from
  \/ canTransition(from, to)
  \/ from = "absent" /\ to \in {"draft", "calculated", "approved"}
  \/ from \in terminalStates /\ to = "absent"
  \/ from = "broadcasted" /\ to \in {"posting", "post_failed"}

\* Only the automatic broadcast of the drain can take a batch along a move
\* that the table of the state machine does not list; a batch whose toggle
\* is off obeys the table under every interleaving of panel, list, comm
\* channel and replies, and so never leaves a terminal state.
OnlyAutoBroadcastLeavesTable ==
  [][\A b \in BatchId :
       \/ MoveInTable(batch[b].state, batch'[b].state)
       \/ batch[b].auto /\ batch'[b].state = "broadcast_countdown"]_vars

\* A post that accounting was asked for is resolved: no batch shows
\* "Posting to accounting" for ever, whether the reply arrives, the host times
\* out, or the app restarts in between (recoverInterruptedPostings).
PostingAlwaysResolves ==
  \A b \in BatchId : batch[b].state = "posting" ~> batch[b].state # "posting"

\* "posted/cancelled/failed are terminal": a batch in a terminal state stays
\* there until it is deleted.
TerminalIsFinal ==
  [][\A b \in BatchId : batch[b].state \in terminalStates =>
       batch'[b].state \in {batch[b].state, "absent"}]_vars

\* "Persist sig collection incrementally so closing the window mid-collection
\* doesn't lose work": a signature merged from the comm channel leaves the
\* batch only when the batch is broadcast or deleted, or when the row that
\* shows it is edited.
CommSignatureKept ==
  [][\A b \in BatchId : \A e \in batch[b].sigs \ batch'[b].sigs :
       \/ e.row # 0
       \/ batch'[b].state \in {"broadcasted", "absent"}
       \/ /\ panel.active = b
          /\ \E i \in 1..M : /\ panel.rows[i].slot = e.slot
                             /\ panel.rows[i].sig = e.sig]_vars
=============================================================================
