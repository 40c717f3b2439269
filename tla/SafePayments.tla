----------------------------- MODULE SafePayments -----------------------------
(***************************************************************************)
(* Payments from a Safe on an EVM chain: the form that builds a SafeTx,    *)
(* the page that collects the owners' approvals, executes the SafeTx and   *)
(* watches the receipt, the store they share, and the accounting of what   *)
(* was confirmed.  Every step of the page awaits a wallet, a node or a     *)
(* verification; leaving the page and opening it again forgets that it is  *)
(* busy, so any of these calls run at the same time.                       *)
(*                                                                         *)
(* The digest of a SafeTx is the SafeTx.  A receipt is final, as it is for *)
(* the code, which reads the depth of the block and does not use it.       *)
(***************************************************************************)
EXTENDS Naturals, Sequences, FiniteSets

CONSTANTS
  Payments,   \* ids of pending transactions
  Spends,     \* recipient, value and accounting line of a payment
  Owners,     \* owners of the Safe when the treasury was imported
  Threshold,  \* its threshold at that time
  MaxSafeNonce,   \* bound: nonces of the Safe
  MaxOuter,   \* bound: outer transactions
  MaxSafeCalls,   \* bound: calls of the page in flight
  NoPayment   \* no record

SafeTx == [spend : Spends, nonce : 0 .. MaxSafeNonce]

\* An approval: who it claims to be from, who signed, and what was signed.
Approval == [owner : Owners, by : Owners, tx : SafeTx]

SafeState == {"awaiting_signature", "ready_to_broadcast", "confirming",
              "posting", "posted", "post_failed", "failed"}

PendingTx == [tx : SafeTx, state : SafeState, outer : 0 .. MaxOuter]

ASSUME ThresholdAssumption == IsFiniteSet(Owners) /\ Threshold \in 1 .. Cardinality(Owners)
ASSUME SafeBoundsAssumption == MaxSafeNonce \in Nat /\ MaxOuter \in Nat
ASSUME NoPaymentAssumption == NoPayment \notin PendingTx

VARIABLES
  pending,     \* the store of pending transactions
  signatures,  \* the signatures of each of them
  safecalls,   \* the calls of the page in flight
  posts,       \* the post in flight of each payment: none, asked, booked
  changed,     \* the Safe's owners are not those of the treasury any more
  nonce,       \* the nonce of the Safe
  outers,      \* outer transactions, in the order they were sent
  safebooks    \* payments the backend has a record of

safevars == <<pending, signatures, safecalls, posts, changed, nonce,
              outers, safebooks>>
chain == <<changed, nonce, outers>>

\* build: the SafeTx is built, not yet added.  sign: the wallet is asked.
\* record: the signature is being verified.  execute, checked, sent: executeSafePayment.
SafeCall ==
  [kind : {"build"}, id : Payments, tx : SafeTx]
    \union [kind : {"sign"}, id : Payments, owner : Owners, tx : SafeTx]
    \union [kind : {"record"}, id : Payments, approval : Approval]
    \union [kind : {"execute", "checked"}, id : Payments, tx : SafeTx]
    \union [kind : {"sent"}, id : Payments, outer : 1 .. MaxOuter]

Added == {p \in Payments : pending[p] # NoPayment}
Open == {p \in Added : pending[p].state \in {"awaiting_signature", "ready_to_broadcast"}}

SafeTypeOK ==
  /\ pending \in [Payments -> PendingTx \union {NoPayment}]
  /\ signatures \in [Payments -> Seq(Approval)]
  /\ safecalls \subseteq SafeCall
  /\ posts \in [Payments -> {"none", "asked", "booked"}]
  /\ changed \in BOOLEAN
  /\ nonce \in 0 .. MaxSafeNonce + 1
  /\ outers \in Seq([tx : SafeTx, status : {"pending", "success", "reverted"}])
  /\ Len(outers) <= MaxOuter
  /\ safebooks \subseteq Payments

SafeInit ==
  /\ pending = [p \in Payments |-> NoPayment]
  /\ signatures = [p \in Payments |-> <<>>]
  /\ safecalls = {}
  /\ posts = [p \in Payments |-> "none"]
  /\ changed = FALSE /\ nonce = 0 /\ outers = <<>> /\ safebooks = {}

-----------------------------------------------------------------------------
Starts(c) ==
  /\ Cardinality(safecalls) < MaxSafeCalls
  /\ safecalls' = safecalls \union {c}

Becomes(c, d) == safecalls' = (safecalls \ {c}) \union {d}

Ends(c) == safecalls' = safecalls \ {c}

(* CreateSafePayment                                                       *)

\* handleCreate up to buildNativeSafePayment, which takes the Safe's nonce.
BuildSafeTx(p, spend) ==
  /\ p \notin Added /\ \A c \in safecalls : c.id # p
  /\ nonce <= MaxSafeNonce
  /\ Starts([kind |-> "build", id |-> p, tx |-> [spend |-> spend, nonce |-> nonce]])
  /\ UNCHANGED <<pending, signatures, posts, chain, safebooks>>

AddTransaction(c) ==
  /\ c.kind = "build"
  /\ pending' = [pending EXCEPT ![c.id] =
                   [tx |-> c.tx, state |-> "awaiting_signature", outer |-> 0]]
  /\ Ends(c)
  /\ UNCHANGED <<signatures, posts, chain, safebooks>>

-----------------------------------------------------------------------------
(* Approvals                                                               *)

\* The wallet of the browser or of the WalletConnect session is asked to sign;
\* only the latter looks at the owners of the Safe first.
RequestSignature(p, owner) ==
  /\ p \in Added /\ pending[p].state = "awaiting_signature"
  /\ Starts([kind |-> "sign", id |-> p, owner |-> owner, tx |-> pending[p].tx])
  /\ UNCHANGED <<pending, signatures, posts, chain, safebooks>>

\* The account that signs may be another one by now; verifySafeOwnerSignature
\* recovers it.
Recovers(approval, tx) == approval.tx = tx /\ approval.by = approval.owner

WalletSigns(c, by) ==
  /\ c.kind = "sign"
  /\ LET approval == [owner |-> c.owner, by |-> by, tx |-> c.tx]
     IN  /\ Recovers(approval, c.tx)
         /\ IF c.id \in Open
            THEN Becomes(c, [kind |-> "record", id |-> c.id, approval |-> approval])
            ELSE Ends(c)
  /\ UNCHANGED <<pending, signatures, posts, chain, safebooks>>

\* handleImportApproval: a file from another instance, for whatever SafeTx.
ImportApproval(p, approval) ==
  /\ p \in Added /\ pending[p].state = "awaiting_signature"
  /\ Recovers(approval, pending[p].tx)
  /\ Starts([kind |-> "record", id |-> p, approval |-> approval])
  /\ UNCHANGED <<pending, signatures, posts, chain, safebooks>>

HasSigned(p, owner) == \E i \in DOMAIN signatures[p] : signatures[p][i].owner = owner

\* recordEvmSignature without its second look at the transaction.
AppendSignature(c) ==
  /\ c.kind = "record" /\ c.id \in Open
  /\ signatures' = [signatures EXCEPT ![c.id] = Append(@, c.approval)]
  /\ pending' = [pending EXCEPT ![c.id].state =
                   IF Len(signatures'[c.id]) >= Threshold THEN "ready_to_broadcast"
                   ELSE "awaiting_signature"]
  /\ Ends(c)
  /\ UNCHANGED <<posts, chain, safebooks>>

\* recordEvmSignature after the await of the verification.
RecordEvmSignature(c) ==
  /\ c.kind = "record"
  /\ IF c.id \in Open /\ ~HasSigned(c.id, c.approval.owner)
     THEN /\ signatures' = [signatures EXCEPT ![c.id] = Append(@, c.approval)]
          /\ pending' = [pending EXCEPT ![c.id].state =
                           IF Len(signatures'[c.id]) >= Threshold THEN "ready_to_broadcast"
                           ELSE "awaiting_signature"]
     ELSE UNCHANGED <<pending, signatures>>
  /\ Ends(c)
  /\ UNCHANGED <<posts, chain, safebooks>>

-----------------------------------------------------------------------------
(* handleExecute                                                           *)

Execute(p) ==
  /\ p \in Added /\ pending[p].state = "ready_to_broadcast"
  /\ \A i \in DOMAIN signatures[p] : Recovers(signatures[p][i], pending[p].tx)
  /\ Starts([kind |-> "execute", id |-> p, tx |-> pending[p].tx])
  /\ UNCHANGED <<pending, signatures, posts, chain, safebooks>>

\* The owners and the threshold of the Safe are read again.
ExecuteChecks(c) ==
  /\ c.kind = "execute" /\ ~changed
  /\ Becomes(c, [c EXCEPT !.kind = "checked"])
  /\ UNCHANGED <<pending, signatures, posts, chain, safebooks>>

WalletSubmits(c) ==
  /\ c.kind = "checked" /\ Len(outers) < MaxOuter
  /\ outers' = Append(outers, [tx |-> c.tx, status |-> "pending"])
  /\ Becomes(c, [kind |-> "sent", id |-> c.id, outer |-> Len(outers')])
  /\ UNCHANGED <<pending, signatures, posts, changed, nonce, safebooks>>

\* markBroadcasted and markConfirming; the former throws for a payment that
\* has been executed meanwhile.
ExecuteReturns(c) ==
  /\ c.kind = "sent"
  /\ pending' = IF pending[c.id].state = "ready_to_broadcast"
                THEN [pending EXCEPT ![c.id].state = "confirming", ![c.id].outer = c.outer]
                ELSE pending
  /\ Ends(c)
  /\ UNCHANGED <<signatures, posts, chain, safebooks>>

\* An error, a refusal of the wallet, or an answer that is lost.
SafeCallFails(c) ==
  /\ Ends(c)
  /\ UNCHANGED <<pending, signatures, posts, chain, safebooks>>

-----------------------------------------------------------------------------
(* Confirmation and accounting                                             *)

\* Any receipt at all.
ReceiptSeen(p) ==
  /\ pending[p].state = "confirming"
  /\ outers[pending[p].outer].status # "pending"
  /\ pending' = [pending EXCEPT ![p].state = "posting"]
  /\ posts' = [posts EXCEPT ![p] = "asked"]
  /\ UNCHANGED <<signatures, safecalls, chain, safebooks>>

\* Without syncConfirmedSafePaymentsToAccounting: the payment stays confirmed.
ReceiptUnsynced(p) ==
  /\ pending[p].state = "confirming"
  /\ outers[pending[p].outer].status = "success"
  /\ pending' = [pending EXCEPT ![p].state = "confirmed"]
  /\ UNCHANGED <<signatures, safecalls, posts, chain, safebooks>>

\* The poll of the page finds the receipt of the hash on record.  The store
\* calls syncConfirmedSafePaymentsToAccounting, which posts at once.
ReadReceipt(p) ==
  /\ pending[p].state = "confirming"
  /\ LET status == outers[pending[p].outer].status
     IN  \/ /\ status = "success"
            /\ pending' = [pending EXCEPT ![p].state = "posting"]
            /\ posts' = [posts EXCEPT ![p] = "asked"]
         \/ /\ status = "reverted"
            /\ pending' = [pending EXCEPT ![p].state = "failed"]
            /\ UNCHANGED posts
  /\ UNCHANGED <<signatures, safecalls, chain, safebooks>>

\* "Retry accounting".
RetrySafePost(p) ==
  /\ pending[p].state = "post_failed" /\ posts[p] = "none"
  /\ pending' = [pending EXCEPT ![p].state = "posting"]
  /\ posts' = [posts EXCEPT ![p] = "asked"]
  /\ UNCHANGED <<signatures, safecalls, chain, safebooks>>

\* The backend has one record for a SafeTx.
Refused(p) == \E q \in safebooks \ {p} : pending[q].tx = pending[p].tx

SafeBooked(p) ==
  /\ posts[p] = "asked" /\ ~Refused(p)
  /\ safebooks' = safebooks \union {p}
  /\ posts' = [posts EXCEPT ![p] = "booked"]
  /\ UNCHANGED <<pending, signatures, safecalls, chain>>

SafePostEnds(p, state) ==
  /\ posts[p] # "none"
  /\ state = "posted" => posts[p] = "booked"
  /\ pending' = [pending EXCEPT ![p].state = state]
  /\ posts' = [posts EXCEPT ![p] = "none"]
  /\ UNCHANGED <<signatures, safecalls, chain, safebooks>>

-----------------------------------------------------------------------------
(* The chain and the app                                                   *)

\* An outer transaction succeeds when the nonce is still that of its SafeTx and
\* its signers still are enough.
Mine(k) ==
  /\ outers[k].status = "pending"
  /\ \/ /\ outers[k].tx.nonce = nonce
        /\ outers' = [outers EXCEPT ![k].status = "success"]
        /\ nonce' = nonce + 1
     \/ /\ outers[k].tx.nonce # nonce \/ changed
        /\ outers' = [outers EXCEPT ![k].status = "reverted"]
        /\ UNCHANGED nonce
  /\ UNCHANGED <<pending, signatures, safecalls, posts, changed, safebooks>>

\* Another instance executes the next transaction of the Safe, perhaps one of these.
ExecutedElsewhere ==
  /\ nonce <= MaxSafeNonce
  /\ nonce' = nonce + 1
  /\ UNCHANGED <<pending, signatures, safecalls, posts, changed, outers, safebooks>>

OwnersChange ==
  /\ ~changed
  /\ changed' = TRUE
  /\ UNCHANGED <<pending, signatures, safecalls, posts, nonce, outers, safebooks>>

\* recoverInterruptedPostings.
SafeRestarts ==
  /\ pending' = [p \in Payments |->
                   IF p \in Added /\ pending[p].state = "posting"
                   THEN [pending[p] EXCEPT !.state = "post_failed"] ELSE pending[p]]
  /\ safecalls' = {}
  /\ posts' = [p \in Payments |-> "none"]
  /\ UNCHANGED <<signatures, chain, safebooks>>

SafeNext ==
  \/ \E p \in Payments, spend \in Spends : BuildSafeTx(p, spend)
  \/ \E c \in safecalls :
       \/ AddTransaction(c) \/ \E by \in Owners : WalletSigns(c, by)
       \/ RecordEvmSignature(c)
       \/ ExecuteChecks(c) \/ WalletSubmits(c) \/ ExecuteReturns(c)
       \/ SafeCallFails(c)
  \/ \E p \in Payments, owner \in Owners : RequestSignature(p, owner)
  \/ \E p \in Payments, approval \in Approval : ImportApproval(p, approval)
  \/ \E p \in Added : \/ Execute(p) \/ ReadReceipt(p) \/ RetrySafePost(p)
                      \/ SafeBooked(p)
                      \/ \E state \in {"posted", "post_failed"} : SafePostEnds(p, state)
  \/ \E k \in 1 .. Len(outers) : Mine(k)
  \/ ExecutedElsewhere \/ OwnersChange \/ SafeRestarts

SafeSpec == SafeInit /\ [][SafeNext]_safevars

-----------------------------------------------------------------------------
(* Properties                                                              *)

\* The approvals of a payment are genuine, from as many owners as there are
\* approvals, and a payment is ready exactly when there are enough of them:
\* although each is verified across an await, while others are recorded and
\* the wallet changes its account (recordEvmSignature).
ApprovalsAreGenuine ==
  \A p \in Added :
    /\ \A i, j \in DOMAIN signatures[p] :
         signatures[p][i].owner = signatures[p][j].owner => i = j
    /\ \A i \in DOMAIN signatures[p] : Recovers(signatures[p][i], pending[p].tx)
    /\ pending[p].state = "awaiting_signature" <=> Len(signatures[p]) < Threshold

\* Only a payment whose SafeTx was executed by the transaction on record is
\* accounted for, and no two payments by one nonce of the Safe: although
\* several executions of one payment, and of payments that share a nonce, are
\* on their way at once (handleExecute, the poll of the receipt, runPostSafePayment).
BookedWasExecuted ==
  LET accounted == {p \in Added : \/ pending[p].state \in {"posting", "posted", "post_failed"}
                                  \/ p \in safebooks \/ posts[p] # "none"}
  IN  /\ \A p \in accounted : LET k == pending[p].outer
                              IN  k > 0 /\ outers[k].status = "success" /\ outers[k].tx = pending[p].tx
      /\ \A p, q \in accounted : pending[p].tx.nonce = pending[q].tx.nonce => p = q
      /\ \A p \in Added : pending[p].state = "posted" => p \in safebooks
=============================================================================
