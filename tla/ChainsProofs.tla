----------------------------- MODULE ChainsProofs -----------------------------
(***************************************************************************)
(* Theorems about the components that pay on, or watch, the chains the     *)
(* application supports, and about the invoices and the wallet beside      *)
(* them, for every value of their constants.                               *)
(***************************************************************************)
EXTENDS MCChains, FiniteSetTheorems, SequenceTheorems, WellFoundedInduction, TLAPS

-----------------------------------------------------------------------------
(* Keyvault                                                                *)
KeyvaultInvariant == KeyvaultTypeOK /\ WordsWereDisplayed /\ SignsForItsSources

LEMMA KeyvaultInitInvariant ==
  ASSUME KeyvaultInit
  PROVE  KeyvaultInvariant
BY KeyvaultAssumption
   DEF KeyvaultInit, KeyvaultInvariant, KeyvaultTypeOK, WordsWereDisplayed, SignsForItsSources,
       NoSetup, Unlimited

LEMMA KeyvaultStepInvariant ==
  ASSUME KeyvaultInvariant, [KeyvaultNext]_kvvars
  PROVE  KeyvaultInvariant'
<1> USE KeyvaultAssumption DEF KeyvaultInvariant, KeyvaultTypeOK, WordsWereDisplayed,
                               SignsForItsSources, NoSetup, Unlimited, Vault
<1>1. CASE Create
  BY <1>1 DEF Create, SetupAllowed
<1>2. CASE CreateEnds
  BY <1>2 DEF CreateEnds
<1>3. CASE Import
  BY <1>3 DEF Import, SetupAllowed
<1>4. CASE ImportEnds
  BY <1>4 DEF ImportEnds
<1>5. CASE WrongPassword
  <2>1. limiter' \in [failures : 0 .. MaxAttempts + 1, locked : BOOLEAN]
    BY <1>5 DEF WrongPassword, Miss
  <2> QED BY <1>5, <2>1 DEF WrongPassword
<1>6. CASE WindowEnds
  BY <1>6 DEF WindowEnds
<1>7. CASE SignTx
  BY <1>7 DEF SignTx, Tried, Owns
<1>8. CASE Export
  BY <1>8 DEF Export, Tried
<1>9. CASE ExportEnds
  BY <1>9 DEF ExportEnds
<1>10. CASE ChangePassword
  BY <1>10 DEF ChangePassword, Tried
<1>11. CASE Delete
  BY <1>11 DEF Delete
<1>12. CASE UseAsSource
  BY <1>12 DEF UseAsSource
<1>13. CASE AddSource
  BY <1>13 DEF AddSource
<1>14. CASE RemoveSource
  BY <1>14 DEF RemoveSource
<1>15. CASE RestartKeyvault
  BY <1>15 DEF RestartKeyvault
<1>16. CASE UNCHANGED kvvars
  BY <1>16 DEF kvvars
<1> QED
  BY <1>1, <1>2, <1>3, <1>4, <1>5, <1>6, <1>7, <1>8, <1>9, <1>10, <1>11, <1>12, <1>13,
     <1>14, <1>15, <1>16 DEF KeyvaultNext

\* The words of every seed that money may be sent to have been before the
\* operator, and the vault signs for its own address only, whatever was
\* created, imported, deleted or interrupted (keyvault-host.ts).
THEOREM VaultBackedUp == KeyvaultSpec => []VaultIsBackedUp
<1>1. KeyvaultInvariant => VaultIsBackedUp
  BY DEF KeyvaultInvariant, VaultIsBackedUp
<1> QED BY <1>1, KeyvaultInitInvariant, KeyvaultStepInvariant, PTL DEF KeyvaultSpec

-----------------------------------------------------------------------------
(* SolanaWatch                                                             *)
SolWatchInvariant == SolWatchTypeOK /\ RegressionsAreShown

LEMMA SolWatchInitInvariant ==
  ASSUME SolWatchInit
  PROVE  SolWatchInvariant
BY DEF SolWatchInit, SolWatchInvariant, SolWatchTypeOK, RegressionsAreShown, None, States, Shown

LEMMA SolWatchStepInvariant ==
  ASSUME SolWatchInvariant, [SolWatchNext]_solwatchvars
  PROVE  SolWatchInvariant'
<1> USE DEF SolWatchInvariant, SolWatchTypeOK, RegressionsAreShown, States, Shown
<1>1. ASSUME NEW seen \in SUBSET Sigs, SolScanReads(seen)
      PROVE  SolWatchInvariant'
  BY <1>1 DEF SolScanReads
<1>2. ASSUME NEW truncated \in BOOLEAN, CommitSync(truncated)
      PROVE  SolWatchInvariant'
  <2>1. lost' = solwatch'.rollbacks /\ lost' \subseteq Sigs
    BY <1>2 DEF CommitSync, DetectRollbacks
  <2> QED BY <1>2, <2>1 DEF CommitSync
<1>3. CASE SolScanFails
  BY <1>3 DEF SolScanFails
<1>4. ASSUME NEW s \in Sigs, CheckStatusReads(s)
      PROVE  SolWatchInvariant'
  BY <1>4 DEF CheckStatusReads
<1>5. ASSUME NEW s \in Sigs, NEW state \in Shown, UpdateTransactionStatus(s, state)
      PROVE  SolWatchInvariant'
  BY <1>5 DEF UpdateTransactionStatus
<1>6. ASSUME NEW s \in Sigs, NEW state \in Shown, SolanaMoves(s, state)
      PROVE  SolWatchInvariant'
  BY <1>6 DEF SolanaMoves
<1>7. CASE SolWatchRestarts
  BY <1>7 DEF SolWatchRestarts
<1>8. CASE UNCHANGED solwatchvars
  BY <1>8 DEF solwatchvars
<1> QED BY <1>1, <1>2, <1>3, <1>4, <1>5, <1>6, <1>7, <1>8 DEF SolWatchNext

\* No regression on display is missing from the warning, whichever of the
\* scan and the status checks saw it and in whatever order they answered.
THEOREM NoRegressionIsSilent == SolWatchSpec => []RegressionsAreShown
<1>1. SolWatchInvariant => RegressionsAreShown
  BY DEF SolWatchInvariant
<1> QED BY <1>1, SolWatchInitInvariant, SolWatchStepInvariant, PTL DEF SolWatchSpec

-----------------------------------------------------------------------------
(* BitcoinWatch                                                            *)
LEMMA LeastNatural ==
  ASSUME NEW T, T \subseteq Nat, T # {}
  PROVE  \E x \in T : \A y \in T : x <= y
<1>1. PICK x \in T : \A y \in T : ~(<<y, x>> \in OpToRel(<, Nat))
  BY Zenon, WFMin, NatLessThanWellFounded
<1>2. \A y \in T : ~(y < x)
  BY Zenon, <1>1 DEF OpToRel
<1> QED BY <1>2

\* The last used address is the greatest of a set with an upper bound.
LEMMA MaxIsGreatest ==
  ASSUME NEW n \in Nat, NEW S, S \subseteq 0 .. n, S # {}
  PROVE  Max(S) \in S /\ \A y \in S : Max(S) >= y
<1> DEFINE T == {n - y : y \in S}
<1>1. T \subseteq Nat /\ T # {}
  <2>1. \A y \in S : n - y \in Nat
    OBVIOUS
  <2>2. PICK y \in S : TRUE
    OBVIOUS
  <2> QED BY <2>1, <2>2
<1>2. PICK x \in T : \A y \in T : x <= y
  BY <1>1, LeastNatural
<1>3. PICK z \in S : x = n - z
  OBVIOUS
<1>4. \A y \in S : n - y \in T
  OBVIOUS
<1> HIDE DEF T
<1>5. \A y \in S : z >= y
  BY <1>2, <1>3, <1>4
<1> QED BY <1>5 DEF Max

LEMMA MaxOfTwo ==
  ASSUME NEW i \in Int, NEW j \in Int
  PROVE  Max({i, j}) \in {i, j} /\ Max({i, j}) >= i /\ Max({i, j}) >= j
<1>1. \E x \in {i, j} : \A y \in {i, j} : x >= y
  OBVIOUS
<1> QED BY <1>1 DEF Max

LEMMA LimitIsNatural ==
  ASSUME NEW r, r.scannedThrough \in Int, r.lastUsed \in Int
  PROVE  Limit(r) \in Nat
<1> DEFINE S == {r.scannedThrough, r.lastUsed + GapLimit, GapLimit - 1}
<1>1. \E x \in S : \A y \in S : x >= y
  BY GapLimitAssumption
<1>2. Max(S) \in S /\ Max(S) >= GapLimit - 1
  BY <1>1 DEF Max
<1> QED BY <1>2, GapLimitAssumption DEF Limit

LEMMA ReconciledIs ==
  ASSUME BtcWatchTypeOK, NEW r \in BtcRecord, NEW to \in Index
  PROVE  LET d == Reconciled(r, to)
         IN  /\ d \in BtcRecord
             /\ \A i \in used \intersect (0 .. to) : i <= d.lastUsed
             /\ d.lastUsed >= 0 => d.lastUsed \in used \intersect (0 .. to)
             /\ d.unused = d.scannedThrough - d.lastUsed
<1> DEFINE hit == used \intersect (0 .. to)
           last == IF hit = {} THEN -1 ELSE Max(hit)
           d == Reconciled(r, to)
<1>1. to \in Nat /\ hit \subseteq 0 .. to /\ hit \subseteq Index
  BY DEF Index, BtcWatchTypeOK
<1>2. last \in Index \union {-1} /\ last <= to /\ (\A i \in hit : i <= last)
      /\ (last >= 0 => last \in hit)
  <2>1. CASE hit = {}
    BY <2>1, <1>1
  <2>2. CASE hit # {}
    <3> HIDE DEF hit
    <3>1. Max(hit) \in hit /\ \A y \in hit : Max(hit) >= y
      BY <1>1, <2>2, MaxIsGreatest
    <3>2. last = Max(hit)
      BY <2>2
    <3> HIDE DEF last
    <3>3. hit # {} /\ last \in 0 .. to
      BY <3>1, <3>2, <1>1, <2>2
    <3> QED BY <3>1, <3>2, <3>3, <1>1
  <2> QED BY <2>1, <2>2
<1>3. d = [r EXCEPT !.lastUsed = last, !.scannedThrough = to, !.unused = to - last]
  BY DEF Reconciled
<1> HIDE DEF hit, last, d
<1>4. to - last \in 0 .. MaxDerived
  BY <1>2, GapLimitAssumption DEF Index
<1>5. d \in BtcRecord /\ d.lastUsed = last /\ d.scannedThrough = to /\ d.unused = to - last
  BY <1>2, <1>3, <1>4 DEF BtcRecord
<1> QED BY <1>2, <1>5 DEF hit, d

\* While a scan is in flight its record is not ready: the next one is started
\* by the pass itself, and no other pass begins meanwhile.
ScanIsSyncing ==
  upper # NoScan /\ btcwatch # NoScan => btcwatch.status = "syncing"

BtcWatchInvariant == BtcWatchTypeOK /\ ScanIsSyncing /\ DiscoveryCovers

LEMMA BtcWatchInitInvariant ==
  ASSUME BtcWatchInit
  PROVE  BtcWatchInvariant
BY DEF BtcWatchInit, BtcWatchInvariant, BtcWatchTypeOK, ScanIsSyncing, DiscoveryCovers

LEMMA BtcWatchStepInvariant ==
  ASSUME BtcWatchInvariant, [BtcWatchNext]_btcwatchvars
  PROVE  BtcWatchInvariant'
<1> USE DEF BtcWatchInvariant
<1>1. CASE BtcSyncStarts
  <2> DEFINE r == IF btcwatch = NoScan THEN Initial ELSE btcwatch
  <2>1. r \in BtcRecord
    <3>1. 0 \in 0 .. MaxDerived
      BY GapLimitAssumption
    <3>2. -1 \in Index \union {-1} /\ NoScan \in (SUBSET Index) \union {NoScan}
      OBVIOUS
    <3>3. Initial \in BtcRecord
      BY Zenon, <3>1, <3>2 DEF BtcRecord, Initial
    <3> QED BY <3>3 DEF BtcWatchTypeOK
  <2>2. /\ btcwatch' = [r EXCEPT !.status = "syncing",
                                !.unused = IF r.status = "syncing" THEN @ ELSE 0]
        /\ upper' = Limit(r) /\ used' = used
    BY <1>1 DEF BtcSyncStarts
  <2> HIDE DEF r
  <2>3. btcwatch' \in BtcRecord /\ btcwatch'.status = "syncing"
    <3>1. 0 \in 0 .. MaxDerived
      BY GapLimitAssumption
    <3> QED BY <2>1, <2>2, <3>1 DEF BtcRecord
  <2>4. upper' \in Nat
    BY <2>1, <2>2, LimitIsNatural DEF BtcRecord, Index
  <2> QED BY <2>2, <2>3, <2>4 DEF BtcWatchTypeOK, ScanIsSyncing, DiscoveryCovers
<1>2. CASE BtcScanReturns
  <2> DEFINE r == Reconciled(btcwatch, upper)
  <2>1. btcwatch \in BtcRecord /\ upper \in Index /\ used' = used
    BY <1>2, GapLimitAssumption DEF BtcScanReturns, BtcWatchTypeOK, Index
  <2>2. /\ r \in BtcRecord
        /\ \A i \in used \intersect (0 .. upper) : i <= r.lastUsed
        /\ r.lastUsed >= 0 => r.lastUsed \in used \intersect (0 .. upper)
        /\ r.unused = r.scannedThrough - r.lastUsed
    BY <2>1, ReconciledIs
  <2>3. IF r.unused >= GapLimit /\ upper >= r.lastUsed + GapLimit
        THEN /\ btcwatch' = [r EXCEPT !.status = "ready", !.snapshot = used \intersect (0 .. upper)]
             /\ upper' = NoScan
        ELSE btcwatch' = r /\ upper' = Max({upper + 1, r.lastUsed + GapLimit})
    BY <1>2 DEF BtcScanReturns
  <2>4. r.status = btcwatch.status
    BY <2>1 DEF Reconciled, BtcRecord
  <2> HIDE DEF r
  <2>5. CASE r.unused >= GapLimit /\ upper >= r.lastUsed + GapLimit
    <3>1. used \intersect (0 .. upper) \in SUBSET Index
      BY DEF BtcWatchTypeOK
    <3>2. /\ btcwatch' \in BtcRecord
          /\ btcwatch'.snapshot = used \intersect (0 .. upper)
          /\ btcwatch'.lastUsed = r.lastUsed /\ btcwatch'.scannedThrough = r.scannedThrough
      BY <2>2, <2>3, <2>5, <3>1 DEF BtcRecord
    <3> QED BY <2>1, <2>2, <2>3, <2>5, <3>1, <3>2, GapLimitAssumption
            DEF BtcWatchTypeOK, ScanIsSyncing, DiscoveryCovers
  <2>6. CASE ~(r.unused >= GapLimit /\ upper >= r.lastUsed + GapLimit)
    <3>1. btcwatch' \in BtcRecord /\ btcwatch'.status = "syncing"
      BY <1>2, <2>1, <2>2, <2>3, <2>4, <2>6 DEF ScanIsSyncing, BtcScanReturns
    <3>2. upper' \in Nat
      <4>1. upper + 1 \in Nat /\ r.lastUsed + GapLimit \in Int
        BY <2>1, <2>2, GapLimitAssumption DEF Index, BtcRecord
      <4> QED BY <4>1, <2>3, <2>6, MaxOfTwo
    <3> QED BY <2>1, <3>1, <3>2 DEF BtcWatchTypeOK, ScanIsSyncing, DiscoveryCovers, ScanIsSyncing
  <2> QED BY <2>5, <2>6
<1>3. CASE BtcScanFails
  BY <1>3 DEF BtcScanFails, BtcWatchTypeOK, ScanIsSyncing, DiscoveryCovers, BtcRecord
<1>4. CASE RemoveBitcoinTreasury
  BY <1>4 DEF RemoveBitcoinTreasury, BtcWatchTypeOK, ScanIsSyncing, DiscoveryCovers
<1>5. ASSUME NEW i \in Index, ActivityChanges(i)
      PROVE  BtcWatchInvariant'
  BY <1>5 DEF ActivityChanges, BtcWatchTypeOK, ScanIsSyncing, DiscoveryCovers
<1>6. CASE BtcWatchRestarts
  BY <1>6 DEF BtcWatchRestarts, BtcWatchTypeOK, ScanIsSyncing, DiscoveryCovers
<1>7. CASE UNCHANGED btcwatchvars
  BY <1>7 DEF btcwatchvars, BtcWatchTypeOK, ScanIsSyncing, DiscoveryCovers
<1> QED BY <1>1, <1>2, <1>3, <1>4, <1>5, <1>6, <1>7 DEF BtcWatchNext

\* A discovery that is ready reached the end of the gap, for the snapshot it
\* offers addresses from, however it was interrupted (syncBitcoinWatch).
THEOREM DiscoveryReachesTheGap == BtcWatchSpec => []DiscoveryCovers
<1>1. BtcWatchInvariant => DiscoveryCovers
  BY DEF BtcWatchInvariant
<1> QED BY <1>1, BtcWatchInitInvariant, BtcWatchStepInvariant, PTL DEF BtcWatchSpec

-----------------------------------------------------------------------------
(***************************************************************************)
(* Invoices.  The review page and the selection only ever hold invoices    *)
(* that a batch does not pay yet, or that were rejected; an invoice names  *)
(* a batch exactly while it is queued or signed.                           *)
(***************************************************************************)
InvoiceRecord == [status : ApprovalStatus, extraction : {"running", "extracted", "failed"},
                  payable : BOOLEAN, batchId : {0} \cup BatchId]

WasPaid(b) == \/ batches[b].state = "removed"
              \/ /\ batches[b].tx
                 /\ batches[b].state \in {"confirmed", "posting", "posted", "post_failed"}

PagePart ==
  /\ page = "review" => /\ reviewed \in Invoice
                        /\ invoices[reviewed].status \in {"draft", "in-review", "rejected"}
  /\ \A i \in selectedIds \cup ticked : invoices[i].status \notin {"none", "draft"}

NamingPart ==
  \A i \in Invoice :
    /\ invoices[i].batchId # 0 <=> invoices[i].status \in {"queued-for-signing", "signed"}
    /\ invoices[i].batchId # 0 => batches[invoices[i].batchId].state # "none"
    /\ invoices[i].status \in {"none", "draft", "in-review"} => Paying(i) = {}

PaidPart ==
  /\ \A i \in Invoice : invoices[i].status = "signed" => WasPaid(invoices[i].batchId)
  /\ \A b \in BatchId, i \in Invoice :
       batches[b].state = "confirmed" /\ batches[b].tx /\ invoices[i].batchId = b
       => \E j \in Invoice : invoices[j].batchId = b /\ invoices[j].status = "signed"

InvoicesInvariant == InvoicesTypeOK /\ PagePart /\ NamingPart /\ PaidPart /\ PaidOnce

\* The sync signs queued invoices of paid batches and changes nothing else.
LEMMA SyncedIs ==
  ASSUME NEW invs \in [Invoice -> InvoiceRecord], NEW bs
  PROVE  /\ Synced(invs, bs) \in [Invoice -> InvoiceRecord]
         /\ \A i \in Invoice :
              \/ Synced(invs, bs)[i] = invs[i]
              \/ /\ Synced(invs, bs)[i] = [invs[i] EXCEPT !.status = "signed"]
                 /\ invs[i].status = "queued-for-signing"
                 /\ invs[i].batchId \in BatchId
                 /\ bs[invs[i].batchId].state = "confirmed" /\ bs[invs[i].batchId].tx
  BY DEF Synced, InvoiceRecord, ApprovalStatus

\* The fields the sync leaves, and the status it may change.
LEMMA SyncedKeeps ==
  ASSUME NEW invs \in [Invoice -> InvoiceRecord], NEW bs, NEW i \in Invoice
  PROVE  /\ Synced(invs, bs)[i].batchId = invs[i].batchId
         /\ \/ Synced(invs, bs)[i].status = invs[i].status
            \/ /\ invs[i].status = "queued-for-signing" /\ Synced(invs, bs)[i].status = "signed"
               /\ invs[i].batchId \in BatchId
               /\ bs[invs[i].batchId].state = "confirmed" /\ bs[invs[i].batchId].tx
<1>1. invs[i] \in InvoiceRecord
  OBVIOUS
<1>2. /\ [invs[i] EXCEPT !.status = "signed"].batchId = invs[i].batchId
      /\ [invs[i] EXCEPT !.status = "signed"].status = "signed"
  BY <1>1 DEF InvoiceRecord
<1>3. \/ Synced(invs, bs)[i] = invs[i]
      \/ /\ Synced(invs, bs)[i] = [invs[i] EXCEPT !.status = "signed"]
         /\ invs[i].status = "queued-for-signing"
         /\ invs[i].batchId \in BatchId
         /\ bs[invs[i].batchId].state = "confirmed" /\ bs[invs[i].batchId].tx
  BY SyncedIs
<1> QED BY <1>2, <1>3

\* The sync signs the first invoice of a batch that is confirmed.
LEMMA SyncedSigns ==
  ASSUME NEW invs \in [Invoice -> InvoiceRecord], NEW bs, NEW b \in BatchId,
         bs[b].state = "confirmed", bs[b].tx,
         \E i \in Invoice : invs[i].batchId = b,
         \A i \in Invoice : invs[i].batchId = b => invs[i].status \in {"queued-for-signing", "signed"}
  PROVE  \E i \in Invoice : Synced(invs, bs)[i].batchId = b /\ Synced(invs, bs)[i].status = "signed"
<1> DEFINE T == {i \in Invoice : invs[i].batchId = b}
<1>1. T \subseteq Nat /\ T # {}
  BY InvoicesAssumption DEF Invoice
<1>2. PICK i \in T : \A j \in T : i <= j
  BY <1>1, LeastNatural
<1>3. i \in Invoice /\ invs[i].batchId = b /\ \A j \in 1 .. i - 1 : invs[j].batchId # b
  BY <1>2, InvoicesAssumption DEF Invoice
<1>4. CASE invs[i].status = "signed"
  BY <1>3, <1>4, SyncedKeeps
<1>5. CASE invs[i].status = "queued-for-signing"
  <2>1. Synced(invs, bs)[i] = [invs[i] EXCEPT !.status = "signed"]
    BY <1>3, <1>5 DEF Synced
  <2> QED BY <2>1, <1>3 DEF InvoiceRecord
<1> QED BY <1>3, <1>4, <1>5

\* A step that syncs after a change of batches that adds no line to a batch and
\* does not undo a payment.
LEMMA SyncStep ==
  ASSUME InvoicesInvariant,
         invoices' = Synced(invoices, batches'),
         \A b \in BatchId : /\ batches'[b].invoiceIds \subseteq batches[b].invoiceIds
                            /\ batches[b].state # "none" => batches'[b].state # "none"
                            /\ WasPaid(b) => WasPaid(b)'
  PROVE  invoices' \in [Invoice -> InvoiceRecord] /\ NamingPart' /\ PaidPart' /\ PaidOnce'
         /\ \A i \in Invoice : \/ invoices'[i].status = invoices[i].status
                                \/ /\ invoices[i].status = "queued-for-signing"
                                   /\ invoices'[i].status = "signed"
<1>1. invoices \in [Invoice -> InvoiceRecord]
  BY DEF InvoicesInvariant, InvoicesTypeOK, InvoiceRecord
<1>2. invoices' \in [Invoice -> InvoiceRecord]
  BY <1>1, SyncedIs
<1>3. \A i \in Invoice :
        /\ invoices'[i].batchId = invoices[i].batchId
        /\ \/ invoices'[i].status = invoices[i].status
           \/ /\ invoices[i].status = "queued-for-signing" /\ invoices'[i].status = "signed"
              /\ invoices[i].batchId \in BatchId
              /\ batches'[invoices[i].batchId].state = "confirmed" /\ batches'[invoices[i].batchId].tx
  BY <1>1, SyncedKeeps
<1>4. \A i \in Invoice : Paying(i)' \subseteq Paying(i)
  BY DEF Paying
<1>5. \A i \in Invoice : invoices[i].batchId # 0 => invoices[i].batchId \in BatchId
  BY <1>1 DEF InvoiceRecord
<1>6. NamingPart'
  BY <1>3, <1>4, <1>5 DEF NamingPart, InvoicesInvariant
<1>7. PaidOnce'
  BY <1>3, <1>4 DEF PaidOnce, InvoicesInvariant, NamingPart
<1>8. PaidPart'
  <2>1. ASSUME NEW i \in Invoice, invoices'[i].status = "signed"
        PROVE  \E b \in BatchId : b = invoices'[i].batchId /\ WasPaid(b)'
    <3>1. invoices[i].batchId # 0
      BY <1>3, <2>1 DEF NamingPart, InvoicesInvariant
    <3>2. PICK b \in BatchId : b = invoices[i].batchId
      BY <3>1, <1>5
    <3>3. CASE invoices[i].status = "signed"
      <4>1. WasPaid(b)
        BY <3>2, <3>3 DEF PaidPart, InvoicesInvariant
      <4> QED BY <4>1, <3>2, <1>3
    <3>4. CASE invoices[i].status # "signed"
      BY <3>2, <3>4, <2>1, <1>3 DEF WasPaid
    <3> QED BY <3>3, <3>4
  <2>2. ASSUME NEW b \in BatchId, NEW i \in Invoice,
               batches'[b].state = "confirmed", batches'[b].tx, invoices'[i].batchId = b
        PROVE  \E j \in Invoice : invoices'[j].batchId = b /\ invoices'[j].status = "signed"
    <3>1. \A j \in Invoice : invoices[j].batchId = b =>
                              invoices[j].status \in {"queued-for-signing", "signed"}
      BY InvoicesAssumption DEF NamingPart, InvoicesInvariant, BatchId
    <3>2. invoices[i].batchId = b
      BY <1>3, <2>2
    <3> QED BY <1>1, <2>2, <3>1, <3>2, SyncedSigns
  <2> QED BY <2>1, <2>2 DEF PaidPart
<1> QED BY <1>2, <1>3, <1>6, <1>7, <1>8

\* A step that changes nothing an invoice is paid by: what a job extracts, the
\* pages, a draft that is looked at, an invoice in review that is rejected.
LEMMA DataStep ==
  ASSUME InvoicesInvariant, UNCHANGED batches, invoices' \in [Invoice -> InvoiceRecord],
         \A i \in Invoice :
           /\ invoices'[i].batchId = invoices[i].batchId
           /\ \/ invoices'[i].status = invoices[i].status
              \/ /\ invoices[i].status \in {"none", "draft", "in-review"}
                 /\ invoices'[i].status \in {"draft", "in-review", "rejected"}
  PROVE  NamingPart' /\ PaidPart' /\ PaidOnce'
<1>1. \A i \in Invoice : Paying(i)' = Paying(i)
  BY DEF Paying
<1>2. NamingPart' /\ PaidOnce'
  BY <1>1 DEF NamingPart, PaidOnce, InvoicesInvariant
<1>3. \A b : WasPaid(b)' <=> WasPaid(b)
  BY DEF WasPaid
<1>4. PaidPart'
  <2>1. \A i \in Invoice : invoices'[i].status = "signed" <=> invoices[i].status = "signed"
    OBVIOUS
  <2>2. ASSUME NEW i \in Invoice, invoices'[i].status = "signed"
        PROVE  \E b : b = invoices'[i].batchId /\ WasPaid(b)'
    <3>1. PICK b : b = invoices[i].batchId
      OBVIOUS
    <3>2. WasPaid(b)
      BY <3>1, <2>1, <2>2 DEF PaidPart, InvoicesInvariant
    <3> QED BY <3>1, <3>2 DEF WasPaid
  <2>3. ASSUME NEW b \in BatchId, NEW i \in Invoice,
               batches'[b].state = "confirmed", batches'[b].tx, invoices'[i].batchId = b
        PROVE  \E j \in Invoice : invoices'[j].batchId = b /\ invoices'[j].status = "signed"
    BY <2>1, <2>3 DEF PaidPart, InvoicesInvariant
  <2> QED BY <2>2, <2>3 DEF PaidPart
<1> QED BY <1>2, <1>4

LEMMA QueuedRecord ==
  ASSUME NEW v \in InvoiceRecord, NEW b \in BatchId
  PROVE  LET q == [v EXCEPT !.status = "queued-for-signing", !.batchId = b]
         IN  q \in InvoiceRecord /\ q.status = "queued-for-signing" /\ q.batchId = b
  BY DEF InvoiceRecord, ApprovalStatus

\* A batch is made of invoices in review, or of one that was rejected.
LEMMA BatchFirstStep ==
  ASSUME InvoicesInvariant, NEW S \in SUBSET Invoice, BatchFirst(S),
         \A i \in S : invoices[i].status \in {"in-review", "rejected"},
         AllQueued(S) \/ \A i \in S : invoices[i].status = "rejected"
  PROVE  /\ invoices' \in [Invoice -> InvoiceRecord] /\ NamingPart' /\ PaidPart' /\ PaidOnce'
         /\ \A i \in Invoice : \/ invoices'[i].status = invoices[i].status
                                \/ invoices'[i].status \in {"queued-for-signing", "signed"}
         /\ \A i \in Invoice : invoices[i].status = "rejected" => invoices'[i].status = "rejected"
         /\ batches' \in [BatchId -> [state : BatchState \cup {"none", "removed"},
                                       invoiceIds : SUBSET Invoice, tx : BOOLEAN]]
<1>1. PICK b \in BatchId :
        /\ batches[b].state = "none"
        /\ batches' = [batches EXCEPT ![b] = [state |-> "draft", invoiceIds |-> S, tx |-> FALSE]]
        /\ invoices' = MarkedQueued(Synced(invoices, batches'), S, b)
  BY DEF BatchFirst, SyncedOnChange
<1> DEFINE synced == Synced(invoices, batches')
<1>2. invoices \in [Invoice -> InvoiceRecord]
  BY DEF InvoicesInvariant, InvoicesTypeOK, InvoiceRecord
<1>3. batches' \in [BatchId -> [state : BatchState \cup {"none", "removed"},
                                invoiceIds : SUBSET Invoice, tx : BOOLEAN]]
      /\ batches'[b].state = "draft" /\ batches'[b].invoiceIds = S
      /\ \A c \in BatchId \ {b} : batches'[c] = batches[c]
  BY <1>1 DEF InvoicesInvariant, InvoicesTypeOK, BatchState
<1>4. synced \in [Invoice -> InvoiceRecord]
      /\ \A i \in Invoice :
           /\ synced[i].batchId = invoices[i].batchId
           /\ \/ synced[i].status = invoices[i].status
              \/ /\ invoices[i].status = "queued-for-signing" /\ synced[i].status = "signed"
                 /\ invoices[i].batchId \in BatchId
                 /\ batches'[invoices[i].batchId].state = "confirmed"
                 /\ batches'[invoices[i].batchId].tx
  BY <1>2, SyncedIs, SyncedKeeps
<1>5. \A i \in Invoice : invoices[i].batchId # 0 => invoices[i].batchId \in BatchId \ {b}
  BY <1>1, <1>2 DEF InvoicesInvariant, NamingPart, InvoiceRecord
<1>6. invoices' = MarkedQueued(synced, S, b)
  BY <1>1
<1> HIDE DEF synced
<1>7. \A i \in Invoice :
        \/ /\ invoices'[i] = synced[i]
           /\ i \in S => invoices[i].status = "rejected"
        \/ /\ i \in S /\ invoices[i].status = "in-review"
           /\ invoices'[i] = [synced[i] EXCEPT !.status = "queued-for-signing", !.batchId = b]
  <2>1. CASE \A i \in S : invoices[i].status = "in-review"
    <3>1. \A i \in S : canTransitionInvoice(synced[i].status, "queued-for-signing")
      BY <2>1, <1>4 DEF canTransitionInvoice, InvoiceEdges
    <3> QED BY <3>1, <2>1, <1>6 DEF MarkedQueued
  <2>2. CASE \A i \in S : invoices[i].status = "rejected"
    <3>1. \A i \in S : i \in Int /\ ~canTransitionInvoice(synced[i].status, "queued-for-signing")
      BY <2>2, <1>4, InvoicesAssumption DEF canTransitionInvoice, InvoiceEdges, Invoice
    <3>2. \A i \in S : i <= i
      BY <3>1
    <3>3. \A i \in S : ~\A j \in S : j <= i => canTransitionInvoice(synced[j].status, "queued-for-signing")
      BY Zenon, <3>1, <3>2
    <3> QED BY <3>3, <2>2, <1>6, <1>4 DEF MarkedQueued
  <2>3. (\A i \in S : invoices[i].status = "in-review") \/ \A i \in S : invoices[i].status = "rejected"
    BY DEF AllQueued, canTransitionInvoice, InvoiceEdges
  <2> QED BY <2>1, <2>2, <2>3
<1>8. invoices' \in [Invoice -> InvoiceRecord]
  <2>1. \A i \in Invoice : invoices'[i] \in InvoiceRecord
    <3> SUFFICES ASSUME NEW i \in Invoice
                 PROVE  invoices'[i] \in InvoiceRecord
      OBVIOUS
    <3>1. synced[i] \in InvoiceRecord
      BY <1>4
    <3>2. [synced[i] EXCEPT !.status = "queued-for-signing", !.batchId = b] \in InvoiceRecord
      BY <3>1, QueuedRecord
    <3> QED BY <3>1, <3>2, <1>7
  <2> QED BY <2>1, <1>6 DEF MarkedQueued
<1>9. \A i \in Invoice :
        \/ /\ invoices'[i] = synced[i]
           /\ i \in S => invoices[i].status = "rejected"
        \/ /\ i \in S /\ invoices[i].status = "in-review"
           /\ invoices'[i].status = "queued-for-signing" /\ invoices'[i].batchId = b
  <2> SUFFICES ASSUME NEW i \in Invoice,
                      i \in S /\ invoices[i].status = "in-review",
                      invoices'[i] = [synced[i] EXCEPT !.status = "queued-for-signing", !.batchId = b]
               PROVE  invoices'[i].status = "queued-for-signing" /\ invoices'[i].batchId = b
    BY <1>7
  <2>1. synced[i] \in InvoiceRecord
    BY <1>4
  <2> DEFINE q == [synced[i] EXCEPT !.status = "queued-for-signing", !.batchId = b]
  <2>2. q.status = "queued-for-signing" /\ q.batchId = b
    BY <2>1, QueuedRecord
  <2> QED BY <2>2
<1>10. \A i \in Invoice : Paying(i)' \subseteq Paying(i) \cup {b} /\ (i \notin S => Paying(i)' \subseteq Paying(i))
  BY <1>3 DEF Paying
<1>11. NamingPart'
  <2> SUFFICES ASSUME NEW i \in Invoice
               PROVE  /\ invoices'[i].batchId # 0 <=> invoices'[i].status \in {"queued-for-signing", "signed"}
                      /\ invoices'[i].batchId # 0 => batches'[invoices'[i].batchId].state # "none"
                      /\ invoices'[i].status \in {"none", "draft", "in-review"} => Paying(i)' = {}
    BY DEF NamingPart
  <2>1. CASE invoices'[i] = synced[i] /\ (i \in S => invoices[i].status = "rejected")
    BY <2>1, <1>3, <1>4, <1>5, <1>10 DEF NamingPart, InvoicesInvariant
  <2>2. CASE invoices'[i].status = "queued-for-signing" /\ invoices'[i].batchId = b
    BY <2>2, <1>3, InvoicesAssumption DEF BatchId
  <2> QED BY <1>9, <2>1, <2>2
<1>12. PaidOnce'
  <2> SUFFICES ASSUME NEW i \in Invoice, invoices'[i].status \in {"queued-for-signing", "signed"}
               PROVE  Paying(i)' \subseteq {invoices'[i].batchId}
    BY DEF PaidOnce
  <2>1. CASE invoices'[i] = synced[i] /\ (i \in S => invoices[i].status = "rejected")
    BY <2>1, <1>4, <1>10 DEF PaidOnce, InvoicesInvariant
  <2>2. CASE invoices[i].status = "in-review" /\ invoices'[i].batchId = b
    BY <2>2, <1>10 DEF NamingPart, InvoicesInvariant
  <2> QED BY <1>9, <2>1, <2>2
<1>13. ASSUME NEW i \in Invoice, invoices'[i].status = "signed"
       PROVE  \E c \in BatchId : c = invoices'[i].batchId /\ WasPaid(c)'
  <2>1. invoices'[i] = synced[i] /\ synced[i].batchId = invoices[i].batchId
        /\ invoices[i].status \in {"queued-for-signing", "signed"}
    BY <1>4, <1>9, <1>13
  <2>2. PICK c \in BatchId \ {b} : c = invoices[i].batchId
    BY <2>1, <1>5 DEF NamingPart, InvoicesInvariant
  <2>3. CASE invoices[i].status = "signed"
    <3>1. WasPaid(c)
      BY <2>2, <2>3 DEF PaidPart, InvoicesInvariant
    <3> QED BY <3>1, <2>1, <2>2, <1>3 DEF WasPaid
  <2>4. CASE invoices[i].status # "signed"
    BY <2>1, <2>2, <2>4, <1>4, <1>13 DEF WasPaid
  <2> QED BY <2>3, <2>4
<1>14. ASSUME NEW c \in BatchId, NEW i \in Invoice,
              batches'[c].state = "confirmed", batches'[c].tx, invoices'[i].batchId = c
       PROVE  \E j \in Invoice : invoices'[j].batchId = c /\ invoices'[j].status = "signed"
  <2>1. c # b /\ invoices[i].batchId = c
    BY <1>3, <1>4, <1>9, <1>14
  <2>2. \A j \in Invoice : invoices[j].batchId = c =>
                            invoices[j].status \in {"queued-for-signing", "signed"}
    BY InvoicesAssumption DEF NamingPart, InvoicesInvariant, BatchId
  <2>3. PICK j \in Invoice : synced[j].batchId = c /\ synced[j].status = "signed"
    BY <1>2, <1>14, <2>1, <2>2, SyncedSigns DEF synced
  <2>4. invoices'[j] = synced[j]
    BY <2>3, <1>4, <1>9
  <2> QED BY <2>3, <2>4
<1>15. PaidPart'
  BY <1>13, <1>14 DEF PaidPart
<1>16. \A i \in Invoice : \/ invoices'[i].status = invoices[i].status
                           \/ invoices'[i].status \in {"queued-for-signing", "signed"}
  BY <1>4, <1>9
<1>17. \A i \in Invoice : invoices[i].status = "rejected" => invoices'[i].status = "rejected"
  BY <1>4, <1>9
<1> QED BY <1>3, <1>8, <1>11, <1>12, <1>15, <1>16, <1>17

LEMMA InvoicesInitInvariant ==
  ASSUME InvoicesInit
  PROVE  InvoicesInvariant
<1> USE DEF InvoicesInit
<1>1. InvoicesTypeOK
  BY DEF InvoicesTypeOK, ApprovalStatus, BatchId
<1>2. PagePart /\ NamingPart /\ PaidPart /\ PaidOnce
  BY InvoicesAssumption DEF PagePart, NamingPart, PaidPart, PaidOnce, Paying, Invoice, BatchId
<1> QED BY <1>1, <1>2 DEF InvoicesInvariant

LEMMA BatchesStep ==
  ASSUME InvoicesInvariant,
         invoices' = Synced(invoices, batches'),
         batches' \in [BatchId -> [state : BatchState \cup {"none", "removed"},
                                  invoiceIds : SUBSET Invoice, tx : BOOLEAN]],
         UNCHANGED <<jobs, page, reviewed, selectedIds, ticked>>,
         \A b \in BatchId : /\ batches'[b].invoiceIds \subseteq batches[b].invoiceIds
                            /\ batches[b].state # "none" => batches'[b].state # "none"
                            /\ WasPaid(b) => WasPaid(b)'
  PROVE  InvoicesInvariant'
<1>1. invoices' \in [Invoice -> InvoiceRecord] /\ NamingPart' /\ PaidPart' /\ PaidOnce'
      /\ \A i \in Invoice : \/ invoices'[i].status = invoices[i].status
                             \/ /\ invoices[i].status = "queued-for-signing"
                                /\ invoices'[i].status = "signed"
  BY SyncStep
<1> QED BY <1>1 DEF InvoicesInvariant, InvoicesTypeOK, InvoiceRecord, PagePart

LEMMA InvoicesStepInvariant ==
  ASSUME InvoicesInvariant, [InvoicesNext]_invoiceVars
  PROVE  InvoicesInvariant'
<1> DEFINE BatchesOK(bs) == bs \in [BatchId -> [state : BatchState \cup {"none", "removed"},
                                              invoiceIds : SUBSET Invoice, tx : BOOLEAN]]
<1>1. invoices \in [Invoice -> InvoiceRecord] /\ BatchesOK(batches)
  BY DEF InvoicesInvariant, InvoicesTypeOK, InvoiceRecord
<1>2. CASE AddInvoice
  <2>1. PICK i \in Invoice :
          /\ invoices[i].status = "none"
          /\ jobs' = Append(jobs, i)
          /\ invoices' = [invoices EXCEPT ![i].status = "draft", ![i].extraction = "running"]
    BY <1>2 DEF AddInvoice
  <2>2. invoices' \in [Invoice -> InvoiceRecord] /\ UNCHANGED batches
        /\ \A j \in Invoice : /\ invoices'[j].batchId = invoices[j].batchId
                               /\ invoices'[j].status = IF j = i THEN "draft" ELSE invoices[j].status
    <3>1. UNCHANGED batches
      BY <1>2 DEF AddInvoice
    <3> QED BY <1>1, <2>1, <3>1 DEF InvoiceRecord, ApprovalStatus
  <2>3. NamingPart' /\ PaidPart' /\ PaidOnce'
    BY <2>1, <2>2, DataStep
  <2>4. jobs' \in Seq(Invoice)
    BY <2>1 DEF InvoicesInvariant, InvoicesTypeOK
  <2> QED BY <1>2, <2>1, <2>2, <2>3, <2>4
          DEF AddInvoice, InvoicesInvariant, InvoicesTypeOK, InvoiceRecord, PagePart
<1>3. CASE Retry
  <2>1. reviewed \in Invoice
    BY <1>3 DEF Retry, InvoicesInvariant, PagePart
  <2>2. invoices' \in [Invoice -> InvoiceRecord] /\ UNCHANGED batches
        /\ \A j \in Invoice : /\ invoices'[j].batchId = invoices[j].batchId
                               /\ invoices'[j].status = invoices[j].status
    BY <1>1, <1>3, <2>1 DEF Retry, Enqueue, InvoiceRecord
  <2>3. NamingPart' /\ PaidPart' /\ PaidOnce'
    BY <2>2, DataStep
  <2>4. jobs' \in Seq(Invoice)
    BY <1>3, <2>1 DEF Retry, Enqueue, InvoicesInvariant, InvoicesTypeOK
  <2> QED BY <1>3, <2>2, <2>3, <2>4
          DEF Retry, InvoicesInvariant, InvoicesTypeOK, InvoiceRecord, PagePart
<1>4. CASE JobReturns
  <2>1. Head(jobs) \in Invoice /\ jobs' \in Seq(Invoice)
    BY <1>4, HeadTailProperties DEF JobReturns, InvoicesInvariant, InvoicesTypeOK
  <2>2. invoices' \in [Invoice -> InvoiceRecord] /\ UNCHANGED batches
        /\ \A j \in Invoice : /\ invoices'[j].batchId = invoices[j].batchId
                               /\ invoices'[j].status = invoices[j].status
    <3>1. \E extraction \in {"extracted", "failed"}, payable \in BOOLEAN :
            invoices' = [invoices EXCEPT ![Head(jobs)].extraction = extraction,
                                         ![Head(jobs)].payable = payable]
      <4>1. ASSUME NEW found \in BOOLEAN,
                   invoices' = [invoices EXCEPT ![Head(jobs)].extraction = "extracted",
                                                ![Head(jobs)].payable = @ \/ found]
            PROVE  \E payable \in BOOLEAN :
                     invoices' = [invoices EXCEPT ![Head(jobs)].extraction = "extracted",
                                                  ![Head(jobs)].payable = payable]
        BY Zenon, <4>1
      <4>2. ASSUME invoices' = [invoices EXCEPT ![Head(jobs)].extraction = "failed"]
            PROVE  \E payable \in BOOLEAN :
                     invoices' = [invoices EXCEPT ![Head(jobs)].extraction = "failed",
                                                  ![Head(jobs)].payable = payable]
        <5>1. invoices[Head(jobs)] \in InvoiceRecord
          BY <1>1, <2>1
        <5>2. invoices[Head(jobs)].payable \in BOOLEAN
          BY <5>1 DEF InvoiceRecord
        <5>3. invoices' = [invoices EXCEPT ![Head(jobs)].extraction = "failed",
                                           ![Head(jobs)].payable = invoices[Head(jobs)].payable]
          BY <1>1, <2>1, <4>2, <5>1 DEF InvoiceRecord
        <5> QED BY <5>2, <5>3
      <4> QED BY <1>4, <4>1, <4>2 DEF JobReturns
    <3>2. UNCHANGED batches
      BY <1>4 DEF JobReturns
    <3> QED BY <1>1, <2>1, <3>1, <3>2 DEF InvoiceRecord
  <2>3. NamingPart' /\ PaidPart' /\ PaidOnce'
    BY <2>2, DataStep
  <2> QED BY <1>4, <2>1, <2>2, <2>3
          DEF JobReturns, InvoicesInvariant, InvoicesTypeOK, InvoiceRecord, PagePart
<1>5. CASE OpenList \/ LeaveInvoices
  <2>1. UNCHANGED <<invoices, batches, jobs>>
    BY <1>5 DEF OpenList, LeaveInvoices
  <2>2. NamingPart' /\ PaidPart' /\ PaidOnce'
    BY <1>1, <2>1, DataStep
  <2> QED BY <1>5, <2>1, <2>2
          DEF OpenList, LeaveInvoices, Away, InvoicesInvariant, InvoicesTypeOK, PagePart
<1>6. CASE MarkInReview
  <2>1. reviewed \in Invoice
    BY <1>6 DEF MarkInReview, InvoicesInvariant, PagePart
  <2>2. invoices' \in [Invoice -> InvoiceRecord] /\ UNCHANGED batches
        /\ \A j \in Invoice :
             /\ invoices'[j].batchId = invoices[j].batchId
             /\ invoices'[j].status = IF j = reviewed THEN "in-review" ELSE invoices[j].status
    BY <1>1, <1>6, <2>1 DEF MarkInReview, InvoiceRecord, ApprovalStatus
  <2>3. NamingPart' /\ PaidPart' /\ PaidOnce'
    BY <1>6, <2>2, DataStep DEF MarkInReview
  <2> QED BY <1>6, <2>1, <2>2, <2>3
          DEF MarkInReview, InvoicesInvariant, InvoicesTypeOK, InvoiceRecord, PagePart
<1>7. CASE Reject
  <2>1. reviewed \in Invoice /\ invoices[reviewed].status = "in-review"
    BY <1>7 DEF Reject, InvoicesInvariant, PagePart, canTransitionInvoice, InvoiceEdges
  <2>2. invoices' \in [Invoice -> InvoiceRecord] /\ UNCHANGED batches
        /\ \A j \in Invoice :
             /\ invoices'[j].batchId = invoices[j].batchId
             /\ invoices'[j].status = IF j = reviewed THEN "rejected" ELSE invoices[j].status
    BY <1>1, <1>7, <2>1 DEF Reject, InvoiceRecord, ApprovalStatus
  <2>3. NamingPart' /\ PaidPart' /\ PaidOnce'
    BY <2>1, <2>2, DataStep
  <2> QED BY <1>7, <2>1, <2>2, <2>3
          DEF Reject, InvoicesInvariant, InvoicesTypeOK, InvoiceRecord, PagePart
<1>8. CASE Approve
  <2>1. reviewed \in Invoice /\ invoices[reviewed].status \in {"in-review", "rejected"}
        /\ BatchFirst({reviewed}) /\ jobs' = jobs
    BY <1>8 DEF Approve, InvoicesInvariant, PagePart
  <2>2. AllQueued({reviewed}) <=> invoices[reviewed].status = "in-review"
    BY <2>1 DEF AllQueued, canTransitionInvoice, InvoiceEdges
  <2>3. /\ invoices' \in [Invoice -> InvoiceRecord] /\ NamingPart' /\ PaidPart' /\ PaidOnce'
        /\ \A i \in Invoice : \/ invoices'[i].status = invoices[i].status
                               \/ invoices'[i].status \in {"queued-for-signing", "signed"}
        /\ \A i \in Invoice : invoices[i].status = "rejected" => invoices'[i].status = "rejected"
        /\ BatchesOK(batches')
    BY <2>1, <2>2, BatchFirstStep
  <2>4. CASE AllQueued({reviewed})
    BY <1>8, <2>1, <2>3, <2>4
       DEF Approve, Away, InvoicesInvariant, InvoicesTypeOK, InvoiceRecord, PagePart
  <2>5. CASE ~AllQueued({reviewed})
    BY <1>8, <2>1, <2>2, <2>3, <2>5
       DEF Approve, InvoicesInvariant, InvoicesTypeOK, InvoiceRecord, PagePart
  <2> QED BY <2>4, <2>5
<1>9. CASE Bundle
  <2>1. selectedIds \in SUBSET Invoice /\ BatchFirst(selectedIds) /\ jobs' = jobs
        /\ \A i \in selectedIds : invoices[i].status = "in-review"
    BY <1>9 DEF Bundle, canBundle, InvoicesInvariant, InvoicesTypeOK, PagePart
  <2>2. AllQueued(selectedIds)
    BY <2>1 DEF AllQueued, canTransitionInvoice, InvoiceEdges
  <2>3. invoices' \in [Invoice -> InvoiceRecord] /\ NamingPart' /\ PaidPart' /\ PaidOnce'
        /\ BatchesOK(batches')
    BY <2>1, <2>2, BatchFirstStep
  <2> QED BY <1>9, <2>1, <2>2, <2>3
          DEF Bundle, Away, InvoicesInvariant, InvoicesTypeOK, InvoiceRecord, PagePart
<1>10. CASE RestartInvoices
  <2>1. invoices' = Synced(invoices, batches') /\ batches' = batches /\ jobs' = <<>> /\ Away
    BY <1>10 DEF RestartInvoices
  <2>2. \A b \in BatchId : WasPaid(b) => WasPaid(b)'
    BY <2>1 DEF WasPaid
  <2>3. invoices' \in [Invoice -> InvoiceRecord] /\ NamingPart' /\ PaidPart' /\ PaidOnce'
    BY <2>1, <2>2, SyncStep
  <2> QED BY <1>1, <2>1, <2>3 DEF Away, InvoicesInvariant, InvoicesTypeOK, InvoiceRecord, PagePart
<1>11. ASSUME NEW i \in Invoice, OpenReview(i)
       PROVE  InvoicesInvariant'
  <2>1. NamingPart' /\ PaidPart' /\ PaidOnce'
    BY <1>1, <1>11, DataStep DEF OpenReview
  <2> QED BY <1>11, <2>1 DEF OpenReview, InvoicesInvariant, InvoicesTypeOK, PagePart
<1>12. ASSUME NEW i \in Invoice, Toggle(i)
       PROVE  InvoicesInvariant'
  <2>1. NamingPart' /\ PaidPart' /\ PaidOnce'
    BY <1>1, <1>12, DataStep DEF Toggle
  <2> QED BY <1>12, <2>1 DEF Toggle, InvoicesInvariant, InvoicesTypeOK, PagePart
<1>13. ASSUME NEW b \in BatchId, RemoveBatch(b)
       PROVE  InvoicesInvariant'
  <2>1. /\ batches' = [batches EXCEPT ![b] = [state |-> "removed", invoiceIds |-> {}, tx |-> FALSE]]
        /\ invoices' = Synced(invoices, batches')
        /\ UNCHANGED <<jobs, page, reviewed, selectedIds, ticked>>
    BY <1>13 DEF RemoveBatch, SyncedOnChange
  <2>2. BatchesOK(batches')
    BY <1>1, <2>1
  <2>3. \A c \in BatchId : /\ batches'[c].invoiceIds \subseteq batches[c].invoiceIds
                           /\ batches[c].state # "none" => batches'[c].state # "none"
                           /\ WasPaid(c) => WasPaid(c)'
    BY <1>1, <2>1 DEF WasPaid
  <2> HIDE DEF BatchesOK
  <2> QED BY <2>1, <2>2, <2>3, BatchesStep DEF BatchesOK
<1>14. ASSUME NEW b \in BatchId, NEW to \in BatchState, MoveBatch(b, to)
       PROVE  InvoicesInvariant'
  <2>1. PICK tx \in IF to = "broadcasted" THEN BOOLEAN ELSE {batches[b].tx} :
          batches' = [batches EXCEPT ![b].state = to, ![b].tx = tx]
    BY <1>14 DEF MoveBatch
  <2>2. <<batches[b].state, to>> \in Edges
    BY <1>14, InvoicesAssumption DEF MoveBatch
  <2>3. /\ invoices' = Synced(invoices, batches')
        /\ UNCHANGED <<jobs, page, reviewed, selectedIds, ticked>>
    BY <1>14 DEF MoveBatch, SyncedOnChange
  <2>4. tx \in BOOLEAN
    BY <1>1, <2>1
  <2>5. BatchesOK(batches')
    BY <1>1, <2>1, <2>4
  <2>6. \A c \in BatchId : /\ batches'[c].invoiceIds = batches[c].invoiceIds
                           /\ c # b => batches'[c] = batches[c]
        /\ batches'[b].state = to /\ batches'[b].tx = tx
    BY <1>1, <2>1
  <2>7. WasPaid(b) => WasPaid(b)'
    BY <2>1, <2>2, <2>6 DEF WasPaid, Edges
  <2>8. \A c \in BatchId : /\ batches'[c].invoiceIds \subseteq batches[c].invoiceIds
                           /\ batches[c].state # "none" => batches'[c].state # "none"
                           /\ WasPaid(c) => WasPaid(c)'
    BY <2>6, <2>7 DEF WasPaid, BatchState
  <2> HIDE DEF BatchesOK
  <2> QED BY <2>3, <2>5, <2>8, BatchesStep DEF BatchesOK
<1>15. CASE UNCHANGED invoiceVars
  BY <1>15 DEF invoiceVars, InvoicesInvariant, InvoicesTypeOK, PagePart, NamingPart, PaidPart, PaidOnce,
               Paying, WasPaid
<1> QED
  BY <1>2, <1>3, <1>4, <1>5, <1>6, <1>7, <1>8, <1>9, <1>10, <1>11, <1>12, <1>13, <1>14, <1>15
     DEF InvoicesNext, OpenList, LeaveInvoices

\* An invoice that was queued is a line of one batch, through every order of
\* reviewing, ticking, bundling and rejecting (InvoicesPage, approveAndQueue).
THEOREM InvoicePaidOnce == InvoicesSpec => []PaidOnce
<1>1. InvoicesInvariant => PaidOnce
  BY DEF InvoicesInvariant
<1> QED BY <1>1, InvoicesInitInvariant, InvoicesStepInvariant, PTL DEF InvoicesSpec

\* What the invoice store says was paid is what the batch store says, after
\* every change of either and every restart (useBatchConfirmationSync).
THEOREM InvoicesAgreeWithBatches == InvoicesSpec => []InvoicesFollowBatches
<1>1. InvoicesInvariant => InvoicesFollowBatches
  BY DEF InvoicesInvariant, PaidPart, WasPaid, InvoicesFollowBatches
<1> QED BY <1>1, InvoicesInitInvariant, InvoicesStepInvariant, PTL DEF InvoicesSpec

-----------------------------------------------------------------------------
(***************************************************************************)
(* SafePayments.  A call in flight carries the SafeTx of its payment, or   *)
(* approvals of it; an outer transaction belongs to one payment, and one   *)
(* outer transaction succeeds for a nonce.                                 *)
(***************************************************************************)
Accounting == {"posting", "posted", "post_failed"}

CallOK(c) ==
  /\ c.kind = "build" => c.id \notin Added /\ \A d \in safecalls : d.id = c.id => d = c
  /\ c.kind # "build" => c.id \in Added
  /\ c.kind \in {"sign", "execute", "checked"} => c.tx = pending[c.id].tx
  /\ c.kind = "record" => Recovers(c.approval, pending[c.id].tx)
  /\ c.kind = "sent" => c.outer \in DOMAIN outers /\ outers[c.outer].tx = pending[c.id].tx

CallPart == \A c \in safecalls : CallOK(c)

SignPart == (\A p \in Payments \ Added : signatures[p] = <<>>) /\ ApprovalsAreGenuine

PostPart ==
  \A p \in Payments :
    /\ posts[p] # "none" => p \in Added /\ pending[p].state = "posting"
    /\ posts[p] = "booked" => p \in safebooks
    /\ p \in safebooks => p \in Added /\ pending[p].state \in Accounting
    /\ p \in Added /\ pending[p].state = "posted" => p \in safebooks

\* An outer transaction is that of one payment, or of one call.
OwnerPart ==
  /\ \A c, d \in safecalls : c.kind = "sent" /\ d.kind = "sent" /\ c.outer = d.outer => c = d
  /\ \A c \in safecalls, p \in Added : c.kind = "sent" => pending[p].outer # c.outer
  /\ \A p, q \in Added : pending[p].outer > 0 /\ pending[p].outer = pending[q].outer => p = q

OuterPart ==
  \A p \in Added :
    /\ pending[p].outer \in 0 .. Len(outers)
    /\ pending[p].state \in Accounting \union {"confirming"} =>
         pending[p].outer > 0 /\ outers[pending[p].outer].tx = pending[p].tx
    /\ pending[p].state \in Accounting => outers[pending[p].outer].status = "success"

NoncePart ==
  \A k \in DOMAIN outers : outers[k].status = "success" =>
    /\ outers[k].tx.nonce < nonce
    /\ \A j \in DOMAIN outers :
         outers[j].status = "success" /\ outers[j].tx.nonce = outers[k].tx.nonce => j = k

SafeInvariant == /\ SafeTypeOK /\ CallPart /\ SignPart /\ PostPart
                 /\ OwnerPart /\ OuterPart /\ NoncePart

LEMMA ThresholdIsPositive == Threshold \in Nat /\ Threshold >= 1
<1>1. Cardinality(Owners) \in Nat
  BY ThresholdAssumption, FS_CardinalityType
<1> QED BY <1>1, ThresholdAssumption

LEMMA SafeInitInvariant ==
  ASSUME SafeInit
  PROVE  SafeInvariant
<1>1. SafeTypeOK
  <2>1. signatures \in [Payments -> Seq(Approval)]
    BY DEF SafeInit
  <2>2. outers \in Seq([tx : SafeTx, status : {"pending", "success", "reverted"}]) /\ Len(outers) <= MaxOuter
    BY SafeBoundsAssumption DEF SafeInit
  <2>3. nonce \in 0 .. MaxSafeNonce + 1
    BY SafeBoundsAssumption DEF SafeInit
  <2> QED BY <2>1, <2>2, <2>3 DEF SafeInit, SafeTypeOK
<1>2. Added = {}
  BY DEF SafeInit, Added
<1> QED
  BY <1>1, <1>2 DEF SafeInit, SafeInvariant, CallPart, SignPart, ApprovalsAreGenuine, PostPart,
                    OwnerPart, OuterPart, NoncePart

\* What the fields of a call are, by its kind.
LEMMA CallFields ==
  ASSUME NEW c \in SafeCall
  PROVE  /\ c.id \in Payments
         /\ c.kind \in {"build", "sign", "record", "execute", "checked", "sent"}
         /\ c.kind \in {"build", "sign", "execute", "checked"} => c.tx \in SafeTx
         /\ c.kind = "sign" => c.owner \in Owners
         /\ c.kind = "record" => c.approval \in Approval
         /\ c.kind = "sent" => c.outer \in 1 .. MaxOuter
         /\ c.kind = "execute" => c = [kind |-> "execute", id |-> c.id, tx |-> c.tx]
BY DEF SafeCall

\* The calls are still those of their payments after a step that keeps every
\* payment's SafeTx, every outer transaction, and starts at most the call d.
LEMMA CallsKept ==
  ASSUME CallPart, safecalls \subseteq SafeCall, NEW d \in SafeCall,
         \A p \in Payments : /\ p \in Added' <=> p \in Added
                             /\ p \in Added => pending'[p].tx = pending[p].tx,
         \A k \in DOMAIN outers : k \in DOMAIN outers' /\ outers'[k].tx = outers[k].tx,
         safecalls' \subseteq safecalls \union {d},
         d \in safecalls \/ (d.kind # "build" /\ d.id \in Added /\ CallOK(d)')
  PROVE  CallPart'
<1> SUFFICES ASSUME NEW c \in safecalls'
             PROVE  CallOK(c)'
  BY DEF CallPart
<1>1. CASE c \in safecalls
  <2>1. c.id \in Payments /\ CallOK(c)
    BY <1>1, CallFields DEF CallPart
  <2>2. c.kind = "build" => c.id \notin Added' /\ \A e \in safecalls' : e.id = c.id => e = c
    BY <1>1, <2>1 DEF CallOK
  <2>3. c.kind # "build" => c.id \in Added' /\ pending'[c.id].tx = pending[c.id].tx
    BY <2>1 DEF CallOK
  <2>4. c.kind = "sent" => c.outer \in DOMAIN outers' /\ outers'[c.outer].tx = pending'[c.id].tx
    BY <2>1, <2>3 DEF CallOK
  <2> QED BY <2>1, <2>2, <2>3, <2>4 DEF CallOK
<1>2. CASE c = d /\ d \notin safecalls
  BY <1>2
<1> QED BY <1>1, <1>2

\* A step that only starts the call d, which is of its payment, or ends calls.
LEMMA CallsOnly ==
  ASSUME SafeInvariant, UNCHANGED <<pending, signatures, posts, chain, safebooks>>,
         NEW d \in SafeCall, safecalls' \subseteq safecalls \union {d},
         d \in safecalls \/ (d.kind \notin {"build", "sent"} /\ CallOK(d))
  PROVE  SafeInvariant'
<1>1. SafeTypeOK'
  BY DEF SafeInvariant, SafeTypeOK, chain
<1>2. Added' = Added
  BY DEF Added
<1>3. CallPart'
  <2>1. CASE d \in safecalls
    BY <2>1, <1>2, CallsKept DEF SafeInvariant, SafeTypeOK, chain
  <2>2. CASE d.kind \notin {"build", "sent"} /\ CallOK(d)
    <3>1. d.id \in Added /\ CallOK(d)'
      BY <2>2, <1>2 DEF CallOK, chain
    <3> QED BY <2>2, <3>1, <1>2, CallsKept DEF SafeInvariant, SafeTypeOK, chain
  <2> QED BY <2>1, <2>2
<1>4. SignPart'
  BY <1>2 DEF SafeInvariant, SignPart, ApprovalsAreGenuine
<1>5. PostPart'
  BY <1>2 DEF SafeInvariant, PostPart
<1>6. OwnerPart'
  <2>1. \A c \in safecalls' : c.kind = "sent" => c \in safecalls
    OBVIOUS
  <2> QED BY <2>1, <1>2 DEF SafeInvariant, OwnerPart
<1>7. OuterPart' /\ NoncePart'
  BY <1>2 DEF SafeInvariant, OuterPart, NoncePart, chain
<1> QED BY <1>1, <1>3, <1>4, <1>5, <1>6, <1>7 DEF SafeInvariant

\* The signatures stay right while no payment leaves or enters the state that
\* waits for them.
LEMMA SignKept ==
  ASSUME SignPart, UNCHANGED signatures, Added' = Added,
         \A p \in Added : /\ pending'[p].tx = pending[p].tx
                          /\ pending'[p].state = "awaiting_signature"
                              <=> pending[p].state = "awaiting_signature"
  PROVE  SignPart'
BY DEF SignPart, ApprovalsAreGenuine

\* The owners of outer transactions stay while calls only end and no payment
\* gets another outer transaction.
LEMMA OwnersKept ==
  ASSUME OwnerPart, safecalls' \subseteq safecalls, Added' = Added,
         \A p \in Added : pending'[p].outer = pending[p].outer
  PROVE  OwnerPart'
BY DEF OwnerPart

\* A payment that gets another state, and nothing else.
LEMMA StateMoves ==
  ASSUME SafeTypeOK, NEW p \in Added, NEW state \in SafeState,
         pending' = [pending EXCEPT ![p].state = state]
  PROVE  /\ pending' \in [Payments -> PendingTx \union {NoPayment}]
         /\ Added' = Added
         /\ \A q \in Added : /\ pending'[q].tx = pending[q].tx
                              /\ pending'[q].outer = pending[q].outer
                              /\ pending'[q].state = IF q = p THEN state ELSE pending[q].state
<1>1. p \in Payments /\ pending[p] \in PendingTx
  BY DEF Added, SafeTypeOK
<1>2. [pending[p] EXCEPT !.state = state] \in PendingTx
  BY <1>1 DEF PendingTx
<1>3. pending' = [pending EXCEPT ![p] = [pending[p] EXCEPT !.state = state]]
  BY <1>1 DEF SafeTypeOK
<1>4. pending' \in [Payments -> PendingTx \union {NoPayment}]
  BY <1>1, <1>2, <1>3 DEF SafeTypeOK
<1>5. \A q \in Payments : pending'[q] = IF q = p THEN [pending[p] EXCEPT !.state = state] ELSE pending[q]
  BY <1>1, <1>3 DEF SafeTypeOK
<1>6. Added' = Added
  BY <1>1, <1>2, <1>5, NoPaymentAssumption DEF Added
<1>7. /\ [pending[p] EXCEPT !.state = state].state = state
      /\ [pending[p] EXCEPT !.state = state].tx = pending[p].tx
      /\ [pending[p] EXCEPT !.state = state].outer = pending[p].outer
  BY <1>1 DEF PendingTx
<1> QED BY <1>4, <1>5, <1>6, <1>7 DEF Added

\* The page builds the SafeTx of a payment that is not recorded yet.
LEMMA BuildStep ==
  ASSUME SafeInvariant, NEW p \in Payments, NEW spend \in Spends, BuildSafeTx(p, spend)
  PROVE  SafeInvariant'
<1> DEFINE d == [kind |-> "build", id |-> p, tx |-> [spend |-> spend, nonce |-> nonce]]
<1>1. nonce \in 0 .. MaxSafeNonce
  BY SafeBoundsAssumption DEF BuildSafeTx, SafeInvariant, SafeTypeOK
<1>2. d \in SafeCall
  BY <1>1 DEF SafeCall, SafeTx
<1>3. safecalls' = safecalls \union {d} /\ d.kind = "build" /\ d.id = p
      /\ p \notin Added /\ (\A c \in safecalls : c.id # p)
      /\ UNCHANGED <<pending, signatures, posts, chain, safebooks>>
  BY DEF BuildSafeTx, Starts
<1> HIDE DEF d
<1>4. SafeTypeOK'
  BY <1>2, <1>3 DEF SafeInvariant, SafeTypeOK, chain
<1>5. Added' = Added
  BY <1>3 DEF Added
<1>6. CallPart'
  BY <1>3, <1>5 DEF SafeInvariant, CallPart, CallOK, chain
<1>7. SignPart' /\ PostPart'
  BY <1>3, <1>5 DEF SafeInvariant, SignPart, ApprovalsAreGenuine, PostPart
<1>8. OwnerPart' /\ OuterPart' /\ NoncePart'
  BY <1>3, <1>5 DEF SafeInvariant, OwnerPart, OuterPart, NoncePart, chain
<1> QED BY <1>4, <1>6, <1>7, <1>8 DEF SafeInvariant

\* The payment is recorded: no call but its own was for it.
LEMMA AddStep ==
  ASSUME SafeInvariant, NEW c \in safecalls, AddTransaction(c)
  PROVE  SafeInvariant'
<1> DEFINE new == [tx |-> c.tx, state |-> "awaiting_signature", outer |-> 0]
<1>1. c \in SafeCall /\ CallOK(c) /\ c.kind = "build"
  BY DEF SafeInvariant, SafeTypeOK, CallPart, AddTransaction
<1>2. c.id \in Payments /\ c.tx \in SafeTx /\ c.id \notin Added
      /\ \A d \in safecalls : d.id = c.id => d = c
  BY <1>1, CallFields DEF CallOK
<1>3. new \in PendingTx /\ new # NoPayment
  BY <1>2, SafeBoundsAssumption, NoPaymentAssumption DEF PendingTx, SafeState
<1>4. pending' = [pending EXCEPT ![c.id] = new] /\ safecalls' = safecalls \ {c}
      /\ UNCHANGED <<signatures, posts, chain, safebooks>>
  BY DEF AddTransaction, Ends
<1>5. new.tx = c.tx /\ new.state = "awaiting_signature" /\ new.outer = 0
  OBVIOUS
<1> HIDE DEF new
<1>6. \A p \in Payments : pending'[p] = IF p = c.id THEN new ELSE pending[p]
  BY <1>2, <1>4 DEF SafeInvariant, SafeTypeOK
<1>7. Added' = Added \union {c.id}
  BY <1>2, <1>3, <1>6 DEF Added
<1>8. \A p \in Added : p \in Payments /\ p # c.id /\ pending'[p] = pending[p]
  BY <1>2, <1>6 DEF Added
<1>9. SafeTypeOK'
  BY <1>2, <1>3, <1>4 DEF SafeInvariant, SafeTypeOK, chain
<1>10. CallPart'
  <2> SUFFICES ASSUME NEW d \in safecalls, d # c
               PROVE  CallOK(d)'
    BY <1>4 DEF CallPart
  <2>1. d.id # c.id /\ CallOK(d)
    BY <1>2 DEF SafeInvariant, CallPart
  <2> QED BY <2>1, <1>4, <1>7, <1>8 DEF CallOK, chain
<1>11. SignPart'
  <2>1. signatures[c.id] = <<>>
    BY <1>2 DEF SafeInvariant, SignPart
  <2>2. \A p \in Payments \ Added' : signatures'[p] = <<>>
    BY <1>4, <1>7 DEF SafeInvariant, SignPart
  <2>3. ASSUME NEW p \in Added'
        PROVE  /\ \A i, j \in DOMAIN signatures'[p] :
                     signatures'[p][i].owner = signatures'[p][j].owner => i = j
               /\ \A i \in DOMAIN signatures'[p] : Recovers(signatures'[p][i], pending'[p].tx)
               /\ pending'[p].state = "awaiting_signature" <=> Len(signatures'[p]) < Threshold
    <3>1. CASE p = c.id
      BY <3>1, <2>1, <1>2, <1>4, <1>5, <1>6, ThresholdIsPositive
    <3>2. CASE p \in Added
      BY <3>2, <1>4, <1>8 DEF SafeInvariant, SignPart, ApprovalsAreGenuine
    <3> QED BY <3>1, <3>2, <1>7
  <2> QED BY <2>2, <2>3 DEF SignPart, ApprovalsAreGenuine
<1>12. PostPart'
  BY <1>2, <1>4, <1>5, <1>6, <1>7, <1>8 DEF SafeInvariant, PostPart
<1>13. OwnerPart'
  <2>1. \A d \in safecalls' : d \in safecalls /\ (d.kind = "sent" => d.outer \in 1 .. MaxOuter)
    BY <1>4, CallFields DEF SafeInvariant, SafeTypeOK
  <2>2. pending'[c.id].outer = 0
    BY <1>2, <1>5, <1>6
  <2> QED BY <2>1, <2>2, <1>7, <1>8 DEF SafeInvariant, OwnerPart
<1>14. OuterPart' /\ NoncePart'
  <2>1. pending'[c.id].outer = 0 /\ pending'[c.id].state = "awaiting_signature"
    BY <1>2, <1>5, <1>6
  <2>2. Len(outers) \in Nat
    BY DEF SafeInvariant, SafeTypeOK
  <2> QED BY <2>1, <2>2, <1>4, <1>7, <1>8 DEF SafeInvariant, OuterPart, NoncePart, chain, Accounting
<1> QED BY <1>9, <1>10, <1>11, <1>12, <1>13, <1>14 DEF SafeInvariant

\* A call of the page that only starts or ends.
LEMMA PageStep ==
  ASSUME SafeInvariant,
         \/ \E p \in Payments, owner \in Owners : RequestSignature(p, owner)
         \/ \E p \in Payments, approval \in Approval : ImportApproval(p, approval)
         \/ \E p \in Added : Execute(p)
         \/ \E c \in safecalls : \/ \E by \in Owners : WalletSigns(c, by)
                                 \/ ExecuteChecks(c) \/ SafeCallFails(c)
  PROVE  SafeInvariant'
<1>1. ASSUME NEW p \in Added
      PROVE  p \in Payments /\ pending[p].tx \in SafeTx
  BY DEF Added, SafeInvariant, SafeTypeOK, PendingTx
<1>2. ASSUME NEW c \in safecalls
      PROVE  c \in SafeCall /\ CallOK(c)
  BY DEF SafeInvariant, SafeTypeOK, CallPart
<1>3. ASSUME NEW p \in Payments, NEW owner \in Owners, RequestSignature(p, owner)
      PROVE  SafeInvariant'
  <2> DEFINE d == [kind |-> "sign", id |-> p, owner |-> owner, tx |-> pending[p].tx]
  <2>1. p \in Added
    BY <1>3 DEF RequestSignature
  <2>2. d \in SafeCall /\ CallOK(d) /\ d.kind = "sign"
    BY <2>1, <1>1 DEF SafeCall, CallOK
  <2> QED BY <1>3, <2>2, CallsOnly DEF RequestSignature, Starts
<1>4. ASSUME NEW p \in Payments, NEW approval \in Approval, ImportApproval(p, approval)
      PROVE  SafeInvariant'
  <2> DEFINE d == [kind |-> "record", id |-> p, approval |-> approval]
  <2>1. d \in SafeCall /\ CallOK(d) /\ d.kind = "record"
    BY <1>4 DEF SafeCall, CallOK, ImportApproval
  <2> QED BY <1>4, <2>1, CallsOnly DEF ImportApproval, Starts
<1>5. ASSUME NEW p \in Added, Execute(p)
      PROVE  SafeInvariant'
  <2> DEFINE d == [kind |-> "execute", id |-> p, tx |-> pending[p].tx]
  <2>1. d \in SafeCall /\ CallOK(d) /\ d.kind = "execute"
    BY <1>1 DEF SafeCall, CallOK
  <2> QED BY <1>5, <2>1, CallsOnly DEF Execute, Starts
<1>6. ASSUME NEW c \in safecalls, NEW by \in Owners, WalletSigns(c, by)
      PROVE  SafeInvariant'
  <2> DEFINE approval == [owner |-> c.owner, by |-> by, tx |-> c.tx]
             d == [kind |-> "record", id |-> c.id, approval |-> approval]
  <2>1. c \in SafeCall /\ CallOK(c) /\ c.kind = "sign"
    BY <1>2, <1>6 DEF WalletSigns
  <2>2. approval \in Approval /\ c.id \in Payments
    BY <2>1, CallFields DEF Approval
  <2>3. Recovers(approval, pending[c.id].tx)
    BY <1>6, <2>1 DEF WalletSigns, CallOK
  <2> HIDE DEF approval
  <2>4. d \in SafeCall /\ CallOK(d) /\ d.kind = "record"
    BY <2>1, <2>2, <2>3 DEF SafeCall, CallOK
  <2>5. \/ safecalls' = (safecalls \ {c}) \union {d}
        \/ safecalls' = safecalls \ {c}
    BY <1>6 DEF WalletSigns, Becomes, Ends, approval
  <2>6. UNCHANGED <<pending, signatures, posts, chain, safebooks>>
    BY <1>6 DEF WalletSigns
  <2> HIDE DEF d
  <2> QED BY <2>4, <2>5, <2>6, CallsOnly
<1>7. ASSUME NEW c \in safecalls, ExecuteChecks(c)
      PROVE  SafeInvariant'
  <2> DEFINE d == [c EXCEPT !.kind = "checked"]
  <2>1. c \in SafeCall /\ CallOK(c) /\ c.kind = "execute"
    BY <1>2, <1>7 DEF ExecuteChecks
  <2>2. c = [kind |-> "execute", id |-> c.id, tx |-> c.tx] /\ c.id \in Payments /\ c.tx \in SafeTx
    BY <2>1, CallFields
  <2>3. d = [kind |-> "checked", id |-> c.id, tx |-> c.tx]
    BY <2>2
  <2>4. d \in SafeCall /\ CallOK(d) /\ d.kind = "checked"
    BY <2>1, <2>2, <2>3 DEF SafeCall, CallOK
  <2> QED BY <1>7, <2>4, CallsOnly DEF ExecuteChecks, Becomes
<1>8. ASSUME NEW c \in safecalls, SafeCallFails(c)
      PROVE  SafeInvariant'
  BY <1>2, <1>8, CallsOnly DEF SafeCallFails, Ends
<1> QED BY <1>3, <1>4, <1>5, <1>6, <1>7, <1>8

\* A genuine approval of an owner who has not signed yet is appended.
LEMMA RecordStep ==
  ASSUME SafeInvariant, NEW c \in safecalls, RecordEvmSignature(c)
  PROVE  SafeInvariant'
<1>1. c \in SafeCall /\ CallOK(c) /\ c.kind = "record"
  BY DEF SafeInvariant, SafeTypeOK, CallPart, RecordEvmSignature
<1>2. c.id \in Added /\ c.approval \in Approval /\ Recovers(c.approval, pending[c.id].tx)
  BY <1>1, CallFields DEF CallOK
<1>3. CASE ~(c.id \in Open /\ ~HasSigned(c.id, c.approval.owner))
  BY <1>1, <1>3, CallsOnly DEF RecordEvmSignature, Ends
<1>4. CASE c.id \in Open /\ ~HasSigned(c.id, c.approval.owner)
  <2> DEFINE new == IF Len(signatures'[c.id]) >= Threshold THEN "ready_to_broadcast"
                    ELSE "awaiting_signature"
             old == signatures[c.id]
  <2>1. /\ signatures' = [signatures EXCEPT ![c.id] = Append(@, c.approval)]
        /\ pending' = [pending EXCEPT ![c.id].state = new]
        /\ safecalls' = safecalls \ {c}
        /\ UNCHANGED <<posts, chain, safebooks>>
    BY <1>4 DEF RecordEvmSignature, Ends
  <2>2. new \in {"ready_to_broadcast", "awaiting_signature"}
    OBVIOUS
  <2>3. new = "awaiting_signature" <=> ~(Len(signatures'[c.id]) >= Threshold)
    OBVIOUS
  <2> HIDE DEF new
  <2>4. new \in SafeState
    BY <2>2 DEF SafeState
  <2>5. /\ pending' \in [Payments -> PendingTx \union {NoPayment}]
        /\ Added' = Added
        /\ \A q \in Added : /\ pending'[q].tx = pending[q].tx
                             /\ pending'[q].outer = pending[q].outer
                             /\ pending'[q].state = IF q = c.id THEN new ELSE pending[q].state
    BY <1>2, <2>1, <2>4, StateMoves DEF SafeInvariant
  <2>6. c.id \in Payments /\ old \in Seq(Approval) /\ Len(old) \in Nat
    BY <1>2 DEF Added, SafeInvariant, SafeTypeOK
  <2>7. /\ signatures'[c.id] = Append(old, c.approval)
        /\ \A q \in Payments : q # c.id => signatures'[q] = signatures[q]
        /\ signatures' \in [Payments -> Seq(Approval)]
    BY <1>2, <2>1, <2>6 DEF SafeInvariant, SafeTypeOK
  <2>8. /\ Len(signatures'[c.id]) = Len(old) + 1
        /\ \A i \in DOMAIN old : signatures'[c.id][i] = old[i]
        /\ signatures'[c.id][Len(old) + 1] = c.approval
        /\ DOMAIN signatures'[c.id] = (DOMAIN old) \union {Len(old) + 1}
        /\ DOMAIN old = 1 .. Len(old)
    BY <1>2, <2>6, <2>7
  <2>9. pending[c.id].state \in {"awaiting_signature", "ready_to_broadcast"}
    BY <1>4 DEF Open
  <2>10. SafeTypeOK'
    BY <2>1, <2>5, <2>7 DEF SafeInvariant, SafeTypeOK, chain
  <2>11. CallPart'
    BY <1>1, <2>1, <2>5, CallsKept DEF SafeInvariant, SafeTypeOK, chain, Added
  <2>12. PostPart'
    BY <2>1, <2>2, <2>5, <2>9, <1>2 DEF SafeInvariant, PostPart, Accounting
  <2>13. OwnerPart' /\ NoncePart'
    BY <2>1, <2>5, OwnersKept DEF SafeInvariant, NoncePart, chain
  <2>14. OuterPart'
    BY <2>1, <2>2, <2>5 DEF SafeInvariant, OuterPart, Accounting, chain
  <2>15. SignPart'
    <3>1. \A p \in Payments \ Added' : signatures'[p] = <<>>
      BY <1>2, <2>5, <2>7 DEF SafeInvariant, SignPart
    <3>2. ASSUME NEW p \in Added', p # c.id
          PROVE  /\ \A i, j \in DOMAIN signatures'[p] :
                       signatures'[p][i].owner = signatures'[p][j].owner => i = j
                 /\ \A i \in DOMAIN signatures'[p] : Recovers(signatures'[p][i], pending'[p].tx)
                 /\ pending'[p].state = "awaiting_signature" <=> Len(signatures'[p]) < Threshold
      <4>1. p \in Added /\ p \in Payments
        BY <2>5 DEF Added
      <4> QED BY <3>2, <4>1, <2>5, <2>7 DEF SafeInvariant, SignPart, ApprovalsAreGenuine
    <3>3. \A i, j \in DOMAIN old : old[i].owner = old[j].owner => i = j
      BY <1>2 DEF SafeInvariant, SignPart, ApprovalsAreGenuine
    <3>4. \A i \in DOMAIN old : old[i].owner # c.approval.owner /\ Recovers(old[i], pending[c.id].tx)
      BY <1>2, <1>4 DEF HasSigned, SafeInvariant, SignPart, ApprovalsAreGenuine
    <3>5. \A i, j \in DOMAIN signatures'[c.id] :
            signatures'[c.id][i].owner = signatures'[c.id][j].owner => i = j
      BY <2>8, <3>3, <3>4
    <3>6. \A i \in DOMAIN signatures'[c.id] : Recovers(signatures'[c.id][i], pending'[c.id].tx)
      BY <1>2, <2>5, <2>8, <3>4
    <3>7. pending'[c.id].state = "awaiting_signature" <=> Len(signatures'[c.id]) < Threshold
      BY <1>2, <2>3, <2>5, <2>6, <2>8, ThresholdIsPositive
    <3> QED BY <3>1, <3>2, <3>5, <3>6, <3>7 DEF SignPart, ApprovalsAreGenuine
  <2> QED BY <2>10, <2>11, <2>12, <2>13, <2>14, <2>15 DEF SafeInvariant
<1> QED BY <1>3, <1>4

\* The wallet submits: the new outer transaction is the call's and of no other.
LEMMA SubmitStep ==
  ASSUME SafeInvariant, NEW c \in safecalls, WalletSubmits(c)
  PROVE  SafeInvariant'
<1> DEFINE tx == [tx |-> c.tx, status |-> "pending"]
<1>1. c \in SafeCall /\ CallOK(c) /\ c.kind = "checked" /\ Len(outers) < MaxOuter
  BY DEF SafeInvariant, SafeTypeOK, CallPart, WalletSubmits
<1>2. c.id \in Added /\ c.id \in Payments /\ c.tx \in SafeTx /\ c.tx = pending[c.id].tx
  BY <1>1, CallFields DEF CallOK
<1>3. outers \in Seq([tx : SafeTx, status : {"pending", "success", "reverted"}])
      /\ Len(outers) \in Nat /\ DOMAIN outers = 1 .. Len(outers)
  BY DEF SafeInvariant, SafeTypeOK
<1> PICK n \in Nat : n = Len(outers) + 1
  BY <1>3
<1> PICK d : d = [kind |-> "sent", id |-> c.id, outer |-> n]
  OBVIOUS
<1>4. outers' = Append(outers, tx) /\ UNCHANGED <<pending, signatures, posts, changed, nonce, safebooks>>
  BY DEF WalletSubmits
<1>5. tx \in [tx : SafeTx, status : {"pending", "success", "reverted"}]
      /\ tx.tx = c.tx /\ tx.status = "pending"
  BY <1>2
<1> HIDE DEF tx
<1>6. /\ outers' \in Seq([tx : SafeTx, status : {"pending", "success", "reverted"}])
      /\ Len(outers') = n /\ DOMAIN outers' = DOMAIN outers \union {n}
      /\ outers'[n] = tx /\ \A k \in DOMAIN outers : outers'[k] = outers[k]
  BY <1>3, <1>4, <1>5
<1>7. safecalls' = (safecalls \ {c}) \union {d}
  BY <1>6 DEF WalletSubmits, Becomes
<1>8. n \in 1 .. MaxOuter /\ n \notin DOMAIN outers
  BY <1>1, <1>3, SafeBoundsAssumption
<1>9. d \in SafeCall /\ d.kind = "sent" /\ d.id = c.id /\ d.outer = n
  BY <1>2, <1>8 DEF SafeCall
<1>10. Added' = Added
  BY <1>4 DEF Added
<1>11. SafeTypeOK'
  BY <1>1, <1>4, <1>6, <1>7, <1>8, <1>9 DEF SafeInvariant, SafeTypeOK
<1>12. CallPart'
  <2>1. CallOK(d)'
    BY <1>2, <1>4, <1>5, <1>6, <1>9, <1>10 DEF CallOK
  <2> QED BY <2>1, <1>2, <1>4, <1>6, <1>7, <1>9, <1>10, CallsKept DEF SafeInvariant, SafeTypeOK
<1>13. SignPart' /\ PostPart'
  BY <1>4, <1>10 DEF SafeInvariant, SignPart, ApprovalsAreGenuine, PostPart
<1>14. OwnerPart'
  <2>1. \A e \in safecalls : e.kind = "sent" => e.outer \in DOMAIN outers
    BY DEF SafeInvariant, CallPart, CallOK
  <2>2. \A p \in Added : pending[p].outer # n
    BY <1>3, <1>8 DEF SafeInvariant, OuterPart
  <2> QED BY <2>1, <2>2, <1>4, <1>7, <1>8, <1>9, <1>10 DEF SafeInvariant, OwnerPart
<1>15. OuterPart'
  <2>1. \A p \in Added : pending[p].outer \in 0 .. Len(outers')
    BY <1>3, <1>6 DEF SafeInvariant, OuterPart
  <2>2. \A p \in Added : pending[p].outer > 0 => outers'[pending[p].outer] = outers[pending[p].outer]
    BY <1>3, <1>6 DEF SafeInvariant, OuterPart
  <2> QED BY <2>1, <2>2, <1>4, <1>10 DEF SafeInvariant, OuterPart
<1>16. NoncePart'
  BY <1>4, <1>5, <1>6, <1>8 DEF SafeInvariant, NoncePart
<1> QED BY <1>11, <1>12, <1>13, <1>14, <1>15, <1>16 DEF SafeInvariant

\* A payment that is not executed yet takes the outer transaction of its call.
LEMMA ReturnStep ==
  ASSUME SafeInvariant, NEW c \in safecalls, ExecuteReturns(c)
  PROVE  SafeInvariant'
<1>1. c \in SafeCall /\ CallOK(c) /\ c.kind = "sent"
  BY DEF SafeInvariant, SafeTypeOK, CallPart, ExecuteReturns
<1>2. c.id \in Added /\ c.id \in Payments /\ c.outer \in 1 .. MaxOuter
      /\ c.outer \in DOMAIN outers /\ outers[c.outer].tx = pending[c.id].tx
  BY <1>1, CallFields DEF CallOK
<1>3. CASE pending[c.id].state # "ready_to_broadcast"
  BY <1>1, <1>3, CallsOnly DEF ExecuteReturns, Ends
<1>4. CASE pending[c.id].state = "ready_to_broadcast"
  <2> DEFINE new == [pending[c.id] EXCEPT !.state = "confirming", !.outer = c.outer]
  <2>1. pending[c.id] \in PendingTx
    BY <1>2 DEF Added, SafeInvariant, SafeTypeOK
  <2>2. /\ pending' = [pending EXCEPT ![c.id] = new]
        /\ safecalls' = safecalls \ {c}
        /\ UNCHANGED <<signatures, posts, chain, safebooks>>
    BY <1>2, <1>4, <2>1 DEF ExecuteReturns, Ends, SafeInvariant, SafeTypeOK, PendingTx
  <2>3. new \in PendingTx /\ new # NoPayment /\ new.tx = pending[c.id].tx
        /\ new.state = "confirming" /\ new.outer = c.outer
    <3>1. c.outer \in 0 .. MaxOuter
      BY <1>2, SafeBoundsAssumption
    <3> QED BY <3>1, <2>1, NoPaymentAssumption DEF PendingTx, SafeState
  <2> HIDE DEF new
  <2>4. \A q \in Payments : pending'[q] = IF q = c.id THEN new ELSE pending[q]
    BY <1>2, <2>2 DEF SafeInvariant, SafeTypeOK
  <2>5. Added' = Added
    BY <1>2, <2>3, <2>4 DEF Added
  <2>6. \A q \in Added : /\ q \in Payments /\ pending'[q].tx = pending[q].tx
                         /\ q # c.id => pending'[q] = pending[q]
    BY <2>3, <2>4 DEF Added
  <2>7. pending'[c.id].state = "confirming" /\ pending'[c.id].outer = c.outer
    BY <1>2, <2>3, <2>4
  <2>8. SafeTypeOK'
    BY <1>2, <2>2, <2>3 DEF SafeInvariant, SafeTypeOK, chain
  <2>9. CallPart'
    BY <1>1, <2>2, <2>5, <2>6, CallsKept DEF SafeInvariant, SafeTypeOK, chain
  <2>10. SignPart'
    BY <1>4, <2>2, <2>5, <2>6, <2>7, SignKept DEF SafeInvariant
  <2>11. PostPart'
    BY <1>2, <1>4, <2>2, <2>5, <2>6, <2>7 DEF SafeInvariant, PostPart, Accounting
  <2>12. OwnerPart'
    <3>1. \A d \in safecalls' : d \in safecalls /\ (d.kind = "sent" => d.outer # c.outer)
      BY <1>1, <2>2 DEF SafeInvariant, OwnerPart
    <3>2. \A q \in Added : pending[q].outer # c.outer
      BY <1>1 DEF SafeInvariant, OwnerPart
    <3> QED BY <3>1, <3>2, <2>5, <2>6, <2>7 DEF SafeInvariant, OwnerPart
  <2>13. OuterPart'
    <3>1. c.outer \in 1 .. Len(outers)
      BY <1>2 DEF SafeInvariant, SafeTypeOK
    <3>2. c.outer \in 0 .. Len(outers) /\ c.outer > 0
      BY <3>1 DEF SafeInvariant, SafeTypeOK
    <3> QED BY <3>2, <1>2, <2>2, <2>5, <2>6, <2>7 DEF SafeInvariant, OuterPart, Accounting, chain
  <2>14. NoncePart'
    BY <2>2 DEF SafeInvariant, NoncePart, chain
  <2> QED BY <2>8, <2>9, <2>10, <2>11, <2>12, <2>13, <2>14 DEF SafeInvariant
<1> QED BY <1>3, <1>4

\* A payment moves between states that follow the executing one, and into the
\* accounting only on the evidence of its own outer transaction.
LEMMA AccountingStep ==
  ASSUME SafeInvariant, NEW p \in Added,
         pending[p].state \in {"confirming", "posting", "post_failed"},
         NEW state \in Accounting \union {"failed"},
         pending' = [pending EXCEPT ![p].state = state],
         UNCHANGED <<signatures, safecalls, chain, safebooks>>,
         state \in Accounting => outers[pending[p].outer].status = "success",
         state = "failed" => pending[p].state = "confirming",
         state = "posted" => p \in safebooks,
         NEW post \in {"none", "asked"}, posts' = [posts EXCEPT ![p] = post],
         post = "asked" => state = "posting"
  PROVE  SafeInvariant'
<1>1. state \in SafeState /\ p \in Payments /\ state # "awaiting_signature"
  BY DEF SafeState, Accounting, Added
<1>2. /\ pending' \in [Payments -> PendingTx \union {NoPayment}]
      /\ Added' = Added
      /\ \A q \in Added : /\ pending'[q].tx = pending[q].tx
                           /\ pending'[q].outer = pending[q].outer
                           /\ pending'[q].state = IF q = p THEN state ELSE pending[q].state
  BY <1>1, StateMoves DEF SafeInvariant
<1>3. \A q \in Payments : posts'[q] = IF q = p THEN post ELSE posts[q]
  BY DEF SafeInvariant, SafeTypeOK
<1>4. SafeTypeOK'
  BY <1>2 DEF SafeInvariant, SafeTypeOK, chain
<1>5. CallPart'
  <2>1. CASE safecalls = {}
    BY <2>1 DEF CallPart
  <2>2. CASE safecalls # {}
    <3> PICK d \in safecalls : TRUE
      BY <2>2
    <3>1. d \in SafeCall
      BY DEF SafeInvariant, SafeTypeOK
    <3> QED BY <3>1, <1>2, CallsKept DEF SafeInvariant, SafeTypeOK, chain, Added
  <2> QED BY <2>1, <2>2
<1>6. SignPart'
  BY <1>1, <1>2, SignKept DEF SafeInvariant
<1>7. PostPart'
  BY <1>1, <1>2, <1>3 DEF SafeInvariant, PostPart, Accounting
<1>8. OwnerPart'
  BY <1>2, OwnersKept DEF SafeInvariant
<1>9. OuterPart'
  BY <1>2 DEF SafeInvariant, OuterPart, Accounting, chain
<1>10. NoncePart'
  BY DEF SafeInvariant, NoncePart, chain
<1> QED BY <1>4, <1>5, <1>6, <1>7, <1>8, <1>9, <1>10 DEF SafeInvariant

LEMMA BookedStep ==
  ASSUME SafeInvariant, NEW p \in Added, SafeBooked(p)
  PROVE  SafeInvariant'
<1>1. p \in Payments /\ pending[p].state = "posting"
  BY DEF Added, SafeBooked, SafeInvariant, PostPart
<1>2. safebooks' = safebooks \union {p} /\ posts' = [posts EXCEPT ![p] = "booked"]
      /\ UNCHANGED <<pending, signatures, safecalls, chain>>
  BY DEF SafeBooked
<1>3. \A q \in Payments : posts'[q] = IF q = p THEN "booked" ELSE posts[q]
  BY <1>2 DEF SafeInvariant, SafeTypeOK
<1>4. Added' = Added
  BY <1>2 DEF Added
<1>5. SafeTypeOK'
  BY <1>1, <1>2 DEF SafeInvariant, SafeTypeOK, chain
<1>6. CallPart' /\ SignPart'
  BY <1>2, <1>4 DEF SafeInvariant, CallPart, CallOK, SignPart, ApprovalsAreGenuine, chain
<1>7. PostPart'
  BY <1>1, <1>2, <1>3, <1>4 DEF SafeInvariant, PostPart, Accounting
<1>8. OwnerPart' /\ OuterPart' /\ NoncePart'
  BY <1>2, <1>4 DEF SafeInvariant, OwnerPart, OuterPart, NoncePart, chain
<1> QED BY <1>5, <1>6, <1>7, <1>8 DEF SafeInvariant

LEMMA PostStep ==
  ASSUME SafeInvariant, NEW p \in Added,
         \/ ReadReceipt(p) \/ RetrySafePost(p) \/ SafeBooked(p)
         \/ \E state \in {"posted", "post_failed"} : SafePostEnds(p, state)
  PROVE  SafeInvariant'
<1>1. CASE ReadReceipt(p)
  <2>1. CASE outers[pending[p].outer].status = "success"
    <3>1. pending' = [pending EXCEPT ![p].state = "posting"] /\ posts' = [posts EXCEPT ![p] = "asked"]
          /\ UNCHANGED <<signatures, safecalls, chain, safebooks>> /\ pending[p].state = "confirming"
      BY <1>1, <2>1 DEF ReadReceipt
    <3> QED BY <2>1, <3>1, AccountingStep DEF Accounting
  <2>2. CASE outers[pending[p].outer].status # "success"
    <3>1. pending' = [pending EXCEPT ![p].state = "failed"] /\ posts' = posts
          /\ UNCHANGED <<signatures, safecalls, chain, safebooks>> /\ pending[p].state = "confirming"
      BY <1>1, <2>2 DEF ReadReceipt
    <3>2. p \in Payments /\ posts[p] = "none"
      BY <3>1 DEF Added, SafeInvariant, PostPart, SafeTypeOK
    <3>3. posts' = [posts EXCEPT ![p] = "none"]
      BY <3>1, <3>2 DEF SafeInvariant, SafeTypeOK
    <3>4. /\ "failed" \in Accounting \union {"failed"} /\ "failed" \notin Accounting
          /\ "none" \in {"none", "asked"}
      BY DEF Accounting
    <3> HIDE DEF Accounting
    <3> QED BY <3>1, <3>3, <3>4, AccountingStep
  <2> QED BY <2>1, <2>2
<1>2. CASE RetrySafePost(p)
  <2>1. outers[pending[p].outer].status = "success"
    BY <1>2 DEF RetrySafePost, SafeInvariant, OuterPart, Accounting
  <2> QED BY <1>2, <2>1, AccountingStep DEF RetrySafePost, Accounting
<1>3. CASE SafeBooked(p)
  BY <1>3, BookedStep
<1>4. ASSUME NEW state \in {"posted", "post_failed"}, SafePostEnds(p, state)
      PROVE  SafeInvariant'
  <2>1. p \in Payments /\ pending[p].state = "posting" /\ outers[pending[p].outer].status = "success"
    BY <1>4 DEF SafePostEnds, SafeInvariant, PostPart, OuterPart, Accounting, Added
  <2>2. state = "posted" => p \in safebooks
    BY <1>4, <2>1 DEF SafePostEnds, SafeInvariant, PostPart
  <2> QED BY <1>4, <2>1, <2>2, AccountingStep DEF SafePostEnds, Accounting
<1> QED BY <1>1, <1>2, <1>3, <1>4

Outer == [tx : SafeTx, status : {"pending", "success", "reverted"}]

\* The chain moves on: the outer transaction k, if any, succeeds or is reverted,
\* the nonce advances, the owners change.
LEMMA ChainMoves ==
  ASSUME SafeInvariant, UNCHANGED <<pending, signatures, safecalls, posts, safebooks>>,
         outers' \in Seq(Outer), Len(outers') = Len(outers), DOMAIN outers' = DOMAIN outers,
         nonce' \in 0 .. MaxSafeNonce + 1, nonce' >= nonce, changed' \in BOOLEAN, NEW k,
         \A j \in DOMAIN outers : outers'[j].tx = outers[j].tx,
         \A j \in DOMAIN outers : j # k => outers'[j] = outers[j],
         k \in DOMAIN outers /\ outers[k].status # "pending" => outers'[k] = outers[k],
         k \in DOMAIN outers /\ outers'[k].status = "success" /\ outers[k].status = "pending"
           => outers[k].tx.nonce = nonce /\ nonce' = nonce + 1
  PROVE  SafeInvariant'
<1>1. outers \in Seq(Outer) /\ Len(outers) \in Nat /\ DOMAIN outers = 1 .. Len(outers) /\ nonce \in Nat
  BY SafeBoundsAssumption DEF SafeInvariant, SafeTypeOK, Outer
<1>2. Added' = Added
  BY DEF Added
<1>3. SafeTypeOK'
  BY DEF SafeInvariant, SafeTypeOK, Outer
<1>4. CallPart'
  BY <1>2 DEF SafeInvariant, CallPart, CallOK
<1>5. SignPart' /\ PostPart' /\ OwnerPart'
  BY <1>2 DEF SafeInvariant, SignPart, ApprovalsAreGenuine, PostPart, OwnerPart
<1>6. \A j \in DOMAIN outers : outers[j].status = "success" => outers'[j] = outers[j]
  OBVIOUS
<1>7. OuterPart'
  <2>1. \A p \in Added : pending[p].outer > 0 => pending[p].outer \in DOMAIN outers
    BY <1>1 DEF SafeInvariant, OuterPart
  <2> QED BY <2>1, <1>2, <1>6 DEF SafeInvariant, OuterPart, Accounting
<1>8. \A j \in DOMAIN outers : outers[j].tx.nonce \in Nat
  <2> SUFFICES ASSUME NEW j \in DOMAIN outers
               PROVE  outers[j].tx.nonce \in Nat
    OBVIOUS
  <2>1. outers[j] \in Outer
    BY <1>1, ElementOfSeq
  <2> QED BY <2>1, SafeBoundsAssumption DEF Outer, SafeTx
<1>9. \A j \in DOMAIN outers : outers'[j].status = "success" =>
        \/ outers[j].status = "success"
        \/ j = k /\ outers[j].tx.nonce = nonce /\ nonce' = nonce + 1
  <2>1. \A j \in DOMAIN outers : outers[j].status \in {"pending", "success", "reverted"}
    <3> SUFFICES ASSUME NEW j \in DOMAIN outers
                 PROVE  outers[j].status \in {"pending", "success", "reverted"}
      OBVIOUS
    <3>1. outers[j] \in Outer
      BY <1>1, ElementOfSeq
    <3> QED BY <3>1 DEF Outer
  <2> QED BY <2>1
<1>10. NoncePart'
  <2>1. ASSUME NEW i \in DOMAIN outers, outers'[i].status = "success"
        PROVE  outers'[i].tx.nonce < nonce'
    BY <2>1, <1>1, <1>8, <1>9, SafeBoundsAssumption DEF SafeInvariant, NoncePart
  <2>2. ASSUME NEW i \in DOMAIN outers, outers'[i].status = "success",
               NEW j \in DOMAIN outers, outers'[j].status = "success",
               outers'[j].tx.nonce = outers'[i].tx.nonce
        PROVE  j = i
    <3>1. outers[j].tx.nonce = outers[i].tx.nonce
      BY <2>2
    <3>2. CASE outers[i].status = "success" /\ outers[j].status = "success"
      BY <3>1, <3>2 DEF SafeInvariant, NoncePart
    <3>3. CASE outers[i].status = "success" /\ outers[j].status # "success"
      <4>1. outers[i].tx.nonce < nonce /\ outers[j].tx.nonce = nonce
        BY <3>3, <2>2, <1>9 DEF SafeInvariant, NoncePart
      <4> QED BY <4>1, <3>1, <1>1, <1>8
    <3>4. CASE outers[i].status # "success" /\ outers[j].status = "success"
      <4>1. outers[j].tx.nonce < nonce /\ outers[i].tx.nonce = nonce
        BY <3>4, <2>2, <1>9 DEF SafeInvariant, NoncePart
      <4> QED BY <4>1, <3>1, <1>1, <1>8
    <3>5. CASE outers[i].status # "success" /\ outers[j].status # "success"
      BY <3>5, <2>2, <1>9
    <3> QED BY <3>2, <3>3, <3>4, <3>5
  <2> QED BY <2>1, <2>2 DEF NoncePart
<1> QED BY <1>3, <1>4, <1>5, <1>7, <1>10 DEF SafeInvariant

LEMMA MineStep ==
  ASSUME SafeInvariant, NEW k \in 1 .. Len(outers), Mine(k)
  PROVE  SafeInvariant'
<1>1. outers \in Seq(Outer) /\ Len(outers) \in Nat /\ DOMAIN outers = 1 .. Len(outers)
      /\ nonce \in 0 .. MaxSafeNonce + 1 /\ changed \in BOOLEAN
  BY DEF SafeInvariant, SafeTypeOK, Outer
<1>2. outers[k] \in Outer
  BY <1>1, ElementOfSeq
<1>3. UNCHANGED <<pending, signatures, safecalls, posts, safebooks, changed>> /\ outers[k].status = "pending"
  BY DEF Mine
<1>4. ASSUME NEW s \in {"success", "reverted"}, outers' = [outers EXCEPT ![k].status = s],
             s = "success" => outers[k].tx.nonce = nonce /\ nonce' = nonce + 1,
             s = "reverted" => nonce' = nonce
      PROVE  SafeInvariant'
  <2>1. PICK e : e = [outers[k] EXCEPT !.status = s]
    OBVIOUS
  <2>2. e \in Outer /\ e.tx = outers[k].tx /\ e.status = s
    BY <1>2, <2>1 DEF Outer
  <2>3. outers' = [outers EXCEPT ![k] = e]
    BY <1>1, <1>4, <2>1
  <2>4. outers' \in Seq(Outer) /\ Len(outers') = Len(outers)
    BY <1>1, <2>2, <2>3, ExceptSeq
  <2>5. DOMAIN outers' = DOMAIN outers /\ outers'[k] = e
        /\ \A j \in DOMAIN outers : j # k => outers'[j] = outers[j]
    BY <1>1, <2>3
  <2>6. nonce' \in 0 .. MaxSafeNonce + 1 /\ nonce' >= nonce
    BY <1>1, <1>2, <1>4, SafeBoundsAssumption DEF Outer, SafeTx
  <2> QED BY <1>1, <1>3, <1>4, <2>2, <2>4, <2>5, <2>6, ChainMoves
<1> QED BY <1>4 DEF Mine

LEMMA ElsewhereStep ==
  ASSUME SafeInvariant, ExecutedElsewhere \/ OwnersChange
  PROVE  SafeInvariant'
<1>1. outers' = outers /\ UNCHANGED <<pending, signatures, safecalls, posts, safebooks>>
  BY DEF ExecutedElsewhere, OwnersChange
<1>2. outers' \in Seq(Outer)
  BY <1>1 DEF SafeInvariant, SafeTypeOK, Outer
<1>3. nonce' \in 0 .. MaxSafeNonce + 1 /\ nonce' >= nonce /\ changed' \in BOOLEAN
  <2>1. nonce \in 0 .. MaxSafeNonce + 1 /\ changed \in BOOLEAN
    BY DEF SafeInvariant, SafeTypeOK
  <2>2. CASE ExecutedElsewhere
    BY <2>1, <2>2, SafeBoundsAssumption DEF ExecutedElsewhere
  <2>3. CASE OwnersChange
    BY <2>1, <2>3, SafeBoundsAssumption DEF OwnersChange
  <2> QED BY <2>2, <2>3
<1>4. 0 \notin DOMAIN outers
  BY DEF SafeInvariant, SafeTypeOK
<1> QED BY <1>1, <1>2, <1>3, <1>4, ChainMoves

\* A restart forgets the calls, and the posts whose answer is not known.
LEMMA SafeRestartStep ==
  ASSUME SafeInvariant, SafeRestarts
  PROVE  SafeInvariant'
<1>1. safecalls' = {} /\ posts' = [p \in Payments |-> "none"]
      /\ UNCHANGED <<signatures, chain, safebooks>>
  BY DEF SafeRestarts
<1>2. ASSUME NEW p \in Payments
      PROVE  /\ pending'[p] \in PendingTx \union {NoPayment}
             /\ p \in Added' <=> p \in Added
             /\ p \in Added => /\ pending'[p].tx = pending[p].tx /\ pending'[p].outer = pending[p].outer
                               /\ pending'[p].state = IF pending[p].state = "posting" THEN "post_failed"
                                                      ELSE pending[p].state
  <2>1. CASE p \in Added /\ pending[p].state = "posting"
    <3>1. pending[p] \in PendingTx
      BY <2>1 DEF Added, SafeInvariant, SafeTypeOK
    <3>2. pending'[p] = [pending[p] EXCEPT !.state = "post_failed"]
      BY <2>1 DEF SafeRestarts
    <3>3. /\ pending'[p] \in PendingTx /\ pending'[p].tx = pending[p].tx
          /\ pending'[p].outer = pending[p].outer /\ pending'[p].state = "post_failed"
      BY <3>1, <3>2 DEF PendingTx, SafeState
    <3> QED BY <2>1, <3>3, NoPaymentAssumption DEF Added
  <2>2. CASE ~(p \in Added /\ pending[p].state = "posting")
    <3>1. pending'[p] = pending[p]
      BY <2>2 DEF SafeRestarts
    <3> QED BY <2>2, <3>1 DEF Added, SafeInvariant, SafeTypeOK
  <2> QED BY <2>1, <2>2
<1>3. Added' = Added /\ \A p \in Added : p \in Payments
  BY <1>2 DEF Added
<1>4. SafeTypeOK'
  <2>1. pending' \in [Payments -> PendingTx \union {NoPayment}]
    BY <1>2 DEF SafeRestarts
  <2> QED BY <1>1, <2>1 DEF SafeInvariant, SafeTypeOK, chain
<1>5. CallPart' /\ OwnerPart'
  BY <1>1, <1>2, <1>3 DEF SafeInvariant, CallPart, OwnerPart
<1>6. SignPart'
  BY <1>1, <1>2, <1>3, SignKept DEF SafeInvariant
<1>7. PostPart' /\ OuterPart'
  BY <1>1, <1>2, <1>3 DEF SafeInvariant, PostPart, OuterPart, Accounting, chain
<1>8. NoncePart'
  BY <1>1 DEF SafeInvariant, NoncePart, chain
<1> QED BY <1>4, <1>5, <1>6, <1>7, <1>8 DEF SafeInvariant

LEMMA SafeStepInvariant ==
  ASSUME SafeInvariant, [SafeNext]_safevars
  PROVE  SafeInvariant'
<1>1. CASE UNCHANGED safevars
  <2>1. Added' = Added
    BY <1>1 DEF safevars, Added
  <2> QED BY <1>1, <2>1 DEF safevars, chain, SafeInvariant, SafeTypeOK, CallPart, CallOK, SignPart,
          ApprovalsAreGenuine, PostPart, OwnerPart, OuterPart, NoncePart
<1>2. CASE SafeNext
  BY <1>2, BuildStep, AddStep, PageStep, RecordStep, SubmitStep, ReturnStep, PostStep, MineStep,
     ElsewhereStep, SafeRestartStep DEF SafeNext
<1> QED BY <1>1, <1>2

\* Every approval on record is genuine and of an owner of its own, and a payment
\* is ready exactly when it has enough of them (recordEvmSignature).
THEOREM ApprovalsGenuine == SafeSpec => []ApprovalsAreGenuine
<1>1. SafeInvariant => ApprovalsAreGenuine
  BY DEF SafeInvariant, SignPart
<1> QED BY <1>1, SafeInitInvariant, SafeStepInvariant, PTL DEF SafeSpec

\* Whatever is accounted for was executed by the transaction on record, and no
\* two payments by one nonce of the Safe (handleExecute, runPostSafePayment).
THEOREM AccountedWasExecuted == SafeSpec => []BookedWasExecuted
<1>1. ASSUME SafeInvariant
      PROVE  BookedWasExecuted
  <2> DEFINE accounted == {p \in Added : \/ pending[p].state \in {"posting", "posted", "post_failed"}
                                        \/ p \in safebooks \/ posts[p] # "none"}
  <2>1. \A p \in accounted : p \in Added /\ p \in Payments /\ pending[p].state \in Accounting
    BY <1>1 DEF SafeInvariant, PostPart, Accounting, Added
  <2>2. \A p \in accounted : /\ pending[p].outer > 0 /\ pending[p].outer \in DOMAIN outers
                             /\ outers[pending[p].outer].status = "success"
                             /\ outers[pending[p].outer].tx = pending[p].tx
    BY <1>1, <2>1 DEF SafeInvariant, SafeTypeOK, OuterPart
  <2>3. \A p, q \in accounted : pending[p].tx.nonce = pending[q].tx.nonce => p = q
    BY <1>1, <2>1, <2>2 DEF SafeInvariant, NoncePart, OwnerPart
  <2>4. \A p \in Added : pending[p].state = "posted" => p \in safebooks
    BY <1>1 DEF SafeInvariant, PostPart, Added
  <2> QED BY <2>2, <2>3, <2>4 DEF BookedWasExecuted
<1> QED BY <1>1, SafeInitInvariant, SafeStepInvariant, PTL DEF SafeSpec

-----------------------------------------------------------------------------
(***************************************************************************)
(* SolanaPayments.  A review becomes the record once, so that a call made  *)
(* for the record's review was made for this record; the evidence on       *)
(* record is that of its review; the chain uses a durable nonce once.      *)
(***************************************************************************)
SolReviewPart ==
  /\ \A c \in solcalls : c.review \in DOMAIN reviews
  /\ Recorded => record.review \in DOMAIN reviews
  /\ solpost.stage # "idle" => solpost.review \in DOMAIN reviews
  /\ solbooks \subseteq DOMAIN reviews

SolFreshPart ==
  \A c \in solcalls : c.kind = "prepare" =>
    /\ Recorded => record.review # c.review
    /\ \A d \in solcalls : d.review = c.review => d = c

SolSentPart ==
  /\ Recorded /\ record.state \in {"ready", "submitting"} => Complete(record)
  /\ \A c \in solcalls :
       /\ c.kind \in {"submit", "sent"} /\ Recorded /\ record.review = c.review => Complete(record)
       /\ c.kind = "sent" => reviews[c.review] \in wire
  /\ ReceiptWasSent

SolChainPart ==
  \A t \in Tx : status[t] # "unknown" =>
    /\ t \in wire /\ t.nonce < durable
    /\ \A u \in Tx : status[u] # "unknown" /\ u.nonce = t.nonce => u = t

SolEvidencePart ==
  Recorded =>
    /\ record.evidence # 0 => /\ record.evidence = record.review
                              /\ status[reviews[record.review]] = "finalized"
    /\ record.accounting \in {"ready", "posting", "posted", "post_failed"} => record.evidence # 0
    /\ record.reconcile => record.rollback

SolPostPart ==
  /\ Recorded /\ record.accounting = "posting" =>
       solpost.stage # "idle" /\ solpost.review = record.review
  /\ Recorded /\ record.accounting = "posted" => record.review \in solbooks
  /\ solpost.stage # "idle" => status[reviews[solpost.review]] = "finalized"
  /\ solpost.stage = "booked" => solpost.review \in solbooks

SolBooksPart ==
  /\ \A k \in solbooks : status[reviews[k]] = "finalized"
  /\ \A j, k \in solbooks : reviews[j].nonce = reviews[k].nonce => j = k

SolInvariant == /\ SolTypeOK /\ SolReviewPart /\ SolFreshPart /\ SolSentPart
                /\ SolChainPart /\ SolEvidencePart /\ SolPostPart /\ SolBooksPart

LEMMA SolInitInvariant ==
  ASSUME SolInit
  PROVE  SolInvariant
<1>1. SolTypeOK
  <2>1. reviews \in Seq(Tx) /\ Len(reviews) <= MaxReviews
    BY SolBoundsAssumption DEF SolInit
  <2>2. durable \in 0 .. MaxNonce + 1
    BY SolBoundsAssumption DEF SolInit
  <2> QED BY <2>1, <2>2 DEF SolInit, SolTypeOK, Idle, TxState
<1>2. ~Recorded
  BY DEF SolInit, Recorded
<1> QED
  BY <1>1, <1>2 DEF SolInit, SolInvariant, SolReviewPart, SolFreshPart, SolSentPart, ReceiptWasSent,
                    SolChainPart, SolEvidencePart, SolPostPart, SolBooksPart, Idle

\* The transaction of a review that was prepared.
LEMMA ReviewsAreTx ==
  ASSUME SolTypeOK, NEW k \in DOMAIN reviews
  PROVE  reviews[k] \in Tx /\ k \in Review
<1>1. reviews \in Seq(Tx) /\ Len(reviews) \in Nat /\ Len(reviews) <= MaxReviews
      /\ DOMAIN reviews = 1 .. Len(reviews)
  BY DEF SolTypeOK
<1>2. reviews[k] \in Tx
  BY <1>1, ElementOfSeq
<1> QED BY <1>1, <1>2, SolBoundsAssumption DEF Review

LEMMA SolCallFields ==
  ASSUME NEW c \in SolCall
  PROVE  /\ c.kind \in {"prepare", "submit", "sent", "import"} /\ c.review \in Review
         /\ c.kind = "import" => c.signer \in Required
         /\ c.kind # "import" => c = [kind |-> c.kind, review |-> c.review]
BY DEF SolCall

\* A step of the page, of the check or of the post: the record is removed or
\* remains that of its review, at most the call d starts for it, and the chain
\* and the books stay.
LEMMA PageMoves ==
  ASSUME SolInvariant, UNCHANGED <<reviews, solbooks, solchain>>,
         record' \in Record \union {NoRecord}, refused' \in BOOLEAN,
         check' \in [stage : {"idle", "status", "evidence", "post"}, review : Review \union {0}],
         NEW d,
         \/ solcalls' \subseteq solcalls
         \/ /\ solcalls' = solcalls \union {d} /\ d \in SolCall
            /\ d.kind \in {"import", "submit"} /\ Recorded /\ d.review = record.review
            /\ d.kind = "submit" => Complete(record),
         Recorded' =>
           /\ Recorded /\ record'.review = record.review
           /\ Complete(record) => Complete(record')
           /\ record'.state \in {"ready", "submitting"} => Complete(record')
           /\ record'.receipt =>
                record.receipt \/ (Complete(record') /\ reviews[record.review] \in wire)
           /\ \/ record'.evidence = record.evidence
              \/ record'.evidence = record.review /\ status[reviews[record.review]] = "finalized"
           /\ record'.accounting \in {"ready", "posting", "posted", "post_failed"} => record'.evidence # 0
           /\ record'.reconcile => record'.rollback
           /\ record'.accounting = "posting" =>
                solpost'.stage # "idle" /\ solpost'.review = record.review
           /\ record'.accounting = "posted" => record.review \in solbooks,
         \/ solpost' = solpost \/ solpost' = Idle
         \/ /\ Recorded /\ solpost' = [stage |-> "asked", review |-> record.review]
            /\ status[reviews[record.review]] = "finalized"
  PROVE  SolInvariant'
<1>1. Recorded => record \in Record /\ record.review \in Review
  BY DEF Recorded, SolInvariant, SolTypeOK, Record
<1>2. solcalls' \subseteq SolCall
  BY DEF SolInvariant, SolTypeOK
<1>3. solpost' \in [stage : {"idle", "asked", "booked"}, review : Review \union {0}]
  BY <1>1 DEF SolInvariant, SolTypeOK, Idle
<1>4. SolTypeOK'
  BY <1>2, <1>3 DEF SolInvariant, SolTypeOK, solchain
<1>5. solpost'.stage # "idle" => \/ solpost' = solpost
                               \/ /\ Recorded /\ solpost'.stage = "asked"
                                  /\ solpost'.review = record.review
                                  /\ status[reviews[record.review]] = "finalized"
  BY DEF Idle
<1>6. SolReviewPart'
  BY <1>5 DEF SolInvariant, SolReviewPart
<1>7. SolFreshPart'
  BY DEF SolInvariant, SolFreshPart
<1>8. SolSentPart'
  BY DEF SolInvariant, SolSentPart, ReceiptWasSent, solchain
<1>9. SolChainPart' /\ SolBooksPart'
  BY DEF SolInvariant, SolChainPart, SolBooksPart, solchain
<1>10. SolEvidencePart'
  BY DEF SolInvariant, SolEvidencePart, solchain
<1>11. SolPostPart'
  BY <1>5 DEF SolInvariant, SolPostPart, solchain
<1> QED BY <1>4, <1>6, <1>7, <1>8, <1>9, <1>10, <1>11 DEF SolInvariant

\* What the invariant says of a record and of what changes of it.
LEMMA RecordFields ==
  ASSUME SolInvariant, Recorded
  PROVE  /\ record \in Record /\ record.review \in Review /\ record.signed \in SUBSET Required
         /\ record.receipt => Complete(record) /\ reviews[record.review] \in wire
         /\ record.state \in {"ready", "submitting"} => Complete(record)
         /\ record.evidence # 0 => record.evidence = record.review
                                   /\ status[reviews[record.review]] = "finalized"
         /\ record.accounting \in {"ready", "posting", "posted", "post_failed"} => record.evidence # 0
         /\ record.reconcile => record.rollback
         /\ record.accounting = "posting" => solpost.stage # "idle" /\ solpost.review = record.review
         /\ record.accounting = "posted" => record.review \in solbooks
BY DEF Recorded, SolInvariant, SolTypeOK, Record, SolSentPart, ReceiptWasSent, SolEvidencePart, SolPostPart

\* A step that changes no field of the record but its state.
LEMMA StateOnly ==
  ASSUME SolInvariant, Recorded, UNCHANGED <<reviews, solpost, solbooks, solchain>>,
         refused' \in BOOLEAN,
         check' \in [stage : {"idle", "status", "evidence", "post"}, review : Review \union {0}],
         NEW d,
         \/ solcalls' \subseteq solcalls
         \/ /\ solcalls' = solcalls \union {d} /\ d \in SolCall
            /\ d.kind \in {"import", "submit"} /\ d.review = record.review
            /\ d.kind = "submit" => Complete(record),
         NEW new \in {"reviewed", "collecting_signatures", "ready", "submitting", "submitted", "failed"},
         new \in {"ready", "submitting"} => Complete(record),
         record' = [record EXCEPT !.state = new]
  PROVE  SolInvariant'
<1>1. record \in Record
  BY RecordFields
<1>2. record' \in Record /\ record'.state = new
      /\ record'.review = record.review /\ record'.signed = record.signed
      /\ record'.receipt = record.receipt /\ record'.evidence = record.evidence
      /\ record'.accounting = record.accounting /\ record'.reconcile = record.reconcile
      /\ record'.rollback = record.rollback
  BY <1>1 DEF Record
<1> QED BY <1>2, RecordFields, PageMoves DEF Complete

\* A step that leaves the record as it is, or removes it.
LEMMA RecordStays ==
  ASSUME SolInvariant, UNCHANGED <<reviews, solpost, solbooks, solchain>>,
         record' = record \/ record' = NoRecord, refused' \in BOOLEAN,
         check' \in [stage : {"idle", "status", "evidence", "post"}, review : Review \union {0}],
         NEW d,
         \/ solcalls' \subseteq solcalls
         \/ /\ solcalls' = solcalls \union {d} /\ d \in SolCall /\ Recorded
            /\ d.kind \in {"import", "submit"} /\ d.review = record.review
            /\ d.kind = "submit" => Complete(record)
  PROVE  SolInvariant'
<1>1. record' \in Record \union {NoRecord}
  BY DEF SolInvariant, SolTypeOK
<1>2. Recorded' => Recorded /\ record' = record
  BY DEF Recorded
<1> QED BY <1>1, <1>2, RecordFields, PageMoves DEF Complete

\* The page: reviews are refused, discarded, signed and submitted.
LEMMA SolPageStep ==
  ASSUME SolInvariant,
         \/ \E review \in BOOLEAN : ValidationFails(review)
         \/ Clear \/ Submit \/ CheckStarts \/ StatusFails \/ EvidenceFails
         \/ \E signer \in Required : ImportEnvelope(signer)
         \/ \E c \in solcalls : SolCallFails(c)
  PROVE  SolInvariant'
<1>1. refused \in BOOLEAN /\ Idle \in [stage : {"idle", "status", "evidence", "post"}, review : Review \union {0}]
      /\ check \in [stage : {"idle", "status", "evidence", "post"}, review : Review \union {0}]
  BY DEF SolInvariant, SolTypeOK, Idle
<1>2. ASSUME NEW review \in BOOLEAN, ValidationFails(review)
      PROVE  SolInvariant'
  <2>1. refused' \in BOOLEAN
    BY Zenon, <1>1, <1>2 DEF ValidationFails
  <2> QED BY <1>1, <1>2, <2>1, StateOnly DEF ValidationFails, Failed
<1>3. CASE Clear
  BY <1>1, <1>3, RecordStays DEF Clear
<1>4. CASE Submit
  <2>1. Complete(record) /\ record.review \in Review
    BY <1>4, RecordFields DEF Submit
  <2> DEFINE d == [kind |-> "submit", review |-> record.review]
  <2>2. d \in SolCall /\ d.kind = "submit" /\ d.review = record.review
    BY <2>1 DEF SolCall
  <2>3. solcalls' = solcalls \union {d} /\ record' = [record EXCEPT !.state = "submitting"] /\ Recorded
        /\ UNCHANGED <<reviews, refused, check, solpost, solbooks, solchain>>
    BY <1>4 DEF Submit, SolStarts
  <2> HIDE DEF d
  <2> QED BY <1>1, <2>1, <2>2, <2>3, StateOnly
<1>5. CASE CheckStarts
  <2>1. check' \in [stage : {"idle", "status", "evidence", "post"}, review : Review \union {0}]
    BY <1>5, RecordFields DEF CheckStarts
  <2> QED BY <1>1, <1>5, <2>1, RecordStays DEF CheckStarts
<1>6. CASE StatusFails
  <2>1. CASE Recorded
    BY <1>1, <1>6, <2>1, StateOnly DEF StatusFails, Failed
  <2>2. CASE ~Recorded
    BY <1>1, <1>6, <2>2, RecordStays DEF StatusFails
  <2> QED BY <2>1, <2>2
<1>7. CASE EvidenceFails
  BY <1>1, <1>7, RecordStays DEF EvidenceFails
<1>8. ASSUME NEW signer \in Required, ImportEnvelope(signer)
      PROVE  SolInvariant'
  <2>1. record.review \in Review /\ Recorded
    BY <1>8, RecordFields DEF ImportEnvelope
  <2> DEFINE d == [kind |-> "import", review |-> record.review, signer |-> signer]
  <2>2. d \in SolCall /\ d.kind = "import" /\ d.review = record.review
    BY <2>1 DEF SolCall
  <2>3. solcalls' = solcalls \union {d} /\ UNCHANGED <<reviews, record, refused, check, solpost, solbooks, solchain>>
    BY <1>8 DEF ImportEnvelope, SolStarts
  <2> HIDE DEF d
  <2> QED BY <1>1, <2>1, <2>2, <2>3, RecordStays
<1>9. ASSUME NEW c \in solcalls, SolCallFails(c)
      PROVE  SolInvariant'
  <2>1. solcalls' \subseteq solcalls /\ UNCHANGED <<reviews, refused, check, solpost, solbooks, solchain>>
    BY <1>9 DEF SolCallFails, SolEnds
  <2>2. CASE record' = record
    BY <1>1, <2>1, <2>2, RecordStays
  <2>3. CASE Recorded /\ record' = [record EXCEPT !.state = IF Complete(record) THEN "ready" ELSE "failed"]
    BY <1>1, <2>1, <2>3, StateOnly
  <2> QED BY <1>9, <2>2, <2>3 DEF SolCallFails
<1> QED BY <1>2, <1>3, <1>4, <1>5, <1>6, <1>7, <1>8, <1>9

LEMMA SignatureStep ==
  ASSUME SolInvariant, NEW c \in solcalls, AddVerifiedSignature(c)
  PROVE  SolInvariant'
<1>1. refused \in BOOLEAN
      /\ check \in [stage : {"idle", "status", "evidence", "post"}, review : Review \union {0}]
  BY DEF SolInvariant, SolTypeOK
<1>2. solcalls' \subseteq solcalls /\ UNCHANGED <<reviews, refused, check, solpost, solbooks, solchain>>
  BY DEF AddVerifiedSignature, SolEnds
<1>3. CASE record' = record
  BY <1>1, <1>2, <1>3, RecordStays
<1>4. CASE record' # record
  <2> DEFINE more == record.signed \union {c.signer}
             new == IF more = Required THEN "ready" ELSE "collecting_signatures"
  <2>1. Recorded /\ record' = [record EXCEPT !.signed = more, !.state = new]
    BY <1>4 DEF AddVerifiedSignature
  <2>2. more \in SUBSET Required
    <3>1. c \in SolCall /\ c.kind = "import"
      BY DEF AddVerifiedSignature, SolInvariant, SolTypeOK
    <3> QED BY <3>1, <2>1, SolCallFields, RecordFields
  <2>3. new \in {"ready", "collecting_signatures"} /\ (new = "ready" => more = Required)
        /\ (record.signed = Required => more = Required)
    BY <2>2
  <2> HIDE DEF more, new
  <2>4. record' \in Record /\ record'.signed = more /\ record'.state = new
        /\ record'.review = record.review
        /\ record'.receipt = record.receipt /\ record'.evidence = record.evidence
        /\ record'.accounting = record.accounting /\ record'.reconcile = record.reconcile
        /\ record'.rollback = record.rollback
    BY <2>1, <2>2, <2>3, RecordFields DEF Record
  <2> QED BY <1>1, <1>2, <2>1, <2>3, <2>4, RecordFields, PageMoves DEF Complete
<1> QED BY <1>3, <1>4

LEMMA ReceiptStep ==
  ASSUME SolInvariant, NEW c \in solcalls, AcceptReceipt(c)
  PROVE  SolInvariant'
<1>1. refused \in BOOLEAN
      /\ check \in [stage : {"idle", "status", "evidence", "post"}, review : Review \union {0}]
  BY DEF SolInvariant, SolTypeOK
<1>2. solcalls' \subseteq solcalls /\ UNCHANGED <<reviews, refused, check, solpost, solbooks, solchain>>
  BY DEF AcceptReceipt, SolEnds
<1>3. CASE ~(Recorded /\ record.review = c.review)
  BY <1>1, <1>2, <1>3, RecordStays DEF AcceptReceipt
<1>4. CASE Recorded /\ record.review = c.review
  <2>1. record' = [record EXCEPT !.state = "submitted", !.receipt = TRUE, !.seen = "processed",
                                 !.accounting = "awaiting_finalization"]
    BY <1>4 DEF AcceptReceipt
  <2>2. c.review \in DOMAIN reviews /\ reviews[c.review] \in Tx
    BY ReviewsAreTx DEF SolInvariant, SolReviewPart
  <2>3. reviews[c.review] \in wire
    BY <2>2 DEF AcceptReceipt, SolInvariant, SolSentPart, SolChainPart
  <2>4. Complete(record)
    BY <1>4 DEF AcceptReceipt, SolInvariant, SolSentPart
  <2>5. record' \in Record /\ record'.signed = record.signed /\ record'.state = "submitted"
        /\ record'.review = record.review /\ record'.evidence = record.evidence
        /\ record'.accounting = "awaiting_finalization" /\ record'.reconcile = record.reconcile
        /\ record'.rollback = record.rollback
    BY <1>4, <2>1, RecordFields DEF Record, TxState
  <2> QED BY <1>1, <1>2, <1>4, <2>3, <2>4, <2>5, RecordFields, PageMoves DEF Complete
<1> QED BY <1>3, <1>4

\* The record becomes r, what the check or the operator made of it, and is
\* posted when it can be.
LEMMA RunPostStep ==
  ASSUME SolInvariant, Recorded, UNCHANGED <<reviews, refused, solcalls, solbooks, solchain>>,
         check' \in [stage : {"idle", "status", "evidence", "post"}, review : Review \union {0}],
         NEW r \in Record,
         /\ r.review = record.review /\ r.signed = record.signed /\ r.state = record.state
         /\ r.receipt = record.receipt
         /\ \/ r.evidence = record.evidence
            \/ r.evidence = record.review /\ status[reviews[record.review]] = "finalized"
         /\ r.accounting \in {"ready", "posting", "posted", "post_failed"} => r.evidence # 0
         /\ r.reconcile => r.rollback
         /\ r.accounting \in {"posting", "posted"} => r.accounting = record.accounting,
         RunPost(r) \/ (record' = r /\ UNCHANGED solpost)
  PROVE  SolInvariant'
<1>1. refused' \in BOOLEAN
  BY DEF SolInvariant, SolTypeOK
<1>2. CASE record' = r /\ UNCHANGED solpost
  BY <1>1, <1>2, RecordFields, PageMoves DEF Complete
<1>3. CASE ~(record' = r /\ UNCHANGED solpost)
  <2>1. r.accounting \in {"ready", "post_failed"} /\ Postable(r)
        /\ record' = [r EXCEPT !.accounting = "posting"]
        /\ solpost' = [stage |-> "asked", review |-> r.review]
    BY <1>3 DEF RunPost
  <2>2. record' \in Record /\ record'.signed = r.signed /\ record'.state = r.state
        /\ record'.receipt = r.receipt
        /\ record'.review = r.review /\ record'.evidence = r.evidence
        /\ record'.accounting = "posting" /\ record'.reconcile = r.reconcile
        /\ record'.rollback = r.rollback
    BY <2>1 DEF Record
  <2>3. r.evidence # 0
    BY <2>1
  <2>4. status[reviews[record.review]] = "finalized"
    BY <2>3, RecordFields
  <2>5. solpost'.stage = "asked" /\ solpost'.review = record.review
    BY <2>1
  <2> QED BY <1>1, <2>1, <2>2, <2>3, <2>4, <2>5, RecordFields, PageMoves DEF Complete
<1> QED BY <1>2, <1>3

LEMMA UpdatedIs ==
  ASSUME NEW r \in Record, NEW s \in TxState, r.reconcile => r.rollback
  PROVE  LET u == Updated(r, s)
         IN  /\ u \in Record /\ u.review = r.review /\ u.signed = r.signed /\ u.state = r.state
             /\ u.receipt = r.receipt /\ u.evidence = r.evidence
             /\ u.accounting = r.accounting \/ u.accounting = "reconciliation_required"
             /\ u.reconcile => u.rollback
             /\ r.reconcile => u.reconcile
<1> DEFINE rollback == r.rollback \/ IsRegression(r.seen, s)
           reconcile == /\ rollback
                        /\ \/ r.seen = "finalized" \/ r.evidence # 0
                           \/ r.accounting = "posted" \/ r.reconcile
           u == Updated(r, s)
<1>1. rollback \in BOOLEAN /\ reconcile \in BOOLEAN
  BY Zenon DEF Record
<1>2. (reconcile => rollback) /\ (r.reconcile => reconcile)
  OBVIOUS
<1>3. u = [r EXCEPT !.seen = s, !.rollback = rollback, !.reconcile = reconcile,
                    !.accounting = IF reconcile THEN "reconciliation_required" ELSE @]
  BY DEF Updated
<1> HIDE DEF rollback, reconcile, u
<1>4. /\ u \in Record /\ u.review = r.review /\ u.signed = r.signed /\ u.state = r.state
      /\ u.receipt = r.receipt /\ u.evidence = r.evidence
      /\ u.accounting = r.accounting \/ u.accounting = "reconciliation_required"
      /\ u.reconcile = reconcile /\ u.rollback = rollback
  BY <1>1, <1>3 DEF Record
<1> QED BY Zenon, <1>2, <1>4 DEF u

\* The answers of the check, and the retry of a post that failed.
LEMMA SolCheckStep ==
  ASSUME SolInvariant, (\E s \in TxState : StatusHeard(s)) \/ EvidenceHeard \/ SolRetryPost
  PROVE  SolInvariant'
<1>1. check \in [stage : {"idle", "status", "evidence", "post"}, review : Review \union {0}]
      /\ Idle \in [stage : {"idle", "status", "evidence", "post"}, review : Review \union {0}]
      /\ refused \in BOOLEAN
  BY DEF SolInvariant, SolTypeOK, Idle
<1>2. UNCHANGED <<reviews, refused, solcalls, solbooks, solchain>>
  BY DEF StatusHeard, EvidenceHeard, SolRetryPost
<1>3. ASSUME NEW s \in TxState, StatusHeard(s)
      PROVE  SolInvariant'
  <2>1. CASE ~Recorded \/ ~record.receipt
    BY <1>1, <1>2, <1>3, <2>1, RecordStays DEF StatusHeard
  <2>2. CASE Recorded /\ record.receipt
    <3>1. PICK r : r = Updated(record, s)
      OBVIOUS
    <3>2. record \in Record /\ (record.reconcile => record.rollback)
      BY <2>2, RecordFields
    <3>3. /\ r \in Record /\ r.review = record.review /\ r.signed = record.signed
          /\ r.state = record.state
          /\ r.receipt = record.receipt /\ r.evidence = record.evidence
          /\ r.accounting = record.accounting \/ r.accounting = "reconciliation_required"
          /\ r.reconcile => r.rollback
      BY <3>1, <3>2, UpdatedIs
    <3>4. /\ RunPost(r) \/ (record' = r /\ UNCHANGED solpost)
          /\ check' \in {Idle, [stage |-> "evidence", review |-> r.review],
                         [stage |-> "post", review |-> r.review]}
      BY <1>3, <2>2, <3>1 DEF StatusHeard, AwaitsPost
    <3>5. check' \in [stage : {"idle", "status", "evidence", "post"}, review : Review \union {0}]
      BY <1>1, <3>3, <3>4, <2>2, RecordFields
    <3>6. r.accounting \in {"ready", "posting", "posted", "post_failed"} => r.evidence # 0
      BY <2>2, <3>3, RecordFields
    <3> QED BY <1>2, <2>2, <3>3, <3>4, <3>5, <3>6, RunPostStep
  <2> QED BY <2>1, <2>2
<1>4. CASE EvidenceHeard
  <2>1. CASE ~(Recorded /\ Accepts(record, check.review))
    BY <1>1, <1>2, <1>4, <2>1, RecordStays DEF EvidenceHeard
  <2>2. CASE Recorded /\ Accepts(record, check.review)
    <3>1. PICK r : r = [record EXCEPT !.evidence = check.review, !.accounting = "ready"]
      OBVIOUS
    <3>2. check.review = record.review /\ status[reviews[record.review]] = "finalized"
      BY <1>4, <2>2 DEF EvidenceHeard, Accepts
    <3>3. record \in Record /\ record.review \in Review /\ (record.reconcile => record.rollback)
      BY <2>2, RecordFields
    <3>4. /\ r \in Record /\ r.review = record.review /\ r.signed = record.signed
          /\ r.state = record.state
          /\ r.receipt = record.receipt /\ r.evidence = record.review
          /\ r.accounting = "ready" /\ r.reconcile = record.reconcile /\ r.rollback = record.rollback
      BY <3>1, <3>2, <3>3 DEF Record
    <3>5. RunPost(r) /\ AwaitsPost(record)
      BY <1>4, <2>2, <3>1 DEF EvidenceHeard
    <3>6. check' \in [stage : {"idle", "status", "evidence", "post"}, review : Review \union {0}]
      BY <1>1, <3>3, <3>5 DEF AwaitsPost
    <3>7. r.evidence # 0
      BY <3>3, <3>4, SolBoundsAssumption DEF Review
    <3> QED BY <1>2, <2>2, <3>2, <3>3, <3>4, <3>5, <3>6, <3>7, RunPostStep
  <2> QED BY <2>1, <2>2
<1>5. CASE SolRetryPost
  <2>1. Recorded /\ RunPost(record) /\ check' = check
    BY <1>5 DEF SolRetryPost
  <2> QED BY <1>1, <1>2, <2>1, RecordFields, RunPostStep
<1> QED BY <1>3, <1>4, <1>5

LEMMA SolPostEndsStep ==
  ASSUME SolInvariant, NEW heard \in BOOLEAN, SolPostEnds(heard)
  PROVE  SolInvariant'
<1>1. check' \in [stage : {"idle", "status", "evidence", "post"}, review : Review \union {0}]
      /\ refused' \in BOOLEAN
  BY DEF SolInvariant, SolTypeOK, Idle, SolPostEnds
<1>2. solpost' = Idle /\ UNCHANGED <<reviews, refused, solcalls, solbooks, solchain>>
  BY DEF SolPostEnds
<1>3. CASE ~(Recorded /\ record.accounting = "posting")
  <2>1. record' = record
    BY <1>3 DEF SolPostEnds
  <2>2. record' \in Record \union {NoRecord} /\ (Recorded' => Recorded)
    BY <2>1 DEF SolInvariant, SolTypeOK, Recorded
  <2> QED BY <1>1, <1>2, <1>3, <2>1, <2>2, RecordFields, PageMoves DEF Complete
<1>4. CASE Recorded /\ record.accounting = "posting"
  <2>1. PICK new \in {"posted", "post_failed"} :
          /\ record' = [record EXCEPT !.accounting = new]
          /\ new = "posted" => heard
    BY <1>4 DEF SolPostEnds
  <2>2. new = "posted" => record.review \in solbooks
    BY <1>4, <2>1, RecordFields DEF SolPostEnds, SolInvariant, SolPostPart
  <2>3. record' \in Record /\ record'.signed = record.signed /\ record'.state = record.state
        /\ record'.receipt = record.receipt
        /\ record'.review = record.review /\ record'.evidence = record.evidence
        /\ record'.accounting = new /\ record'.reconcile = record.reconcile
        /\ record'.rollback = record.rollback
    BY <1>4, <2>1, RecordFields DEF Record
  <2> QED BY <1>1, <1>2, <1>4, <2>2, <2>3, RecordFields, PageMoves DEF Complete
<1> QED BY <1>3, <1>4

LEMMA SolRestartStep ==
  ASSUME SolInvariant, SolRestarts
  PROVE  SolInvariant'
<1>1. check' \in [stage : {"idle", "status", "evidence", "post"}, review : Review \union {0}]
      /\ refused' \in BOOLEAN /\ solcalls' \subseteq solcalls
      /\ solpost' = Idle /\ UNCHANGED <<reviews, solbooks, solchain>>
  BY DEF Idle, SolRestarts
<1>2. CASE ~Recorded
  <2>1. record' = record
    BY <1>2 DEF SolRestarts
  <2>2. record' \in Record \union {NoRecord} /\ ~Recorded'
    BY <1>2, <2>1 DEF SolInvariant, SolTypeOK, Recorded
  <2> QED BY <1>1, <2>2, PageMoves
<1>3. CASE Recorded
  <2>1. PICK state \in {"reviewed", "collecting_signatures", "ready", "submitting", "submitted", "failed"},
             new \in {"awaiting_finalization", "ready", "posting", "posted", "post_failed",
                     "reconciliation_required"} :
          /\ record' = [record EXCEPT !.state = state, !.accounting = new]
          /\ state = IF record.state = "submitting" THEN "ready" ELSE record.state
          /\ new = IF record.accounting = "posting" THEN "post_failed" ELSE record.accounting
    <3>1. record.state \in {"reviewed", "collecting_signatures", "ready", "submitting", "submitted", "failed"}
          /\ record.accounting \in {"awaiting_finalization", "ready", "posting", "posted", "post_failed",
                                    "reconciliation_required"}
      BY <1>3, RecordFields DEF Record
    <3> QED BY <1>3, <3>1 DEF SolRestarts
  <2>2. record' \in Record /\ record'.signed = record.signed /\ record'.state = state
        /\ record'.receipt = record.receipt
        /\ record'.review = record.review /\ record'.evidence = record.evidence
        /\ record'.accounting = new /\ record'.reconcile = record.reconcile
        /\ record'.rollback = record.rollback
    BY <1>3, <2>1, RecordFields DEF Record
  <2>3. state \in {"ready", "submitting"} => Complete(record)
    BY <1>3, <2>1, RecordFields
  <2>4. /\ new \in {"ready", "posting", "posted", "post_failed"} => record.evidence # 0
        /\ new # "posting" /\ (new = "posted" => record.review \in solbooks)
    BY <1>3, <2>1, RecordFields
  <2> QED BY <1>1, <1>3, <2>2, <2>3, <2>4, RecordFields, PageMoves DEF Complete
<1> QED BY <1>2, <1>3

\* A new review gets a number no call, record or book has.
LEMMA PrepareStep ==
  ASSUME SolInvariant, NEW pay \in Pays, PaymentPrepare(pay)
  PROVE  SolInvariant'
<1>1. reviews \in Seq(Tx) /\ Len(reviews) \in Nat /\ DOMAIN reviews = 1 .. Len(reviews)
      /\ durable \in 0 .. MaxNonce
  BY SolBoundsAssumption DEF PaymentPrepare, SolInvariant, SolTypeOK
<1> PICK n \in Nat : n = Len(reviews) + 1
  BY <1>1
<1> PICK tx : tx = [pay |-> pay, nonce |-> durable]
  OBVIOUS
<1>2. tx \in Tx /\ reviews' = Append(reviews, tx)
  BY <1>1 DEF Tx, PaymentPrepare
<1>3. /\ reviews' \in Seq(Tx) /\ Len(reviews') = n /\ n \notin DOMAIN reviews
      /\ DOMAIN reviews' = DOMAIN reviews \union {n}
      /\ \A k \in DOMAIN reviews : reviews'[k] = reviews[k]
  BY <1>1, <1>2
<1> PICK d : d = [kind |-> "prepare", review |-> n]
  OBVIOUS
<1>4. solcalls' = solcalls \union {d} /\ ~Recorded
      /\ UNCHANGED <<record, refused, check, solpost, solbooks, solchain>>
  BY <1>3 DEF PaymentPrepare, SolStarts
<1>5. n \in Review /\ n <= MaxReviews
  BY <1>1, SolBoundsAssumption DEF PaymentPrepare, Review
<1>6. d \in SolCall /\ d.kind = "prepare" /\ d.review = n
  BY <1>5 DEF SolCall
<1>7. ~Recorded'
  BY <1>4 DEF Recorded
<1>8. SolTypeOK'
  BY <1>3, <1>4, <1>5, <1>6 DEF SolInvariant, SolTypeOK, solchain
<1>9. SolReviewPart'
  BY <1>3, <1>4, <1>6, <1>7 DEF SolInvariant, SolReviewPart
<1>10. SolFreshPart'
  BY <1>3, <1>4, <1>6, <1>7 DEF SolInvariant, SolFreshPart, SolReviewPart
<1>11. SolSentPart'
  BY <1>3, <1>4, <1>6, <1>7 DEF SolInvariant, SolSentPart, SolReviewPart, ReceiptWasSent, solchain
<1>12. SolChainPart' /\ SolEvidencePart' /\ SolPostPart'
  BY <1>3, <1>4, <1>7 DEF SolInvariant, SolChainPart, SolEvidencePart, SolPostPart, SolReviewPart, solchain
<1>13. SolBooksPart'
  BY <1>3, <1>4 DEF SolInvariant, SolBooksPart, SolReviewPart, solchain
<1> QED BY <1>8, <1>9, <1>10, <1>11, <1>12, <1>13 DEF SolInvariant

\* A review becomes the record: no other call was made for it.
LEMMA AcceptStep ==
  ASSUME SolInvariant, NEW c \in solcalls, AcceptProposal(c)
  PROVE  SolInvariant'
<1>1. c \in SolCall /\ c.kind = "prepare" /\ c.review \in Review /\ c.review \in DOMAIN reviews
      /\ \A d \in solcalls : d.review = c.review => d = c
  BY SolCallFields DEF AcceptProposal, SolInvariant, SolTypeOK, SolFreshPart, SolReviewPart
<1>2. solcalls' = solcalls \ {c} /\ refused' = FALSE
      /\ UNCHANGED <<reviews, check, solpost, solbooks, solchain>>
  BY DEF AcceptProposal, SolEnds
<1>3. record' \in Record /\ record'.review = c.review /\ record'.state = "reviewed" /\ record'.receipt = FALSE
      /\ record'.accounting = "awaiting_finalization" /\ record'.evidence = 0 /\ record'.reconcile = FALSE
  BY <1>1 DEF AcceptProposal, Record, TxState
<1>4. SolTypeOK'
  BY <1>2, <1>3 DEF SolInvariant, SolTypeOK, solchain
<1>5. SolReviewPart' /\ SolFreshPart'
  BY <1>1, <1>2, <1>3 DEF SolInvariant, SolReviewPart, SolFreshPart
<1>6. SolSentPart'
  BY <1>1, <1>2, <1>3 DEF SolInvariant, SolSentPart, ReceiptWasSent, solchain
<1>7. SolChainPart' /\ SolEvidencePart' /\ SolPostPart' /\ SolBooksPart'
  BY <1>2, <1>3 DEF SolInvariant, SolChainPart, SolEvidencePart, SolPostPart, SolBooksPart, solchain
<1> QED BY <1>4, <1>5, <1>6, <1>7 DEF SolInvariant

LEMMA SendStep ==
  ASSUME SolInvariant, NEW c \in solcalls, SendTransaction(c)
  PROVE  SolInvariant'
<1>1. c \in SolCall /\ c.kind = "submit" /\ c.review \in Review /\ c.review \in DOMAIN reviews
      /\ reviews[c.review] \in Tx
  BY SolCallFields, ReviewsAreTx DEF SendTransaction, SolInvariant, SolTypeOK, SolReviewPart
<1> PICK d : d = [kind |-> "sent", review |-> c.review]
  OBVIOUS
<1>2. d \in SolCall /\ d.kind = "sent" /\ d.review = c.review /\ d = [c EXCEPT !.kind = "sent"]
  <2>1. d \in SolCall /\ d.kind = "sent" /\ d.review = c.review
    BY <1>1 DEF SolCall
  <2>2. c = [kind |-> c.kind, review |-> c.review]
    BY <1>1, SolCallFields
  <2>3. d = [c EXCEPT !.kind = "sent"]
    BY <2>2
  <2> QED BY <2>1, <2>3
<1>3. wire' = wire \union {reviews[c.review]} /\ solcalls' = (solcalls \ {c}) \union {d}
      /\ UNCHANGED <<reviews, record, refused, check, solpost, solbooks, status, durable>>
  BY <1>2 DEF SendTransaction
<1>4. Recorded' <=> Recorded
  BY <1>3 DEF Recorded
<1>5. SolTypeOK'
  BY <1>1, <1>2, <1>3 DEF SolInvariant, SolTypeOK
<1>6. SolReviewPart' /\ SolFreshPart'
  BY <1>1, <1>2, <1>3, <1>4 DEF SolInvariant, SolReviewPart, SolFreshPart
<1>7. SolSentPart'
  BY <1>1, <1>2, <1>3, <1>4 DEF SolInvariant, SolSentPart, ReceiptWasSent, Complete
<1>8. SolChainPart' /\ SolEvidencePart' /\ SolPostPart' /\ SolBooksPart'
  BY <1>3, <1>4 DEF SolInvariant, SolChainPart, SolEvidencePart, SolPostPart, SolBooksPart
<1> QED BY <1>5, <1>6, <1>7, <1>8 DEF SolInvariant

LEMMA SolBookedStep ==
  ASSUME SolInvariant, SolBooked
  PROVE  SolInvariant'
<1>1. PICK k \in DOMAIN reviews : k = solpost.review /\ k \in Review
  BY ReviewsAreTx DEF SolBooked, SolInvariant, SolReviewPart
<1>2. /\ solpost.stage = "asked" /\ solbooks' = solbooks \union {k}
      /\ solpost' = [solpost EXCEPT !.stage = "booked"]
      /\ UNCHANGED <<reviews, record, refused, solcalls, check, solchain>>
      /\ \A j \in solbooks : j = k \/ reviews[j] # reviews[k]
  BY <1>1 DEF SolBooked
<1>3. solpost' \in [stage : {"idle", "asked", "booked"}, review : Review \union {0}]
      /\ solpost'.stage = "booked" /\ solpost'.review = k
  BY <1>1, <1>2 DEF SolInvariant, SolTypeOK
<1>4. Recorded' <=> Recorded
  BY <1>2 DEF Recorded
<1>5. SolTypeOK'
  BY <1>1, <1>2, <1>3 DEF SolInvariant, SolTypeOK, solchain
<1>6. SolReviewPart' /\ SolFreshPart' /\ SolSentPart' /\ SolChainPart' /\ SolEvidencePart'
  BY <1>1, <1>2, <1>3, <1>4
     DEF SolInvariant, SolReviewPart, SolFreshPart, SolSentPart, SolChainPart, SolEvidencePart,
         ReceiptWasSent, Complete, solchain
<1>7. status[reviews[k]] = "finalized"
  BY <1>1, <1>2 DEF SolInvariant, SolPostPart
<1>8. SolPostPart'
  BY <1>1, <1>2, <1>3, <1>4, <1>7 DEF SolInvariant, SolPostPart, solchain
<1>9. SolBooksPart'
  <2>1. \A j \in solbooks : reviews[j].nonce = reviews[k].nonce => j = k
    <3> SUFFICES ASSUME NEW j \in solbooks, reviews[j].nonce = reviews[k].nonce
                 PROVE  j = k
      OBVIOUS
    <3>1. j \in DOMAIN reviews /\ reviews[j] \in Tx /\ reviews[k] \in Tx
      BY ReviewsAreTx DEF SolInvariant, SolReviewPart
    <3>2. status[reviews[j]] = "finalized"
      BY DEF SolInvariant, SolBooksPart
    <3>3. reviews[j] = reviews[k]
      BY <3>1, <3>2, <1>7 DEF SolInvariant, SolChainPart
    <3> QED BY <3>3, <1>2
  <2> QED BY <2>1, <1>2, <1>7 DEF SolInvariant, SolBooksPart, solchain
<1> QED BY <1>5, <1>6, <1>8, <1>9 DEF SolInvariant

\* The network changes the status of a transaction that is not finalized.
LEMMA NetworkMoves ==
  ASSUME SolInvariant, UNCHANGED <<reviews, record, refused, solcalls, check, solpost, solbooks, wire>>,
         NEW t \in Tx, status[t] # "finalized", NEW s \in TxState,
         status' = [status EXCEPT ![t] = s], durable' \in 0 .. MaxNonce + 1,
         SolChainPart'
  PROVE  SolInvariant'
<1>1. \A u \in Tx : u # t => status'[u] = status[u]
  BY DEF SolInvariant, SolTypeOK
<1>2. \A u \in Tx : status[u] = "finalized" => status'[u] = "finalized"
  BY <1>1
<1>3. \A k \in DOMAIN reviews : status[reviews[k]] = "finalized" => status'[reviews[k]] = "finalized"
  BY <1>2, ReviewsAreTx DEF SolInvariant
<1>4. Recorded' <=> Recorded
  BY DEF Recorded
<1>5. SolTypeOK'
  BY DEF SolInvariant, SolTypeOK
<1>6. SolReviewPart' /\ SolFreshPart' /\ SolSentPart'
  BY <1>4 DEF SolInvariant, SolReviewPart, SolFreshPart, SolSentPart, ReceiptWasSent, Complete
<1>7. SolEvidencePart' /\ SolPostPart' /\ SolBooksPart'
  BY <1>3, <1>4 DEF SolInvariant, SolReviewPart, SolEvidencePart, SolPostPart, SolBooksPart
<1> QED BY <1>5, <1>6, <1>7 DEF SolInvariant

LEMMA SolNetworkStep ==
  ASSUME SolInvariant, NEW t \in Tx,
         (\E s \in {"processed", "failed"} : Land(t, s)) \/ Settle(t) \/ Abandon(t)
  PROVE  SolInvariant'
<1>1. t.nonce \in 0 .. MaxNonce /\ durable \in 0 .. MaxNonce + 1 /\ durable \in Nat
      /\ \A u \in Tx : u.nonce \in Nat
  BY SolBoundsAssumption DEF SolInvariant, SolTypeOK, Tx
<1>2. UNCHANGED <<reviews, record, refused, solcalls, check, solpost, solbooks, wire>>
  BY DEF Land, Settle, Abandon
<1>4. ASSUME NEW s \in {"processed", "failed"}, Land(t, s)
      PROVE  SolInvariant'
  <2>1. status' = [status EXCEPT ![t] = s] /\ durable' = durable + 1 /\ t \in wire
        /\ status[t] = "unknown" /\ t.nonce = durable
    BY <1>4 DEF Land
  <2>2. \A u \in Tx : status'[u] = IF u = t THEN s ELSE status[u]
    BY <2>1 DEF SolInvariant, SolTypeOK
  <2>3. durable' \in 0 .. MaxNonce + 1
    BY <1>1, <2>1, SolBoundsAssumption
  <2>4. \A u \in Tx : status[u] # "unknown" => u.nonce # t.nonce
    BY <1>1, <2>1 DEF SolInvariant, SolChainPart
  <2>5. \A u \in Tx : status'[u] # "unknown" => u.nonce < durable'
    BY <1>1, <2>1, <2>2 DEF SolInvariant, SolChainPart
  <2>6. SolChainPart'
    BY <1>2, <2>1, <2>2, <2>4, <2>5 DEF SolInvariant, SolChainPart
  <2> QED BY <1>2, <2>1, <2>3, <2>6, NetworkMoves DEF TxState
<1>5. CASE Settle(t)
  <2>1. PICK s \in {"confirmed", "finalized"} : status' = [status EXCEPT ![t] = s]
    BY <1>5 DEF Settle
  <2>2. \A u \in Tx : status'[u] = IF u = t THEN s ELSE status[u]
    BY <2>1 DEF SolInvariant, SolTypeOK
  <2>3. durable' = durable /\ status[t] \in {"processed", "confirmed"}
    BY <1>5 DEF Settle
  <2>4. SolChainPart'
    BY <1>2, <2>2, <2>3 DEF SolInvariant, SolChainPart
  <2> QED BY <1>1, <1>2, <2>1, <2>3, <2>4, NetworkMoves DEF TxState
<1>6. CASE Abandon(t)
  <2>1. status' = [status EXCEPT ![t] = "unknown"] /\ durable' = t.nonce /\ t.nonce + 1 = durable
        /\ status[t] \in {"processed", "confirmed"}
    BY <1>6 DEF Abandon
  <2>2. \A u \in Tx : status'[u] = IF u = t THEN "unknown" ELSE status[u]
    BY <2>1 DEF SolInvariant, SolTypeOK
  <2>3. durable' \in 0 .. MaxNonce + 1
    BY <1>1, <2>1, SolBoundsAssumption
  <2>4. \A u \in Tx : status'[u] # "unknown" => status[u] # "unknown" /\ u.nonce # t.nonce
    BY <2>1, <2>2 DEF SolInvariant, SolChainPart
  <2>5. \A u \in Tx : status'[u] # "unknown" => u.nonce < durable'
    <3> SUFFICES ASSUME NEW u \in Tx, status'[u] # "unknown"
                 PROVE  u.nonce < durable'
      OBVIOUS
    <3>1. u.nonce < durable /\ u.nonce # t.nonce
      BY <2>4 DEF SolInvariant, SolChainPart
    <3> QED BY <1>1, <2>1, <3>1
  <2>6. SolChainPart'
    BY <1>2, <2>2, <2>4, <2>5 DEF SolInvariant, SolChainPart
  <2> QED BY <1>2, <2>1, <2>3, <2>6, NetworkMoves DEF TxState
<1> QED BY <1>4, <1>5, <1>6

LEMMA SolStepInvariant ==
  ASSUME SolInvariant, [SolNext]_solvars
  PROVE  SolInvariant'
<1>1. CASE UNCHANGED solvars
  <2>1. UNCHANGED <<reviews, record, refused, solcalls, check, solpost, solbooks, solchain>>
    BY <1>1 DEF solvars, solchain
  <2>2. refused' \in BOOLEAN
        /\ check' \in [stage : {"idle", "status", "evidence", "post"}, review : Review \union {0}]
    BY <2>1 DEF SolInvariant, SolTypeOK
  <2> QED BY <2>1, <2>2, RecordStays
<1>2. CASE SolNext
  BY <1>2, PrepareStep, AcceptStep, SignatureStep, SendStep, ReceiptStep, SolPageStep, SolCheckStep,
     SolBookedStep, SolPostEndsStep, SolNetworkStep, SolRestartStep DEF SolNext
<1> QED BY <1>1, <1>2

\* A record with a receipt is of a transaction that all required signers signed
\* and that was sent, whatever review took another's place (acceptReceipt).
THEOREM ReceiptsWereSent == SolSpec => []ReceiptWasSent
<1>1. SolInvariant => ReceiptWasSent
  BY DEF SolInvariant, SolSentPart
<1> QED BY <1>1, SolInitInvariant, SolStepInvariant, PTL DEF SolSpec

\* What is accounted for is finalized and uses a durable nonce once, although
\* checks, posts and reviews overlap (runCheck, runPost).
THEOREM BookedIsFinalized == SolSpec => []FinalizedBeforeBooked
<1>1. SolInvariant => FinalizedBeforeBooked
  BY DEF SolInvariant, SolBooksPart, SolPostPart, SolEvidencePart, FinalizedBeforeBooked
<1> QED BY <1>1, SolInitInvariant, SolStepInvariant, PTL DEF SolSpec

\* A payment that is to be reconciled stays so while it is on record, and no
\* step posts it (updateTransactionState, beginAccountingPost, merge).
THEOREM ReconciliationHolds == SolSpec => RegressionHolds
<1>1. ASSUME SolInvariant, SolNext, Recorded, record.reconcile, record' # NoRecord,
             record'.review = record.review
      PROVE  record'.reconcile /\ (solpost.stage = "idle" => solpost'.stage = "idle")
  <2>1. record \in Record /\ (record.reconcile => record.rollback)
    BY <1>1, RecordFields
  <2>2. CASE record' = record /\ UNCHANGED solpost
    BY <1>1, <2>2
  <2>3. ASSUME NEW c \in solcalls, AcceptProposal(c)
        PROVE  FALSE
    BY <1>1, <2>3 DEF AcceptProposal, SolInvariant, SolFreshPart
  <2>4. ASSUME UNCHANGED solpost, NEW state, record' = [record EXCEPT !.state = state]
        PROVE  record'.reconcile
    BY <1>1, <2>1, <2>4 DEF Record
  <2>5. ASSUME NEW c \in solcalls, AddVerifiedSignature(c)
        PROVE  record'.reconcile /\ UNCHANGED solpost
    BY <1>1, <2>1, <2>5 DEF AddVerifiedSignature, Record
  <2>6. ASSUME NEW c \in solcalls, AcceptReceipt(c) \/ SolCallFails(c)
        PROVE  record'.reconcile /\ UNCHANGED solpost
    BY <1>1, <2>1, <2>6 DEF AcceptReceipt, SolCallFails, Record
  <2>7. ASSUME NEW review \in BOOLEAN, ValidationFails(review)
        PROVE  record'.reconcile /\ UNCHANGED solpost
    BY <1>1, <2>1, <2>7 DEF ValidationFails, Failed, Record
  <2>8. CASE Submit \/ StatusFails
    BY <1>1, <2>1, <2>8 DEF Submit, StatusFails, Failed, Record
  <2>9. ASSUME NEW s \in TxState, StatusHeard(s), record' # record \/ solpost' # solpost
        PROVE  record'.reconcile /\ UNCHANGED solpost
    <3>1. PICK r : r = Updated(record, s)
      OBVIOUS
    <3>2. r \in Record /\ r.reconcile
      BY <1>1, <2>1, <3>1, UpdatedIs
    <3>3. RunPost(r) \/ (record' = r /\ UNCHANGED solpost)
      BY <2>9, <3>1 DEF StatusHeard
    <3> QED BY <3>2, <3>3 DEF RunPost, Postable
  <2>10. ASSUME EvidenceHeard, record' # record \/ solpost' # solpost
         PROVE  record'.reconcile /\ UNCHANGED solpost
    <3>1. PICK r : r = [record EXCEPT !.evidence = check.review, !.accounting = "ready"]
      OBVIOUS
    <3>2. r.reconcile
      BY <1>1, <2>1, <3>1 DEF Record
    <3>3. RunPost(r)
      BY <2>10, <3>1 DEF EvidenceHeard
    <3> QED BY <3>2, <3>3 DEF RunPost, Postable
  <2>11. CASE SolRetryPost
    BY <1>1, <2>11 DEF SolRetryPost, RunPost, Postable
  <2>12. CASE SolBooked
    BY <1>1, <2>12 DEF SolBooked
  <2>13. ASSUME NEW heard \in BOOLEAN, SolPostEnds(heard)
         PROVE  record'.reconcile /\ solpost' = Idle
    BY <1>1, <2>1, <2>13 DEF SolPostEnds, Record
  <2>14. CASE SolRestarts
    BY <1>1, <2>1, <2>14 DEF SolRestarts, Idle, Record
  <2>15. CASE record' = NoRecord
    BY <1>1, <2>15
  <2>16. CASE \/ \E pay \in Pays : PaymentPrepare(pay)
              \/ \E signer \in Required : ImportEnvelope(signer)
              \/ \E c \in solcalls : SendTransaction(c)
              \/ CheckStarts \/ EvidenceFails
              \/ \E t \in Tx : \/ \E s \in {"processed", "failed"} : Land(t, s)
                               \/ Settle(t) \/ Abandon(t)
    BY <2>2, <2>16 DEF PaymentPrepare, ImportEnvelope, SendTransaction, CheckStarts, EvidenceFails,
       Land, Settle, Abandon
  <2>17. Clear => record' = NoRecord
    BY DEF Clear
  <2>18. Idle.stage = "idle"
    BY DEF Idle
  <2> QED BY <1>1, <2>2, <2>3, <2>5, <2>6, <2>7, <2>8, <2>9, <2>10, <2>11, <2>12, <2>13, <2>14,
             <2>15, <2>16, <2>17, <2>18 DEF SolNext
<1>2. SolInvariant /\ [SolNext]_solvars =>
        [Recorded /\ record.reconcile /\ record' # NoRecord /\ record'.review = record.review
         => /\ record'.reconcile
            /\ solpost.stage = "idle" => solpost'.stage = "idle"]_solvars
  BY <1>1
<1> QED BY <1>2, SolInitInvariant, SolStepInvariant, PTL DEF SolSpec, RegressionHolds
-----------------------------------------------------------------------------
(* Sums over finite sets: the order in which a fold takes the elements     *)
(* does not matter.                                                        *)

\* A set of sets that has every subset of S whose subsets of one element less it
\* has, has S.
LEMMA SubsetInduction ==
  ASSUME NEW S, IsFiniteSet(S), NEW Good,
         \A s \in SUBSET S : (\A x \in s : s \ {x} \in Good) => s \in Good
  PROVE  S \in Good
<1> SUFFICES ASSUME S \notin Good PROVE FALSE
  OBVIOUS
<1> DEFINE Sizes == {Cardinality(s) : s \in (SUBSET S) \ Good}
<1>1. \A s \in SUBSET S : IsFiniteSet(s) /\ Cardinality(s) \in Nat
  BY FS_Subset, FS_CardinalityType
<1>2. Sizes \subseteq Nat /\ Sizes # {}
  BY <1>1
<1>3. PICK n \in Sizes : \A m \in Sizes : n <= m
  <2> HIDE DEF Sizes
  <2> QED BY <1>2, LeastNatural
<1>4. PICK s \in (SUBSET S) \ Good : n = Cardinality(s)
  BY <1>3
<1>5. ASSUME NEW x \in s
      PROVE  s \ {x} \in Good
  <2>1. Cardinality(s \ {x}) = n - 1 /\ n \in Nat
    BY <1>1, <1>4, FS_RemoveElement
  <2>2. Cardinality(s \ {x}) \notin Sizes
    BY <2>1, <1>2, <1>3
  <2> QED BY <2>2, <1>4
<1> QED BY <1>4, <1>5

\* What the sums of CkbBuild are: MapThenSumSet, the values in the order CHOOSE
\* takes the elements.
SumOf(f, S) == MapThenSumSet(LAMBDA c : f[c], S)

Pick(s) == CHOOSE x \in s : TRUE

\* The function by which the fold is computed.
AddsUp(g, f, S) ==
  g = [s \in SUBSET S |-> IF s = {} THEN 0 ELSE f[Pick(s)] + g[s \ {Pick(s)}]]

Adder(f, S) == CHOOSE g : AddsUp(g, f, S)

LEMMA PickIn == \A s : s # {} => Pick(s) \in s
BY DEF Pick

\* What is computed for a set depends on the values of its elements only.
LEMMA AddersAgree ==
  ASSUME NEW f, NEW e, NEW S, NEW T, NEW g, NEW h, AddsUp(g, f, S), AddsUp(h, e, T),
         NEW s, IsFiniteSet(s), s \subseteq S, s \subseteq T, \A x \in s : f[x] = e[x]
  PROVE  g[s] = h[s]
<1> DEFINE Good == {t \in SUBSET s : g[t] = h[t]}
<1>1. ASSUME NEW t \in SUBSET s, \A x \in t : t \ {x} \in Good
      PROVE  t \in Good
  <2>1. CASE t = {}
    BY <2>1 DEF AddsUp
  <2>2. CASE t # {}
    <3>1. Pick(t) \in t /\ t \ {Pick(t)} \in Good
      BY <2>2, <1>1, PickIn
    <3>2. g[t] = f[Pick(t)] + g[t \ {Pick(t)}]
      BY <2>2 DEF AddsUp
    <3>3. h[t] = e[Pick(t)] + h[t \ {Pick(t)}]
      BY <2>2 DEF AddsUp
    <3> QED BY <3>1, <3>2, <3>3
  <2> QED BY <2>1, <2>2
<1>2. s \in Good
  <2> HIDE DEF Good
  <2> QED BY <1>1, SubsetInduction
<1> QED BY <1>2

\* There is such a function for every finite set.
LEMMA AdderExists ==
  ASSUME NEW f, NEW S, IsFiniteSet(S)
  PROVE  AddsUp(Adder(f, S), f, S)
<1> DEFINE Good == {t \in SUBSET S : \A u \in SUBSET t : AddsUp(Adder(f, u), f, u)}
<1>1. ASSUME NEW t \in SUBSET S, \A x \in t : t \ {x} \in Good
      PROVE  t \in Good
  <2>1. \A u \in SUBSET t : u # t => AddsUp(Adder(f, u), f, u)
    <3> SUFFICES ASSUME NEW u \in SUBSET t, u # t PROVE AddsUp(Adder(f, u), f, u)
      OBVIOUS
    <3>1. PICK x \in t : u \in SUBSET (t \ {x})
      OBVIOUS
    <3> QED BY <3>1, <1>1
  <2> DEFINE rest(u) == u \ {Pick(u)}
             sum(u) == IF u = {} THEN 0 ELSE f[Pick(u)] + Adder(f, rest(u))[rest(u)]
             h == [u \in SUBSET t |-> sum(u)]
  <2>2. ASSUME NEW u \in SUBSET t, u # {}
        PROVE  rest(u) \in SUBSET t /\ h[rest(u)] = Adder(f, rest(u))[rest(u)]
    <3>1. rest(u) \in SUBSET t /\ rest(u) # t
      BY <2>2, PickIn
    <3>2. AddsUp(Adder(f, rest(u)), f, rest(u))
      BY <3>1, <2>1
    <3> HIDE DEF rest
    <3>3. CASE rest(u) = {}
      <4>1. Adder(f, rest(u))[rest(u)] = 0
        BY <3>2, <3>3 DEF AddsUp
      <4> QED BY <4>1, <3>1, <3>3
    <3>4. CASE rest(u) # {}
      <4> DEFINE v == rest(u)
                 w == rest(v)
      <4>1. w \in SUBSET v /\ w \in SUBSET t /\ w # t /\ IsFiniteSet(w)
        BY <3>1, <3>4, FS_Subset, PickIn DEF rest
      <4>2. AddsUp(Adder(f, w), f, w)
        BY <4>1, <2>1
      <4>3. Adder(f, v)[v] = f[Pick(v)] + Adder(f, v)[w]
        BY <3>2, <3>4 DEF AddsUp, rest
      <4>4. Adder(f, v)[w] = Adder(f, w)[w]
        BY <4>1, <4>2, <3>2, AddersAgree
      <4>5. h[v] = f[Pick(v)] + Adder(f, w)[w]
        BY <3>1, <3>4
      <4> QED BY <3>1, <4>3, <4>4, <4>5
    <3> QED BY <3>3, <3>4
  <2>3. AddsUp(h, f, t)
    <3>1. \A u \in SUBSET t : sum(u) = IF u = {} THEN 0 ELSE f[Pick(u)] + h[u \ {Pick(u)}]
      BY <2>2
    <3> HIDE DEF sum
    <3> QED BY <3>1 DEF AddsUp
  <2>4. AddsUp(Adder(f, t), f, t)
    BY <2>3 DEF Adder
  <2> QED BY <2>1, <2>4
<1>2. S \in Good
  <2> HIDE DEF Good
  <2> QED BY <1>1, SubsetInduction
<1> QED BY <1>2

\* The fold takes one element at a time.
LEMMA SumSteps ==
  ASSUME NEW f, NEW S, IsFiniteSet(S)
  PROVE  SumOf(f, S) = IF S = {} THEN 0 ELSE f[Pick(S)] + SumOf(f, S \ {Pick(S)})
<1> DEFINE rest == S \ {Pick(S)}
<1>1. SumOf(f, S) = Adder(f, S)[S] /\ SumOf(f, rest) = Adder(f, rest)[rest]
  BY DEF SumOf, MapThenSumSet, MapThenFoldSet, AddsUp, Adder, Pick
<1>2. AddsUp(Adder(f, S), f, S)
  BY AdderExists
<1>3. CASE S = {}
  BY <1>1, <1>2, <1>3 DEF AddsUp
<1>4. CASE S # {}
  <2>1. IsFiniteSet(rest) /\ rest \subseteq S
    BY FS_Subset
  <2>2. AddsUp(Adder(f, rest), f, rest)
    BY <2>1, AdderExists
  <2>3. Adder(f, S)[rest] = Adder(f, rest)[rest]
    BY <1>2, <2>1, <2>2, AddersAgree
  <2>4. Adder(f, S)[S] = f[Pick(S)] + Adder(f, S)[rest]
    BY <1>2, <1>4 DEF AddsUp
  <2> QED BY <1>1, <1>4, <2>3, <2>4
<1> QED BY <1>3, <1>4

LEMMA SumIsNat ==
  ASSUME NEW f, NEW S, IsFiniteSet(S), \A x \in S : f[x] \in Nat
  PROVE  SumOf(f, S) \in Nat
<1> DEFINE Good == {t \in SUBSET S : SumOf(f, t) \in Nat}
<1>1. ASSUME NEW t \in SUBSET S, \A x \in t : t \ {x} \in Good
      PROVE  t \in Good
  <2>1. IsFiniteSet(t)
    BY FS_Subset
  <2>2. SumOf(f, t) = IF t = {} THEN 0 ELSE f[Pick(t)] + SumOf(f, t \ {Pick(t)})
    BY <2>1, SumSteps
  <2> QED BY <2>2, <1>1, PickIn
<1>2. S \in Good
  <2> HIDE DEF Good
  <2> QED BY <1>1, SubsetInduction
<1> QED BY <1>2

LEMMA SumOfSame ==
  ASSUME NEW f, NEW e, NEW S, IsFiniteSet(S), \A x \in S : f[x] = e[x]
  PROVE  SumOf(f, S) = SumOf(e, S)
<1> DEFINE Good == {t \in SUBSET S : SumOf(f, t) = SumOf(e, t)}
<1>1. ASSUME NEW t \in SUBSET S, \A x \in t : t \ {x} \in Good
      PROVE  t \in Good
  <2>1. IsFiniteSet(t)
    BY FS_Subset
  <2>2. /\ SumOf(f, t) = IF t = {} THEN 0 ELSE f[Pick(t)] + SumOf(f, t \ {Pick(t)})
        /\ SumOf(e, t) = IF t = {} THEN 0 ELSE e[Pick(t)] + SumOf(e, t \ {Pick(t)})
    BY <2>1, SumSteps
  <2> QED BY <2>2, <1>1, PickIn
<1>2. S \in Good
  <2> HIDE DEF Good
  <2> QED BY <1>1, SubsetInduction
<1> QED BY <1>2

\* Any element may be taken first.
LEMMA SumWithout ==
  ASSUME NEW f, NEW S, IsFiniteSet(S), \A x \in S : f[x] \in Nat, NEW c \in S
  PROVE  SumOf(f, S) = f[c] + SumOf(f, S \ {c})
<1> DEFINE Good == {t \in SUBSET S : \A x \in t : SumOf(f, t) = f[x] + SumOf(f, t \ {x})}
<1>1. ASSUME NEW t \in SUBSET S, \A x \in t : t \ {x} \in Good
      PROVE  t \in Good
  <2> SUFFICES ASSUME NEW x \in t PROVE SumOf(f, t) = f[x] + SumOf(f, t \ {x})
    OBVIOUS
  <2> DEFINE y == Pick(t)
  <2>1. IsFiniteSet(t) /\ y \in t
    BY FS_Subset, PickIn
  <2>2. SumOf(f, t) = f[y] + SumOf(f, t \ {y})
    BY <2>1, SumSteps
  <2> HIDE DEF y
  <2>3. CASE x = y
    BY <2>2, <2>3
  <2>4. CASE x # y
    <3>1. SumOf(f, t \ {y}) = f[x] + SumOf(f, (t \ {y}) \ {x})
      BY <1>1, <2>1, <2>4
    <3>2. SumOf(f, t \ {x}) = f[y] + SumOf(f, (t \ {x}) \ {y})
      BY <1>1, <2>1, <2>4
    <3>3. (t \ {y}) \ {x} = (t \ {x}) \ {y}
      OBVIOUS
    <3>4. SumOf(f, (t \ {x}) \ {y}) \in Nat
      <4>1. IsFiniteSet((t \ {x}) \ {y})
        BY <2>1, FS_Subset
      <4> QED BY <4>1, SumIsNat
    <3>5. f[x] \in Nat /\ f[y] \in Nat
      BY <2>1
    <3> HIDE DEF Good
    <3> QED BY <2>2, <3>1, <3>2, <3>3, <3>4, <3>5
  <2> QED BY <2>3, <2>4
<1>2. S \in Good
  <2> HIDE DEF Good
  <2> QED BY <1>1, SubsetInduction
<1> QED BY <1>2

\* Disjoint sets sum separately.
LEMMA SumOfUnion ==
  ASSUME NEW f, NEW S, NEW T, IsFiniteSet(S), IsFiniteSet(T), S \cap T = {},
         \A x \in S \cup T : f[x] \in Nat
  PROVE  SumOf(f, S \cup T) = SumOf(f, S) + SumOf(f, T)
<1> DEFINE Good == {t \in SUBSET T : SumOf(f, S \cup t) = SumOf(f, S) + SumOf(f, t)}
<1>1. ASSUME NEW t \in SUBSET T, \A x \in t : t \ {x} \in Good
      PROVE  t \in Good
  <2>1. IsFiniteSet(t) /\ IsFiniteSet(S \cup t)
    BY FS_Subset, FS_Union
  <2>2. SumOf(f, S) \in Nat
    BY SumIsNat
  <2>3. CASE t = {}
    <3>1. SumOf(f, t) = 0 /\ S \cup t = S
      BY <2>1, <2>3, SumSteps
    <3> QED BY <3>1, <2>2
  <2>4. CASE t # {}
    <3>1. PICK x \in t : TRUE
      BY <2>4
    <3>2. SumOf(f, S \cup t) = f[x] + SumOf(f, (S \cup t) \ {x})
      BY <2>1, SumWithout
    <3>3. SumOf(f, t) = f[x] + SumOf(f, t \ {x})
      BY <2>1, SumWithout
    <3>4. (S \cup t) \ {x} = S \cup (t \ {x})
      OBVIOUS
    <3>5. SumOf(f, S \cup (t \ {x})) = SumOf(f, S) + SumOf(f, t \ {x})
      BY <1>1
    <3>6. SumOf(f, t \ {x}) \in Nat /\ f[x] \in Nat
      <4>1. IsFiniteSet(t \ {x})
        BY <2>1, FS_Subset
      <4> QED BY <4>1, SumIsNat
    <3>7. SumOf(f, S \cup t) = SumOf(f, S) + SumOf(f, t)
      <4>1. SumOf(f, S \cup t) = f[x] + (SumOf(f, S) + SumOf(f, t \ {x}))
        BY <3>2, <3>4, <3>5
      <4> HIDE DEF Good
      <4> QED BY <2>2, <3>3, <3>6, <4>1
    <3> QED BY <3>7
  <2> QED BY <2>3, <2>4
<1>2. T \in Good
  <2> HIDE DEF Good
  <2> QED BY <1>1, SubsetInduction
<1> QED BY <1>2
-----------------------------------------------------------------------------
(* Payments from one CKB lock                                              *)

Existing == {c \in CellId : capacity[c] # 0}

CkbInvariant ==
  /\ CkbTypeOK
  /\ listed \subseteq Existing
  /\ \A tx \in built : tx.inputs \subseteq Existing
  /\ BuiltIsSound
  /\ NothingIsLost

\* The capacity of some cells of the lock.
\* Sum is the sum of the capacities, now and after a step.
LEMMA SumIsFold ==
  /\ \A cells : Sum(cells) = SumOf(capacity, cells)
  /\ \A cells : Sum(cells)' = SumOf(capacity', cells)
  /\ Sum(live)' = SumOf(capacity', live')
<1>1. \A cells : Sum(cells) = SumOf(capacity, cells)
  BY DEF Sum, SumOf
<1>2. (\A cells : Sum(cells) = SumOf(capacity, cells))'
  BY <1>1, PTL
<1>3. Sum(live) = SumOf(capacity, live)
  BY <1>1
<1>4. (Sum(live) = SumOf(capacity, live))'
  BY <1>3, PTL
<1> QED BY <1>1, <1>2, <1>4

LEMMA ConstantsAreNat ==
  /\ MaxCells \in Nat /\ InputSize \in Nat /\ OutputSize \in Nat /\ MultisigSize \in Nat
  /\ JoyIdSize \in Nat /\ FeeRate \in Nat /\ MinCapacity \in Nat /\ MinCapacity > 0
<1>1. MinCapacity \in Nat \ {0}
  BY CkbBuildAssumption
<1> QED BY <1>1, CkbBuildAssumption

LEMMA SumOfCells ==
  ASSUME capacity \in [CellId -> Nat], NEW cells, cells \subseteq CellId
  PROVE  IsFiniteSet(cells) /\ Sum(cells) = SumOf(capacity, cells) /\ Sum(cells) \in Nat
<1>1. IsFiniteSet(cells)
  <2>1. IsFiniteSet(CellId)
    BY FS_Interval, CkbBuildAssumption DEF CellId
  <2> QED BY <2>1, FS_Subset
<1>2. Sum(cells) = SumOf(capacity, cells)
  BY SumIsFold
<1>3. SumOf(capacity, cells) \in Nat
  BY <1>1, SumIsNat
<1> QED BY <1>1, <1>2, <1>3

\* Cells spent and a cell added: what the capacities of the live cells sum to.
LEMMA SumOfChange ==
  ASSUME capacity \in [CellId -> Nat], NEW cells, cells \subseteq CellId,
         NEW c \in CellId, c \notin cells, NEW v \in Nat,
         capacity' = [capacity EXCEPT ![c] = v]
  PROVE  /\ Sum(cells)' = Sum(cells)
         /\ Sum(cells \cup {c})' = Sum(cells) + v
<1>1. capacity' \in [CellId -> Nat] /\ capacity'[c] = v
      /\ \A d \in cells : capacity'[d] = capacity[d]
  OBVIOUS
<1>2. /\ IsFiniteSet(cells) /\ Sum(cells) = SumOf(capacity, cells) /\ Sum(cells) \in Nat
  BY SumOfCells
<1>3. Sum(cells)' = SumOf(capacity', cells) /\ Sum(cells \cup {c})' = SumOf(capacity', cells \cup {c})
  BY SumIsFold
<1>4. SumOf(capacity', cells) = SumOf(capacity, cells)
  BY <1>1, <1>2, SumOfSame
<1>5. SumOf(capacity', cells \cup {c}) = v + SumOf(capacity', (cells \cup {c}) \ {c})
  <2>1. IsFiniteSet(cells \cup {c}) /\ \A d \in cells \cup {c} : capacity'[d] \in Nat
    BY <1>1, <1>2, FS_AddElement
  <2> QED BY <2>1, <1>1, SumWithout
<1>6. (cells \cup {c}) \ {c} = cells
  OBVIOUS
<1> QED BY <1>2, <1>3, <1>4, <1>5, <1>6

LEMMA SumOfSpent ==
  ASSUME capacity \in [CellId -> Nat], NEW cells, cells \subseteq CellId,
         NEW spent, spent \subseteq cells
  PROVE  Sum(cells) = Sum(cells \ spent) + Sum(spent)
<1>1. /\ IsFiniteSet(spent) /\ Sum(spent) = SumOf(capacity, spent)
      /\ IsFiniteSet(cells \ spent) /\ Sum(cells \ spent) = SumOf(capacity, cells \ spent)
      /\ Sum(cells) = SumOf(capacity, cells)
  BY SumOfCells
<1>2. SumOf(capacity, (cells \ spent) \cup spent)
        = SumOf(capacity, cells \ spent) + SumOf(capacity, spent)
  BY <1>1, SumOfUnion
<1>3. (cells \ spent) \cup spent = cells
  OBVIOUS
<1> QED BY <1>1, <1>2, <1>3

LEMMA TotalIsNat ==
  ASSUME NEW order \in Order
  PROVE  Total(order) \in Nat /\ Cardinality(DOMAIN order) \in Nat
<1>1. order \in Seq(Nat)
  BY CkbBuildAssumption
<1>2. PICK n \in Nat : DOMAIN order = 1 .. n /\ \A i \in 1 .. n : order[i] \in Nat
  BY <1>1
<1>3. IsFiniteSet(DOMAIN order) /\ Cardinality(DOMAIN order) \in Nat
  BY <1>2, FS_Interval, FS_CardinalityType
<1>4. SumOf(order, DOMAIN order) \in Nat
  BY <1>2, <1>3, SumIsNat
<1> QED BY <1>3, <1>4 DEF Total, SumOf

\* Fees are natural numbers.
LEMMA FeeIsNat ==
  ASSUME NEW ins \in Nat, NEW outs \in Nat
  PROVE  FeeRate * Size(ins, outs) \in Nat
<1>1. ins * InputSize \in Nat /\ outs * OutputSize \in Nat
  BY ConstantsAreNat
<1>2. Size(ins, outs) \in Nat
  BY <1>1, ConstantsAreNat DEF Size
<1>3. \A i, j \in Nat : i * j \in Nat
  OBVIOUS
<1> QED BY <1>2, <1>3, ConstantsAreNat

-----------------------------------------------------------------------------
LEMMA CkbInitInvariant ==
  ASSUME CkbInit
  PROVE  CkbInvariant
<1>1. CkbTypeOK /\ live = {}
  BY FS_EmptySet DEF CkbInit, CkbTypeOK
<1>2. Sum(live) = 0
  <2>1. SumOf(capacity, {}) = 0
    BY FS_EmptySet, SumSteps
  <2>2. Sum(live) = SumOf(capacity, live)
    BY SumIsFold
  <2> QED BY <1>1, <2>1, <2>2
<1> QED BY <1>1, <1>2 DEF CkbInit, CkbInvariant, Existing, BuiltIsSound, NothingIsLost

\* What is built without an error balances.
LEMMA SkeletonIsSound ==
  ASSUME CkbInvariant, NEW needed \in Nat, NEW n \in Nat, Builds(needed, n)
  PROVE  LET tx == Skeleton(needed, n)
         IN  /\ Sound(tx) /\ tx.inputs \subseteq listed
             /\ tx.outs \in Nat /\ {tx.total, tx.change, tx.fee} \subseteq Nat
<1> DEFINE inputs == SelectInputs(needed)
           fee == FeeRate * Size(Cardinality(inputs), n + 1)
           bare == FeeRate * Size(Cardinality(inputs), n)
           sum == Sum(inputs)
           tx == Skeleton(needed, n)
<1>1. inputs \subseteq listed /\ inputs \subseteq CellId
  BY DEF SelectInputs, CkbInvariant, CkbTypeOK
<1>2. sum \in Nat /\ IsFiniteSet(inputs)
  <2>1. capacity \in [CellId -> Nat]
    BY DEF CkbInvariant, CkbTypeOK
  <2> QED BY <2>1, <1>1, SumOfCells
<1>3. fee \in Nat /\ bare \in Nat
  <2>1. Cardinality(inputs) \in Nat /\ n + 1 \in Nat
    BY <1>2, FS_CardinalityType
  <2> HIDE DEF inputs
  <2> QED BY <2>1, FeeIsNat
<1>4. tx = [inputs |-> inputs, outs |-> n, total |-> needed,
            change |-> IF Survives(sum - needed - fee) THEN sum - needed - fee ELSE 0,
            fee |-> IF Survives(sum - needed - fee) THEN fee ELSE sum - needed]
  BY DEF Skeleton
<1>5. sum - needed >= fee /\ tx.fee >= bare
  BY <1>4 DEF Builds
<1>6. Sound(tx) <=> LET outs == IF tx.change = 0 THEN n ELSE n + 1
                    IN  /\ sum = tx.total + tx.change + tx.fee
                        /\ tx.change = 0 \/ tx.change >= MinCapacity
                        /\ tx.fee >= FeeRate * Size(Cardinality(inputs), outs)
                        /\ tx.fee < fee + MinCapacity
  BY <1>4 DEF Sound
<1>7. CASE Survives(sum - needed - fee)
  <2>1. sum - needed - fee >= MinCapacity /\ MinCapacity \in Nat \ {0}
    BY <1>7, CkbBuildAssumption DEF Survives
  <2>2. tx.change = sum - needed - fee /\ tx.fee = fee /\ tx.total = needed /\ tx.outs = n
        /\ tx.inputs = inputs
    BY <1>4, <1>7
  <2> HIDE DEF inputs, sum, fee, tx
  <2>3. tx.change \in Nat /\ tx.change # 0
    BY <2>1, <2>2, <1>2, <1>3
  <2>4. fee = FeeRate * Size(Cardinality(inputs), n + 1)
    BY DEF fee
  <2>5. Sound(tx)
    BY <1>6, <2>1, <2>2, <2>3, <2>4, <1>2, <1>3
  <2> QED BY <1>1, <1>2, <1>3, <2>2, <2>3, <2>5 DEF tx
<1>8. CASE ~Survives(sum - needed - fee)
  <2>1. sum - needed - fee < MinCapacity /\ MinCapacity \in Nat \ {0}
    <3> HIDE DEF sum, fee
    <3> QED BY <1>2, <1>3, <1>8, ConstantsAreNat DEF Survives
  <2>2. tx.change = 0 /\ tx.fee = sum - needed /\ tx.total = needed /\ tx.outs = n
        /\ tx.inputs = inputs
    BY <1>4, <1>8
  <2> HIDE DEF inputs, sum, fee, bare, tx
  <2>3. tx.fee \in Nat
    BY <2>2, <1>5, <1>2, <1>3
  <2>4. bare = FeeRate * Size(Cardinality(inputs), n)
    BY DEF bare
  <2>5. Sound(tx)
    BY <1>5, <1>6, <2>1, <2>2, <2>3, <2>4, <1>2, <1>3
  <2> QED BY <1>1, <1>2, <1>3, <2>2, <2>3, <2>5 DEF tx
<1> QED BY <1>7, <1>8

LEMMA BuildsStep ==
  ASSUME CkbInvariant, NEW order \in Order,
         Builds(Total(order), Cardinality(DOMAIN order)),
         built' = built \cup {Skeleton(Total(order), Cardinality(DOMAIN order))},
         UNCHANGED <<lock, capacity, live, listed, ledger>>
  PROVE  CkbInvariant'
<1> DEFINE tx == Skeleton(Total(order), Cardinality(DOMAIN order))
<1>1. /\ Sound(tx) /\ tx.inputs \subseteq listed
      /\ tx.outs \in Nat /\ {tx.total, tx.change, tx.fee} \subseteq Nat
  BY TotalIsNat, SkeletonIsSound
<1> HIDE DEF tx
<1>2. built' = built \cup {tx}
  BY DEF tx
<1>3. IsFiniteSet(built')
  BY <1>2, FS_AddElement DEF CkbInvariant, CkbTypeOK
<1>4. CkbTypeOK'
  BY <1>1, <1>2, <1>3 DEF CkbInvariant, CkbTypeOK
<1>5. BuiltIsSound'
  <2> SUFFICES ASSUME NEW t \in built' PROVE Sound(t)'
    BY DEF BuiltIsSound
  <2>1. Sound(t)
    BY <1>1, <1>2 DEF CkbInvariant, BuiltIsSound
  <2>2. Sum(t.inputs)' = Sum(t.inputs)
    BY SumIsFold
  <2> QED BY <2>1, <2>2 DEF Sound, Size
<1>6. NothingIsLost'
  <2>1. Sum(live)' = Sum(live)
    BY SumIsFold
  <2> QED BY <2>1 DEF CkbInvariant, NothingIsLost
<1> QED BY <1>1, <1>2, <1>4, <1>5, <1>6 DEF CkbInvariant, Existing

\* A new cell of some capacity: the transactions on hand are not about it.
LEMMA NewCell ==
  ASSUME CkbInvariant, NEW c \in CellId, FreshCell(c), NEW v \in Nat \ {0},
         capacity' = [capacity EXCEPT ![c] = v], UNCHANGED <<lock, listed>>,
         built' \subseteq built
  PROVE  /\ capacity' \in [CellId -> Nat] /\ IsFiniteSet(built')
         /\ \A tx \in built' : tx.inputs \subseteq Existing'
         /\ listed' \subseteq Existing' /\ Existing' = Existing \cup {c}
         /\ c \notin Existing /\ BuiltIsSound'
<1>1. capacity \in [CellId -> Nat] /\ capacity[c] = 0 /\ IsFiniteSet(built)
  BY DEF CkbInvariant, CkbTypeOK, FreshCell
<1>2. Existing' = Existing \cup {c} /\ c \notin Existing /\ Existing \subseteq CellId
  BY <1>1 DEF Existing
<1>3. BuiltIsSound'
  <2> SUFFICES ASSUME NEW t \in built PROVE Sound(t)'
    BY DEF BuiltIsSound
  <2>1. Sound(t) /\ t.inputs \subseteq Existing
    BY DEF CkbInvariant, BuiltIsSound
  <2>2. Sum(t.inputs)' = Sum(t.inputs)
    <3> DEFINE cells == t.inputs
    <3>1. cells \subseteq CellId /\ c \notin cells
      BY <2>1, <1>2
    <3>2. Sum(cells)' = Sum(cells)
      <4> HIDE DEF cells
      <4> QED BY <3>1, <1>1, SumOfChange
    <3> QED BY <3>2
  <2> QED BY <2>1, <2>2 DEF Sound, Size
<1>4. IsFiniteSet(built')
  BY <1>1, FS_Subset
<1> QED BY <1>1, <1>2, <1>3, <1>4 DEF CkbInvariant

LEMMA AcceptedStep ==
  ASSUME CkbInvariant, Accepted
  PROVE  CkbInvariant'
<1>1. PICK tx \in built :
        /\ tx.inputs \subseteq live
        /\ built' = built \ {tx}
        /\ ledger' = [ledger EXCEPT !.paid = @ + tx.total, !.fees = @ + tx.fee]
        /\ IF tx.change = 0
           THEN live' = live \ tx.inputs /\ UNCHANGED capacity
           ELSE \E c \in CellId : /\ FreshCell(c)
                                  /\ capacity' = [capacity EXCEPT ![c] = tx.change]
                                  /\ live' = (live \ tx.inputs) \cup {c}
        /\ UNCHANGED <<lock, listed>>
  BY DEF Accepted
<1> DEFINE spent == tx.inputs
           total == tx.total
           change == tx.change
           fee == tx.fee
<1>2. /\ {total, change, fee} \subseteq Nat /\ spent \subseteq live /\ live \subseteq Existing
      /\ Sum(spent) = total + change + fee
  BY <1>1 DEF CkbInvariant, CkbTypeOK, BuiltIsSound, Sound, Existing
<1>3. /\ capacity \in [CellId -> Nat] /\ Existing \subseteq CellId /\ live \subseteq CellId
      /\ ledger \in [in : Nat, paid : Nat, fees : Nat]
      /\ Sum(live) + ledger.paid + ledger.fees = ledger.in
  BY DEF CkbInvariant, CkbTypeOK, Existing, NothingIsLost
<1>4. ledger' = [ledger EXCEPT !.paid = @ + total, !.fees = @ + fee]
  BY <1>1
<1>5. /\ ledger' \in [in : Nat, paid : Nat, fees : Nat] /\ ledger'.in = ledger.in
      /\ ledger'.paid = ledger.paid + total /\ ledger'.fees = ledger.fees + fee
  <2> HIDE DEF total, fee
  <2>1. ledger.paid + total \in Nat /\ ledger.fees + fee \in Nat
    BY <1>2, <1>3
  <2>2. ledger' = [in |-> ledger.in, paid |-> ledger.paid + total, fees |-> ledger.fees + fee]
    BY <1>3, <1>4
  <2> QED BY <1>3, <2>1, <2>2
<1>6. Sum(live) = Sum(live \ spent) + Sum(spent) /\ Sum(live \ spent) \in Nat
  <2> HIDE DEF spent
  <2>1. live \ spent \subseteq CellId
    BY <1>3
  <2> QED BY <2>1, <1>2, <1>3, SumOfSpent, SumOfCells
<1>7. CASE change = 0
  <2>1. live' = live \ spent /\ UNCHANGED <<capacity, lock, listed>> /\ built' = built \ {tx}
    BY <1>1, <1>7
  <2>2. Sum(live)' = Sum(live \ spent)
    <3> HIDE DEF spent
    <3> QED BY <2>1, SumIsFold
  <2>3. NothingIsLost'
    <3> HIDE DEF total, fee, change, spent
    <3> QED BY <2>2, <1>2, <1>3, <1>5, <1>6, <1>7 DEF NothingIsLost
  <2>4. IsFiniteSet(built')
    BY <2>1, FS_Subset DEF CkbInvariant, CkbTypeOK
  <2>5. CkbTypeOK'
    BY <1>5, <2>1, <2>4 DEF CkbInvariant, CkbTypeOK
  <2>6. BuiltIsSound'
    <3> SUFFICES ASSUME NEW t \in built' PROVE Sound(t)'
      BY DEF BuiltIsSound
    <3>1. Sound(t)
      BY <2>1 DEF CkbInvariant, BuiltIsSound
    <3>2. Sum(t.inputs)' = Sum(t.inputs)
      BY <2>1, SumIsFold
    <3> QED BY <3>1, <3>2, <2>1 DEF Sound, Size
  <2> QED BY <2>1, <2>3, <2>5, <2>6 DEF CkbInvariant, Existing
<1>8. CASE change # 0
  <2>1. PICK c \in CellId : /\ FreshCell(c)
                            /\ capacity' = [capacity EXCEPT ![c] = change]
                            /\ live' = (live \ spent) \cup {c}
    BY <1>1, <1>8
  <2>2. built' \subseteq built /\ change \in Nat \ {0} /\ UNCHANGED <<lock, listed>>
    BY <1>1, <1>2, <1>8
  <2> HIDE DEF total, fee, change, spent
  <2>3. /\ capacity' \in [CellId -> Nat] /\ IsFiniteSet(built')
        /\ \A t \in built' : t.inputs \subseteq Existing'
        /\ listed' \subseteq Existing' /\ Existing' = Existing \cup {c}
        /\ c \notin Existing /\ BuiltIsSound'
    BY <2>1, <2>2, NewCell
  <2>4. live \ spent \subseteq CellId /\ c \notin live \ spent
    BY <1>2, <1>3, <2>3
  <2>5. Sum(live)' = Sum(live \ spent) + change
    <3>1. PICK kept : kept = live \ spent
      OBVIOUS
    <3>2. Sum(kept \cup {c})' = Sum(kept) + change
      BY <1>3, <2>1, <2>2, <2>4, <3>1, SumOfChange
    <3>3. live' = kept \cup {c}
      BY <2>1, <3>1
    <3> QED BY <3>1, <3>2, <3>3, SumIsFold
  <2>6. NothingIsLost'
    BY <2>5, <1>2, <1>3, <1>5, <1>6 DEF NothingIsLost
  <2>7. CkbTypeOK'
    <3>1. live' \subseteq Existing'
      BY <2>1, <2>3, <1>2
    <3>2. \A t \in built' : /\ t.inputs \subseteq CellId /\ t.outs \in Nat
                            /\ {t.total, t.change, t.fee} \subseteq Nat
      BY <2>2 DEF CkbInvariant, CkbTypeOK
    <3> QED BY <3>1, <3>2, <2>2, <2>3, <1>5 DEF CkbInvariant, CkbTypeOK, Existing
  <2> QED BY <2>3, <2>6, <2>7 DEF CkbInvariant
<1> QED BY <1>7, <1>8

LEMMA PaidInStep ==
  ASSUME CkbInvariant, PaidIn
  PROVE  CkbInvariant'
<1>1. PICK c \in CellId, v \in Deposit :
        /\ FreshCell(c)
        /\ capacity' = [capacity EXCEPT ![c] = v]
        /\ live' = live \cup {c}
        /\ ledger' = [ledger EXCEPT !.in = @ + v]
        /\ UNCHANGED <<lock, listed, built>>
  BY DEF PaidIn
<1>2. v \in Nat \ {0}
  BY CkbBuildAssumption
<1>3. /\ capacity \in [CellId -> Nat] /\ live \subseteq Existing /\ Existing \subseteq CellId
      /\ ledger \in [in : Nat, paid : Nat, fees : Nat]
      /\ Sum(live) + ledger.paid + ledger.fees = ledger.in
  BY DEF CkbInvariant, CkbTypeOK, Existing, NothingIsLost
<1>4. /\ capacity' \in [CellId -> Nat] /\ IsFiniteSet(built')
      /\ \A tx \in built' : tx.inputs \subseteq Existing'
      /\ listed' \subseteq Existing' /\ Existing' = Existing \cup {c}
      /\ c \notin Existing /\ BuiltIsSound'
  BY <1>1, <1>2, NewCell
<1>5. Sum(live)' = Sum(live) + v
  <2>1. c \notin live /\ live \subseteq CellId
    BY <1>3, <1>4
  <2>2. PICK cells : cells = live
    OBVIOUS
  <2>3. Sum(cells \cup {c})' = Sum(cells) + v
    BY <1>1, <1>2, <1>3, <2>1, <2>2, SumOfChange
  <2>4. live' = cells \cup {c}
    BY <1>1, <2>2
  <2> QED BY <2>2, <2>3, <2>4, SumIsFold
<1>6. Sum(live) \in Nat
  BY <1>3, SumOfCells
<1>7. /\ ledger' \in [in : Nat, paid : Nat, fees : Nat] /\ ledger'.in = ledger.in + v
      /\ ledger'.paid = ledger.paid /\ ledger'.fees = ledger.fees
  BY <1>1, <1>2, <1>3
<1>8. NothingIsLost'
  BY <1>2, <1>3, <1>5, <1>6, <1>7 DEF NothingIsLost
<1>9. CkbTypeOK'
  <2>1. live' \subseteq Existing'
    BY <1>1, <1>3, <1>4
  <2> QED BY <1>1, <1>4, <1>7, <2>1 DEF CkbInvariant, CkbTypeOK, Existing
<1> QED BY <1>4, <1>8, <1>9 DEF CkbInvariant

\* Steps that leave the chain as it is: less is built, or the list catches up.
LEMMA QuietSteps ==
  ASSUME CkbInvariant, Dropped \/ CatchUp \/ UNCHANGED ckbvars
  PROVE  CkbInvariant'
<1>1. /\ UNCHANGED <<lock, capacity, live, ledger>> /\ built' \subseteq built
      /\ listed' \in {listed, live}
  BY DEF Dropped, CatchUp, ckbvars
<1>2. live \subseteq Existing /\ IsFiniteSet(built')
  BY <1>1, FS_Subset DEF CkbInvariant, CkbTypeOK, Existing
<1>3. CkbTypeOK' /\ listed' \subseteq Existing' /\ Existing' = Existing
  BY <1>1, <1>2 DEF CkbInvariant, CkbTypeOK, Existing
<1>4. BuiltIsSound'
  <2> SUFFICES ASSUME NEW t \in built' PROVE Sound(t)'
    BY DEF BuiltIsSound
  <2>1. Sound(t)
    BY <1>1 DEF CkbInvariant, BuiltIsSound
  <2>2. Sum(t.inputs)' = Sum(t.inputs)
    BY <1>1, SumIsFold
  <2> QED BY <1>1, <2>1, <2>2 DEF Sound, Size
<1>5. NothingIsLost'
  <2>1. Sum(live)' = Sum(live)
    BY <1>1, SumIsFold
  <2> QED BY <1>1, <2>1 DEF CkbInvariant, NothingIsLost
<1> QED BY <1>1, <1>3, <1>4, <1>5 DEF CkbInvariant

LEMMA CkbStepInvariant ==
  ASSUME CkbInvariant, [CkbNext]_ckbvars
  PROVE  CkbInvariant'
<1>1. CASE BuildPayment
  BY <1>1, BuildsStep DEF BuildPayment
<1>2. CASE BuildSend
  BY <1>2, BuildsStep DEF BuildSend
<1>3. CASE Accepted
  BY <1>3, AcceptedStep
<1>4. CASE PaidIn
  BY <1>4, PaidInStep
<1>5. CASE Dropped \/ CatchUp \/ UNCHANGED ckbvars
  BY <1>5, QuietSteps
<1> QED BY <1>1, <1>2, <1>3, <1>4, <1>5 DEF CkbNext

LEMMA CkbAlwaysInvariant == CkbSpec => []CkbInvariant
BY CkbInitInvariant, CkbStepInvariant, PTL DEF CkbSpec

\* Payments balance one by one and together, whatever transactions compete for
\* the same cells and however stale the list they were built from
\* (buildPaymentSkeleton, buildSingleSigSend).
THEOREM PaymentsAlwaysBalance == CkbSpec => []PaymentsBalance
<1>1. CkbInvariant => PaymentsBalance
  BY DEF CkbInvariant, PaymentsBalance
<1> QED BY <1>1, CkbAlwaysInvariant, PTL

-----------------------------------------------------------------------------
(* The composition that the run checks: one component moves, the others keep *)
(* their initial state.                                                     *)

LEMMA ComponentsAreFollowed ==
  Spec => /\ SafeSpec /\ SolSpec /\ BtcWatchSpec /\ SolWatchSpec
          /\ InvoicesSpec /\ KeyvaultSpec /\ CkbSpec
<1>1. Init => /\ SafeInit /\ SolInit /\ BtcWatchInit /\ SolWatchInit
              /\ InvoicesInit /\ KeyvaultInit /\ CkbInit
  BY DEF Init
<1>2. [Next]_vars => /\ [SafeNext]_safevars /\ [SolNext]_solvars
                     /\ [BtcWatchNext]_btcwatchvars /\ [SolWatchNext]_solwatchvars
                     /\ [InvoicesNext]_invoiceVars /\ [KeyvaultNext]_kvvars
                     /\ [CkbNext]_ckbvars
  BY DEF Next, vars
<1> QED BY <1>1, <1>2, PTL DEF Spec, SafeSpec, SolSpec, BtcWatchSpec, SolWatchSpec,
                               InvoicesSpec, KeyvaultSpec, CkbSpec

\* Every component keeps to its types, whatever the constants: payments,
\* owners, reviews, scans, invoices, batches, seeds and cells.
THEOREM ChainTypesCorrect == Spec => []TypeOK
<1>1. /\ SafeInvariant => SafeTypeOK
      /\ SolInvariant => SolTypeOK
      /\ BtcWatchInvariant => BtcWatchTypeOK
      /\ SolWatchInvariant => SolWatchTypeOK
      /\ InvoicesInvariant => InvoicesTypeOK
      /\ KeyvaultInvariant => KeyvaultTypeOK
      /\ CkbInvariant => CkbTypeOK
  BY DEF SafeInvariant, SolInvariant, BtcWatchInvariant, SolWatchInvariant,
         InvoicesInvariant, KeyvaultInvariant, CkbInvariant
<1>2. SafeSpec => []SafeInvariant
  BY SafeInitInvariant, SafeStepInvariant, PTL DEF SafeSpec
<1>3. SolSpec => []SolInvariant
  BY SolInitInvariant, SolStepInvariant, PTL DEF SolSpec
<1>4. BtcWatchSpec => []BtcWatchInvariant
  BY BtcWatchInitInvariant, BtcWatchStepInvariant, PTL DEF BtcWatchSpec
<1>5. SolWatchSpec => []SolWatchInvariant
  BY SolWatchInitInvariant, SolWatchStepInvariant, PTL DEF SolWatchSpec
<1>6. InvoicesSpec => []InvoicesInvariant
  BY InvoicesInitInvariant, InvoicesStepInvariant, PTL DEF InvoicesSpec
<1>7. KeyvaultSpec => []KeyvaultInvariant
  BY KeyvaultInitInvariant, KeyvaultStepInvariant, PTL DEF KeyvaultSpec
<1>8. /\ SafeTypeOK /\ SolTypeOK /\ BtcWatchTypeOK /\ SolWatchTypeOK
      /\ InvoicesTypeOK /\ KeyvaultTypeOK /\ CkbTypeOK
      => TypeOK
  BY DEF TypeOK
<1> QED BY <1>1, <1>2, <1>3, <1>4, <1>5, <1>6, <1>7, <1>8, CkbAlwaysInvariant,
           ComponentsAreFollowed, PTL

=============================================================================
