----------------------------- MODULE BitcoinWatch -----------------------------
(***************************************************************************)
(* A watch-only Bitcoin treasury: the discovery of the used addresses of a *)
(* descriptor, which scans further and further until a gap of unused       *)
(* addresses follows the last used one, over a chain on which addresses    *)
(* become used and a reorganisation frees them.                            *)
(***************************************************************************)
EXTENDS Integers, FiniteSetsExt

CONSTANTS
  GapLimit,    \* gapLimit of the descriptor
  MaxDerived,  \* bound: addresses derived, MAX_DERIVED_ADDRESSES
  NoScan       \* no record, no scan, no snapshot

Index == 0 .. MaxDerived - 1

ASSUME GapLimitAssumption ==
  /\ GapLimit \in Nat \ {0} /\ MaxDerived \in Nat
  /\ \A indices \in SUBSET Index : NoScan # indices

VARIABLES
  used,     \* addresses, by index, with activity on the chain
  btcwatch, \* the record of the store
  upper     \* the highest index of the scan in flight, NoScan for none

btcwatchvars == <<used, btcwatch, upper>>

BtcRecord ==
  [status : {"idle", "syncing", "ready", "error"},
   lastUsed : Index \union {-1}, scannedThrough : Index \union {-1},
   unused : 0 .. MaxDerived,
   snapshot : (SUBSET Index) \union {NoScan}]

BtcWatchTypeOK ==
  /\ used \subseteq Index
  /\ btcwatch \in BtcRecord \union {NoScan}
  /\ upper \in Nat \union {NoScan}

BtcWatchInit == used = {} /\ btcwatch = NoScan /\ upper = NoScan

-----------------------------------------------------------------------------
Initial == [status |-> "idle", lastUsed |-> -1, scannedThrough |-> -1,
            unused |-> 0, snapshot |-> NoScan]

Limit(r) == Max({r.scannedThrough, r.lastUsed + GapLimit, GapLimit - 1})

\* syncBitcoinWatch up to its first scan: ensure, beginSync.  An interrupted
\* pass keeps its count of unused addresses.
BtcSyncStarts ==
  /\ upper = NoScan
  /\ LET r == IF btcwatch = NoScan THEN Initial ELSE btcwatch
     IN  /\ btcwatch' = [r EXCEPT !.status = "syncing",
                                  !.unused = IF r.status = "syncing" THEN @ ELSE 0]
         /\ upper' = Limit(r)
  /\ UNCHANGED used

\* reconcileDiscovery: activity is that of addresses 0 .. to.
Reconciled(r, to) ==
  LET hit == used \intersect (0 .. to)
      last == IF hit = {} THEN -1 ELSE Max(hit)
  IN  [r EXCEPT !.lastUsed = last, !.scannedThrough = to, !.unused = to - last]

\* An answer whose end is judged by what was known before it.
BtcScanJudgedEarly ==
  /\ upper # NoScan /\ upper < MaxDerived /\ btcwatch # NoScan
  /\ LET r == Reconciled(btcwatch, upper)
         desired == btcwatch.lastUsed + GapLimit
     IN  IF upper >= desired
         THEN /\ btcwatch' = [r EXCEPT !.status = "ready", !.snapshot = used \intersect (0 .. upper)]
              /\ upper' = NoScan
         ELSE btcwatch' = r /\ upper' = Max({upper + 1, desired})
  /\ UNCHANGED used

\* The answer to a scan: either the gap is there and the snapshot is
\* committed, or the next scan goes further.
BtcScanReturns ==
  /\ upper # NoScan /\ upper < MaxDerived /\ btcwatch # NoScan
  /\ LET r == Reconciled(btcwatch, upper)
         desired == r.lastUsed + GapLimit
     IN  IF r.unused >= GapLimit /\ upper >= desired
         THEN /\ btcwatch' = [r EXCEPT !.status = "ready", !.snapshot = used \intersect (0 .. upper)]
              /\ upper' = NoScan
         ELSE btcwatch' = r /\ upper' = Max({upper + 1, desired})
  /\ UNCHANGED used

\* The provider fails, too many addresses, or the treasury was removed.
BtcScanFails ==
  /\ upper # NoScan
  /\ btcwatch' = IF btcwatch = NoScan THEN NoScan ELSE [btcwatch EXCEPT !.status = "error"]
  /\ upper' = NoScan
  /\ UNCHANGED used

RemoveBitcoinTreasury ==
  /\ btcwatch # NoScan
  /\ btcwatch' = NoScan
  /\ UNCHANGED <<used, upper>>

\* A payment to an address, or one that a reorganisation takes back.
ActivityChanges(i) ==
  /\ used' = IF i \in used THEN used \ {i} ELSE used \union {i}
  /\ UNCHANGED <<btcwatch, upper>>

\* The record stays as it is.
BtcWatchRestarts ==
  /\ upper # NoScan
  /\ upper' = NoScan
  /\ UNCHANGED <<used, btcwatch>>

BtcWatchNext ==
  \/ BtcSyncStarts \/ BtcScanReturns \/ BtcScanFails \/ RemoveBitcoinTreasury
  \/ \E i \in Index : ActivityChanges(i)
  \/ BtcWatchRestarts

BtcWatchSpec == BtcWatchInit /\ [][BtcWatchNext]_btcwatchvars

-----------------------------------------------------------------------------
\* A record that is ready was scanned to the end of the gap after the last used
\* address of its snapshot, and offers none that is used in it to the next
\* payer: however discovery failed, was interrupted or ran again while
\* addresses became used or a reorganisation freed them (syncBitcoinWatch).
DiscoveryCovers ==
  btcwatch # NoScan /\ btcwatch.status = "ready" =>
    /\ btcwatch.snapshot # NoScan
    /\ \A i \in btcwatch.snapshot : i <= btcwatch.lastUsed
    /\ btcwatch.lastUsed >= 0 => btcwatch.lastUsed \in btcwatch.snapshot
    /\ btcwatch.scannedThrough - btcwatch.lastUsed >= GapLimit
=============================================================================
