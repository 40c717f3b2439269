------------------------------ MODULE LightClient ------------------------------
(* The embedded CKB light client: one worker over one chain database, which    *)
(* keeps for every watched lock script the next block to filter and what the   *)
(* filtered blocks held.  Rescans rebuild the database while watches, cell     *)
(* listings, other rescans and a reload of the window go on.                   *)
(* Sources: lib/light-client/*, features/send/{RescanControl,rescan-source,    *)
(* parse-rescan-block,SourceList}, features/keyvault/useKeystoreBalance,       *)
(* features/treasury/CkbTreasuryDetail.                                        *)
EXTENDS Naturals

CONSTANTS Scripts,     \* lock scripts, each with one cell on the chain
          MaxRescans,  \* bound on rescans that run at once, each of a source row
          Made, Spent, \* the block that creates and the block that spends a script's cell
          MaxTip,      \* bound on the chain
          Unwatched    \* the cursor of a script the database does not watch

Blocks == 0 .. MaxTip
Rescanners == 1 .. MaxRescans

ASSUME LightClientAssumption ==
    /\ MaxTip \in Nat
    /\ Made \in [Scripts -> Blocks]
    /\ \A s \in Scripts : Spent[s] \in Nat /\ Made[s] <= Spent[s]
    /\ Unwatched \notin Nat

VARIABLES
    client,    \* "off", "starting" or "on": host.client and host.startPromise
    booted,    \* the window's start effect has run
    cursor,    \* database: the next block to filter for each script, or Unwatched
    indexed,   \* database: the blocks filtered for each script
    wanted,    \* the first block asked for of each watched script (0 for others)
    tip,
    scan,      \* each rescan
    listing,   \* the listing that has found a script's cell, until it ends
    kept       \* history: the watches that the rescans since have listed or restored

lcVars == <<client, booted, cursor, indexed, wanted, tip, scan, listing, kept>>

Watched == {s \in Scripts : cursor[s] # Unwatched}

NoScan == [at |-> "idle", from |-> 0, list |-> {}]
Open == {r \in Rescanners : scan[r].at # "idle"}

\* Rescans between the deletion of the database and the return of its watches.
InGap == {r \in Rescanners : scan[r].at \in {"deleted", "started"}}

\* A listing of script "of" that has found its cell and, among the transactions
\* before place "upto", no spend of it; "known" says whether there was one when it
\* began to read them, also of the cell it shows when it has ended.
NoListing == [of |-> Unwatched, at |-> "ended", upto |-> 0, known |-> FALSE]

LcTypeOK ==
    /\ client \in {"off", "starting", "on"} /\ booted \in BOOLEAN
    /\ cursor \in [Scripts -> Nat \cup {Unwatched}]
    /\ indexed \in [Scripts -> SUBSET Blocks]
    /\ wanted \in [Scripts -> Blocks]
    /\ tip \in Blocks
    /\ scan \in [Rescanners -> [at : {"idle", "listed", "stopped", "deleted", "started"},
                                from : Blocks, list : SUBSET Scripts]]
    /\ listing \in [of : Scripts \cup {Unwatched}, at : {"ended", "cells", "pages"},
                    upto : Nat, known : BOOLEAN]
    /\ listing.at \in {"cells", "pages"} => client = "on" /\ listing.of \in Scripts
    /\ kept \subseteq Scripts

LcInit ==
    /\ client = "off" /\ booted = FALSE
    /\ cursor = [s \in Scripts |-> Unwatched] /\ indexed = [s \in Scripts |-> {}]
    /\ wanted = [s \in Scripts |-> 0]
    /\ tip = 0
    /\ scan = [r \in Rescanners |-> NoScan]
    /\ listing = NoListing /\ kept = {}

-----------------------------------------------------------------------------
(* Starting and stopping.  start() while the client runs returns; while it     *)
(* starts, it waits for that start and fails with it; stop() forgets a running *)
(* client but not one still starting.                                          *)

Stopped == IF client = "on" THEN "off" ELSE client
Started == IF client = "off" THEN "starting" ELSE client

Boot ==
    /\ ~booted
    /\ booted' = TRUE
    /\ client' = Started
    /\ UNCHANGED <<cursor, indexed, wanted, tip, scan, listing, kept>>

StartSettles ==
    /\ client = "starting"
    /\ client' \in {"on", "off"}
    /\ scan' = [r \in Rescanners |->
                  IF client' = "off" /\ scan[r].at = "started" THEN NoScan ELSE scan[r]]
    /\ kept' = IF client' = "off" /\ \E r \in Rescanners : scan[r].at = "started" THEN {} ELSE kept
    /\ UNCHANGED <<booted, cursor, indexed, wanted, tip, listing>>

Kill ==
    /\ client' = "off" /\ booted' = FALSE
    /\ scan' = [r \in Rescanners |-> NoScan]
    /\ listing' = NoListing
    /\ kept' = IF InGap = {} THEN kept ELSE {}
    /\ UNCHANGED <<cursor, indexed, wanted, tip>>

-----------------------------------------------------------------------------
(* The chain and the filter.                                                   *)

Mine ==
    /\ tip < MaxTip
    /\ tip' = tip + 1
    /\ UNCHANGED <<client, booted, cursor, indexed, wanted, scan, listing, kept>>

Filter(s) ==
    /\ client = "on" /\ s \in Watched /\ cursor[s] <= tip
    /\ indexed' = [indexed EXCEPT ![s] = @ \cup {cursor[s]}]
    /\ cursor' = [cursor EXCEPT ![s] = @ + 1]
    /\ UNCHANGED <<client, booted, wanted, tip, scan, listing, kept>>

\* A watch from a block at or below the tip: watching again what is watched
\* changes nothing.  It settles on the running client; otherwise it throws.
WatchLockScript(s, from) ==
    /\ client = "on" /\ from <= tip /\ s \notin Watched
    /\ cursor' = [cursor EXCEPT ![s] = from]
    /\ wanted' = [wanted EXCEPT ![s] = from]
    /\ kept' = IF Open = {} THEN kept \cup {s} ELSE kept
    /\ UNCHANGED <<client, booted, indexed, tip, scan, listing>>

-----------------------------------------------------------------------------
(* Rescan: list the watches, stop, delete the database, start, set them all.   *)

\* The watches to restore: the target and every other one, all from the block
\* the operator gave.
RescanScriptStatusesOfTarget(watched, s) == {s}
RescanScriptStatuses(watched, s) == watched \cup {s}

RescanBegins(r, s, from) ==
    /\ client = "on" /\ from <= tip
    /\ scan[r].at = "idle" /\ \A q \in 1 .. r - 1 : scan[q].at # "idle"
    /\ scan' = [scan EXCEPT ![r] = [at |-> "listed", from |-> from,
                                    list |-> RescanScriptStatuses(Watched, s)]]
    /\ kept' = IF Open = {} THEN Watched ELSE IF InGap = {} THEN kept ELSE {}
    /\ UNCHANGED <<client, booted, cursor, indexed, wanted, tip, listing>>

RescanStops(r) ==
    /\ scan[r].at = "listed"
    /\ client' = Stopped
    /\ scan' = [scan EXCEPT ![r].at = "stopped"]
    /\ listing' = NoListing   \* the reads of the old client fail or stay unanswered
    /\ UNCHANGED <<booted, cursor, indexed, wanted, tip, kept>>

\* A deletion waits for the worker that holds the database to close it; the
\* database's open requests queue behind it.
RescanDeletes(r) ==
    /\ scan[r].at = "stopped" /\ client = "off"
    /\ cursor' = [s \in Scripts |-> Unwatched]
    /\ indexed' = [s \in Scripts |-> {}]
    /\ wanted' = [s \in Scripts |-> 0]
    /\ scan' = [scan EXCEPT ![r].at = "deleted"]
    /\ UNCHANGED <<client, booted, tip, listing, kept>>

\* The client is started again at once, and the error shown after that.
RescanDeleteFails(r) ==
    /\ scan[r].at = "stopped"
    /\ client' = Started
    /\ scan' = [scan EXCEPT ![r] = NoScan]
    /\ UNCHANGED <<booted, cursor, indexed, wanted, tip, listing, kept>>

RescanStarts(r) ==
    /\ scan[r].at = "deleted"
    /\ client' = Started
    /\ scan' = [scan EXCEPT ![r].at = "started"]
    /\ UNCHANGED <<booted, cursor, indexed, wanted, tip, listing, kept>>

\* setScripts(All): the watches not listed are forgotten.
RestoredFromCursor(r, s) == tip
RestoredFrom(r, s) == scan[r].from

RescanRestores(r) ==
    /\ scan[r].at = "started" /\ client = "on"
    /\ cursor' = [s \in Scripts |->
                    IF s \in scan[r].list THEN RestoredFrom(r, s) ELSE Unwatched]
    /\ wanted' = [s \in Scripts |-> IF s \in scan[r].list THEN scan[r].from ELSE 0]
    /\ scan' = [scan EXCEPT ![r] = NoScan]
    /\ kept' = IF Open = {r} THEN kept \cup scan[r].list ELSE kept
    /\ UNCHANGED <<client, booted, indexed, tip, listing>>

\* Another rescan stopped the client: setScripts throws.
RescanFails(r) ==
    /\ scan[r].at = "started" /\ client = "off"
    /\ scan' = [scan EXCEPT ![r] = NoScan]
    /\ kept' = {}
    /\ UNCHANGED <<client, booted, cursor, indexed, wanted, tip, listing>>

-----------------------------------------------------------------------------
(* listCellsForLock: the cells are read, then the transactions page by page,   *)
(* while blocks are filtered; then the cells a transaction spends are dropped.  *)

SpendKnown(s) == Spent[s] \in indexed[s]

\* The database keeps a cell created and spent within one block.
RawCell(s) == Made[s] \in indexed[s] /\ (~SpendKnown(s) \/ Made[s] = Spent[s])

ReadCells(s) ==
    /\ client = "on"
    /\ listing' = IF RawCell(s) THEN [NoListing EXCEPT !.of = s, !.at = "cells"] ELSE NoListing
    /\ UNCHANGED <<client, booted, cursor, indexed, wanted, tip, scan, kept>>

\* Transactions come in the order of the chain: of two in one block, the one
\* that creates a cell before the one that spends it.
Place(b, spends) == 2 * b + IF spends THEN 1 ELSE 0

\* Of a place only matters which transactions of the script's cell lie before it.
Beyond(s, place) ==
    IF Place(Spent[s], TRUE) < place THEN Place(Spent[s], TRUE) + 1
    ELSE IF Place(Made[s], FALSE) < place THEN Place(Made[s], FALSE) + 1 ELSE 0

\* reconcileLiveCells drops the cell for a transaction that spends it: a listing
\* that reads that one has found nothing, whatever it reads then.  A page ends
\* anywhere in a filtered block, for the script has other transactions.
ReadPage(s, b, spends) ==
    /\ listing.of = s /\ listing.at \in {"cells", "pages"}
    /\ b \in indexed[s] /\ listing.upto <= Place(b, spends)
    /\ listing' = IF SpendKnown(s) /\ Place(Spent[s], TRUE) \in listing.upto .. Place(b, spends)
                  THEN NoListing
                  ELSE [of |-> s, at |-> "pages", upto |-> Beyond(s, Place(b, spends) + 1),
                        known |-> IF listing.at = "cells" THEN SpendKnown(s) ELSE listing.known]
    /\ UNCHANGED <<client, booted, cursor, indexed, wanted, tip, scan, kept>>

\* An empty page ends the listing: nothing known lies beyond what was read.
Shown(s) ==
    /\ listing.of = s /\ listing.at = "pages"
    /\ listing' = [NoListing EXCEPT !.known = listing.known]
    /\ UNCHANGED <<client, booted, cursor, indexed, wanted, tip, scan, kept>>

FirstPageIsEnough(s) == Shown(s)

LastPage(s) ==
    /\ Made[s] \in indexed[s] => Place(Made[s], FALSE) < listing.upto
    /\ SpendKnown(s) => Place(Spent[s], TRUE) < listing.upto
    /\ Shown(s)

-----------------------------------------------------------------------------
LcNext ==
    \/ Boot \/ StartSettles \/ Kill \/ Mine
    \/ \E s \in Scripts : Filter(s) \/ ReadCells(s) \/ LastPage(s)
                          \/ \E b \in Blocks : \/ WatchLockScript(s, b)
                                             \/ \E spends \in BOOLEAN : ReadPage(s, b, spends)
    \/ \E r \in Rescanners :
          \/ \E s \in Scripts, b \in Blocks : RescanBegins(r, s, b)
          \/ RescanStops(r) \/ RescanDeletes(r) \/ RescanDeleteFails(r)
          \/ RescanStarts(r) \/ RescanRestores(r) \/ RescanFails(r)

LcSpec == LcInit /\ [][LcNext]_lcVars

-----------------------------------------------------------------------------
(* Every block from the one a watch asked for up to its cursor was filtered:   *)
(* no rescan, restart or kill lets a balance silently miss a range of blocks.  *)
NoGaps == \A s \in Watched : wanted[s] .. (cursor[s] - 1) \subseteq indexed[s]

(* The watches that rescans have listed stay watched, whether the deletion     *)
(* fails, another rescan overlaps or the window is reloaded ("restores all     *)
(* script watches").  Three ways to lose them are known and left out: a reload *)
(* or a failed start in the gap where the database is empty, a rescan that     *)
(* lists in that gap, and a watch added after the listing.                     *)
WatchesSurvive == InGap = {} => kept \subseteq Watched

(* A listing never shows a cell whose spend the database knew when the listing *)
(* began to read the transactions, wherever the pages end and whatever is      *)
(* filtered, restored or set back while they are read.                         *)
KnownSpendsAreDropped == listing.at = "ended" => ~listing.known
=============================================================================
