---------------------------- MODULE DesktopProofs ----------------------------
(***************************************************************************)
(* Theorems about five components of the desktop application that share no *)
(* state: the network switch, the sign desk, the light client, the         *)
(* compliance export and the setup of comm, for every value of their       *)
(* constants; and about their composition with the capture of invoices.    *)
(***************************************************************************)
EXTENDS MCDesktop, MobileCaptureProofs, TLAPS

-----------------------------------------------------------------------------
(***************************************************************************)
(* NetworkSwitch.  The start effect works with the selection it read, and  *)
(* the operator may apply another one before it is done: then the flag is  *)
(* raised, and only a start that begins later takes it down.               *)
(***************************************************************************)
StartsOnSelection ==
  boot \in {"saving", "starting"} =>
    /\ chosen \in Networks
    /\ chosen # network => wipeFlag

NetInvariant == NetTypeOK /\ StartsOnSelection /\ ForeignDbIsFlagged

LEMMA NetInitInvariant ==
  ASSUME NetInit
  PROVE  NetInvariant
<1>1. starts \in 0 .. MaxStarts
  BY NetworkAssumption DEF NetInit
<1> QED BY <1>1, NetworkAssumption
        DEF NetInit, NetInvariant, NetTypeOK, StartsOnSelection, ForeignDbIsFlagged

LEMMA NetStepInvariant ==
  ASSUME NetInvariant, [NetNext]_netVars
  PROVE  NetInvariant'
<1> USE DEF NetInvariant, NetTypeOK, StartsOnSelection, ForeignDbIsFlagged
<1>1. CASE Launch
  <2>1. starts' \in 0 .. MaxStarts
    BY <1>1, NetworkAssumption DEF Launch
  <2> QED BY <1>1, <2>1 DEF Launch
<1>2. CASE RegisterHandlers
  BY <1>2 DEF RegisterHandlers
<1>3. CASE BootBegins
  BY <1>3 DEF BootBegins
<1>4. CASE StartCkb
  BY <1>4 DEF StartCkb
<1>5. CASE Quit
  BY <1>5, NetworkAssumption DEF Quit
<1>6. ASSUME NEW ok \in BOOLEAN, ClearSettles(ok)
      PROVE  NetInvariant'
  BY <1>6 DEF ClearSettles, FlagAfterClear
<1>7. ASSUME NEW ok \in BOOLEAN, BootSaves(ok)
      PROVE  NetInvariant'
  BY <1>7 DEF BootSaves
<1>8. ASSUME NEW ok \in BOOLEAN, NetworkSet(ok)
      PROVE  NetInvariant'
  BY <1>8 DEF NetworkSet
<1>9. ASSUME NEW n \in Networks, ConfirmAndQuit(n)
      PROVE  NetInvariant'
  BY <1>9 DEF ConfirmAndQuit
<1>10. CASE UNCHANGED netVars
  BY <1>10 DEF netVars
<1> QED BY <1>1, <1>2, <1>3, <1>4, <1>5, <1>6, <1>7, <1>8, <1>9, <1>10 DEF NetNext

\* A database of another network than the selected one is marked to be wiped,
\* however starts, crashes, failed writes and changes of the network overlap.
THEOREM ForeignDatabaseFlagged == NetSpec => []ForeignDbIsFlagged
<1>1. NetInit => NetInvariant
  BY NetInitInvariant
<1>2. NetInvariant /\ [NetNext]_netVars => NetInvariant'
  BY NetStepInvariant
<1>3. NetInvariant => ForeignDbIsFlagged
  BY DEF NetInvariant
<1> QED BY <1>1, <1>2, <1>3, PTL DEF NetSpec

-----------------------------------------------------------------------------
(***************************************************************************)
(* SignDesk.                                                               *)
(***************************************************************************)
DeskInvariant == DeskTypeOK /\ SignsWhatWasShown

LEMMA DeskInitInvariant ==
  ASSUME DeskInit
  PROVE  DeskInvariant
  BY NoPacketAssumption DEF DeskInit, DeskInvariant, DeskTypeOK, SignsWhatWasShown

LEMMA DeskStepInvariant ==
  ASSUME DeskInvariant, [DeskNext]_deskvars
  PROVE  DeskInvariant'
<1> USE NoPacketAssumption DEF DeskInvariant, DeskTypeOK, SignsWhatWasShown
<1>1. ASSUME NEW d \in PacketTx, NEW text \in PacketTexts, Enqueue(d, text)
      PROVE  DeskInvariant'
  BY <1>1, PacketTextsAssumption DEF Enqueue
<1>2. ASSUME NEW d \in PacketTx, Dismiss(d)
      PROVE  DeskInvariant'
  BY <1>2 DEF Dismiss
<1>3. ASSUME NEW d \in PacketTx, HandleClaim(d)
      PROVE  DeskInvariant'
  BY <1>3 DEF HandleClaim
<1>4. ASSUME NEW d \in PacketTx, Expires(d)
      PROVE  DeskInvariant'
  BY <1>4 DEF Expires
<1>5. ASSUME NEW text \in PacketTexts, Paste(text)
      PROVE  DeskInvariant'
  BY <1>5, PacketTextsAssumption DEF Paste
<1>6. CASE HandleSign
  <2>1. packetJson \in TransferPacket
    BY <1>6 DEF HandleSign, Decodes
  <2>2. packetJson.tx \in PacketTx
    BY <2>1 DEF TransferPacket
  <2> QED BY <1>6, <2>1, <2>2 DEF HandleSign, Decodes
<1>7. CASE SignFails
  BY <1>7 DEF SignFails
<1>8. ASSUME NEW k \in Signers, Signs(k)
      PROVE  DeskInvariant'
  <2>1. signing \in TransferPacket /\ Decodes(signing) /\ signing.tx = shown
    BY <1>8 DEF Signs
  <2>2. signing.sighashDigest \in PacketTx /\ signing.sighashDigest = shown
    BY <2>1 DEF TransferPacket, Decodes
  <2>3. result' \in Result /\ result'.digest = shown
    BY <1>8, <2>2 DEF Signs, Result
  <2> QED BY <1>8, <2>3 DEF Signs
<1>9. CASE DeskRestarts
  BY <1>9 DEF DeskRestarts
<1>10. CASE UNCHANGED deskvars
  BY <1>10 DEF deskvars
<1> QED BY <1>1, <1>2, <1>3, <1>4, <1>5, <1>6, <1>7, <1>8, <1>9, <1>10 DEF DeskNext

\* What is signed is the transaction on display when Sign was pressed, whatever
\* was pasted, claimed or delivered while the key was being decrypted.
THEOREM SignedWasShown == DeskSpec => []SignsWhatWasShown
<1>1. DeskInit => DeskInvariant
  BY DeskInitInvariant
<1>2. DeskInvariant /\ [DeskNext]_deskvars => DeskInvariant'
  BY DeskStepInvariant
<1>3. DeskInvariant => SignsWhatWasShown
  BY DEF DeskInvariant
<1> QED BY <1>1, <1>2, <1>3, PTL DEF DeskSpec

-----------------------------------------------------------------------------
(***************************************************************************)
(* LightClient.  The cursor of a watch never runs ahead of what was        *)
(* filtered from the block asked for.  What the rescans have promised to   *)
(* keep is in the list of every open one, and watched while none of them   *)
(* is between the deletion of the database and the return of its watches.  *)
(* A listing that has not met a spend it could know of has it ahead.       *)
(***************************************************************************)
ScanRecord == [at : {"idle", "listed", "stopped", "deleted", "started"},
               from : Blocks, list : SUBSET Scripts]

ScanPart ==
  /\ scan \in [Rescanners -> ScanRecord]
  /\ kept \subseteq Scripts
  /\ \A r \in Open : kept \subseteq scan[r].list
  /\ WatchesSurvive

FilterPart ==
  /\ cursor \in [Scripts -> Nat \cup {Unwatched}]
  /\ indexed \in [Scripts -> SUBSET Blocks]
  /\ wanted \in [Scripts -> Blocks]
  /\ tip \in Blocks
  /\ NoGaps

ListingRecord == [of : Scripts \cup {Unwatched}, at : {"ended", "cells", "pages"},
                  upto : Nat, known : BOOLEAN]

SpendIsAhead ==
  listing.at = "pages" /\ listing.known =>
    SpendKnown(listing.of) /\ listing.upto <= Place(Spent[listing.of], TRUE)

CellsAtStart == listing.at = "cells" => listing.upto = 0

ClientPart ==
  /\ client \in {"off", "starting", "on"} /\ booted \in BOOLEAN
  /\ listing \in ListingRecord
  /\ listing.at \in {"cells", "pages"} => client = "on" /\ listing.of \in Scripts
  /\ KnownSpendsAreDropped
  /\ CellsAtStart
  /\ SpendIsAhead

LcInvariant == ScanPart /\ FilterPart /\ ClientPart

LEMMA LcInvariantTypes == LcInvariant => LcTypeOK
  BY DEF LcInvariant, ScanPart, FilterPart, ClientPart, ScanRecord, ListingRecord, LcTypeOK

LEMMA BlocksAreNat == 0 \in Blocks /\ Blocks \subseteq Nat
  BY LightClientAssumption DEF Blocks

LEMMA NoScanType == NoScan \in ScanRecord /\ NoScan.at = "idle"
  BY BlocksAreNat DEF NoScan, ScanRecord

LEMMA NoListingType == NoListing \in ListingRecord /\ NoListing.at = "ended" /\ NoListing.known = FALSE
  BY DEF NoListing, ListingRecord

LEMMA LcInitInvariant ==
  ASSUME LcInit
  PROVE  LcInvariant
<1>1. ScanPart
  BY NoScanType DEF LcInit, ScanPart, WatchesSurvive, Open
<1>2. FilterPart
  BY BlocksAreNat, LightClientAssumption DEF LcInit, FilterPart, NoGaps, Watched
<1>3. ClientPart
  BY NoListingType DEF LcInit, ClientPart, KnownSpendsAreDropped, SpendIsAhead, CellsAtStart
<1> QED BY <1>1, <1>2, <1>3 DEF LcInvariant

\* Which steps leave a part alone.
LEMMA FilterPartUnchanged ==
  ASSUME FilterPart, UNCHANGED <<cursor, indexed, wanted, tip>>
  PROVE  FilterPart'
  BY DEF FilterPart, NoGaps, Watched

LEMMA ListingStays ==
  ASSUME ClientPart, UNCHANGED listing, client' \in {"off", "starting", "on"}, booted' \in BOOLEAN,
         client = "on" => client' = "on", \A s \in Scripts : indexed[s] \subseteq indexed'[s]
  PROVE  ClientPart'
  BY DEF ClientPart, KnownSpendsAreDropped, SpendIsAhead, CellsAtStart, SpendKnown

LEMMA ListingEnds ==
  ASSUME listing' = NoListing, client' \in {"off", "starting", "on"}, booted' \in BOOLEAN
  PROVE  ClientPart'
  BY NoListingType DEF ClientPart, KnownSpendsAreDropped, SpendIsAhead, CellsAtStart

LEMMA ScanPartUnchanged ==
  ASSUME ScanPart, UNCHANGED <<scan, kept>>, Watched \subseteq Watched'
  PROVE  ScanPart'
  BY DEF ScanPart, WatchesSurvive, Open, InGap

\* A rescan takes a stage or ends.
LEMMA RescanMoves ==
  ASSUME ScanPart, NEW r \in Rescanners, NEW c \in ScanRecord, scan' = [scan EXCEPT ![r] = c],
         c.at = "idle" \/ (c.list = scan[r].list /\ scan[r].at # "idle"),
         kept' = kept, c.at \in {"deleted", "started"} \/ (r \notin InGap /\ UNCHANGED cursor)
  PROVE  ScanPart'
<1>1. scan' \in [Rescanners -> ScanRecord] /\ scan'[r] = c /\ \A q \in Rescanners \ {r} : scan'[q] = scan[q]
  BY DEF ScanPart
<1>2. \A q \in Open' : kept' \subseteq scan'[q].list
  BY <1>1 DEF ScanPart, Open
<1>3. WatchesSurvive'
  <2>1. CASE c.at \in {"deleted", "started"}
    BY <1>1, <2>1 DEF WatchesSurvive, InGap
  <2>2. CASE r \notin InGap /\ UNCHANGED cursor
    <3>1. InGap' = {} => InGap = {}
      BY <1>1, <2>2 DEF InGap
    <3> QED BY <2>2, <3>1 DEF ScanPart, WatchesSurvive, Watched
  <2> QED BY <2>1, <2>2
<1> QED BY <1>1, <1>2, <1>3 DEF ScanPart

LEMMA FilterStep ==
  ASSUME LcInvariant, NEW s \in Scripts, Filter(s)
  PROVE  LcInvariant'
<1> USE DEF Filter
<1>2. FilterPart /\ ScanPart /\ ClientPart
  BY DEF LcInvariant
<1>3. cursor[s] \in Nat /\ cursor[s] \in Blocks /\ cursor[s] + 1 # Unwatched
  BY <1>2, LightClientAssumption DEF FilterPart, Watched, Blocks
<1>4. cursor' = [cursor EXCEPT ![s] = cursor[s] + 1]
      /\ indexed' = [indexed EXCEPT ![s] = indexed[s] \cup {cursor[s]}]
  OBVIOUS
<1>1. ScanPart' /\ ClientPart'
  <2>1. Watched \subseteq Watched'
    BY <1>2, <1>3, <1>4 DEF Watched, FilterPart
  <2>2. \A q \in Scripts : indexed[q] \subseteq indexed'[q]
    BY <1>2, <1>4 DEF FilterPart
  <2>3. ClientPart'
    BY <1>2, <2>2, ListingStays DEF ClientPart
  <2> QED BY <1>2, <2>1, <2>3, ScanPartUnchanged
<1>5. NoGaps'
  <2> SUFFICES ASSUME NEW q \in Watched', NEW b \in wanted'[q] .. (cursor'[q] - 1)
               PROVE  b \in indexed'[q]
    BY DEF NoGaps
  <2>1. q \in Scripts
    BY DEF Watched
  <2>2. CASE q = s
    <3>1. wanted[s] \in Nat
      BY <1>2, BlocksAreNat DEF FilterPart
    <3>2. b = cursor[s] \/ b \in wanted[s] .. (cursor[s] - 1)
      BY <1>2, <1>3, <1>4, <2>2, <3>1 DEF FilterPart
    <3>3. wanted[s] .. (cursor[s] - 1) \subseteq indexed[s]
      BY <1>2 DEF FilterPart, NoGaps
    <3> QED BY <1>2, <1>4, <2>2, <3>2, <3>3 DEF FilterPart
  <2>3. CASE q # s
    BY <1>2, <1>4, <2>1, <2>3 DEF FilterPart, NoGaps, Watched
  <2> QED BY <2>2, <2>3
<1>6. FilterPart'
  BY <1>2, <1>3, <1>4, <1>5 DEF FilterPart
<1> QED BY <1>1, <1>6 DEF LcInvariant

LEMMA WatchStep ==
  ASSUME LcInvariant, NEW s \in Scripts, NEW from \in Blocks, WatchLockScript(s, from)
  PROVE  LcInvariant'
<1> USE DEF WatchLockScript
<1>0. ScanPart /\ FilterPart /\ ClientPart
  BY DEF LcInvariant
<1>3. from \in Nat /\ (from .. (from - 1)) = {}
  BY BlocksAreNat
<1>6. Watched' = Watched \cup {s}
  BY <1>0, <1>3, LightClientAssumption DEF FilterPart, Watched
<1>1. ScanPart'
  <2>1. kept' \subseteq kept \cup {s} /\ (Open # {} => kept' = kept) /\ scan' = scan
    OBVIOUS
  <2> QED BY <1>0, <1>6, <2>1 DEF ScanPart, WatchesSurvive, Open, InGap
<1>2. ClientPart'
  BY <1>0, ListingStays DEF ClientPart
<1>4. NoGaps'
  BY <1>0, <1>3 DEF FilterPart, NoGaps, Watched
<1>5. FilterPart'
  BY <1>0, <1>3, <1>4 DEF FilterPart
<1> QED BY <1>1, <1>2, <1>5 DEF LcInvariant

LEMMA BootStep ==
  ASSUME LcInvariant, Boot
  PROVE  LcInvariant'
<1>1. ScanPart' /\ FilterPart'
  BY FilterPartUnchanged, ScanPartUnchanged DEF Boot, LcInvariant, Watched
<1>2. ClientPart'
  BY ListingStays DEF Boot, Started, LcInvariant, ClientPart
<1> QED BY <1>1, <1>2 DEF LcInvariant

LEMMA StartSettlesStep ==
  ASSUME LcInvariant, StartSettles
  PROVE  LcInvariant'
<1>1. ScanPart'
  <2>1. CASE client' = "off" /\ \E r \in Rescanners : scan[r].at = "started"
    BY <2>1, NoScanType DEF StartSettles, LcInvariant, ScanPart, WatchesSurvive
  <2>2. CASE ~(client' = "off" /\ \E r \in Rescanners : scan[r].at = "started")
    <3>1. scan' = scan /\ kept' = kept
      BY <2>2 DEF StartSettles, LcInvariant, ScanPart
    <3> QED BY <3>1, ScanPartUnchanged DEF StartSettles, LcInvariant, Watched
  <2> QED BY <2>1, <2>2
<1>2. FilterPart'
  BY FilterPartUnchanged DEF StartSettles, LcInvariant
<1>3. ClientPart'
  BY ListingStays DEF StartSettles, LcInvariant, ClientPart
<1> QED BY <1>1, <1>2, <1>3 DEF LcInvariant

LEMMA KillStep ==
  ASSUME LcInvariant, Kill
  PROVE  LcInvariant'
<1>1. ScanPart'
  <2>1. scan' \in [Rescanners -> ScanRecord] /\ Open' = {}
    BY NoScanType DEF Kill, Open
  <2>2. kept' \subseteq Watched /\ Watched' = Watched /\ Watched \subseteq Scripts
    BY DEF Kill, LcInvariant, ScanPart, WatchesSurvive, Watched
  <2> QED BY <2>1, <2>2 DEF ScanPart, WatchesSurvive
<1>2. FilterPart'
  BY FilterPartUnchanged DEF Kill, LcInvariant
<1>3. ClientPart'
  BY ListingEnds DEF Kill
<1> QED BY <1>1, <1>2, <1>3 DEF LcInvariant

LEMMA MineStep ==
  ASSUME LcInvariant, Mine
  PROVE  LcInvariant'
<1>1. ScanPart' /\ ClientPart'
  BY ListingStays, ScanPartUnchanged DEF Mine, LcInvariant, ClientPart, Watched
<1>2. tip' \in Blocks
  BY LightClientAssumption DEF Mine, LcInvariant, FilterPart, Blocks
<1>3. FilterPart'
  BY <1>2 DEF Mine, LcInvariant, FilterPart, NoGaps, Watched
<1> QED BY <1>1, <1>3 DEF LcInvariant

\* What is kept of the end of a page does not pass a spend the page stops before.
LEMMA BeyondIsEarlier ==
  ASSUME NEW s \in Scripts, NEW place \in Nat
  PROVE  /\ Beyond(s, place) \in Nat
         /\ place <= Place(Spent[s], TRUE) => Beyond(s, place) <= Place(Spent[s], TRUE)
<1>1. Made[s] \in Nat /\ Spent[s] \in Nat /\ Made[s] <= Spent[s]
  BY BlocksAreNat, LightClientAssumption
<1> QED BY <1>1 DEF Beyond, Place

\* A listing reads its cells, a page, or the empty page that ends it.
LEMMA ListingSteps ==
  ASSUME LcInvariant, NEW s \in Scripts, NEW b \in Blocks, NEW spends \in BOOLEAN,
         ReadCells(s) \/ ReadPage(s, b, spends) \/ LastPage(s)
  PROVE  LcInvariant'
<1>1. ScanPart' /\ FilterPart'
  BY FilterPartUnchanged, ScanPartUnchanged
     DEF ReadCells, ReadPage, LastPage, Shown, LcInvariant, Watched
<1>2. client' = client /\ booted' = booted /\ indexed' = indexed /\ ClientPart
  BY DEF ReadCells, ReadPage, LastPage, Shown, LcInvariant
<1>3. client' \in {"off", "starting", "on"} /\ booted' \in BOOLEAN
  BY <1>2 DEF ClientPart
<1>4. SpendKnown(s) \in BOOLEAN /\ Spent[s] \in Nat /\ b \in Nat /\ listing \in ListingRecord
  BY <1>2, BlocksAreNat, LightClientAssumption DEF SpendKnown, ClientPart
<1> DEFINE at == Place(Spent[s], TRUE)
           end == Place(b, spends)
<1>5. at \in Nat /\ end \in Nat /\ listing.upto \in Nat
  BY <1>4 DEF Place, ListingRecord
<1> HIDE DEF at, end
<1>6. ASSUME ReadCells(s)
      PROVE  ClientPart'
  <2>1. CASE RawCell(s)
    <3>1. listing' = [NoListing EXCEPT !.of = s, !.at = "cells"]
      BY <1>6, <2>1 DEF ReadCells
    <3>2. listing' \in ListingRecord /\ listing'.at = "cells" /\ listing'.of = s /\ listing'.upto = 0
      BY <3>1 DEF NoListing, ListingRecord
    <3> QED BY <1>2, <1>3, <1>6, <3>2 DEF ReadCells, ClientPart, KnownSpendsAreDropped, SpendIsAhead, CellsAtStart
  <2>2. CASE ~RawCell(s)
    BY <1>3, <1>6, <2>2, ListingEnds DEF ReadCells
  <2> QED BY <2>1, <2>2
<1>7. ASSUME ReadPage(s, b, spends)
      PROVE  ClientPart'
  <2>1. CASE SpendKnown(s) /\ at \in listing.upto .. end
    BY <1>3, <1>7, <2>1, ListingEnds DEF ReadPage, at, end
  <2>2. CASE ~(SpendKnown(s) /\ at \in listing.upto .. end)
    <3> DEFINE known == IF listing.at = "cells" THEN SpendKnown(s) ELSE listing.known
    <3>1. known \in BOOLEAN
      BY <1>4 DEF ListingRecord
    <3>2. listing' = [of |-> s, at |-> "pages", upto |-> Beyond(s, end + 1), known |-> known]
      BY <1>7, <2>2 DEF ReadPage, at, end
    <3>3. known => SpendKnown(s) /\ (listing.at = "pages" => listing.upto <= at)
      BY <1>2, <1>7 DEF ReadPage, ClientPart, SpendIsAhead, at
    <3>7. listing.at = "cells" => listing.upto <= at
      <4>1. listing.at = "cells" => listing.upto = 0
        BY <1>2 DEF ClientPart, CellsAtStart
      <4> QED BY <1>5, <4>1
    <3>9. listing.at = "cells" \/ listing.at = "pages"
      BY <1>7 DEF ReadPage
    <3> HIDE DEF known
    <3>4. known => end + 1 <= at
      BY <1>5, <2>2, <3>3, <3>7, <3>9
    <3>10. Beyond(s, end + 1) \in Nat /\ (end + 1 <= at => Beyond(s, end + 1) <= at)
      <4>1. end + 1 \in Nat
        BY <1>5
      <4>2. /\ Beyond(s, end + 1) \in Nat
            /\ end + 1 <= Place(Spent[s], TRUE) => Beyond(s, end + 1) <= Place(Spent[s], TRUE)
        BY <4>1, BeyondIsEarlier
      <4> QED BY <4>2 DEF at
    <3>5. /\ listing' \in ListingRecord /\ listing'.at = "pages" /\ listing'.of = s
          /\ listing'.known = known /\ listing'.upto = Beyond(s, end + 1)
      BY <3>1, <3>2, <3>10 DEF ListingRecord
    <3>6. client = "on"
      BY <1>2, <1>7 DEF ReadPage, ClientPart
    <3>8. SpendKnown(s)' = SpendKnown(s)
      BY <1>2 DEF SpendKnown
    <3> QED BY <1>2, <1>3, <3>3, <3>4, <3>5, <3>6, <3>8, <3>10
            DEF ClientPart, KnownSpendsAreDropped, SpendIsAhead, CellsAtStart, at
  <2> QED BY <2>1, <2>2
<1>8. ASSUME LastPage(s)
      PROVE  ClientPart'
  <2>1. ~listing.known
    <3>1. listing.known => SpendKnown(s) /\ listing.upto <= at
      BY <1>2, <1>8 DEF LastPage, Shown, ClientPart, SpendIsAhead, at
    <3>2. SpendKnown(s) => at < listing.upto
      BY <1>8 DEF LastPage, at
    <3> QED BY <1>5, <3>1, <3>2
  <2>2. listing' = [NoListing EXCEPT !.known = listing.known]
    BY <1>8 DEF LastPage, Shown
  <2>3. listing' \in ListingRecord /\ listing'.at = "ended" /\ ~listing'.known
    BY <1>4, <2>1, <2>2 DEF NoListing, ListingRecord
  <2> QED BY <1>3, <2>3 DEF ClientPart, KnownSpendsAreDropped, SpendIsAhead, CellsAtStart
<1> QED BY <1>1, <1>6, <1>7, <1>8 DEF LcInvariant

\* A rescan begins: what the rescans promise to keep is in its list too.
LEMMA RescanBeginsStep ==
  ASSUME LcInvariant, NEW r \in Rescanners, NEW s \in Scripts, NEW from \in Blocks,
         RescanBegins(r, s, from)
  PROVE  LcInvariant'
<1>0. ScanPart /\ ClientPart /\ FilterPart
  BY DEF LcInvariant
<1>1. FilterPart' /\ ClientPart'
  BY <1>0, FilterPartUnchanged, ListingStays DEF RescanBegins, ClientPart
<1> DEFINE begun == [at |-> "listed", from |-> from, list |-> RescanScriptStatuses(Watched, s)]
<1>2. Watched \subseteq Scripts /\ Watched' = Watched
  BY DEF Watched, RescanBegins
<1>3. begun \in ScanRecord /\ begun.at = "listed" /\ begun.list = Watched \cup {s}
  BY <1>2 DEF ScanRecord, RescanScriptStatuses
<1>5. scan' = [scan EXCEPT ![r] = begun] /\ scan[r].at = "idle"
  BY DEF RescanBegins
<1> HIDE DEF begun
<1>6. scan' \in [Rescanners -> ScanRecord] /\ scan'[r] = begun /\ \A q \in Rescanners \ {r} : scan'[q] = scan[q]
  BY <1>0, <1>3, <1>5 DEF ScanPart
<1>7. InGap' = InGap /\ Open' = Open \cup {r}
  BY <1>3, <1>5, <1>6 DEF InGap, Open
<1>8. /\ kept' \subseteq Scripts /\ (InGap = {} \/ Open = {} => kept' \subseteq Watched)
      /\ (Open # {} => kept' \subseteq kept) /\ kept' \subseteq Watched
  BY <1>0, <1>2 DEF RescanBegins, ScanPart, WatchesSurvive
<1>9. \A q \in Open' : kept' \subseteq scan'[q].list
  <2>1. Open \subseteq Rescanners /\ r \notin Open
    BY <1>5 DEF Open
  <2>2. kept' \subseteq scan'[r].list
    BY <1>3, <1>6, <1>8
  <2>3. ASSUME NEW q \in Open PROVE kept' \subseteq scan'[q].list
    <3>1. kept' \subseteq kept /\ kept \subseteq scan[q].list
      BY <1>0, <1>8, <2>3 DEF ScanPart
    <3>2. scan'[q] = scan[q]
      BY <1>6, <2>1, <2>3
    <3> QED BY <3>1, <3>2
  <2> QED BY <1>7, <2>2, <2>3
<1>10. ScanPart'
  BY <1>2, <1>6, <1>8, <1>9 DEF ScanPart, WatchesSurvive
<1> QED BY <1>1, <1>10 DEF LcInvariant

LEMMA StageType ==
  ASSUME NEW c \in ScanRecord, NEW at \in {"idle", "listed", "stopped", "deleted", "started"}
  PROVE  [c EXCEPT !.at = at] \in ScanRecord /\ [c EXCEPT !.at = at].at = at
         /\ [c EXCEPT !.at = at].list = c.list
  BY DEF ScanRecord

LEMMA RescanStopsStep ==
  ASSUME LcInvariant, NEW r \in Rescanners,
         RescanStops(r) \/ RescanDeletes(r)
  PROVE  ScanPart'
<1>1. ScanPart /\ scan[r] \in ScanRecord
  BY DEF LcInvariant, ScanPart
<1>2. PICK at \in {"stopped", "deleted"} :
         scan' = [scan EXCEPT ![r] = [scan[r] EXCEPT !.at = at]] /\ (at # "deleted" => UNCHANGED cursor)
  BY <1>1 DEF RescanStops, RescanDeletes, ScanPart
<1>3. scan[r].at \in {"listed", "stopped"} /\ r \notin InGap /\ kept' = kept
  BY DEF RescanStops, RescanDeletes, InGap
<1> DEFINE c == [scan[r] EXCEPT !.at = at]
<1>4. c \in ScanRecord /\ c.at = at /\ c.list = scan[r].list
  BY <1>1 DEF ScanRecord
<1>5. scan' = [scan EXCEPT ![r] = c]
  BY <1>2
<1> HIDE DEF c
<1> QED BY <1>1, <1>2, <1>3, <1>4, <1>5, RescanMoves

LEMMA RescanClears ==
  ASSUME LcInvariant, NEW r \in Rescanners, RescanStops(r) \/ RescanDeletes(r)
  PROVE  LcInvariant'
<1>1. ScanPart'
  BY RescanStopsStep
<1>2. ASSUME RescanStops(r) PROVE FilterPart'
  BY <1>2, FilterPartUnchanged DEF RescanStops, LcInvariant
<1>3. ASSUME RescanDeletes(r) PROVE FilterPart'
  BY <1>3, BlocksAreNat DEF RescanDeletes, LcInvariant, FilterPart, NoGaps, Watched
<1>4. ASSUME RescanStops(r) PROVE ClientPart'
  BY <1>4, ListingEnds DEF RescanStops, LcInvariant, ClientPart, Stopped
<1>5. ASSUME RescanDeletes(r) PROVE ClientPart'
  <2>1. listing' = listing /\ listing.at = "ended" /\ client' = client /\ booted' = booted
    BY <1>5 DEF RescanDeletes, LcInvariant, ClientPart, ListingRecord
  <2> QED BY <2>1 DEF LcInvariant, ClientPart, KnownSpendsAreDropped, SpendIsAhead, CellsAtStart
<1> QED BY <1>1, <1>2, <1>3, <1>4, <1>5 DEF LcInvariant

LEMMA RescanFailsStep ==
  ASSUME LcInvariant, NEW r \in Rescanners, RescanFails(r)
  PROVE  LcInvariant'
<1>1. ScanPart'
  BY NoScanType DEF RescanFails, LcInvariant, ScanPart, WatchesSurvive
<1>2. FilterPart' /\ ClientPart'
  BY FilterPartUnchanged, ListingStays DEF RescanFails, LcInvariant, ClientPart
<1> QED BY <1>1, <1>2 DEF LcInvariant

LEMMA RescanDeleteFailsStep ==
  ASSUME LcInvariant, NEW r \in Rescanners, RescanDeleteFails(r)
  PROVE  LcInvariant'
<1>0. ScanPart /\ kept' = kept /\ UNCHANGED cursor
  BY DEF RescanDeleteFails, LcInvariant
<1>1. ScanPart'
  <2>1. scan' = [scan EXCEPT ![r] = NoScan] /\ r \notin InGap
    BY DEF RescanDeleteFails, InGap
  <2> QED BY <1>0, <2>1, NoScanType, RescanMoves
<1>2. FilterPart'
  BY FilterPartUnchanged DEF RescanDeleteFails, LcInvariant
<1>3. ClientPart'
  BY ListingStays DEF RescanDeleteFails, Started, LcInvariant, ClientPart
<1> QED BY <1>1, <1>2, <1>3 DEF LcInvariant

LEMMA RescanStartsStep ==
  ASSUME LcInvariant, NEW r \in Rescanners, RescanStarts(r)
  PROVE  LcInvariant'
<1>0. ScanPart /\ scan[r] \in ScanRecord /\ kept' = kept /\ UNCHANGED cursor
  BY DEF RescanStarts, LcInvariant, ScanPart
<1>1. ScanPart'
  <2> DEFINE c == [scan[r] EXCEPT !.at = "started"]
  <2>1. c \in ScanRecord /\ c.at = "started" /\ c.list = scan[r].list
    BY <1>0, StageType
  <2>2. scan' = [scan EXCEPT ![r] = c] /\ scan[r].at = "deleted"
    BY <1>0 DEF RescanStarts, ScanPart
  <2> HIDE DEF c
  <2> QED BY <1>0, <2>1, <2>2, RescanMoves
<1>2. FilterPart'
  BY FilterPartUnchanged DEF RescanStarts, LcInvariant
<1>3. ClientPart'
  BY ListingStays DEF RescanStarts, Started, LcInvariant, ClientPart
<1> QED BY <1>1, <1>2, <1>3 DEF LcInvariant

\* Every restored cursor stands at the block the operator gave.
LEMMA RescanRestoresStep ==
  ASSUME LcInvariant, NEW r \in Rescanners, RescanRestores(r)
  PROVE  LcInvariant'
<1>0. ScanPart /\ FilterPart /\ ClientPart
  BY DEF LcInvariant
<1>2. scan[r].from \in Blocks /\ scan[r].from \in Nat /\ scan[r].list \subseteq Scripts
  BY <1>0, BlocksAreNat DEF ScanPart, ScanRecord
<1>1. ScanPart'
  <2>1. Watched' = scan[r].list
    BY <1>2, LightClientAssumption DEF RescanRestores, RestoredFrom, Watched
  <2>2. r \in Open /\ kept \subseteq scan[r].list
    BY <1>0 DEF RescanRestores, ScanPart, Open
  <2>3. /\ scan' \in [Rescanners -> ScanRecord] /\ Open' = Open \ {r}
        /\ \A q \in Rescanners \ {r} : scan'[q] = scan[q]
    BY <1>0, NoScanType DEF RescanRestores, ScanPart, Open
  <2>4. kept' \subseteq scan[r].list /\ (Open # {r} => kept' = kept)
    BY <2>2 DEF RescanRestores
  <2>5. \A q \in Open' : kept' \subseteq scan'[q].list
    BY <1>0, <2>2, <2>3, <2>4 DEF ScanPart, Open
  <2> QED BY <1>2, <2>1, <2>3, <2>4, <2>5 DEF ScanPart, WatchesSurvive
<1>3. (scan[r].from .. (scan[r].from - 1)) = {}
  BY <1>2
<1>4. NoGaps'
  BY <1>2, <1>3 DEF RescanRestores, RestoredFrom, NoGaps, Watched
<1>5. FilterPart'
  BY <1>2, <1>4, BlocksAreNat DEF RescanRestores, RestoredFrom, LcInvariant, FilterPart
<1>6. ClientPart'
  BY <1>0, ListingStays DEF RescanRestores, ClientPart
<1> QED BY <1>1, <1>5, <1>6 DEF LcInvariant

LEMMA LcStepInvariant ==
  ASSUME LcInvariant, [LcNext]_lcVars
  PROVE  LcInvariant'
<1>1. CASE UNCHANGED lcVars
  <2>1. ScanPart' /\ FilterPart' /\ ClientPart'
    BY <1>1, FilterPartUnchanged, ListingStays, ScanPartUnchanged DEF lcVars, LcInvariant, ClientPart, Watched
  <2> QED BY <2>1 DEF LcInvariant
<1>2. ASSUME NEW s \in Scripts, ReadCells(s) \/ LastPage(s)
      PROVE  LcInvariant'
  BY <1>2, BlocksAreNat, ListingSteps
<1> QED BY <1>1, <1>2, BootStep, StartSettlesStep, KillStep, MineStep, FilterStep, WatchStep, ListingSteps,
           RescanBeginsStep, RescanClears, RescanDeleteFailsStep, RescanFailsStep, RescanStartsStep,
           RescanRestoresStep DEF LcNext

LEMMA LcAlwaysInvariant == LcSpec => []LcInvariant
<1>1. LcInit => LcInvariant
  BY LcInitInvariant
<1>2. LcInvariant /\ [LcNext]_lcVars => LcInvariant'
  BY LcStepInvariant
<1> QED BY <1>1, <1>2, PTL DEF LcSpec

\* No rescan, restart, failed start or kill of the window lets a balance miss
\* a block between the one a watch asked for and its cursor.
THEOREM NoBlockSkipped == LcSpec => []NoGaps
<1>1. LcInvariant => NoGaps
  BY DEF LcInvariant, FilterPart
<1> QED BY <1>1, LcAlwaysInvariant, PTL

\* A listing never shows a cell whose spend the database knew when the listing
\* began to read the transactions, wherever its pages end, for any blocks
\* filtered, watches restored and cursors set back while they are read.
THEOREM ListingsDropKnownSpends == LcSpec => []KnownSpendsAreDropped
<1>1. LcInvariant => KnownSpendsAreDropped
  BY DEF LcInvariant, ClientPart
<1> QED BY <1>1, LcAlwaysInvariant, PTL

\* What rescans have listed or restored stays watched, however many of them
\* overlap, fail to delete or are cut off before they delete.
THEOREM RescanKeepsWatches == LcSpec => []WatchesSurvive
<1>1. LcInvariant => WatchesSurvive
  BY DEF LcInvariant, ScanPart
<1> QED BY <1>1, LcAlwaysInvariant, PTL

-----------------------------------------------------------------------------
(***************************************************************************)
(* ComplianceExport.  The digest of a record is the one some version that  *)
(* knew its chain took of what the client sent; a posted record has an     *)
(* entry.                                                                  *)
(***************************************************************************)
SentBody == [f \in {"body", "tx_hash"} |-> "sent"]
SentEvidence(b) == [f \in Fields(ChainOf[b]) |-> "sent"]

OfItsDay(b, d) ==
  \E v \in 0 .. Latest : /\ Since[ChainOf[b]] <= v
                         /\ d = Digest(v, ChainOf[b], SentBody, SentEvidence(b))

ColumnsOK(b, c) == c \in [Columns(ChainOf[b]) -> Value]

\* No column that the digest of a payment covers has been edited.
AsSent(b) == \A f \in Covered(ChainOf[b]) : cols[b][f] = "sent"

BooksInvariant ==
  /\ version \in 0 .. Latest
  /\ rows \subseteq Batch /\ posted \subseteq rows /\ calls \subseteq rows
  /\ DOMAIN cols = Batch /\ DOMAIN digest = Batch
  /\ \A b \in Batch : ColumnsOK(b, cols[b])
  /\ journal \in [Batch -> Entry]
  /\ \A b \in rows : OfItsDay(b, digest[b])
  /\ \A b \in posted : journal[b] # NoEntry

LEMMA BooksInvariantTypes == BooksInvariant => BooksTypeOK
  BY DEF BooksInvariant, BooksTypeOK, ColumnsOK

\* The columns of any chain: those its digest covers, and those of every document.
LEMMA ColumnsOfAll ==
  ASSUME NEW chain
  PROVE  /\ Covered(chain) \subseteq Columns(chain)
         /\ {"body", "tx_hash"} \subseteq Covered(chain)
         /\ "safe_tx_hash" \in Columns(chain)
         /\ \A f \in Fields(chain) : f # "outer_tx_hash" => f \in Covered(chain)
  BY DEF Columns, Covered

LEMMA BooksInitInvariant ==
  ASSUME BooksInit
  PROVE  BooksInvariant
<1>1. \A b \in Batch : ColumnsOK(b, Stored(b))
  BY DEF ColumnsOK, Stored, Value
<1>2. NoEntry \in Entry
  BY DEF NoEntry, Entry, Value
<1> QED BY <1>1, <1>2 DEF BooksInit, BooksInvariant, Latest

LEMMA PersistStep ==
  ASSUME BooksInvariant, NEW b \in Batch, Persist(b)
  PROVE  BooksInvariant'
<1>1. OfItsDay(b, RecordDigest(b))
  BY DEF Persist, BooksInvariant, OfItsDay, RecordDigest, SentBody, SentEvidence
<1>2. digest' = [digest EXCEPT ![b] = RecordDigest(b)]
  BY DEF Persist
<1>3. \A q \in rows' : OfItsDay(q, digest'[q])
  BY <1>1, <1>2 DEF BooksInvariant, Persist
<1> QED BY <1>2, <1>3 DEF BooksInvariant, Persist

LEMMA PostJournalStep ==
  ASSUME BooksInvariant, NEW b \in Batch, PostJournal(b)
  PROVE  BooksInvariant'
<1>1. b \in rows /\ calls' \subseteq rows
  BY DEF BooksInvariant, PostJournal
<1>2. CASE journal[b] = NoEntry
  <2> DEFINE entry == [state |-> "submitted", tx |-> cols[b]["tx_hash"], safe |-> cols[b]["safe_tx_hash"]]
  <2>1. cols[b]["tx_hash"] \in Value /\ cols[b]["safe_tx_hash"] \in Value
    <3>1. ColumnsOK(b, cols[b])
      BY DEF BooksInvariant
    <3> QED BY <3>1, ColumnsOfAll DEF ColumnsOK
  <2>2. entry \in Entry /\ entry # NoEntry
    BY <2>1 DEF Entry, NoEntry
  <2>3. journal' = [journal EXCEPT ![b] = entry] /\ posted' = posted \union {b}
    BY <1>2 DEF PostJournal
  <2> HIDE DEF entry
  <2> QED BY <1>1, <2>2, <2>3 DEF BooksInvariant, PostJournal
<1>3. CASE journal[b] # NoEntry
  <2>1. journal' = journal /\ posted' \subseteq posted \union {b}
    BY <1>3 DEF PostJournal
  <2> QED BY <1>1, <1>3, <2>1 DEF BooksInvariant, PostJournal
<1> QED BY <1>2, <1>3

LEMMA EditStep ==
  ASSUME BooksInvariant, NEW b \in Batch, NEW f \in Columns(ChainOf[b]),
         NEW value \in {"edited", "other", "garbled"}, Edit(b, f, value)
  PROVE  BooksInvariant'
<1>1. cols' = [cols EXCEPT ![b] = [cols[b] EXCEPT ![f] = value]]
  BY DEF Edit
<1>2. ColumnsOK(b, [cols[b] EXCEPT ![f] = value])
  BY DEF BooksInvariant, ColumnsOK, Value
<1> QED BY <1>1, <1>2 DEF BooksInvariant, Edit

\* An entry that is rebound or cancelled stays an entry.
LEMMA EntryStep ==
  ASSUME BooksInvariant, NEW b \in Batch, NEW entry \in Entry, entry.state # "none",
         journal[b].state = "submitted", journal' = [journal EXCEPT ![b] = entry],
         UNCHANGED <<version, rows, cols, digest, posted, calls>>
  PROVE  BooksInvariant'
<1>1. entry # NoEntry /\ journal[b] # NoEntry
  BY DEF NoEntry
<1> QED BY <1>1 DEF BooksInvariant

LEMMA JournalSteps ==
  ASSUME BooksInvariant, NEW b \in Batch,
         \/ CancelJournal(b)
         \/ \E f \in {"tx", "safe"} : \E value \in {"edited", "other"} : RebindJournal(b, f, value)
  PROVE  BooksInvariant'
<1>1. journal[b] \in Entry /\ journal \in [Batch -> Entry]
  BY DEF BooksInvariant
<1>2. CASE CancelJournal(b)
  <2> DEFINE entry == [journal[b] EXCEPT !.state = "cancelled"]
  <2>1. entry \in Entry /\ entry.state # "none"
    BY <1>1 DEF Entry
  <2>2. journal' = [journal EXCEPT ![b] = entry]
    BY <1>2 DEF CancelJournal
  <2> HIDE DEF entry
  <2> QED BY <1>2, <2>1, <2>2, EntryStep DEF CancelJournal
<1>3. ASSUME NEW f \in {"tx", "safe"}, NEW value \in {"edited", "other"}, RebindJournal(b, f, value)
      PROVE  BooksInvariant'
  <2> DEFINE entry == [journal[b] EXCEPT ![f] = value]
  <2>1. entry \in Entry /\ entry.state # "none"
    <3>1. journal[b].state = "submitted" /\ value \in Value
      BY <1>3 DEF RebindJournal, Value
    <3>2. CASE f = "tx"
      BY <1>1, <3>1, <3>2 DEF Entry
    <3>3. CASE f = "safe"
      BY <1>1, <3>1, <3>3 DEF Entry
    <3> QED BY <1>3, <3>2, <3>3
  <2>2. journal' = [journal EXCEPT ![b] = entry]
    BY <1>3 DEF RebindJournal
  <2> HIDE DEF entry
  <2> QED BY <1>3, <2>1, <2>2, EntryStep DEF RebindJournal
<1> QED BY <1>2, <1>3

LEMMA BooksStepInvariant ==
  ASSUME BooksInvariant, [BooksNext]_bookvars
  PROVE  BooksInvariant'
<1>1. ASSUME NEW b \in Batch, Replay(b) \/ CallDies(b) \/ ClearPosted(b)
      PROVE  BooksInvariant'
  BY <1>1 DEF BooksInvariant, Replay, CallDies, ClearPosted
<1>2. CASE Upgrade
  BY <1>2 DEF BooksInvariant, Upgrade, Latest
<1>3. CASE UNCHANGED bookvars
  BY <1>3 DEF BooksInvariant, bookvars
<1> QED BY <1>1, <1>2, <1>3, PersistStep, PostJournalStep, EditStep, JournalSteps DEF BooksNext

LEMMA BooksAlwaysInvariant == BooksSpec => []BooksInvariant
<1>1. BooksInit => BooksInvariant
  BY BooksInitInvariant
<1>2. BooksInvariant /\ [BooksNext]_bookvars => BooksInvariant'
  BY BooksStepInvariant
<1> QED BY <1>1, <1>2, PTL DEF BooksSpec

\* Two digests agree only on the same body and, for a chain with evidence that
\* one of the two versions knew, on the same evidence.
LEMMA DigestInjective ==
  ASSUME NEW v \in 0 .. Latest, NEW w \in 0 .. Latest, NEW c \in Chains, Since[c] <= v,
         NEW x, NEW y, NEW p, NEW q, Digest(v, c, x, p) = Digest(w, c, y, q)
  PROVE  x = y /\ (c # "ckb" => p = q)
<1>1. "body" \in Keys(v) /\ "body" \in Keys(w) /\ Keys(v) = Keys(w)
  BY DEF Digest, Keys
<1>2. Digest(v, c, x, p)["body"] = x /\ Digest(w, c, y, q)["body"] = y
  BY <1>1 DEF Digest
<1>3. ASSUME c # "ckb" PROVE p = q
  <2>1. EvidenceKey[c] \in Keys(v) /\ EvidenceKey[c] # "body"
    BY <1>3 DEF Keys, EvidenceKey, Chains
  <2>2. Digest(v, c, x, p)[EvidenceKey[c]] = p /\ Digest(w, c, y, q)[EvidenceKey[c]] = q
    BY <1>1, <2>1 DEF Digest
  <2> QED BY <2>2
<1> QED BY <1>2, <1>3

\* What the export rebuilds of covered columns nobody edited is what was sent.
LEMMA RebuiltAsSent ==
  ASSUME NEW b \in Batch, AsSent(b)
  PROVE  Body(cols[b]) = SentBody /\ RebuildEvidence(b) = SentEvidence(b)
<1>1. Body(cols[b]) = SentBody
  BY ColumnsOfAll DEF AsSent, Body, SentBody
<1>2. RebuildEvidence(b) = SentEvidence(b)
  BY ColumnsOfAll DEF AsSent, RebuildEvidence, SentEvidence
<1> QED BY <1>1, <1>2

\* And only then.
LEMMA SentAsRebuilt ==
  ASSUME NEW b \in Batch, Body(cols[b]) = SentBody,
         ChainOf[b] # "ckb" => RebuildEvidence(b) = SentEvidence(b)
  PROVE  AsSent(b)
<1>1. cols[b]["body"] = "sent" /\ cols[b]["tx_hash"] = "sent"
  BY DEF Body, SentBody
<1>2. ASSUME NEW f \in Fields(ChainOf[b]) \ {"outer_tx_hash"} PROVE cols[b][f] = "sent"
  <2>1. ChainOf[b] # "ckb"
    BY <1>2 DEF Fields
  <2>2. RebuildEvidence(b)[f] = "sent"
    BY <2>1 DEF SentEvidence
  <2> QED BY <2>2 DEF RebuildEvidence
<1> QED BY <1>1, <1>2 DEF AsSent, Covered

\* Some shape of today matches a digest exactly when the covered columns are as sent.
LEMMA DigestVouches ==
  ASSUME BooksInvariant, NEW b \in rows
  PROVE  digest[b] \in SourceDigests(b) <=> AsSent(b)
<1>1. b \in Batch /\ ChainOf[b] \in Chains
  BY ChainAssumption DEF BooksInvariant
<1>2. PICK v \in 0 .. Latest : /\ Since[ChainOf[b]] <= v
                               /\ digest[b] = Digest(v, ChainOf[b], SentBody, SentEvidence(b))
  BY DEF BooksInvariant, OfItsDay
<1>3. ASSUME AsSent(b) PROVE digest[b] \in SourceDigests(b)
  <2>1. v \in Shapes(b)
    BY <1>1, <1>2 DEF Shapes, Since, Chains, Latest
  <2> QED BY <1>1, <1>2, <1>3, <2>1, RebuiltAsSent DEF SourceDigests
<1>4. ASSUME digest[b] \in SourceDigests(b) PROVE AsSent(b)
  <2>1. PICK w \in Shapes(b) : digest[b] = Digest(w, ChainOf[b], Body(cols[b]), RebuildEvidence(b))
    BY <1>4 DEF SourceDigests
  <2>2. w \in 0 .. Latest
    BY DEF Shapes, Latest
  <2> DEFINE c == ChainOf[b]
  <2>3. ASSUME NEW x, NEW y, NEW p, NEW q, Digest(v, c, x, p) = Digest(w, c, y, q)
        PROVE  x = y /\ (c # "ckb" => p = q)
    BY <1>1, <1>2, <2>2, <2>3, DigestInjective
  <2>4. Digest(v, c, SentBody, SentEvidence(b)) = Digest(w, c, Body(cols[b]), RebuildEvidence(b))
    BY <1>2, <2>1
  <2>5. SentBody = Body(cols[b]) /\ (c # "ckb" => SentEvidence(b) = RebuildEvidence(b))
    BY <2>3, <2>4
  <2> QED BY <1>1, <2>5, SentAsRebuilt
<1> QED BY <1>3, <1>4

\* The digest vouches for a record of any age: the export accepts the columns
\* exactly while nobody has edited one that persist filled, whatever version
\* wrote the record and whatever the other columns hold.
THEOREM DigestsVouchForRecords == BooksSpec => []DigestsVouch
<1>1. BooksInvariant => DigestsVouch
  BY DigestVouches DEF DigestsVouch, AsSent
<1> QED BY <1>1, BooksAlwaysInvariant, PTL

\* What a row of a record with untouched covered columns shows.
LEMMA RowAsStored ==
  ASSUME NEW b \in Batch, AsSent(b)
  PROVE  /\ \A f \in DOMAIN Row(b).shown \ Unvouched(ChainOf[b]) : Row(b).shown[f] = Stored(b)[f]
         /\ ChainOf[b] = "btc" => Row(b).confirmed_block = "sent"
<1>1. \A f \in Covered(ChainOf[b]) : f \in Columns(ChainOf[b]) /\ Stored(b)[f] = "sent"
  BY ColumnsOfAll DEF Stored
<1>2. ASSUME NEW f \in (Columns(ChainOf[b]) \ Heights) \ Unvouched(ChainOf[b])
      PROVE  f \in Covered(ChainOf[b])
  BY <1>2 DEF Columns, Covered, Fields, Unvouched
<1>3. Row(b).shown = [f \in Columns(ChainOf[b]) \ Heights |-> cols[b][f]]
  BY DEF Row
<1>4. ASSUME ChainOf[b] = "btc" PROVE Row(b).confirmed_block = "sent"
  <2>1. "btc_height" \in Covered(ChainOf[b])
    BY <1>4 DEF Covered, Fields
  <2> QED BY <2>1 DEF AsSent, Row, ConfirmedBlock
<1> QED BY <1>1, <1>2, <1>3, <1>4 DEF AsSent

\* A report that is handed out is the books of its filter: every posted payment
\* that belongs into it and no other, unless its document was edited so that no
\* filter selects it, each with a submitted entry that carries its own identity,
\* each as it was written but for the columns nothing vouches for.
THEOREM ReportsAreTheBooks == BooksSpec => []ReportIsTheBooks
<1>1. ASSUME BooksInvariant, NEW filter \in Filters, NEW report,
             report = ExportPayload(filter), report # NoReport
      PROVE  /\ {row.of : row \in report} = {b \in posted : cols[b]["body"] # "other" /\ Belongs(b, filter)}
             /\ \A row \in report :
                  /\ journal[row.of].state = "submitted" /\ journal[row.of].tx = "sent"
                  /\ \A f \in DOMAIN row.shown \ Unvouched(ChainOf[row.of]) :
                       row.shown[f] = Stored(row.of)[f]
                  /\ ChainOf[row.of] = "btc" => row.confirmed_block = "sent"
  <2>1. report = {Row(b) : b \in Source(filter)} /\ \A b \in Source(filter) : ValidSource(b)
    BY <1>1 DEF ExportPayload
  <2>2. \A b \in Source(filter) : Row(b).of = b
    BY DEF Row
  <2>3. ASSUME NEW b \in Source(filter)
        PROVE  /\ b \in Batch /\ AsSent(b) /\ cols[b]["body"] = "sent" /\ cols[b]["tx_hash"] = "sent"
               /\ journal[b].state = "submitted" /\ journal[b].tx = cols[b]["tx_hash"]
    <3>1. b \in rows /\ b \in Batch
      BY <1>1 DEF Source, BooksInvariant
    <3>2. AsSent(b) /\ journal[b].state = "submitted" /\ journal[b].tx = cols[b]["tx_hash"]
      BY <1>1, <2>1, <3>1, DigestVouches DEF ValidSource
    <3>3. cols[b]["body"] = "sent" /\ cols[b]["tx_hash"] = "sent"
      BY <3>2, ColumnsOfAll DEF AsSent
    <3> QED BY <3>1, <3>2, <3>3
  <2>4. Source(filter) = {b \in posted : cols[b]["body"] # "other" /\ Belongs(b, filter)}
    BY <2>3 DEF Source, Matches
  <2>5. ASSUME NEW b \in Source(filter)
        PROVE  /\ journal[b].state = "submitted" /\ journal[b].tx = "sent"
               /\ \A f \in DOMAIN Row(b).shown \ Unvouched(ChainOf[b]) : Row(b).shown[f] = Stored(b)[f]
               /\ ChainOf[b] = "btc" => Row(b).confirmed_block = "sent"
    BY <2>3, RowAsStored
  <2> QED BY <2>1, <2>2, <2>4, <2>5
<1>2. BooksInvariant => ReportIsTheBooks
  BY <1>1 DEF ReportIsTheBooks
<1> QED BY <1>2, BooksAlwaysInvariant, PTL
-----------------------------------------------------------------------------
(***************************************************************************)
(* CommSetup.  Any number of generate and publish calls overlap on the two *)
(* files, and the operator deletes between them.                           *)
(***************************************************************************)
SetupCall == [at : {"idle", "load", "access", "write", "rename", "reply"},
              id : Identity \union {Nobody}]
PublishCall == [at : {"idle", "build", "mark", "store", "swap", "broadcast", "record"},
                id : Identity \union {Nobody}, copy : Identity \union {Nobody}, mounted : BOOLEAN]

\* A call that has its keys has somebody's; what is marked, broadcast or recorded
\* is the profile of some identity.
SoundCall == {g \in SetupCall : g.at \in {"access", "write", "rename", "reply"} => g.id \in Identity}
SoundPublish == {q \in PublishCall : q.at \in {"mark", "broadcast", "record", "store", "swap"}
                                     => q.id \in Identity}

KeyTypes ==
  /\ keygens \in 0..MaxIdentities
  /\ {keyFile, keyTmp, identity} \subseteq Identity \union {Nobody}
  /\ generating \in [1..Clicks -> SoundCall]
  /\ deleting \in {"idle", "rm", "clear"}
  /\ gone \subseteq Identity /\ crossed \subseteq Identity

PublishTypes ==
  /\ profile \in Identity \union {Nobody}
  /\ section \in {"away", "setup", "publishing", "failed"}
  /\ publishing \in [1..Publishes -> SoundPublish]
  /\ funded \union cells \subseteq Identity

SetupTypes == KeyTypes /\ PublishTypes

LEMMA SetupTypesOK == SetupTypes => SetupTypeOK
  BY DEF SetupTypes, KeyTypes, PublishTypes, SetupTypeOK, SetupCall, SoundCall, SoundPublish, PublishCall

LEMMA CallTypes ==
  /\ NoCall \in SoundCall /\ NoCall.at = "idle"
  /\ NoPublish \in SoundPublish /\ NoPublish.at = "idle"
  /\ Nobody \notin Identity
  BY DEF NoCall, NoPublish, SetupCall, SoundCall, PublishCall, SoundPublish, Identity, Nobody

\* Giving a generate call the next stage of its write.
LEMMA CallMoves ==
  ASSUME NEW c \in 1..Clicks, generating \in [1..Clicks -> SoundCall],
         generating[c].at \in {"access", "write", "rename"},
         NEW at \in {"write", "rename", "reply"}
  PROVE  /\ [generating EXCEPT ![c].at = at] \in [1..Clicks -> SoundCall]
         /\ [generating EXCEPT ![c].at = at][c].at = at
         /\ [generating EXCEPT ![c].at = at][c].id = generating[c].id
         /\ \A d \in 1..Clicks : d # c => [generating EXCEPT ![c].at = at][d] = generating[d]
<1> DEFINE g == [generating[c] EXCEPT !.at = at]
<1>1. generating[c] \in SoundCall
  OBVIOUS
<1>2. g \in SoundCall /\ g.at = at /\ g.id = generating[c].id
  BY <1>1 DEF SoundCall, SetupCall
<1>3. [generating EXCEPT ![c].at = at] = [generating EXCEPT ![c] = g]
  OBVIOUS
<1> HIDE DEF g
<1> QED BY <1>2, <1>3

LEMMA GenerateTypes ==
  ASSUME SetupTypes, NEW c \in 1..Clicks,
         ClickSetup(c) \/ Keygen(c) \/ SaveStep(c) \/ ShowIdentity(c)
  PROVE  SetupTypes'
<1>0. generating \in [1..Clicks -> SoundCall] /\ generating[c] \in SoundCall
  BY DEF SetupTypes, KeyTypes
<1>1. ASSUME ClickSetup(c) PROVE SetupTypes'
  <2>1. [generating[c] EXCEPT !.at = "load"] \in SoundCall
    BY <1>0 DEF SoundCall, SetupCall
  <2>2. generating' \in [1..Clicks -> SoundCall]
    BY <1>0, <1>1, <2>1 DEF ClickSetup
  <2> QED BY <1>1, <2>2 DEF ClickSetup, SetupTypes, KeyTypes, PublishTypes
<1>2. ASSUME Keygen(c) PROVE SetupTypes'
  <2>1. CASE keyFile # Nobody \/ keygens = MaxIdentities
    BY <1>2, <2>1, CallTypes DEF Keygen, SetupTypes, KeyTypes, PublishTypes
  <2>2. CASE ~(keyFile # Nobody \/ keygens = MaxIdentities)
    <3>1. keygens + 1 \in 0..MaxIdentities /\ keygens + 1 \in Identity
      BY <2>2, SetupBoundsAssumption DEF SetupTypes, KeyTypes, Identity
    <3>2. [at |-> "access", id |-> keygens + 1] \in SoundCall
      BY <3>1 DEF SetupCall, SoundCall
    <3> QED BY <1>2, <2>2, <3>1, <3>2 DEF Keygen, SetupTypes, KeyTypes, PublishTypes
  <2> QED BY <2>1, <2>2
<1>3. ASSUME SaveStep(c) PROVE SetupTypes'
  <2>1. generating[c].at \in {"access", "write", "rename"} /\ generating[c].id \in Identity
    BY <1>0, <1>3 DEF SaveStep, SoundCall
  <2>2. \/ generating' = [generating EXCEPT ![c] = NoCall]
        \/ \E at \in {"write", "rename", "reply"} : generating' = [generating EXCEPT ![c].at = at]
    BY <1>3 DEF SaveStep
  <2>3. generating' \in [1..Clicks -> SoundCall]
    <3>1. ASSUME NEW at \in {"write", "rename", "reply"}, generating' = [generating EXCEPT ![c].at = at]
          PROVE  generating' \in [1..Clicks -> SoundCall]
      BY <1>0, <2>1, <3>1, CallMoves
    <3> QED BY <1>0, <2>2, <3>1, CallTypes
  <2>4. {keyFile', keyTmp'} \subseteq Identity \union {Nobody}
    BY <1>3, <2>1 DEF SaveStep, SetupTypes, KeyTypes
  <2>5. \A d \in Saving : generating[d].id \in Identity
    BY <1>0 DEF Saving, SoundCall
  <2>6. crossed' \subseteq Identity
    BY <1>3, <2>1, <2>5 DEF SaveStep, SetupTypes, KeyTypes
  <2> QED BY <1>3, <2>3, <2>4, <2>6 DEF SaveStep, SetupTypes, KeyTypes, PublishTypes
<1>4. ASSUME ShowIdentity(c) PROVE SetupTypes'
  <2>1. generating[c].id \in Identity \union {Nobody}
    BY <1>0 DEF SoundCall, SetupCall
  <2> QED BY <1>4, <2>1, CallTypes DEF ShowIdentity, SetupTypes, KeyTypes, PublishTypes
<1> QED BY <1>1, <1>2, <1>3, <1>4

LEMMA PublishTypesStep ==
  ASSUME SetupTypes, NEW p \in 1..Publishes,
         RunPublish(p) \/ BuildProfile(p) \/ MarkStep(p) \/ BroadcastProfile(p) \/ RecordPublished(p)
  PROVE  SetupTypes'
<1>1. publishing \in [1..Publishes -> SoundPublish] /\ publishing[p] \in SoundPublish
      /\ publishing[p].id \in Identity \union {Nobody} /\ publishing[p].copy \in Identity \union {Nobody}
  BY DEF SetupTypes, PublishTypes, SoundPublish, PublishCall
<1>2. KeyTypes'
  <2>1. CASE MarkStep(p)
    <3>1. {keyFile', keyTmp'} \subseteq Identity \union {Nobody}
      BY <1>1, <2>1 DEF MarkStep, SetupTypes, KeyTypes
    <3> QED BY <2>1, <3>1 DEF MarkStep, SetupTypes, KeyTypes
  <2>2. CASE RunPublish(p) \/ BuildProfile(p) \/ BroadcastProfile(p) \/ RecordPublished(p)
    BY <2>2 DEF SetupTypes, KeyTypes, RunPublish, BuildProfile, BroadcastProfile, RecordPublished
  <2> QED BY <2>1, <2>2
<1>3. ASSUME Failed(p)
      PROVE  /\ publishing' \in [1..Publishes -> SoundPublish]
             /\ section' \in {"away", "setup", "publishing", "failed"}
  BY <1>1, <1>3, CallTypes DEF Failed, SetupTypes, PublishTypes
<1>4. ASSUME RunPublish(p) PROVE PublishTypes'
  <2>1. [NoPublish EXCEPT !.at = "build", !.mounted = TRUE] \in SoundPublish
    BY CallTypes DEF PublishCall, SoundPublish
  <2> QED BY <1>4, <2>1 DEF RunPublish, SetupTypes, PublishTypes
<1>5. ASSUME BuildProfile(p) PROVE PublishTypes'
  <2>1. CASE keyFile \in funded
    <3>1. publishing' = [publishing EXCEPT ![p] = [publishing[p] EXCEPT !.at = "mark", !.id = keyFile]]
      BY <1>1, <1>5, <2>1 DEF BuildProfile
    <3>2. [publishing[p] EXCEPT !.at = "mark", !.id = keyFile] \in SoundPublish
      BY <1>1, <2>1 DEF SoundPublish, PublishCall, SetupTypes, PublishTypes
    <3> QED BY <1>1, <1>5, <2>1, <3>1, <3>2 DEF BuildProfile, SetupTypes, PublishTypes
  <2>2. CASE keyFile \notin funded
    BY <1>3, <1>5, <2>2 DEF BuildProfile, SetupTypes, PublishTypes
  <2> QED BY <2>1, <2>2
<1>6. ASSUME publishing[p].at \in {"mark", "store", "swap", "broadcast"},
             NEW at \in {"store", "swap", "broadcast", "record"}, NEW copy \in Identity \union {Nobody}
      PROVE  /\ publishing[p].id \in Identity
             /\ [publishing EXCEPT ![p].at = at] \in [1..Publishes -> SoundPublish]
             /\ [publishing EXCEPT ![p].at = at, ![p].copy = copy] \in [1..Publishes -> SoundPublish]
  <2>1. publishing[p].id \in Identity
    BY <1>1, <1>6 DEF SoundPublish
  <2>2. /\ [publishing[p] EXCEPT !.at = at] \in SoundPublish
        /\ [publishing[p] EXCEPT !.at = at, !.copy = copy] \in SoundPublish
    BY <1>1, <1>6, <2>1 DEF SoundPublish, PublishCall
  <2>3. /\ [publishing EXCEPT ![p].at = at] = [publishing EXCEPT ![p] = [publishing[p] EXCEPT !.at = at]]
        /\ [publishing EXCEPT ![p].at = at, ![p].copy = copy]
           = [publishing EXCEPT ![p] = [publishing[p] EXCEPT !.at = at, !.copy = copy]]
    BY <1>1
  <2> QED BY <1>1, <2>1, <2>2, <2>3
<1>7. ASSUME MarkStep(p) PROVE PublishTypes'
  <2>1. keyFile \in Identity \union {Nobody} /\ Nobody \in Identity \union {Nobody}
    BY DEF SetupTypes, KeyTypes
  <2>2. CASE Failed(p)
    BY <1>3, <1>7, <2>2 DEF MarkStep, SetupTypes, PublishTypes
  <2>3. CASE ~Failed(p)
    <3>1. /\ section' = section
          /\ publishing[p].at \in {"mark", "store", "swap"}
          /\ \/ publishing' = [publishing EXCEPT ![p].at = "store", ![p].copy = keyFile]
             \/ publishing' = [publishing EXCEPT ![p].at = "swap"]
             \/ publishing' = [publishing EXCEPT ![p].at = "broadcast", ![p].copy = Nobody]
      BY <1>7, <2>3 DEF MarkStep
    <3>2. publishing' \in [1..Publishes -> SoundPublish]
      <4>1. CASE publishing' = [publishing EXCEPT ![p].at = "store", ![p].copy = keyFile]
        BY <1>6, <2>1, <3>1, <4>1
      <4>2. CASE publishing' = [publishing EXCEPT ![p].at = "swap"]
        BY <1>6, <2>1, <3>1, <4>2
      <4>3. CASE publishing' = [publishing EXCEPT ![p].at = "broadcast", ![p].copy = Nobody]
        BY <1>6, <2>1, <3>1, <4>3
      <4> QED BY <3>1, <4>1, <4>2, <4>3
    <3> QED BY <1>7, <3>1, <3>2 DEF MarkStep, SetupTypes, PublishTypes
  <2> QED BY <2>2, <2>3
<1>8. ASSUME BroadcastProfile(p) PROVE PublishTypes'
  <2>1. publishing[p].at = "broadcast"
    BY <1>8 DEF BroadcastProfile
  <2>2. Nobody \in Identity \union {Nobody}
    OBVIOUS
  <2>3. publishing[p].id \in Identity /\ [publishing EXCEPT ![p].at = "record"] \in [1..Publishes -> SoundPublish]
    BY <1>6, <2>1, <2>2
  <2> QED BY <1>3, <1>8, <2>3 DEF BroadcastProfile, SetupTypes, PublishTypes
<1>9. ASSUME RecordPublished(p) PROVE PublishTypes'
  BY <1>1, <1>9, CallTypes DEF RecordPublished, SetupTypes, PublishTypes
<1> QED BY <1>2, <1>4, <1>5, <1>7, <1>8, <1>9 DEF SetupTypes

LEMMA SectionTypes ==
  ASSUME SetupTypes,
         ClickDelete \/ RemoveFile \/ ClearIdentity \/ Fund \/ LeaveSettings \/ OpenSettings \/ Restart
  PROVE  SetupTypes'
<1>1. ASSUME ClickDelete \/ RemoveFile \/ ClearIdentity \/ Fund \/ OpenSettings PROVE SetupTypes'
  BY <1>1 DEF ClickDelete, RemoveFile, ClearIdentity, Fund, OpenSettings, SetupTypes, KeyTypes,
              PublishTypes
<1>2. ASSUME LeaveSettings PROVE SetupTypes'
  <2>1. \A p \in 1..Publishes : [publishing[p] EXCEPT !.mounted = FALSE] \in SoundPublish
    BY DEF SetupTypes, PublishTypes, SoundPublish, PublishCall
  <2> QED BY <1>2, <2>1 DEF LeaveSettings, SetupTypes, KeyTypes, PublishTypes
<1>3. ASSUME Restart PROVE SetupTypes'
  BY <1>3, CallTypes DEF Restart, SetupTypes, KeyTypes, PublishTypes
<1> QED BY <1>1, <1>2, <1>3

LEMMA SetupTypesStep ==
  ASSUME SetupTypes, [SetupNext]_setupVars
  PROVE  SetupTypes'
<1>1. CASE UNCHANGED setupVars
  BY <1>1 DEF setupVars, SetupTypes, KeyTypes, PublishTypes
<1> QED BY <1>1, GenerateTypes, PublishTypesStep, SectionTypes DEF SetupNext

LEMMA SetupInitTypes ==
  ASSUME SetupInit
  PROVE  SetupTypes
<1>1. 0 \in 0..MaxIdentities
  BY SetupBoundsAssumption
<1> QED BY <1>1, CallTypes DEF SetupInit, SetupTypes, KeyTypes, PublishTypes

-----------------------------------------------------------------------------
(***************************************************************************)
(* The keys of an address.  Lost are those the operator had deleted and    *)
(* those whose write overlapped another one.  While the file holds keys    *)
(* that are not lost nobody writes but a publish with a copy of them, and  *)
(* while a generate call writes keys that are not lost it writes alone.    *)
(***************************************************************************)
Lost == gone \union crossed

FilePart ==
  keyFile # Nobody /\ keyFile \notin Lost =>
    /\ Saving = {} /\ keyTmp \in {Nobody, keyFile}
    /\ \A p \in Marking : publishing[p].copy = keyFile

CopyPart ==
  \A p \in Marking : publishing[p].copy \in Lost \/ (publishing[p].copy = keyFile /\ keyFile # Nobody)

TmpPart ==
  keyTmp # Nobody /\ keyTmp \notin Lost =>
    \/ keyTmp = keyFile
    \/ /\ Marking = {}
       /\ \E c \in Saving : Saving = {c} /\ generating[c].at = "rename" /\ generating[c].id = keyTmp

SavePart ==
  \A c \in Saving : generating[c].id \notin Lost =>
    /\ keyFile = Nobody /\ Saving = {c} /\ Marking = {}
    /\ generating[c].at = "rename" => keyTmp = generating[c].id

ReplyPart == \A c \in 1..Clicks : generating[c].at = "reply" => generating[c].id \in {keyFile} \union Lost

ShownPart == identity # Nobody => identity \in {keyFile} \union Lost

KeysOnDisk == FilePart /\ CopyPart /\ TmpPart /\ SavePart /\ ReplyPart /\ ShownPart
KeyParts == FilePart /\ CopyPart /\ TmpPart /\ SavePart

SetupInvariant == SetupTypes /\ KeysOnDisk

\* The keys a call answers with and the address that is shown stay where they
\* are as long as keys that are not lost stay in the file.
LEMMA AnswersStay ==
  ASSUME SetupInvariant, Lost \subseteq Lost',
         keyFile # Nobody => keyFile \in {keyFile'} \union Lost',
         \A c \in 1..Clicks : generating'[c].at = "reply" =>
            \/ generating[c].at = "reply" /\ generating'[c].id = generating[c].id
            \/ generating'[c].id \in {keyFile'} \union Lost',
         identity' # Nobody => \/ identity' = identity
                               \/ identity' \in {keyFile'} \union Lost'
  PROVE  ReplyPart' /\ ShownPart'
<1>1. \A c \in 1..Clicks : generating[c].at = "reply" => generating[c].id # Nobody
  BY CallTypes DEF SetupInvariant, SetupTypes, KeyTypes, SoundCall
<1> QED BY <1>1 DEF SetupInvariant, KeysOnDisk, ReplyPart, ShownPart

\* Steps that leave the files alone: no call begins or goes on with a write.
LEMMA FilesAlone ==
  ASSUME SetupInvariant, UNCHANGED <<keyFile, keyTmp, gone, crossed>>,
         Saving' = Saving, \A c \in Saving : generating'[c] = generating[c],
         Marking' \subseteq Marking, Marking' = Marking \/ keyTmp = Nobody,
         \A p \in Marking' : publishing'[p].copy = publishing[p].copy,
         \A c \in 1..Clicks : generating'[c].at = "reply" => generating'[c] = generating[c],
         identity' # Nobody => identity' = identity \/ identity' \in {keyFile} \union Lost
  PROVE  KeysOnDisk'
<1>1. Lost' = Lost
  BY DEF Lost
<1>2. ReplyPart' /\ ShownPart'
  BY <1>1, AnswersStay
<1>3. FilePart' /\ CopyPart'
  BY <1>1 DEF SetupInvariant, KeysOnDisk, FilePart, CopyPart
<1>4. TmpPart' /\ SavePart'
  BY <1>1 DEF SetupInvariant, KeysOnDisk, TmpPart, SavePart
<1> QED BY <1>2, <1>3, <1>4 DEF KeysOnDisk

LEMMA KeysInit ==
  ASSUME SetupInit
  PROVE  KeysOnDisk
<1>1. Saving = {} /\ Marking = {}
  BY CallTypes DEF SetupInit, Saving, Marking
<1> QED BY <1>1, CallTypes
        DEF SetupInit, KeysOnDisk, FilePart, CopyPart, TmpPart, SavePart, ReplyPart, ShownPart

\* A generate call looks at the file and goes on to write: alone, or all that
\* write by now are crossed.
LEMMA AccessStep ==
  ASSUME SetupInvariant, NEW c \in 1..Clicks, SaveStep(c), generating[c].at = "access"
  PROVE  KeysOnDisk'
<1>0. generating \in [1..Clicks -> SoundCall] /\ c \notin Saving
  BY DEF SetupInvariant, SetupTypes, KeyTypes, Saving
<1>1. UNCHANGED <<keyFile, keyTmp, gone, identity, publishing>> /\ Marking' = Marking
  BY DEF SaveStep, Marking
<1>2. CASE keyFile # Nobody
  <2>1. generating' = [generating EXCEPT ![c] = NoCall] /\ crossed' = crossed
    BY <1>2 DEF SaveStep
  <2>2. \A d \in 1..Clicks : generating'[d] = IF d = c THEN NoCall ELSE generating[d]
    BY <1>0, <2>1
  <2>3. Saving' = Saving
    BY <1>0, <2>2, CallTypes DEF Saving
  <2>4. \A d \in Saving : generating'[d] = generating[d]
    BY <1>0, <2>2 DEF Saving
  <2>5. \A d \in 1..Clicks : generating'[d].at = "reply" => generating'[d] = generating[d]
    BY <2>2, CallTypes
  <2> QED BY <1>1, <2>1, <2>3, <2>4, <2>5, FilesAlone
<1>3. CASE keyFile = Nobody
  <2>1. generating' = [generating EXCEPT ![c].at = "write"]
    BY <1>3 DEF SaveStep
  <2>2. /\ generating'[c].at = "write" /\ generating'[c].id = generating[c].id
        /\ \A d \in 1..Clicks : d # c => generating'[d] = generating[d]
    BY <1>0, <2>1, CallMoves
  <2>3. Saving' = Saving \union {c}
    BY <1>0, <2>2 DEF Saving
  <2>4. \A d \in Saving : d # c /\ generating'[d] = generating[d]
    BY <1>0, <2>2 DEF Saving
  <2>5. ReplyPart' /\ ShownPart'
    <3>1. Lost \subseteq Lost'
      BY DEF SaveStep, Lost
    <3> QED BY <1>1, <1>3, <2>2, <3>1, AnswersStay
  <2>6. CASE Saving = {} /\ Marking = {}
    <3>1. crossed' = crossed /\ Lost' = Lost
      BY <2>6 DEF SaveStep, Lost
    <3>2. KeyParts'
      BY <1>1, <1>3, <2>2, <2>3, <2>6, <3>1
         DEF SetupInvariant, KeysOnDisk, KeyParts, FilePart, CopyPart, TmpPart, SavePart
    <3> QED BY <2>5, <3>2 DEF KeysOnDisk, KeyParts
  <2>7. CASE Saving # {} \/ Marking # {}
    <3>1. crossed' = crossed \union {generating[c].id} \union {generating[d].id : d \in Saving}
      BY <1>3, <2>7 DEF SaveStep
    <3>2. /\ Lost \subseteq Lost'
          /\ \A d \in Saving : generating[d].id \in Lost'
          /\ generating[c].id \in Lost'
      BY <1>1, <3>1 DEF Lost
    <3>3. \A d \in Saving' : generating'[d].id \in Lost'
      BY <2>2, <2>3, <2>4, <3>2
    <3>4. SavePart'
      BY <3>3 DEF SavePart
    <3>5. FilePart' /\ CopyPart'
      BY <1>1, <1>3, <3>2 DEF SetupInvariant, KeysOnDisk, FilePart, CopyPart
    <3>6. TmpPart'
      BY <1>1, <1>3, <3>2 DEF SetupInvariant, KeysOnDisk, TmpPart
    <3> QED BY <2>5, <3>4, <3>5, <3>6 DEF KeysOnDisk
  <2> QED BY <2>6, <2>7
<1> QED BY <1>2, <1>3

\* The temporary file is written: by a call that writes alone, or its keys are lost.
LEMMA WriteStep ==
  ASSUME SetupInvariant, NEW c \in 1..Clicks, SaveStep(c), generating[c].at = "write"
  PROVE  KeysOnDisk'
<1>0. generating \in [1..Clicks -> SoundCall] /\ c \in Saving /\ generating[c].id \in Identity
  BY DEF SetupInvariant, SetupTypes, KeyTypes, Saving, SoundCall
<1>1. UNCHANGED <<keyFile, gone, crossed, identity, publishing>> /\ keyTmp' = generating[c].id
      /\ Marking' = Marking /\ Lost' = Lost /\ generating' = [generating EXCEPT ![c].at = "rename"]
  BY DEF SaveStep, Marking, Lost
<1>2. /\ generating'[c].at = "rename" /\ generating'[c].id = generating[c].id
      /\ \A d \in 1..Clicks : d # c => generating'[d] = generating[d]
  BY <1>0, <1>1, CallMoves
<1>3. Saving' = Saving /\ \A d \in Saving : d \in 1..Clicks
  BY <1>0, <1>2 DEF Saving
<1>4. ReplyPart' /\ ShownPart'
  BY <1>1, <1>2, AnswersStay
<1>5. FilePart' /\ CopyPart'
  BY <1>0, <1>1, <1>3 DEF SetupInvariant, KeysOnDisk, FilePart, CopyPart
<1>6. TmpPart'
  BY <1>0, <1>1, <1>2, <1>3 DEF SetupInvariant, KeysOnDisk, TmpPart, SavePart
<1>7. SavePart'
  BY <1>0, <1>1, <1>2, <1>3 DEF SetupInvariant, KeysOnDisk, SavePart
<1> QED BY <1>4, <1>5, <1>6, <1>7 DEF KeysOnDisk

\* The rename: what the temporary file holds becomes the file.
LEMMA RenameStep ==
  ASSUME SetupInvariant, NEW c \in 1..Clicks, SaveStep(c), generating[c].at = "rename"
  PROVE  KeysOnDisk'
<1>0. generating \in [1..Clicks -> SoundCall] /\ c \in Saving /\ generating[c].id \in Identity
      /\ Nobody \notin Identity
  BY CallTypes DEF SetupInvariant, SetupTypes, KeyTypes, Saving, SoundCall
<1>1. UNCHANGED <<gone, crossed, identity, publishing>> /\ keyTmp' = Nobody
      /\ Marking' = Marking /\ Lost' = Lost
  BY DEF SaveStep, Marking, Lost
\* A writer is there: the keys in the file, if any, are lost.
<1>2. keyFile = Nobody \/ keyFile \in Lost
  BY <1>0 DEF SetupInvariant, KeysOnDisk, FilePart
<1>3. TmpPart'
  BY <1>1 DEF TmpPart
<1>4. CASE keyTmp = Nobody
  <2>1. keyFile' = keyFile /\ generating' = [generating EXCEPT ![c] = NoCall]
    BY <1>4 DEF SaveStep
  <2>2. \A d \in 1..Clicks : generating'[d] = IF d = c THEN NoCall ELSE generating[d]
    BY <1>0, <2>1
  <2>3. Saving' = Saving \ {c} /\ \A d \in Saving' : generating'[d] = generating[d]
    BY <2>2, CallTypes DEF Saving
  <2>4. \A d \in Saving : generating[d].id \in Lost
    BY <1>0, <1>4 DEF SetupInvariant, KeysOnDisk, SavePart
  <2>5. SavePart'
    BY <1>1, <2>3, <2>4 DEF SavePart
  <2>6. FilePart' /\ CopyPart'
    BY <1>1, <1>2, <2>1 DEF SetupInvariant, KeysOnDisk, FilePart, CopyPart
  <2>7. ReplyPart' /\ ShownPart'
    BY <1>1, <2>1, <2>2, CallTypes, AnswersStay
  <2> QED BY <1>3, <2>5, <2>6, <2>7 DEF KeysOnDisk
<1>5. CASE keyTmp # Nobody
  <2>1. keyFile' = keyTmp /\ generating' = [generating EXCEPT ![c].at = "reply"]
    BY <1>5 DEF SaveStep
  <2>2. /\ generating'[c].at = "reply" /\ generating'[c].id = generating[c].id
        /\ \A d \in 1..Clicks : d # c => generating'[d] = generating[d]
    BY <1>0, <2>1, CallMoves
  <2>3. Saving' = Saving \ {c} /\ \A d \in Saving' : generating'[d] = generating[d]
    BY <2>2 DEF Saving
  \* Of several writers every one is crossed.
  <2>4. \A d \in Saving' : generating[d].id \in Lost
    BY <1>0, <2>3 DEF SetupInvariant, KeysOnDisk, SavePart
  <2>5. SavePart'
    BY <1>1, <2>3, <2>4 DEF SavePart
  <2>6. CopyPart'
    BY <1>1, <1>2 DEF SetupInvariant, KeysOnDisk, CopyPart
  <2>7. ASSUME keyTmp \notin Lost PROVE Saving = {c} /\ Marking = {}
    BY <1>0, <1>2, <1>5, <2>7 DEF SetupInvariant, KeysOnDisk, TmpPart
  <2>8. FilePart'
    BY <1>1, <2>1, <2>3, <2>7 DEF FilePart
  <2>9. generating[c].id \in {keyTmp} \union Lost
    BY <1>0 DEF SetupInvariant, KeysOnDisk, SavePart
  <2>10. ReplyPart' /\ ShownPart'
    BY <1>1, <1>2, <2>1, <2>2, <2>9, AnswersStay
  <2> QED BY <1>3, <2>5, <2>6, <2>8, <2>10 DEF KeysOnDisk
<1> QED BY <1>4, <1>5

LEMMA KeysGenerate ==
  ASSUME SetupInvariant, NEW c \in 1..Clicks,
         ClickSetup(c) \/ Keygen(c) \/ SaveStep(c) \/ ShowIdentity(c)
  PROVE  KeysOnDisk'
<1>1. generating \in [1..Clicks -> SoundCall]
  BY DEF SetupInvariant, SetupTypes, KeyTypes
<1>2. ASSUME ClickSetup(c) \/ Keygen(c) \/ ShowIdentity(c) PROVE KeysOnDisk'
  <2>1. UNCHANGED <<keyFile, keyTmp, gone, crossed, publishing>> /\ Marking' = Marking
    BY <1>2 DEF ClickSetup, Keygen, ShowIdentity, Marking
  <2>2. /\ generating[c].at \notin {"write", "rename"}
        /\ generating'[c].at \in {"idle", "load", "access"}
        /\ \A d \in 1..Clicks : d # c => generating'[d] = generating[d]
    <3>1. CASE ClickSetup(c)
      BY <1>1, <3>1, CallTypes DEF ClickSetup, SoundCall, SetupCall
    <3>2. CASE Keygen(c)
      <4>1. \/ generating' = [generating EXCEPT ![c] = NoCall]
            \/ generating' = [generating EXCEPT ![c] = [at |-> "access", id |-> keygens + 1]]
        BY <3>2 DEF Keygen
      <4>2. generating[c].at = "load"
        BY <3>2 DEF Keygen
      <4>3. CASE generating' = [generating EXCEPT ![c] = NoCall]
        BY <1>1, <4>2, <4>3, CallTypes
      <4>4. CASE generating' = [generating EXCEPT ![c] = [at |-> "access", id |-> keygens + 1]]
        BY <1>1, <4>2, <4>4
      <4> QED BY <4>1, <4>3, <4>4
    <3>3. CASE ShowIdentity(c)
      BY <1>1, <3>3, CallTypes DEF ShowIdentity
    <3> QED BY <1>2, <3>1, <3>2, <3>3
  <2>3. Saving' = Saving /\ \A d \in Saving : generating'[d] = generating[d]
    BY <2>2 DEF Saving
  <2>4. \A d \in 1..Clicks : generating'[d].at = "reply" => generating'[d] = generating[d]
    BY <2>2
  <2>5. identity' = identity \/ (generating[c].at = "reply" /\ identity' = generating[c].id)
    BY <1>2 DEF ClickSetup, Keygen, ShowIdentity
  <2>6. identity' = identity \/ identity' \in {keyFile} \union Lost
    BY <2>5 DEF SetupInvariant, KeysOnDisk, ReplyPart
  <2> QED BY <2>1, <2>3, <2>4, <2>6, FilesAlone
<1> QED BY <1>2, AccessStep, WriteStep, RenameStep DEF SaveStep

\* updateCommIdentity reads the file: it holds keys, so no generate call whose
\* keys are not lost is writing.
LEMMA ReadStep ==
  ASSUME SetupInvariant, NEW p \in 1..Publishes, MarkStep(p), publishing[p].at = "mark",
         keyFile # Nobody
  PROVE  KeysOnDisk'
<1>0. publishing \in [1..Publishes -> SoundPublish]
  BY DEF SetupInvariant, SetupTypes, PublishTypes
<1>1. UNCHANGED <<keyFile, keyTmp, gone, crossed, identity, generating>> /\ Saving' = Saving
      /\ Lost' = Lost /\ publishing' = [publishing EXCEPT ![p].at = "store", ![p].copy = keyFile]
  BY DEF MarkStep, Saving, Lost
<1>2. /\ publishing'[p].at = "store" /\ publishing'[p].copy = keyFile
      /\ \A q \in 1..Publishes : q # p => publishing'[q] = publishing[q]
  BY <1>0, <1>1 DEF SoundPublish, PublishCall
<1>3. Marking' = Marking \union {p} /\ p \notin Marking
      /\ \A q \in Marking : q # p /\ publishing'[q] = publishing[q]
  BY <1>2 DEF Marking
<1>4. ReplyPart' /\ ShownPart'
  BY <1>1, AnswersStay
<1>8. \A q \in Marking' : publishing'[q].copy = IF q = p THEN keyFile ELSE publishing[q].copy
  BY <1>2, <1>3
<1>9. FilePart'
  BY <1>1, <1>3, <1>8 DEF SetupInvariant, KeysOnDisk, FilePart
<1>5. CopyPart'
  <2>1. \A q \in Marking : publishing[q].copy \in Lost \/ publishing[q].copy = keyFile
    BY DEF SetupInvariant, KeysOnDisk, CopyPart
  <2>2. ASSUME NEW q \in Marking'
        PROVE  publishing'[q].copy \in Lost' \/ (publishing'[q].copy = keyFile' /\ keyFile' # Nobody)
    <3>1. q = p \/ q \in Marking
      BY <1>3
    <3>2. publishing'[q].copy = keyFile \/ publishing'[q].copy \in Lost
      BY <1>8, <2>1, <2>2, <3>1
    <3>3. Lost' = Lost /\ keyFile' = keyFile
      BY <1>1
    <3> QED BY <3>2, <3>3
  <2> QED BY <2>2 DEF CopyPart
<1>6. \A d \in Saving : generating[d].id \in Lost
  BY DEF SetupInvariant, KeysOnDisk, SavePart
<1>7. TmpPart' /\ SavePart'
  BY <1>1, <1>6 DEF SetupInvariant, KeysOnDisk, TmpPart, SavePart
<1> QED BY <1>4, <1>5, <1>7, <1>9 DEF KeysOnDisk

\* It writes its copy to the temporary file.
LEMMA StoreStep ==
  ASSUME SetupInvariant, NEW p \in 1..Publishes, MarkStep(p), publishing[p].at = "store"
  PROVE  KeysOnDisk'
<1>0. publishing \in [1..Publishes -> SoundPublish] /\ p \in Marking
  BY DEF SetupInvariant, SetupTypes, PublishTypes, Marking
<1>1. UNCHANGED <<keyFile, gone, crossed, identity, generating>> /\ Saving' = Saving
      /\ Lost' = Lost /\ keyTmp' = publishing[p].copy
      /\ publishing' = [publishing EXCEPT ![p].at = "swap"]
  BY DEF MarkStep, Saving, Lost
<1>2. /\ publishing'[p].at = "swap" /\ publishing'[p].copy = publishing[p].copy
      /\ \A q \in 1..Publishes : q # p => publishing'[q] = publishing[q]
  BY <1>0, <1>1 DEF SoundPublish, PublishCall
<1>3. Marking' = Marking /\ \A q \in Marking : publishing'[q].copy = publishing[q].copy
  BY <1>2 DEF Marking
<1>4. ReplyPart' /\ ShownPart'
  BY <1>1, AnswersStay
<1>5. FilePart' /\ CopyPart'
  BY <1>0, <1>1, <1>3 DEF SetupInvariant, KeysOnDisk, FilePart, CopyPart
<1>6. TmpPart' /\ SavePart'
  BY <1>0, <1>1, <1>3 DEF SetupInvariant, KeysOnDisk, CopyPart, TmpPart, SavePart
<1> QED BY <1>4, <1>5, <1>6 DEF KeysOnDisk

\* It renames the temporary file, and puts no keys but lost ones in the place of
\* those that are not lost.
LEMMA SwapStep ==
  ASSUME SetupInvariant, NEW p \in 1..Publishes, MarkStep(p), publishing[p].at = "swap",
         keyTmp # Nobody
  PROVE  KeysOnDisk'
<1>0. publishing \in [1..Publishes -> SoundPublish] /\ p \in Marking
  BY DEF SetupInvariant, SetupTypes, PublishTypes, Marking
<1>1. UNCHANGED <<gone, crossed, identity, generating>> /\ Saving' = Saving
      /\ Lost' = Lost /\ keyTmp' = Nobody /\ keyFile' = keyTmp
      /\ publishing' = [publishing EXCEPT ![p].at = "broadcast", ![p].copy = Nobody]
  BY DEF MarkStep, Saving, Lost
<1>2. /\ publishing'[p].at = "broadcast"
      /\ \A q \in 1..Publishes : q # p => publishing'[q] = publishing[q]
  BY <1>0, <1>1 DEF SoundPublish, PublishCall
<1>3. Marking' = Marking \ {p} /\ \A q \in Marking' : publishing'[q].copy = publishing[q].copy
  BY <1>2 DEF Marking
<1>4. keyFile # Nobody /\ keyFile \notin Lost => keyFile' = keyFile
  BY <1>1 DEF SetupInvariant, KeysOnDisk, FilePart
<1>5. ReplyPart' /\ ShownPart'
  BY <1>1, <1>4, AnswersStay
<1>6. keyTmp \notin Lost => keyTmp = keyFile
  BY <1>0 DEF SetupInvariant, KeysOnDisk, TmpPart
<1>7. FilePart' /\ CopyPart'
  <2>1. FilePart'
    BY <1>1, <1>3, <1>6 DEF SetupInvariant, KeysOnDisk, FilePart
  <2>2. \A q \in Marking : publishing[q].copy \in Lost \/ (publishing[q].copy = keyFile /\ keyFile # Nobody)
    BY DEF SetupInvariant, KeysOnDisk, CopyPart
  <2>3. ASSUME NEW q \in Marking'
        PROVE  publishing'[q].copy \in Lost \/ (publishing'[q].copy = keyFile' /\ keyFile' # Nobody)
    BY <1>3, <1>4, <2>2
  <2>4. CopyPart'
    BY <1>1, <2>3 DEF CopyPart
  <2> QED BY <2>1, <2>4
<1>8. TmpPart' /\ SavePart'
  BY <1>0, <1>1 DEF SetupInvariant, KeysOnDisk, TmpPart, SavePart
<1> QED BY <1>5, <1>7, <1>8 DEF KeysOnDisk

LEMMA KeysPublish ==
  ASSUME SetupInvariant, NEW p \in 1..Publishes,
         RunPublish(p) \/ BuildProfile(p) \/ MarkStep(p) \/ BroadcastProfile(p) \/ RecordPublished(p)
  PROVE  KeysOnDisk'
<1>0. publishing \in [1..Publishes -> SoundPublish]
  BY DEF SetupInvariant, SetupTypes, PublishTypes
<1>1. ASSUME UNCHANGED <<keyFile, keyTmp, gone, crossed, identity, generating>>,
             publishing'[p].at \notin {"store", "swap"},
             \A q \in 1..Publishes : q # p => publishing'[q] = publishing[q],
             publishing[p].at \notin {"store", "swap"} \/ keyTmp = Nobody
      PROVE  KeysOnDisk'
  <2>1. Saving' = Saving
    BY <1>1 DEF Saving
  <2>2. Marking' = Marking \ {p} /\ \A q \in Marking' : publishing'[q].copy = publishing[q].copy
    BY <1>1 DEF Marking
  <2>3. Marking' = Marking \/ keyTmp = Nobody
    BY <1>1, <2>2 DEF Marking
  <2> QED BY <1>1, <2>1, <2>2, <2>3, FilesAlone
<1>2. ASSUME Failed(p)
      PROVE  /\ publishing'[p].at = "idle"
             /\ \A q \in 1..Publishes : q # p => publishing'[q] = publishing[q]
  BY <1>0, <1>2, CallTypes DEF Failed
<1>3. ASSUME RunPublish(p) PROVE KeysOnDisk'
  <2>1. [NoPublish EXCEPT !.at = "build", !.mounted = TRUE].at = "build"
    BY DEF NoPublish
  <2>2. publishing'[p].at = "build" /\ publishing[p].at = "idle"
        /\ \A q \in 1..Publishes : q # p => publishing'[q] = publishing[q]
    BY <1>0, <1>3, <2>1, CallTypes DEF RunPublish
  <2> QED BY <1>1, <1>3, <2>2 DEF RunPublish
<1>4. ASSUME BuildProfile(p) PROVE KeysOnDisk'
  <2>1. publishing[p].at = "build" /\ publishing'[p].at \in {"mark", "idle"}
        /\ \A q \in 1..Publishes : q # p => publishing'[q] = publishing[q]
    <3>1. CASE keyFile \in funded
      <4> DEFINE call == [publishing[p] EXCEPT !.at = "mark", !.id = keyFile]
      <4>1. publishing' = [publishing EXCEPT ![p] = call] /\ publishing[p].at = "build"
        BY <1>0, <1>4, <3>1 DEF BuildProfile
      <4>2. call.at = "mark"
        BY <1>0 DEF SoundPublish, PublishCall
      <4> HIDE DEF call
      <4> QED BY <1>0, <4>1, <4>2
    <3>2. CASE keyFile \notin funded
      BY <1>2, <1>4, <3>2 DEF BuildProfile
    <3> QED BY <3>1, <3>2
  <2> QED BY <1>1, <1>4, <2>1 DEF BuildProfile
<1>5. ASSUME MarkStep(p) PROVE KeysOnDisk'
  <2>1. CASE (publishing[p].at = "mark" /\ keyFile = Nobody)
             \/ (publishing[p].at = "swap" /\ keyTmp = Nobody)
    <3>1. Failed(p) /\ UNCHANGED <<keyFile, keyTmp, gone, crossed, identity, generating>>
      BY <1>5, <2>1 DEF MarkStep
    <3> QED BY <1>1, <1>2, <2>1, <3>1
  <2>2. publishing[p].at \in {"mark", "store", "swap"}
    BY <1>5 DEF MarkStep
  <2> QED BY <1>5, <2>1, <2>2, ReadStep, StoreStep, SwapStep
<1>6. ASSUME BroadcastProfile(p) PROVE KeysOnDisk'
  <2>1. publishing[p].at = "broadcast" /\ publishing'[p].at \in {"record", "idle"}
        /\ \A q \in 1..Publishes : q # p => publishing'[q] = publishing[q]
    BY <1>0, <1>2, <1>6 DEF BroadcastProfile, SoundPublish, PublishCall
  <2> QED BY <1>1, <1>6, <2>1 DEF BroadcastProfile
<1>7. ASSUME RecordPublished(p) PROVE KeysOnDisk'
  <2>1. publishing[p].at = "record" /\ publishing'[p].at = "idle"
        /\ \A q \in 1..Publishes : q # p => publishing'[q] = publishing[q]
    BY <1>0, <1>7, CallTypes DEF RecordPublished
  <2> QED BY <1>1, <1>7, <2>1 DEF RecordPublished
<1> QED BY <1>3, <1>4, <1>5, <1>6, <1>7

LEMMA KeysStep ==
  ASSUME SetupInvariant, [SetupNext]_setupVars
  PROVE  KeysOnDisk'
<1>1. ASSUME UNCHANGED <<keyFile, keyTmp, gone, crossed, generating>>,
             identity' \in {identity, Nobody},
             \A p \in 1..Publishes : /\ publishing'[p].at = publishing[p].at
                                     /\ publishing'[p].copy = publishing[p].copy
      PROVE  KeysOnDisk'
  <2>1. Saving' = Saving /\ Marking' = Marking /\ \A q \in Marking : q \in 1..Publishes
    BY <1>1 DEF Saving, Marking
  <2> QED BY <1>1, <2>1, FilesAlone
<1>2. CASE UNCHANGED setupVars \/ ClickDelete \/ ClearIdentity \/ Fund \/ OpenSettings
  BY <1>1, <1>2 DEF setupVars, ClickDelete, ClearIdentity, Fund, OpenSettings
<1>3. CASE LeaveSettings
  <2>1. \A p \in 1..Publishes : /\ publishing'[p].at = publishing[p].at
                                /\ publishing'[p].copy = publishing[p].copy
    BY <1>3 DEF LeaveSettings, SetupInvariant, SetupTypes, PublishTypes, SoundPublish, PublishCall
  <2> QED BY <1>1, <1>3, <2>1 DEF LeaveSettings
<1>4. CASE RemoveFile
  <2>1. UNCHANGED <<keyTmp, identity, generating, publishing, crossed>> /\ keyFile' = Nobody
        /\ Saving' = Saving /\ Marking' = Marking /\ Lost' = Lost \union ({keyFile} \ {Nobody})
    BY <1>4 DEF RemoveFile, Saving, Marking, Lost
  <2>2. ReplyPart' /\ ShownPart'
    BY <2>1, AnswersStay
  <2>3. FilePart' /\ CopyPart'
    BY <2>1 DEF SetupInvariant, KeysOnDisk, FilePart, CopyPart
  <2>4. TmpPart' /\ SavePart'
    BY <2>1 DEF SetupInvariant, KeysOnDisk, TmpPart, SavePart
  <2> QED BY <2>2, <2>3, <2>4 DEF KeysOnDisk
<1>5. CASE Restart
  <2>1. UNCHANGED <<keyFile, identity, gone, crossed>> /\ keyTmp' = Nobody /\ Lost' = Lost
        /\ Saving' = {} /\ Marking' = {} /\ \A c \in 1..Clicks : generating'[c].at = "idle"
    BY <1>5, CallTypes DEF Restart, Saving, Marking, Lost
  <2>2. ReplyPart' /\ ShownPart'
    BY <2>1, AnswersStay
  <2>3. KeyParts'
    BY <2>1 DEF KeyParts, FilePart, CopyPart, TmpPart, SavePart
  <2> QED BY <2>2, <2>3 DEF KeysOnDisk, KeyParts
<1> QED BY <1>2, <1>3, <1>4, <1>5, KeysGenerate, KeysPublish DEF SetupNext

\* The address an operator is told to fund can be spent from: its keys are in
\* the file or the operator had them deleted, however many generate calls,
\* publishes, deletions and restarts overlap; the identities whose write
\* overlapped another one of the file are left out.
THEOREM ShownAddressHasKeys == SetupSpec => []AddressHasKeys
<1>1. SetupInit => SetupInvariant
  BY SetupInitTypes, KeysInit DEF SetupInvariant
<1>2. SetupInvariant /\ [SetupNext]_setupVars => SetupInvariant'
  BY SetupTypesStep, KeysStep DEF SetupInvariant
<1>3. SetupInvariant => AddressHasKeys
  BY DEF SetupInvariant, KeysOnDisk, ShownPart, AddressHasKeys, Lost
<1> QED BY <1>1, <1>2, <1>3, PTL DEF SetupSpec

-----------------------------------------------------------------------------
(***************************************************************************)
(* The composition that the run checks: one component moves, the others    *)
(* keep their initial state.                                               *)
(***************************************************************************)
LEMMA ServicesAreFollowed ==
  Spec => DeskSpec /\ SetupSpec /\ LcSpec /\ NetSpec /\ MobileSpec /\ BooksSpec
<1>1. Init => DeskInit /\ SetupInit /\ LcInit /\ NetInit /\ MobileInit /\ BooksInit
  BY DEF Init
<1>2. [Next]_vars => /\ [DeskNext]_deskvars /\ [SetupNext]_setupVars /\ [LcNext]_lcVars
                     /\ [NetNext]_netVars /\ [MobileNext]_mobileVars /\ [BooksNext]_bookvars
  BY DEF Next, vars
<1> QED BY <1>1, <1>2, PTL DEF Spec, DeskSpec, SetupSpec, LcSpec, NetSpec, MobileSpec, BooksSpec

\* Every component keeps to its types, whatever the constants: packets, calls,
\* scripts, starts, photographs and payments.
THEOREM ServiceTypesCorrect == Spec => []TypeOK
<1>1. NetSpec => []NetInvariant
  BY NetInitInvariant, NetStepInvariant, PTL DEF NetSpec
<1>2. DeskSpec => []DeskInvariant
  BY DeskInitInvariant, DeskStepInvariant, PTL DEF DeskSpec
<1>3. SetupSpec => []SetupTypes
  <2>1. SetupInit => SetupTypes
    BY SetupInitTypes
  <2> QED BY <2>1, SetupTypesStep, PTL DEF SetupSpec
<1>4. /\ NetInvariant => NetTypeOK
      /\ DeskInvariant => DeskTypeOK
      /\ SetupTypes => SetupTypeOK
      /\ LcInvariant => LcTypeOK
      /\ MobileInvariant => MobileTypeOK
      /\ BooksInvariant => BooksTypeOK
  BY SetupTypesOK, LcInvariantTypes, MobileInvariantTypes, BooksInvariantTypes
     DEF NetInvariant, DeskInvariant
<1>5. /\ NetTypeOK /\ DeskTypeOK /\ SetupTypeOK /\ LcTypeOK /\ MobileTypeOK /\ BooksTypeOK
      => TypeOK
  BY DEF TypeOK
<1> QED BY <1>1, <1>2, <1>3, <1>4, <1>5, LcAlwaysInvariant, MobileAlwaysInvariant,
           BooksAlwaysInvariant, ServicesAreFollowed, PTL

=============================================================================
