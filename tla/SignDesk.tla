------------------------------- MODULE SignDesk -------------------------------
(***************************************************************************)
(* A signer's side of the comm channel: the buffer of packets the watcher  *)
(* handed over, and the panel that shows a packet, decrypts the signer's   *)
(* key and signs.  The decryption is awaited; meanwhile the signer may     *)
(* paste or claim another packet.                                          *)
(*                                                                         *)
(* A packet names a transaction, embeds a digest and lists co-signers.     *)
(* The digest of a transaction is the transaction.                         *)
(***************************************************************************)
EXTENDS Naturals

CONSTANTS
  PacketTx,    \* transactions, and so digests
  Signers,     \* pubkey hashes
  NoPacket,    \* no packet, no transaction, no signer
  PacketTexts  \* the texts a signer may be sent or paste

TransferPacket == [tx : PacketTx, sighashDigest : PacketTx, pubkeyHashes : SUBSET Signers]

ASSUME PacketTextsAssumption == PacketTexts \subseteq TransferPacket
ASSUME NoPacketAssumption == NoPacket \notin PacketTx \union Signers \union TransferPacket

VARIABLES
  bySighash,  \* incoming-packets: the packet text under each digest, persisted
  stale,      \* digests whose packets have passed expiresAt
  packetJson, \* the text of the panel
  signing,    \* the packet handleSign captured while it awaits the key
  result,     \* the signature shown: digest, signer
  shown       \* history: the transaction on display when Sign was pressed

deskvars == <<bySighash, stale, packetJson, signing, result, shown>>

Result == [digest : PacketTx, signer : Signers]

DeskTypeOK ==
  /\ bySighash \in [PacketTx -> TransferPacket \union {NoPacket}]
  /\ stale \subseteq PacketTx
  /\ {packetJson, signing} \subseteq TransferPacket \union {NoPacket}
  /\ result \in Result \union {NoPacket}
  /\ shown \in PacketTx \union {NoPacket}

DeskInit ==
  /\ bySighash = [d \in PacketTx |-> NoPacket]
  /\ stale = {}
  /\ packetJson = NoPacket /\ signing = NoPacket
  /\ result = NoPacket /\ shown = NoPacket

\* decodeTransferPacket refuses a packet whose digest is not its transaction's.
Decodes(text) == text # NoPacket /\ text.tx = text.sighashDigest

-----------------------------------------------------------------------------
\* enqueue under the digest the envelope names; the most recent one wins.
Enqueue(d, text) ==
  /\ d \notin stale
  /\ bySighash' = [bySighash EXCEPT ![d] = text]
  /\ UNCHANGED <<stale, packetJson, signing, result, shown>>

Dismiss(d) ==
  /\ bySighash[d] # NoPacket
  /\ bySighash' = [bySighash EXCEPT ![d] = NoPacket]
  /\ UNCHANGED <<stale, packetJson, signing, result, shown>>

\* handleClaim; the inbox lists the packets that have not expired.
HandleClaim(d) ==
  /\ bySighash[d] # NoPacket /\ d \notin stale
  /\ packetJson' = bySighash[d]
  /\ result' = NoPacket
  /\ bySighash' = [bySighash EXCEPT ![d] = NoPacket]
  /\ UNCHANGED <<stale, signing, shown>>

\* Typing in the text area leaves a result on display.
Paste(text) ==
  /\ packetJson' = text
  /\ UNCHANGED <<bySighash, stale, signing, result, shown>>

\* handleSign up to the await of the keystore.
HandleSign ==
  /\ Decodes(packetJson) /\ signing = NoPacket
  /\ signing' = packetJson
  /\ shown' = packetJson.tx
  /\ result' = NoPacket
  /\ UNCHANGED <<bySighash, stale, packetJson>>

\* Mutant: the key of signer k signs the packet that is on display by then.
SignsDisplayed(k) ==
  /\ signing # NoPacket /\ packetJson # NoPacket
  /\ k \in packetJson.pubkeyHashes
  /\ result' = [digest |-> packetJson.sighashDigest, signer |-> k]
  /\ signing' = NoPacket
  /\ UNCHANGED <<bySighash, stale, packetJson, shown>>

\* The key of signer k: a co-signer of the packet that was captured signs it.
Signs(k) ==
  /\ signing # NoPacket
  /\ k \in signing.pubkeyHashes
  /\ result' = [digest |-> signing.sighashDigest, signer |-> k]
  /\ signing' = NoPacket
  /\ UNCHANGED <<bySighash, stale, packetJson, shown>>

\* A wrong password, or a key that is no co-signer.
SignFails ==
  /\ signing # NoPacket
  /\ signing' = NoPacket
  /\ UNCHANGED <<bySighash, stale, packetJson, result, shown>>

Expires(d) ==
  /\ d \notin stale
  /\ stale' = stale \union {d}
  /\ UNCHANGED <<bySighash, packetJson, signing, result, shown>>

\* A restart; pruneExpired drops what expired.
DeskRestarts ==
  /\ bySighash' = [d \in PacketTx |-> IF d \in stale THEN NoPacket ELSE bySighash[d]]
  /\ packetJson' = NoPacket /\ signing' = NoPacket
  /\ result' = NoPacket /\ shown' = NoPacket
  /\ UNCHANGED stale

DeskNext ==
  \/ \E d \in PacketTx : \/ \E text \in PacketTexts : Enqueue(d, text)
                         \/ Dismiss(d) \/ HandleClaim(d) \/ Expires(d)
  \/ \E text \in PacketTexts : Paste(text)
  \/ HandleSign \/ SignFails \/ \E k \in Signers : Signs(k)
  \/ DeskRestarts

DeskSpec == DeskInit /\ [][DeskNext]_deskvars

-----------------------------------------------------------------------------
\* What is signed is the transaction that was on display when Sign was
\* pressed, by one of its co-signers, whatever was pasted while the key was
\* being decrypted and whatever digest the packet claims (handleSign).
SignsWhatWasShown ==
  /\ result # NoPacket => result.digest = shown
  /\ signing # NoPacket => Decodes(signing) /\ signing.tx = shown
=============================================================================
