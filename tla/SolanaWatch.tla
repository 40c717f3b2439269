------------------------------ MODULE SolanaWatch ------------------------------
(***************************************************************************)
(* A watch-only Solana treasury: the snapshot of the history of its        *)
(* account that is on display, which a scan replaces and a status check    *)
(* amends, either of which may answer late, and the warning that a settled *)
(* transaction regressed.                                                  *)
(***************************************************************************)
EXTENDS Naturals, FiniteSets

CONSTANTS
  Sigs,       \* signatures of the account
  MaxChecks,  \* bound: status checks in flight
  NoAnswer    \* no scan has answered

VARIABLES
  onchain,  \* the state of each signature, none for one there is not
  solwatch, \* the record: the states shown, rollbackSignatures
  solscan,  \* the answer of the scan that is on its way
  solcheck, \* answers of status checks that are on their way
  lost      \* history: signatures that regressed on display since the last scan

solwatchvars == <<onchain, solwatch, solscan, solcheck, lost>>

Shown == {"none", "unknown", "processed", "confirmed", "finalized", "failed"}
States == [Sigs -> Shown]

SolWatchTypeOK ==
  /\ onchain \in States
  /\ solwatch \in [shown : States, rollbacks : SUBSET Sigs]
  /\ solscan \in States \union {NoAnswer}
  /\ solcheck \subseteq Sigs \X Shown
  /\ lost \subseteq Sigs

None == [s \in Sigs |-> "none"]

SolWatchInit ==
  /\ onchain = None /\ solwatch = [shown |-> None, rollbacks |-> {}]
  /\ solscan = NoAnswer /\ solcheck = {} /\ lost = {}

-----------------------------------------------------------------------------
WatchRank(s) == IF s \in {"none", "unknown", "failed"} THEN 0
                ELSE IF s = "processed" THEN 1 ELSE IF s = "confirmed" THEN 2 ELSE 3

Settled(s) == s \in {"confirmed", "finalized"}
Regressed(before, after) == Settled(before) /\ WatchRank(after) < WatchRank(before)

\* A history that is cut off does not say that an older transaction is gone.
DetectRollbacks(before, after, truncated) ==
  {s \in Sigs : Regressed(before[s], after[s]) /\ ~(truncated /\ after[s] = "none")}

\* scanSolanaAddress reads the history, all of it or its latest part.
SolScanReads(seen) ==
  /\ solscan = NoAnswer
  /\ solscan' = [s \in Sigs |-> IF s \in seen THEN onchain[s] ELSE "none"]
  /\ UNCHANGED <<onchain, solwatch, solcheck, lost>>

\* commitSync.
CommitSync(truncated) ==
  /\ solscan # NoAnswer
  /\ LET rollbacks == DetectRollbacks(solwatch.shown, solscan, truncated)
     IN  /\ solwatch' = [shown |-> solscan, rollbacks |-> rollbacks]
         /\ lost' = rollbacks
  /\ solscan' = NoAnswer
  /\ UNCHANGED <<onchain, solcheck>>

SolScanFails ==
  /\ solscan # NoAnswer
  /\ solscan' = NoAnswer
  /\ UNCHANGED <<onchain, solwatch, solcheck, lost>>

\* "Check status" of a transaction that is on display.
CheckStatusReads(s) ==
  /\ solwatch.shown[s] # "none" /\ Cardinality(solcheck) < MaxChecks
  /\ solcheck' = solcheck \union {<<s, IF onchain[s] = "none" THEN "unknown" ELSE onchain[s]>>}
  /\ UNCHANGED <<onchain, solwatch, solscan, lost>>

\* updateTransactionStatus that only warns of the latest regression.
WarnsOfTheLatest(s, state) ==
  /\ <<s, state>> \in solcheck
  /\ solcheck' = solcheck \ {<<s, state>>}
  /\ LET regressed == Regressed(solwatch.shown[s], state)
     IN  IF solwatch.shown[s] = "none" THEN UNCHANGED <<solwatch, lost>>
         ELSE /\ solwatch' = [shown |-> [solwatch.shown EXCEPT ![s] = state],
                              rollbacks |-> IF regressed THEN {s} ELSE solwatch.rollbacks]
              /\ lost' = IF regressed THEN lost \union {s} ELSE lost
  /\ UNCHANGED <<onchain, solscan>>

\* updateTransactionStatus: nothing, for one that a scan has removed meanwhile.
UpdateTransactionStatus(s, state) ==
  /\ <<s, state>> \in solcheck
  /\ solcheck' = solcheck \ {<<s, state>>}
  /\ LET regressed == Regressed(solwatch.shown[s], state)
     IN  IF solwatch.shown[s] = "none" THEN UNCHANGED <<solwatch, lost>>
         ELSE /\ solwatch' = [shown |-> [solwatch.shown EXCEPT ![s] = state],
                              rollbacks |-> IF regressed THEN solwatch.rollbacks \union {s}
                                            ELSE solwatch.rollbacks]
              /\ lost' = IF regressed THEN lost \union {s} ELSE lost
  /\ UNCHANGED <<onchain, solscan>>

\* The chain: a transaction appears, settles, is dropped.
SolanaMoves(s, state) ==
  /\ \/ onchain[s] \in {"none", "processed"} /\ state \in {"processed", "confirmed"}
     \/ onchain[s] = "confirmed" /\ state \in {"finalized", "none"}
     \/ onchain[s] = "processed" /\ state = "none"
  /\ state # onchain[s]
  /\ onchain' = [onchain EXCEPT ![s] = state]
  /\ UNCHANGED <<solwatch, solscan, solcheck, lost>>

\* merge: a sync that was interrupted is idle.
SolWatchRestarts ==
  /\ solscan' = NoAnswer /\ solcheck' = {}
  /\ UNCHANGED <<onchain, solwatch, lost>>

SolWatchNext ==
  \/ \E seen \in SUBSET Sigs : SolScanReads(seen)
  \/ \E truncated \in BOOLEAN : CommitSync(truncated)
  \/ SolScanFails
  \/ \E s \in Sigs : \/ CheckStatusReads(s)
                     \/ \E state \in Shown : UpdateTransactionStatus(s, state) \/ SolanaMoves(s, state)
  \/ SolWatchRestarts

SolWatchSpec == SolWatchInit /\ [][SolWatchNext]_solwatchvars

-----------------------------------------------------------------------------
\* Every transaction that regressed on display since the last scan is in the
\* warning, whether a scan or one of several status checks saw it, in whatever
\* order they answer (commitSync, updateTransactionStatus).
RegressionsAreShown == lost \subseteq solwatch.rollbacks
=============================================================================
