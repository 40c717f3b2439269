----------------------------- MODULE NetworkSwitch -----------------------------
(* Changing the CKB network: the selection kept by the window, the flag that   *)
(* has the light client's database wiped at the next start, the copy of the    *)
(* selection in the main process's file, and the network the main process runs *)
(* the comm channel with.                                                      *)
(* Sources: features/settings/{NetworkSection,NetworkRestartModal},            *)
(* stores/{network-config,sync}, App.tsx, electron/main/{index,                *)
(* network-state-store}.ts.                                                    *)
EXTENDS Naturals

CONSTANTS Networks,   \* {"testnet", "mainnet"}
          Default,    \* the network of a fresh installation
          MaxStarts,  \* bound on starts of the application
          Nothing     \* no network

ASSUME NetworkAssumption ==
    Default \in Networks /\ Nothing \notin Networks /\ MaxStarts \in Nat

VARIABLES
    network,   \* the window's persisted selection
    wipeFlag,  \* localStorage "chain-pay:wipe-lc-on-next-boot"
    file,      \* network-state.json
    current,   \* the main process's module-level network
    db,        \* the network whose chain the light client's database holds
    boot,      \* the window's start effect: "none", "begun", "wiping", "saving",
               \* "starting", "done"
    chosen,    \* the selection the start effect read, or Nothing
    leaving,   \* confirmAndQuit: "no", "saving", "quitting"
    handlers,  \* the main process has registered its handlers
    starts

netVars == <<network, wipeFlag, file, current, db, boot, chosen, leaving, handlers, starts>>

NetTypeOK ==
    /\ network \in Networks /\ file \in Networks /\ current \in Networks
    /\ db \in Networks \cup {Nothing} /\ chosen \in Networks \cup {Nothing}
    /\ wipeFlag \in BOOLEAN /\ handlers \in BOOLEAN /\ starts \in 0 .. MaxStarts
    /\ boot \in {"none", "begun", "wiping", "saving", "starting", "done"}
    /\ leaving \in {"no", "saving", "quitting"}

NetInit ==
    /\ network = Default /\ file = Default /\ current = Default
    /\ db = Nothing /\ chosen = Nothing
    /\ wipeFlag = FALSE /\ boot = "none" /\ leaving = "no" /\ handlers = FALSE /\ starts = 0

\* The application starts, after a quit or a crash: the main process pins the
\* file's network and opens the window.
Launch ==
    /\ starts < MaxStarts
    /\ starts' = starts + 1
    /\ current' = file
    /\ boot' = "begun" /\ leaving' = "no" /\ handlers' = FALSE
    /\ chosen' = Nothing
    /\ UNCHANGED <<network, wipeFlag, file, db>>

\* The handlers are registered once the window has loaded; the window's start
\* effect may run first, and then its calls are refused.
RegisterHandlers ==
    /\ boot # "none" /\ ~handlers
    /\ handlers' = TRUE
    /\ UNCHANGED <<network, wipeFlag, file, current, db, boot, chosen, leaving, starts>>

BootBegins ==
    /\ boot = "begun"
    /\ boot' = IF wipeFlag THEN "wiping" ELSE "saving"
    /\ chosen' = IF wipeFlag THEN chosen ELSE network
    /\ UNCHANGED <<network, wipeFlag, file, current, db, leaving, handlers, starts>>

\* lcStorage.clear: a refusal or a failure is logged and the start goes on.
FlagAfterAnyClear(ok) == FALSE
FlagAfterClear(ok) == IF ok THEN FALSE ELSE wipeFlag

ClearSettles(ok) ==
    /\ boot = "wiping" /\ (ok => handlers)
    /\ db' = IF ok THEN Nothing ELSE db
    /\ wipeFlag' = FlagAfterClear(ok)
    /\ boot' = "saving" /\ chosen' = network
    /\ UNCHANGED <<network, file, current, leaving, handlers, starts>>

BootSaves(ok) ==
    /\ boot = "saving" /\ (ok => handlers)
    /\ file' = IF ok THEN chosen ELSE file
    /\ boot' = "starting"
    /\ UNCHANGED <<network, wipeFlag, current, db, chosen, leaving, handlers, starts>>

\* The client starts on the selection: an empty database becomes that network's,
\* another network's database makes it panic.
StartCkb ==
    /\ boot = "starting"
    /\ boot' = "done"
    /\ db' = IF db = Nothing THEN chosen ELSE db
    /\ UNCHANGED <<network, wipeFlag, file, current, chosen, leaving, handlers, starts>>

\* The operator applies another network and confirms the restart.
ConfirmAndQuit(n) ==
    /\ boot # "none" /\ n # network /\ leaving = "no"
    /\ network' = n
    /\ wipeFlag' = TRUE
    /\ leaving' = "saving"
    /\ UNCHANGED <<file, current, db, boot, chosen, handlers, starts>>

\* network.set fails: the error is dropped and the application goes on running.
NetworkSet(ok) ==
    /\ leaving = "saving" /\ (ok => handlers)
    /\ file' = IF ok THEN network ELSE file
    /\ leaving' = IF ok THEN "quitting" ELSE "no"
    /\ UNCHANGED <<network, wipeFlag, current, db, boot, chosen, handlers, starts>>

Quit ==
    /\ leaving = "quitting"
    /\ boot' = "none" /\ leaving' = "no" /\ handlers' = FALSE /\ chosen' = Nothing
    /\ UNCHANGED <<network, wipeFlag, file, current, db, starts>>

NetNext ==
    \/ Launch \/ RegisterHandlers \/ BootBegins \/ StartCkb \/ Quit
    \/ \E ok \in BOOLEAN : ClearSettles(ok) \/ BootSaves(ok) \/ NetworkSet(ok)
    \/ \E n \in Networks : ConfirmAndQuit(n)

NetSpec == NetInit /\ [][NetNext]_netVars

-----------------------------------------------------------------------------
(* A database of another network than the selected one is always marked to be  *)
(* wiped, whatever fails or restarts in between.                               *)
ForeignDbIsFlagged == db \notin {Nothing, network} => wipeFlag
=============================================================================
