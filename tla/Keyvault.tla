------------------------------- MODULE Keyvault -------------------------------
(* The local wallet: one encrypted vault, its setup by creation or import with  *)
(* a native dialog in between, the password channels and their limiter, and the *)
(* source wallets that name the vault.  A vault is its seed; the address of a   *)
(* seed is the seed.                                                            *)
(* Sources: electron/main/keyvault-{host,rate-limit,store}.ts,                  *)
(* features/keyvault/*, stores/sources.ts.                                      *)
EXTENDS Naturals

CONSTANTS Seed,         \* seeds generated or imported
          Password,
          MaxAttempts,  \* maxAttempts of the limiter
          NoVault

ASSUME KeyvaultAssumption == NoVault \notin Seed /\ MaxAttempts \in Nat \ {0}

VARIABLES
    disk,        \* the vault file
    setup,       \* what withEmptyVault runs; pending while it is not "none"
    exporting,   \* the seed in the export dialog
    limiter,     \* failures, and whether their window is still running
    lockArgs,    \* useKeyvaultStore: the address of the vault, when it is known
    promoting,   \* handleUseAsSource between its awaits: the address it took
    sources,     \* addresses among the source wallets; persisted
    generated,   \* history: seeds made here
    displayed,   \* history: seeds whose words the operator has had before them
    signed       \* history: the address a signature was asked for, the seed that made it

kvvars == <<disk, setup, exporting, limiter, lockArgs, promoting, sources,
            generated, displayed, signed>>

Vault == [seed : Seed, password : Password]
NoSetup == [kind |-> "none"]
Unlimited == [failures |-> 0, locked |-> FALSE]

KeyvaultTypeOK ==
    /\ disk \in Vault \cup {NoVault}
    /\ setup \in {NoSetup} \cup [kind : {"create"}, vault : Vault]
                 \cup [kind : {"import"}, password : Password]
    /\ exporting \in Seed \cup {NoVault} /\ promoting \in Seed \cup {NoVault}
    /\ limiter \in [failures : 0 .. MaxAttempts + 1, locked : BOOLEAN]
    /\ lockArgs \in Seed \cup {NoVault}
    /\ sources \subseteq Seed /\ generated \subseteq Seed /\ displayed \subseteq Seed
    /\ signed \subseteq Seed \X Seed

KeyvaultInit ==
    /\ disk = NoVault /\ setup = NoSetup /\ exporting = NoVault /\ limiter = Unlimited
    /\ lockArgs = NoVault /\ promoting = NoVault
    /\ sources = {} /\ generated = {} /\ displayed = {} /\ signed = {}

-----------------------------------------------------------------------------
\* Setup.
SetupAllowed == setup = NoSetup /\ disk = NoVault

\* Mutant: the vault is stored before its words are shown.
CreatesFirst ==
    \E s \in Seed \ (generated \cup displayed), p \in Password :
        /\ SetupAllowed
        /\ generated' = generated \cup {s}
        /\ disk' = [seed |-> s, password |-> p]
        /\ setup' = [kind |-> "create", vault |-> [seed |-> s, password |-> p]]
        /\ UNCHANGED <<exporting, limiter, lockArgs, promoting, sources, displayed, signed>>

\* create up to the dialog of the recovery words.
Create ==
    \E s \in Seed \ (generated \cup displayed), p \in Password :
        /\ SetupAllowed
        /\ generated' = generated \cup {s}
        /\ setup' = [kind |-> "create", vault |-> [seed |-> s, password |-> p]]
        /\ UNCHANGED <<disk, exporting, limiter, lockArgs, promoting, sources, displayed, signed>>

\* The dialog is answered: the vault is stored, or the file cannot be written.
CreateEnds ==
    /\ setup.kind = "create"
    /\ setup' = NoSetup
    /\ displayed' = displayed \cup {setup.vault.seed}
    /\ \/ disk = NoVault /\ disk' = setup.vault /\ lockArgs' = setup.vault.seed
       \/ UNCHANGED <<disk, lockArgs>>
    /\ UNCHANGED <<exporting, limiter, promoting, sources, generated, signed>>

\* import up to the clipboard.
Import ==
    \E p \in Password :
        /\ SetupAllowed
        /\ setup' = [kind |-> "import", password |-> p]
        /\ UNCHANGED <<disk, exporting, limiter, lockArgs, promoting, sources, generated,
                       displayed, signed>>

\* The clipboard is read: words the operator holds, made here or elsewhere, or
\* nothing that can be imported.
ImportEnds ==
    /\ setup.kind = "import"
    /\ setup' = NoSetup
    /\ \/ \E s \in displayed \cup (Seed \ generated) :
            /\ disk = NoVault /\ disk' = [seed |-> s, password |-> setup.password]
            /\ lockArgs' = s /\ displayed' = displayed \cup {s}
       \/ UNCHANGED <<disk, lockArgs, displayed>>
    /\ UNCHANGED <<exporting, limiter, promoting, sources, generated, signed>>

-----------------------------------------------------------------------------
\* Passwords.
Miss(l) ==
    LET n == IF l.failures > MaxAttempts THEN l.failures ELSE l.failures + 1
    IN  [failures |-> n, locked |-> n >= MaxAttempts]

\* A channel of the vault is given a password it may try.
Tried(p) == disk # NoVault /\ ~limiter.locked /\ disk.password = p

WrongPassword ==
    /\ disk # NoVault /\ ~limiter.locked
    /\ \E p \in Password : p # disk.password
    /\ limiter' = Miss(limiter)
    /\ UNCHANGED <<disk, setup, exporting, lockArgs, promoting, sources, generated, displayed, signed>>

WindowEnds ==
    /\ limiter.locked
    /\ limiter' = [limiter EXCEPT !.locked = FALSE]
    /\ UNCHANGED <<disk, setup, exporting, lockArgs, promoting, sources, generated, displayed, signed>>

\* Mutant: the vault signs whatever source it is asked for.
OwnsAnything(address) == TRUE

\* The derived lock args are those of the source.
Owns(address) == disk.seed = address

\* signTxInVault for a source wallet of the vault "main".
SignTx ==
    \E a \in sources, p \in Password :
        /\ Tried(p)
        /\ limiter' = Unlimited
        /\ signed' = IF Owns(a) THEN signed \cup {<<a, disk.seed>>} ELSE signed
        /\ UNCHANGED <<disk, setup, exporting, lockArgs, promoting, sources, generated, displayed>>

Export ==
    \E p \in Password :
        /\ Tried(p) /\ exporting = NoVault
        /\ exporting' = disk.seed
        /\ UNCHANGED <<disk, setup, limiter, lockArgs, promoting, sources, generated, displayed, signed>>

\* The dialog is answered; only then is the right password recorded.
ExportEnds ==
    /\ exporting # NoVault
    /\ exporting' = NoVault /\ displayed' = displayed \cup {exporting}
    /\ limiter' = Unlimited
    /\ UNCHANGED <<disk, setup, lockArgs, promoting, sources, generated, signed>>

ChangePassword ==
    \E p, q \in Password :
        /\ Tried(p)
        /\ disk' = [disk EXCEPT !.password = q] /\ limiter' = Unlimited
        /\ UNCHANGED <<setup, exporting, lockArgs, promoting, sources, generated, displayed, signed>>

\* delete, and deleteVault of the renderer's store.
Delete ==
    \E p \in Password :
        /\ Tried(p)
        /\ disk' = NoVault /\ limiter' = Unlimited /\ lockArgs' = NoVault
        /\ UNCHANGED <<setup, exporting, promoting, sources, generated, displayed, signed>>

-----------------------------------------------------------------------------
\* handleUseAsSource takes the address, resolves its script and adds the source.
UseAsSource ==
    /\ lockArgs # NoVault /\ promoting = NoVault
    /\ promoting' = lockArgs
    /\ UNCHANGED <<disk, setup, exporting, limiter, lockArgs, sources, generated, displayed, signed>>

AddSource ==
    /\ promoting # NoVault
    /\ promoting' = NoVault
    /\ sources' \in {sources, sources \cup {promoting}}
    /\ UNCHANGED <<disk, setup, exporting, limiter, lockArgs, generated, displayed, signed>>

RemoveSource ==
    \E a \in sources :
        /\ sources' = sources \ {a}
        /\ UNCHANGED <<disk, setup, exporting, limiter, lockArgs, promoting, generated, displayed, signed>>

\* The store does not persist the address, and refreshStatus does not ask for it.
RestartKeyvault ==
    /\ setup' = NoSetup /\ exporting' = NoVault /\ limiter' = Unlimited
    /\ lockArgs' = NoVault /\ promoting' = NoVault
    /\ UNCHANGED <<disk, sources, generated, displayed, signed>>

KeyvaultNext ==
    \/ Create \/ CreateEnds \/ Import \/ ImportEnds
    \/ WrongPassword \/ WindowEnds \/ SignTx \/ Export \/ ExportEnds
    \/ ChangePassword \/ Delete
    \/ UseAsSource \/ AddSource \/ RemoveSource \/ RestartKeyvault

KeyvaultSpec == KeyvaultInit /\ [][KeyvaultNext]_kvvars

-----------------------------------------------------------------------------
\* Nobody loses money with the device: the words of the vault on disk, of the
\* address on screen and of every source wallet have been before the operator,
\* across restarts during a setup and after the vault itself was deleted.
WordsWereDisplayed ==
    (sources \cup {lockArgs, promoting} \cup {IF disk = NoVault THEN NoVault ELSE disk.seed})
        \subseteq displayed \cup {NoVault}

\* The file is always called "main": a source of a vault deleted since names the
\* vault made after it, which must not sign for that source.
SignsForItsSources == \A x \in signed : x[1] = x[2]

\* A vault is backed up before anything can be paid to it, and signs for no
\* address but its own, whatever vaults there were before (keyvault-host.ts,
\* create and signTxInVault).
VaultIsBackedUp == WordsWereDisplayed /\ SignsForItsSources

=============================================================================
