------------------------------ MODULE MCDesktop ------------------------------
(* Six components that share no state, checked in one run: each behaviour is   *)
(* one of a single component, the others staying as they were initially.       *)
EXTENDS SignDesk, CommSetup, LightClient, NetworkSwitch, MobileCapture, ComplianceExport, TLC

CONSTANTS ScriptA, ScriptB,
          OnCkb, OnEvm   \* payments in the books

VARIABLE part

MCMade == ScriptA :> 0 @@ ScriptB :> 1
MCSpent == ScriptA :> 1 @@ ScriptB :> 1
MCPacketTexts == TransferPacket
MCChainOf == OnCkb :> "ckb" @@ OnEvm :> "evm"
MCDayOf == OnCkb :> 1 @@ OnEvm :> 2

Init ==
    /\ part \in {"sign-desk", "comm-setup", "light-client", "network", "mobile", "books"}
    /\ DeskInit /\ SetupInit /\ LcInit /\ NetInit /\ MobileInit /\ BooksInit

Next ==
    /\ part' = part
    /\ \/ part = "sign-desk" /\ UNCHANGED <<setupVars, lcVars, netVars, mobileVars, bookvars>>
          /\ DeskNext
       \/ part = "comm-setup" /\ UNCHANGED <<deskvars, lcVars, netVars, mobileVars, bookvars>>
          /\ SetupNext
       \/ part = "light-client" /\ UNCHANGED <<deskvars, setupVars, netVars, mobileVars, bookvars>>
          /\ LcNext
       \/ part = "network" /\ UNCHANGED <<deskvars, setupVars, lcVars, mobileVars, bookvars>>
          /\ NetNext
       \/ part = "mobile" /\ UNCHANGED <<deskvars, setupVars, lcVars, netVars, bookvars>>
          /\ MobileNext
       \/ part = "books" /\ UNCHANGED <<deskvars, setupVars, lcVars, netVars, mobileVars>>
          /\ BooksNext

vars == <<part, deskvars, setupVars, lcVars, netVars, mobileVars, bookvars>>

Spec == Init /\ [][Next]_vars

\* The types of the state of the component that moves.
TypeOK ==
    /\ part = "sign-desk" => DeskTypeOK
    /\ part = "comm-setup" => SetupTypeOK
    /\ part = "light-client" => LcTypeOK
    /\ part = "network" => NetTypeOK
    /\ part = "mobile" => MobileTypeOK
    /\ part = "books" => BooksTypeOK

=============================================================================
