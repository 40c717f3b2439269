------------------------------- MODULE MCChains -------------------------------
(* Seven components that share no state, checked in one run: each behaviour is   *)
(* one of a single component, the others staying as they were initially.       *)
EXTENDS SafePayments, SolanaPayments, BitcoinWatch, SolanaWatch, Invoices, Keyvault, CkbBuild, TLC

VARIABLE part

MCBatchMoves == { <<"draft", "cancelled">>, <<"draft", "calculated">>,
                  <<"calculated", "approved">>, <<"approved", "broadcasted">>,
                  <<"broadcasted", "confirmed">>, <<"confirmed", "posting">> }
MCOrders == {<<5>>, <<5, 4>>, <<8, 8>>}
MCSymmetry == Permutations(Payments) \cup Permutations(Owners)

Init ==
    /\ part \in {"safe", "solana", "bitcoin-watch", "solana-watch", "invoices",
               "keyvault", "ckb"}
    /\ SafeInit /\ SolInit /\ BtcWatchInit /\ SolWatchInit /\ InvoicesInit
    /\ KeyvaultInit /\ CkbInit /\ (part # "ckb" => lock = "multisig")

Next ==
    /\ part' = part
    /\ \/ part = "safe" /\ SafeNext
          /\ UNCHANGED <<solvars, btcwatchvars, solwatchvars, invoiceVars, kvvars, ckbvars>>
       \/ part = "solana" /\ SolNext
          /\ UNCHANGED <<safevars, btcwatchvars, solwatchvars, invoiceVars, kvvars, ckbvars>>
       \/ part = "bitcoin-watch" /\ BtcWatchNext
          /\ UNCHANGED <<safevars, solvars, solwatchvars, invoiceVars, kvvars, ckbvars>>
       \/ part = "solana-watch" /\ SolWatchNext
          /\ UNCHANGED <<safevars, solvars, btcwatchvars, invoiceVars, kvvars, ckbvars>>
       \/ part = "invoices" /\ InvoicesNext
          /\ UNCHANGED <<safevars, solvars, btcwatchvars, solwatchvars, kvvars, ckbvars>>
       \/ part = "keyvault" /\ KeyvaultNext
          /\ UNCHANGED <<safevars, solvars, btcwatchvars, solwatchvars, invoiceVars, ckbvars>>
       \/ part = "ckb" /\ CkbNext
          /\ UNCHANGED <<safevars, solvars, btcwatchvars, solwatchvars, invoiceVars, kvvars>>

vars == <<part, safevars, solvars, btcwatchvars, solwatchvars, invoiceVars, kvvars, ckbvars>>

Spec == Init /\ [][Next]_vars

\* The types of the state of the component that moves.
TypeOK ==
    /\ part = "safe" => SafeTypeOK
    /\ part = "solana" => SolTypeOK
    /\ part = "bitcoin-watch" => BtcWatchTypeOK
    /\ part = "solana-watch" => SolWatchTypeOK
    /\ part = "invoices" => InvoicesTypeOK
    /\ part = "keyvault" => KeyvaultTypeOK
    /\ part = "ckb" => CkbTypeOK

=============================================================================
