-------------------------- MODULE MCPayrollPayments --------------------------
EXTENDS PayrollPayments, TLC
AllValid == {[slot |-> s, sig |-> s] : s \in Slot}

\* Moves the operator makes in the ordinary course of a payment.
OrdinaryMoves ==
  { <<"draft", "calculated">>, <<"calculated", "cancelled">>,
    <<"approved", "calculated">>, <<"approved", "cancelled">>,
    <<"broadcast_countdown", "approved">>, <<"broadcast_failed", "approved">>,
    <<"broadcast_failed", "cancelled">>,
    <<"broadcasted", "confirmed">>, <<"broadcasted", "failed">> }

\* Confirming is the only button: two batches make the rest large.
ConfirmMoves == {<<"broadcasted", "confirmed">>}

DigestSymmetry == Permutations(Digest)

ValidOrJunk == AllValid \union {[slot |-> 1, sig |-> Junk]}

\* Every button but the one that re-enters posting without posting.
BookkeepingMoves == Edges \ {<<"post_failed", "posting">>, <<"confirmed", "posting">>}
=============================================================================
