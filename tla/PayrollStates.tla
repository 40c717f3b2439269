---------------------------- MODULE PayrollStates ----------------------------
(***************************************************************************)
(* The state graph of a payroll batch (lib/payroll/state-machine.ts): the  *)
(* thirteen states, the table of allowed transitions as a set of edges,    *)
(* and the predicates the stores and the UI ask of it.                     *)
(***************************************************************************)

BatchState ==
  { "draft", "calculated", "approved", "broadcast_countdown",
    "broadcast_initiating", "broadcast_failed", "broadcasted", "confirmed",
    "posting", "posted", "post_failed", "failed", "cancelled" }

\* TRANSITIONS, one pair per (from, to).
Edges ==
  { <<"draft", "calculated">>, <<"draft", "cancelled">>,
    <<"calculated", "approved">>, <<"calculated", "draft">>,
    <<"calculated", "cancelled">>,
    <<"approved", "broadcasted">>, <<"approved", "broadcast_countdown">>,
    <<"approved", "calculated">>, <<"approved", "cancelled">>,
    <<"broadcast_countdown", "broadcast_initiating">>,
    <<"broadcast_countdown", "broadcast_failed">>,
    <<"broadcast_countdown", "approved">>,
    <<"broadcast_countdown", "cancelled">>,
    <<"broadcast_initiating", "broadcasted">>,
    <<"broadcast_initiating", "broadcast_failed">>,
    <<"broadcast_failed", "broadcast_countdown">>,
    <<"broadcast_failed", "approved">>, <<"broadcast_failed", "cancelled">>,
    <<"broadcasted", "confirmed">>, <<"broadcasted", "failed">>,
    <<"confirmed", "posting">>,
    <<"posting", "posted">>, <<"posting", "post_failed">>,
    <<"post_failed", "posting">> }

terminalStates == {"posted", "failed", "cancelled"}

canTransition(from, to) == from # to /\ <<from, to>> \in Edges

=============================================================================
