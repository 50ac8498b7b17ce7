---------------------------- MODULE MCChatStream ----------------------------
(***************************************************************************)
(* ChatStream on a small instance.                                         *)
(***************************************************************************)
EXTENDS ChatStream

Budget(f, c, k, e, r) ==
  [frames |-> f, connects |-> c, crashes |-> k, errors |-> e, revokes |-> r]

\* Long runs watched over a reconnect; a crash and a failed read; a revocation.
MCBudgets == {Budget(3, 2, 0, 0, 0), Budget(2, 2, 1, 1, 0), Budget(2, 1, 0, 1, 1)}
=============================================================================
