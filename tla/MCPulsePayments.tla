--------------------------- MODULE MCPulsePayments ---------------------------
(* Small instance of PulsePayments: two addresses, two tokens, rate limits *)
(* switched off (Intervals holds only 0).                                  *)
EXTENDS PulsePayments, TLC

CONSTANTS alice, bob

MCSignerLists == {}
MCAmounts == {0, 1}
MCBatches == LET entries == Accounts \X Amounts
             IN  {<<e>> : e \in entries} \cup (entries \X entries)
=============================================================================
