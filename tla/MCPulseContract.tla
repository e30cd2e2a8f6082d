--------------------------- MODULE MCPulseContract ---------------------------
(* Small instance of PulseContract: two addresses; the committee of both    *)
(* and a list with the same signer twice, which set_signers must refuse.   *)
EXTENDS PulseContract, TLC

CONSTANTS alice, bob

MCSignerLists == {<<bob, alice>>, <<alice, alice>>}
=============================================================================
