------------------------------ MODULE EventHandoff ------------------------------
(***************************************************************************)
(* What the ingester promises about one on-chain event: it is stored once, *)
(* and after that announced to live subscribers at most once and queued    *)
(* for downstream processing at most once, in that order.                  *)
(***************************************************************************)
EXTENDS Naturals

CONSTANT Tokens

VARIABLES stored, announced, queued

Init ==
  /\ stored = [p \in Tokens |-> FALSE]
  /\ announced = [p \in Tokens |-> 0]
  /\ queued = [p \in Tokens |-> 0]

Store(p) ==
  /\ ~stored[p]
  /\ stored' = [stored EXCEPT ![p] = TRUE]
  /\ UNCHANGED <<announced, queued>>

Announce(p) ==
  /\ stored[p] /\ announced[p] = 0 /\ queued[p] = 0
  /\ announced' = [announced EXCEPT ![p] = 1]
  /\ UNCHANGED <<stored, queued>>

HandOff(p) ==
  /\ stored[p] /\ queued[p] = 0
  /\ queued' = [queued EXCEPT ![p] = 1]
  /\ UNCHANGED <<stored, announced>>

Next == \E p \in Tokens : Store(p) \/ Announce(p) \/ HandOff(p)

Spec == Init /\ [][Next]_<<stored, announced, queued>>
=============================================================================
