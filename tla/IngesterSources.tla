---------------------------- MODULE IngesterSources ----------------------------
(***************************************************************************)
(* The parts of the ingester around the pipeline: the Horizon stream, the  *)
(* Soroban polling and the wallet tracker.  They run in one process but    *)
(* share no state (the health record has one flag for each), so a          *)
(* behaviour of one is a behaviour of the three with the others at rest:   *)
(* part chooses the one that runs.                                         *)
(***************************************************************************)
EXTENDS HorizonStream, SorobanPolling, WalletSync

VARIABLE part

vars == <<part, horizonVars, sorobanVars, walletVars>>

Init ==
  /\ part \in {"horizon", "soroban", "wallets"}
  /\ HorizonInit /\ SorobanInit /\ WalletInit

HorizonStep ==
  part = "horizon" /\ HorizonNext /\ UNCHANGED <<part, sorobanVars, walletVars>>
SorobanStep ==
  part = "soroban" /\ SorobanNext /\ UNCHANGED <<part, horizonVars, walletVars>>
WalletStep ==
  part = "wallets" /\ WalletNext /\ UNCHANGED <<part, horizonVars, sorobanVars>>

Next == HorizonStep \/ SorobanStep \/ WalletStep

Spec ==
  /\ Init /\ [][Next]_vars
  /\ part = "horizon" => HorizonFairness
  /\ part = "soroban" => SorobanFairness

(* updateHealth: the status the health server answers with.                *)
HealthStatus ==
  IF horizonConnected /\ sorobanPolling THEN "healthy"
  ELSE IF horizonConnected \/ sorobanPolling THEN "degraded" ELSE "unhealthy"

-----------------------------------------------------------------------------
(* Capture goes on after every error: a Horizon stream comes back and what *)
(* it sees is queued, and the Soroban polling reaches every event but in   *)
(* the three cases of Stalled.                                             *)
CaptureGoesOn ==
  /\ part = "horizon" => HorizonComesBack
  /\ part = "soroban" => SorobanCatchesUp
=============================================================================
