--------------------------- MODULE MCIngesterSources ---------------------------
(* A small instance of IngesterSources.                                     *)
EXTENDS IngesterSources

CONSTANTS w1, w2, alice

(* Two users watch one account.                                             *)
Watched == [w \in Wallets |-> alice]

(* Two ledgers in a row hold as many events as an answer, and one none.     *)
Ledgers == <<1, 2, 2, 3, 5>>
=============================================================================
