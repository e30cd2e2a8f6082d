--------------------------- MODULE DeliveryLifecycle ---------------------------
(***************************************************************************)
(* What a webhook delivery promises its owner: it is queued once, waits    *)
(* through any number of attempts, is then delivered or failed; only a     *)
(* failed delivery can be queued again, and a delivered one stays so.      *)
(* When two parties work on a queued or a failed delivery at once, all     *)
(* that is promised is that it ends up queued, delivered or failed.        *)
(***************************************************************************)
CONSTANT Deliveries

VARIABLE phase

Outcomes == {"queued", "delivered", "failed"}
Phases   == Outcomes \cup {"none", "contended", "removed"}

Init == phase = [d \in Deliveries |-> "none"]

Move(d, from, to) ==
  /\ phase[d] = from
  /\ phase' = [phase EXCEPT ![d] = to]

(* A subscription takes its deliveries with it when it is deleted.         *)
Remove(D) ==
  /\ \A d \in D : phase[d] # "none"
  /\ phase' = [d \in Deliveries |-> IF d \in D THEN "removed" ELSE phase[d]]

(* Somebody starts to work on deliveries that others work on.              *)
Overlap(D) ==
  /\ \A d \in D : phase[d] \in {"queued", "failed"}
  /\ phase' = [d \in Deliveries |-> IF d \in D THEN "contended" ELSE phase[d]]

(* The last of those who worked on each delivery of D is done.             *)
Settle(D, outcome) ==
  /\ \A d \in D : phase[d] = "contended"
  /\ phase' = [d \in Deliveries |-> IF d \in D THEN outcome[d] ELSE phase[d]]

Next ==
  \/ \E d \in Deliveries : \/ Move(d, "none", "queued")
                           \/ Move(d, "queued", "delivered")
                           \/ Move(d, "queued", "failed")
                           \/ Move(d, "failed", "queued")
  \/ \E D \in SUBSET Deliveries :
       Remove(D) \/ Overlap(D) \/ \E outcome \in [D -> Outcomes] : Settle(D, outcome)

Spec == Init /\ [][Next]_phase
=============================================================================
