------------------------------- MODULE DeliveryLog -------------------------------
(***************************************************************************)
(* The delivery log of the webhooks page: one webhook is expanded at a     *)
(* time, its log is loaded once and kept, and all loads share one          *)
(* deliveryLoading and one deliveryError.                                  *)
(*                                                                         *)
(* The code as it is: the first answer ends the skeleton of all loads, an  *)
(* error of one webhook's load shows under another, and stays when one     *)
(* whose log is kept is expanded; a kept log is never renewed, whatever    *)
(* the worker does.                                                        *)
(***************************************************************************)
EXTENDS Integers, FiniteSets

CONSTANTS
  Webhooks,        \* the webhooks listed
  Collapsed,       \* no webhook is expanded, no error
  MaxLogLoads      \* bound: loads

ASSUME LogAssumption == Collapsed \notin Webhooks /\ MaxLogLoads \in Nat

VARIABLES
  expandedId,
  deliveriesByWebhook,   \* the webhooks whose log is kept
  deliveryLoading,
  deliveryError,         \* the webhook whose load failed last, or Collapsed
  logLoads,              \* loads under way, [id, n]
  logLoadsSent

logVars == <<expandedId, deliveriesByWebhook, deliveryLoading, deliveryError,
             logLoads, logLoadsSent>>

LogInit ==
  /\ expandedId = Collapsed /\ deliveriesByWebhook = {}
  /\ deliveryLoading = FALSE /\ deliveryError = Collapsed
  /\ logLoads = {} /\ logLoadsSent = 0

(* The panel of the expanded webhook.                                      *)
LogView ==
  IF expandedId = Collapsed THEN {}
  ELSE (IF deliveryError # Collapsed THEN {"error"} ELSE {})
       \cup (IF deliveryLoading THEN {"skeleton"}
             ELSE IF expandedId \in deliveriesByWebhook THEN {"log"} ELSE {})

LoadDeliveries(id) ==
  IF id \in deliveriesByWebhook
  THEN UNCHANGED <<deliveryLoading, deliveryError, logLoads, logLoadsSent>>
  ELSE /\ logLoadsSent < MaxLogLoads /\ logLoadsSent' = logLoadsSent + 1
       /\ deliveryLoading' = TRUE /\ deliveryError' = Collapsed
       /\ logLoads' = logLoads \cup {[id |-> id, n |-> logLoadsSent + 1]}

ToggleExpanded(id) ==
  /\ IF expandedId = id
     THEN /\ expandedId' = Collapsed
          /\ UNCHANGED <<deliveryLoading, deliveryError, logLoads, logLoadsSent>>
     ELSE expandedId' = id /\ LoadDeliveries(id)
  /\ UNCHANGED deliveriesByWebhook

(* The answer of the route, or a failure of the request; a webhook that    *)
(* was deleted is one (404).                                               *)
LogAnswer(l) ==
  /\ l \in logLoads /\ logLoads' = logLoads \ {l}
  /\ deliveryLoading' = FALSE
  /\ \/ deliveriesByWebhook' = deliveriesByWebhook \cup {l.id} /\ UNCHANGED deliveryError
     \/ deliveryError' = l.id /\ UNCHANGED deliveriesByWebhook
  /\ UNCHANGED <<expandedId, logLoadsSent>>

LogNext ==
  \/ \E id \in Webhooks : ToggleExpanded(id)
  \/ \E l \in logLoads : LogAnswer(l)

-----------------------------------------------------------------------------
(* The panel is never empty with nothing on its way: the log is shown, or  *)
(* an error, or its load is under way.                                     *)
LogShown ==
  expandedId # Collapsed =>
    LogView # {} \/ \E l \in logLoads : l.id = expandedId
=============================================================================
