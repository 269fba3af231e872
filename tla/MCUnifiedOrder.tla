--------------------------- MODULE MCUnifiedOrder ---------------------------
(* Small instances of UnifiedOrder: the events of the channel come in the  *)
(* order of their numbers.                                                 *)
EXTENDS UnifiedOrder, FiniteSets

InOrderOfEvents == seen' = seen \/ \A d \in seen' \ seen : d = Cardinality(seen')

(* The hub is told of orders nothing is executed for.                      *)
HubAside == (\A d \in Digests : hub'[d].attempt = 0) \/ (\A d \in Digests : mapping'[d].status = "none")

OrderInScope == InOrderOfEvents /\ HubAside

(* A short life: an order is accepted, dispatched, and comes back, and the *)
(* desk leaves its packages alone.                                         *)
ComesBack == external'.status \in {"accepted", "return-requested", "rto"} /\ external'.mapped
ComingBackSpec ==
    /\ UnifiedInit
    /\ [][UnifiedNext /\ OrderInScope /\ ComesBack]_unifiedVars
    /\ Diligence
=============================================================================
