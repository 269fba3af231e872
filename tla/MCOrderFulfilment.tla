-------------------------- MODULE MCOrderFulfilment --------------------------
(* Small instances of OrderFulfilment: two warehouses, the first with a    *)
(* bin to receive into, a bin to sell from and one in quarantine.  Papers  *)
(* are rationed: a behaviour has an order with up to five of reservations, *)
(* picks, packages and returns (four once the order is closed), or fewer   *)
(* of them beside a transfer, a count, a putaway, a loss or a movement.    *)
(* Stock lies in quarantine where nothing is promised from yet.  An order  *)
(* of an outside channel is another desk: what is not on a behaviour's     *)
(* desk keeps its initial state and the two state spaces add up.           *)
EXTENDS OrderFulfilment, MCUnifiedOrder

CONSTANTS w1, w2, recv, stor, quar, far

MCWarehouseOf == [b \in Bins |-> IF b = far THEN w2 ELSE w1]
MCPurpose == [b \in Bins |-> CASE b = recv -> "receiving"
                               [] b = quar -> "quarantine"
                               [] OTHER -> "storage"]

Used(f) == Cardinality({x \in DOMAIN f : f[x].status # "none"})
OrderPapers == Used(reservation') + Used(pick') + Used(package') + Used(rma')
                 + (IF order' = "closed" THEN 1 ELSE 0)
StockPapers == 3 * (Used(putaway') + Used(cycleCount') + Used(disposition') + movements')
                 + 2 * Used(transfer')

InQuarantine ==
    \/ bin'[quar].quantity > 0
    \/ \E c \in Counts : cycleCount'[c].bin = quar
    \/ \E d \in Dispositions : disposition'[d].bin = quar
    \/ \E t \in Transfers : quar \in {transfer'[t].from, transfer'[t].to}

InScope ==
    /\ OrderPapers + StockPapers <= 5
    /\ MapThenSumSet(LAMBDA b : bin'[b].quantity, Bins) <= MaxStock
    /\ InQuarantine => OrderPapers = 0 /\ StockPapers <= 3

VARIABLE desk

WarehouseDesk == desk = "warehouse" /\ FulfilmentNext /\ InScope /\ UNCHANGED unifiedVars
ChannelDesk == desk = "channel" /\ UnifiedNext /\ OrderInScope /\ UNCHANGED fulfilmentVars

MCInit == FulfilmentInit /\ UnifiedInit /\ desk \in {"warehouse", "channel"}
MCNext == UNCHANGED desk /\ (WarehouseDesk \/ ChannelDesk)
MCSpec == MCInit /\ [][MCNext]_<<fulfilmentVars, unifiedVars, desk>>

Symmetry == Permutations(Reservations) \cup Permutations(Packages)
              \cup Permutations(Picks) \cup Permutations(Returns)
=============================================================================
