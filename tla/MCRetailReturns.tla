-------------------------- MODULE MCRetailReturns ---------------------------
(* Finite instances of RetailReturns over the tills of MCRetailPos.         *)
EXTENDS MCRetailPos, RetailReturns

CONSTANTS r1, r2, x1, x2, c2

(* A sale of two units paid partly in cash and partly on the UPI rail.      *)
NamedSplitSale == [customer |-> named, quantity |-> 2,
                   tenders |-> <<Tendering("cash", 1, "note 1"),
                                 Tendering("upi", 1, "pay 1")>>]
CreditTenderSale(c) == [customer |-> named, quantity |-> 1,
                        tenders |-> <<Tendering("store-credit", 1, c)>>]
OneKey == {"key a"}
OneKeyClean == [k \in OneKey |-> k]

Cases == Permutations(Actors) \cup Permutations(Returns)
           \cup Permutations(Settlements)

SplitRequests == {NamedSplitSale}
DrawerRequests == {CashSale}
=============================================================================
