---------------------------- MODULE MCRetailPos -----------------------------
(* Finite instances of RetailPos.  The second spelling of the first key has *)
(* a doubled blank inside, which clean() collapses.                         *)
EXTENDS RetailPos, TLC

CONSTANTS ann, bob, cat, main, walkIn, named, s1, s2, c1

MCKeys == {"key a", "key b"}
MCRawKeys == MCKeys \cup {"key  a"}
MCCleanKey == [k \in MCRawKeys |-> IF k = "key  a" THEN "key a" ELSE k]
MCCounterOf == [s \in Shifts |-> main]
MCCreditLimit == [c \in Customers |-> IF c = named THEN 2 ELSE None]
MCReferences == {"note 1", "note 2", "pay 1"} \cup Credits

Tendering(method, amount, reference) ==
    [method |-> method, amount |-> amount, reference |-> reference]

CashSale == [customer |-> walkIn, quantity |-> 1,
             tenders |-> <<Tendering("cash", 1, "note 1")>>]
SplitSale == [customer |-> walkIn, quantity |-> 2,
              tenders |-> <<Tendering("cash", 1, "note 2"),
                            Tendering("upi", 1, "pay 1")>>]
ReusedReferenceSale == [customer |-> walkIn, quantity |-> 2,
              tenders |-> <<Tendering("cash", 1, "note 1"),
                            Tendering("cash", 1, "note 2")>>]
CreditSale == [customer |-> named, quantity |-> 2,
               tenders |-> <<Tendering("customer-credit", 2, "note 2")>>]

LargeCashSale == [customer |-> walkIn, quantity |-> 2,
                  tenders |-> <<Tendering("cash", 2, "note 2")>>]
CashRequests == {CashSale, LargeCashSale}
PlainKeys == [k \in MCKeys |-> k]
People == Permutations(Actors)
=============================================================================
