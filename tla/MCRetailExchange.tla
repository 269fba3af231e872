-------------------------- MODULE MCRetailExchange --------------------------
(* Finite instances of RetailExchange over the returns of MCRetailReturns.  *)
EXTENDS MCRetailReturns, RetailExchange

CONSTANTS e1, e2

MCExchangeKey == [e \in Exchanges |-> IF e = e1 THEN "exchange a" ELSE "exchange b"]
TillKeys == MCKeys \cup {"exchange a", "exchange b"}
ExchangeKeys == OneKey \cup {"exchange a", "exchange b"}
PairCashSale == [customer |-> named, quantity |-> 2,
                 tenders |-> <<Tendering("cash", 2, "note 1")>>]
NamedCashSale == [customer |-> named, quantity |-> 1,
                  tenders |-> <<Tendering("cash", 1, "note 1")>>]
BridgeRequests == {NamedCashSale} \cup {CreditTenderSale(c) : c \in Credits}
PairRequests == {PairCashSale}
MCTopUps == {<< >>, <<Tendering("cash", 1, "note 2")>>}
=============================================================================
