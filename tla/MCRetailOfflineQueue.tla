------------------------ MODULE MCRetailOfflineQueue ------------------------
(* Finite instances of RetailOfflineQueue over the till of MCRetailPos.     *)
EXTENDS MCRetailPos, RetailOfflineQueue

CONSTANTS i1, i2

OfflineMix == {CashSale, ReusedReferenceSale, CreditSale}
PaddedKeys == {"key a", "key  a"}
PlainKey == {"key a"}
PaddedClean == [k \in PaddedKeys |-> "key a"]
=============================================================================
