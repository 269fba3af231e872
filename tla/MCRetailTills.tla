---------------------------- MODULE MCRetailTills ----------------------------
(* Small instances of the till, its returns and its exchanges.  Each       *)
(* behaviour tells one of four stories about the same counter, so that     *)
(* their state spaces add up instead of multiplying.                       *)
EXTENDS MCRetailExchange

VARIABLE story

tillsVars == <<exchangeVars, story>>

TillRequests == CashRequests \cup BridgeRequests \cup SplitRequests

Used(f) == Cardinality({x \in DOMAIN f : f[x].status # "none"})
SellsOnly(requests) == \A n \in DOMAIN sales' : sales'[n].request \in requests
OpensWith(cash) ==
    \A s \in Shifts : shift'[s].status # "none" => shift'[s].opening = cash

(* Tills where only cash is counted and only the close reconciles it.      *)
TillStep(a) ==
    \/ \E s \in Shifts, cash \in OpeningCash : OpenRetailCashierShift(s, cash, a)
    \/ CounterStep(a)
CashCloseStep(a) ==
    \E s \in Shifts : \/ \E counted \in Counts : RequestRetailCashierShiftClose(s, counted, << >>, a)
                      \/ ApproveShiftClose(s, a)
                      \/ RejectShiftClose(s, a)
RefundStep(a) ==
    \/ \E r \in Returns : ReturnStep(r, a)
    \/ \E x \in Settlements : SettlementStep(x, a)

(* Two consecutive shifts of one drawer, and every way to close them.      *)
ShiftStory ==
    /\ story = "shifts"
    /\ Next /\ UNCHANGED <<ret, exchange>>
    /\ SellsOnly(CashRequests) /\ OpensWith(1)

(* A cash refund out of either drawer while it is counted, reviewed and    *)
(* reopened.                                                               *)
DrawerStory ==
    /\ story = "drawers"
    /\ \E a \in Actors : \/ (TillStep(a) \/ CashCloseStep(a)) /\ UNCHANGED ret
                         \/ RefundStep(a)
    /\ UNCHANGED exchange
    /\ SellsOnly(DrawerRequests) /\ Len(sales') <= 1 /\ OpensWith(0)
    /\ Used(ret') <= 1 /\ Used(settlement') <= 1
    /\ \A x \in Settlements : settlement'[x].method = "cash"

(* Returns of one sale and settlements competing for its two rails.        *)
RefundStory ==
    /\ story = "refunds"
    /\ \E a \in Actors : \/ TillStep(a) /\ UNCHANGED ret
                         \/ RefundStep(a)
    /\ UNCHANGED exchange
    /\ SellsOnly(SplitRequests) /\ Len(sales') <= 1 /\ OpensWith(0)
    /\ shift'[s2] = NoShift
    /\ Used(ret') + Used(settlement') <= 3
    /\ \A x \in Settlements : settlement'[x].method # "store-credit"

(* A return exchanged or refunded, a shortfall topped up in cash at a till *)
(* that may be closing, and its credits spent there.                       *)
ExchangeStory ==
    /\ story = "exchange"
    /\ \E a \in Actors : \/ (TillStep(a) \/ CashCloseStep(a)) /\ UNCHANGED <<ret, exchange>>
                         \/ RefundStep(a) /\ UNCHANGED exchange
                         \/ \E e \in Exchanges : ExchangeStep(e, a)
    /\ SellsOnly(BridgeRequests) /\ OpensWith(0)
    /\ shift'[s2] = NoShift /\ ret'[r2] = NoReturn

TillsInit == ExchangeInit /\ story \in {"shifts", "drawers", "refunds", "exchange"}
TillsNext == /\ UNCHANGED story
             /\ ShiftStory \/ DrawerStory \/ RefundStory \/ ExchangeStory
TillsSpec == TillsInit /\ [][TillsNext]_tillsVars
=============================================================================
