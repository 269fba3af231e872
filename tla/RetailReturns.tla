--------------------------- MODULE RetailReturns ----------------------------
(***************************************************************************)
(* Counter returns (src/domain/retail-returns.ts) beside the till whose    *)
(* sales, drawers and store credits they touch: a return is requested,     *)
(* inspected and independently approved; approval puts the goods back and  *)
(* freezes a financial credit, which settlements then draw down as cash    *)
(* from a live drawer, a refund through the provider, or store credit.     *)
(*                                                                         *)
(* A return has one line of the till's one item.  A command names the      *)
(* version it read; one that reads an old version is refused, and one that *)
(* repeats an accepted key returns the state as it is, so neither appears. *)
(* The tax split of the credit and its journals are not modelled.          *)
(***************************************************************************)
EXTENDS RetailPos

CONSTANTS WalkIn    \* the counter's walk-in account

VARIABLE ret        \* return cases, each with its financial credit

returnVars == <<vars, ret>>

NoReturn == [status |-> "none", sale |-> 0, quantity |-> 0,
             requestedBy |-> None, inspectedBy |-> None, approvedBy |-> None,
             outcome |-> "none", creditVersion |-> 0]

Return == [status : {"none", "requested", "inspected", "approved", "rejected"},
           sale : Nat, quantity : Nat, requestedBy : Actors \cup {None},
           inspectedBy : Actors \cup {None}, approvedBy : Actors \cup {None},
           outcome : {"none", "resalable", "isolated"},
           creditVersion : Nat]

ReturnInit == Init /\ ret = [r \in Returns |-> NoReturn]

Spent == {"cash-refunded", "provider-refunded", "store-credit-issued"}
Reserved == {"requested", "provider-refund-pending"}

Issued(r) ==
    IF ret[r].status = "approved" THEN UnitPrice * ret[r].quantity ELSE 0

SettledAs(r, statuses) ==
    MapThenSumSet(LAMBDA x : settlement[x].amount,
        {x \in Settlements : /\ settlement[x].return = r
                             /\ settlement[x].status \in statuses})

(* creditWithBalances. *)
Available(r) == Issued(r) - SettledAs(r, Spent) - SettledAs(r, Reserved)

-----------------------------------------------------------------------------
(* The return case.                                                        *)

ReturnedQuantity(n) ==
    MapThenSumSet(LAMBDA r : ret[r].quantity,
        {r \in Returns : ret[r].sale = n /\ ret[r].status # "rejected"})

CreateRetailReturnRequest(r, n, quantity, a) ==
    /\ ret[r].status = "none"
    /\ ReturnedQuantity(n) + quantity <= sales[n].request.quantity
    /\ ret' = [ret EXCEPT ![r] = [@ EXCEPT !.status = "requested",
         !.sale = n, !.quantity = quantity, !.requestedBy = a]]
    /\ UNCHANGED vars

InspectRetailReturn(r, outcome, a) ==
    /\ ret[r].status = "requested"
    /\ ret' = [ret EXCEPT ![r] = [@ EXCEPT !.status = "inspected",
         !.inspectedBy = a, !.outcome = outcome]]
    /\ UNCHANGED vars

(* Resalable goods go back to the counter's bin; quarantined and damaged   *)
(* ones are isolated from it.                                              *)
DecideRetailReturn(r, decision, a) ==
    /\ ret[r].status = "inspected"
    /\ a \notin {ret[r].requestedBy, ret[r].inspectedBy}
    /\ IF decision = "approved"
       THEN /\ ret' = [ret EXCEPT ![r] = [@ EXCEPT !.status = "approved",
                 !.approvedBy = a, !.creditVersion = 1]]
            /\ stock' = IF ret[r].outcome = "resalable"
                        THEN stock + ret[r].quantity ELSE stock
       ELSE /\ ret' = [ret EXCEPT ![r] = [@ EXCEPT !.status = "rejected"]]
            /\ UNCHANGED stock
    /\ UNCHANGED <<shift, expectedCash, sales, receipts, credit, settlement,
                   owed, varianceJournals, drawer>>

-----------------------------------------------------------------------------
(* Settlements of an approved return's credit.                             *)

(* activeSettlementExposure. *)
Exposure(n, m) ==
    MapThenSumSet(LAMBDA x : settlement[x].amount,
        {x \in Settlements :
           /\ settlement[x].method = m
           /\ settlement[x].status \in Spent \cup Reserved
           /\ ret[settlement[x].return].sale = n})

(* Mutant: only what was already paid back counts against the tender. *)
CapacityAgainstPaid(r, m, amount) ==
    MapThenSumSet(LAMBDA x : settlement[x].amount,
        {x \in Settlements :
           /\ settlement[x].method = m
           /\ settlement[x].status \in Spent
           /\ ret[settlement[x].return].sale = ret[r].sale}) + amount
      <= TenderedBy(sales[ret[r].sale].request, m)

TenderCapacity(r, m, amount) ==
    Exposure(ret[r].sale, m) + amount <= TenderedBy(sales[ret[r].sale].request, m)

DrawerOpenFor(r, s) ==
    /\ s \in Shifts
    /\ shift[s].status = "open"
    /\ CounterOf[s] = CounterOf[sales[ret[r].sale].shift]

(* Cash comes from a drawer its cashier controls, the provider's refund    *)
(* goes back the way the money came, store credit to a named customer.     *)
SettlementAllowed(r, method, amount, s, a) ==
    CASE method = "cash" -> /\ DrawerOpenFor(r, s)
                            /\ shift[s].cashier = a
                            /\ TenderCapacity(r, "cash", amount)
      [] method \in {"upi", "card"} -> s = None /\ TenderCapacity(r, method, amount)
      [] method = "store-credit" -> /\ s = None
                                    /\ sales[ret[r].sale].request.customer # WalkIn

RequestRetailReturnSettlement(x, r, method, amount, s, a) ==
    /\ ret[r].status = "approved"
    /\ settlement[x].status = "none"
    /\ amount <= Available(r)
    /\ SettlementAllowed(r, method, amount, s, a)
    /\ settlement' = [settlement EXCEPT ![x] = [@ EXCEPT !.status = "requested",
         !.return = r, !.method = method, !.amount = amount, !.shift = s,
         !.requestedBy = a]]
    /\ ret' = [ret EXCEPT ![r] = [ret[r] EXCEPT !.creditVersion = @ + 1]]
    /\ UNCHANGED <<shift, expectedCash, sales, receipts, credit, stock, owed,
                   varianceJournals, drawer>>

(* Mutant: the drawer looked at when the refund is asked for, not when it  *)
(* is paid.                                                                *)
PayCashFromRequestedDrawer(x, a) ==
    /\ settlement[x].method = "cash"
    /\ settlement' = [settlement EXCEPT ![x] = [@ EXCEPT
         !.status = "cash-refunded", !.decidedBy = a]]
    /\ drawer' = [drawer EXCEPT ![settlement[x].shift] = @ - settlement[x].amount]
    /\ UNCHANGED credit

(* An approved cash refund leaves the drawer it was requested from, which  *)
(* must still be open; nothing asks whether the drawer holds the amount.   *)
PayCash(x, a) ==
    /\ settlement[x].method = "cash"
    /\ DrawerOpenFor(settlement[x].return, settlement[x].shift)
    /\ settlement' = [settlement EXCEPT ![x] = [@ EXCEPT
         !.status = "cash-refunded", !.decidedBy = a]]
    /\ drawer' = [drawer EXCEPT ![settlement[x].shift] = @ - settlement[x].amount]
    /\ UNCHANGED credit

HoldForProvider(x, a) ==
    /\ settlement[x].method \in {"upi", "card"}
    /\ settlement' = [settlement EXCEPT ![x] = [@ EXCEPT
         !.status = "provider-refund-pending", !.decidedBy = a]]
    /\ UNCHANGED <<drawer, credit>>

StoreCreditFor(r, amount, available) ==
    [status |-> IF available = 0 THEN "redeemed" ELSE "active",
     customer |-> sales[ret[r].sale].request.customer, return |-> r,
     issued |-> amount, available |-> available]

IssueStoreCredit(x, c, a) ==
    /\ settlement[x].method = "store-credit"
    /\ credit[c].status = "none"
    /\ settlement' = [settlement EXCEPT ![x] = [@ EXCEPT
         !.status = "store-credit-issued", !.decidedBy = a, !.credit = c]]
    /\ credit' = [credit EXCEPT ![c] = StoreCreditFor(settlement[x].return,
         settlement[x].amount, settlement[x].amount)]
    /\ UNCHANGED drawer

DecideRetailReturnSettlement(x, decision, a) ==
    LET r == settlement[x].return
    IN  /\ settlement[x].status = "requested"
        /\ a \notin {settlement[x].requestedBy, ret[r].requestedBy, ret[r].inspectedBy}
        /\ \/ /\ decision = "rejected"
              /\ settlement' = [settlement EXCEPT ![x] = [@ EXCEPT
                   !.status = "rejected", !.decidedBy = a]]
              /\ UNCHANGED <<credit, drawer>>
           \/ /\ decision = "approved"
              /\ \/ PayCash(x, a)
                 \/ HoldForProvider(x, a)
                 \/ \E c \in Credits : IssueStoreCredit(x, c, a)
        /\ ret' = [ret EXCEPT ![r] = [ret[r] EXCEPT !.creditVersion = @ + 1]]
        /\ UNCHANGED <<shift, expectedCash, sales, receipts, stock, owed,
                       varianceJournals>>

(* Mutant: a late answer of the provider taken after a first one. *)
ConfirmTwice(x, decision, a) ==
    /\ settlement[x].status \in {"provider-refund-pending", "provider-refunded"}
    /\ a \notin {settlement[x].requestedBy, settlement[x].decidedBy}
    /\ settlement' = [settlement EXCEPT ![x] = [@ EXCEPT
         !.status = IF decision = "confirmed" THEN "provider-refunded"
                    ELSE "provider-refund-rejected",
         !.confirmedBy = a]]
    /\ ret' = [ret EXCEPT ![settlement[x].return] =
         [ret[settlement[x].return] EXCEPT !.creditVersion = @ + 1]]
    /\ UNCHANGED <<shift, expectedCash, sales, receipts, credit, stock, owed,
                   varianceJournals, drawer>>

ConfirmRetailReturnProviderRefund(x, decision, a) ==
    /\ settlement[x].status = "provider-refund-pending"
    /\ a \notin {settlement[x].requestedBy, settlement[x].decidedBy}
    /\ settlement' = [settlement EXCEPT ![x] = [@ EXCEPT
         !.status = IF decision = "confirmed" THEN "provider-refunded"
                    ELSE "provider-refund-rejected",
         !.confirmedBy = a]]
    /\ ret' = [ret EXCEPT ![settlement[x].return] =
         [ret[settlement[x].return] EXCEPT !.creditVersion = @ + 1]]
    /\ UNCHANGED <<shift, expectedCash, sales, receipts, credit, stock, owed,
                   varianceJournals, drawer>>

-----------------------------------------------------------------------------
ReturnStep(r, a) ==
    \/ \E n \in DOMAIN sales : \E quantity \in 1..sales[n].request.quantity :
         CreateRetailReturnRequest(r, n, quantity, a)
    \/ \E outcome \in {"resalable", "isolated"} :
         InspectRetailReturn(r, outcome, a)
    \/ \E decision \in {"approved", "rejected"} : DecideRetailReturn(r, decision, a)

SettlementStep(x, a) ==
    \/ \E r \in Returns, method \in {"cash", "upi", "card", "store-credit"} \cap Methods,
          s \in Shifts \cup {None} :
         \E amount \in 1..Available(r) :
           RequestRetailReturnSettlement(x, r, method, amount, s, a)
    \/ \E decision \in {"approved", "rejected"} :
         DecideRetailReturnSettlement(x, decision, a)
    \/ \E decision \in {"confirmed", "rejected"} :
         ConfirmRetailReturnProviderRefund(x, decision, a)

ReturnNext ==
    \/ Next /\ UNCHANGED ret
    \/ \E a \in Actors :
         \/ \E r \in Returns : ReturnStep(r, a)
         \/ \E x \in Settlements : SettlementStep(x, a)

ReturnSpec == ReturnInit /\ [][ReturnNext]_returnVars

-----------------------------------------------------------------------------
(* The records of returns keep their shape.                                *)
ReturnTypeOK == ret \in [Returns -> Return]

(* Money goes back only the way it came: across all returns of a sale, the *)
(* refunds on a rail never exceed what was tendered on it                  *)
(* (assertSettlementTenderCapacity), pending provider refunds included.    *)
RefundsStayWithinTender ==
    \A n \in DOMAIN sales, m \in Methods \ {"store-credit"} :
      Exposure(n, m) <= TenderedBy(sales[n].request, m)

(* What a return paid out, and the store credit it issued, counted where   *)
(* the value ended up.                                                     *)
ValueGivenFor(r) ==
    SettledAs(r, {"cash-refunded", "provider-refunded"})
    + MapThenSumSet(LAMBDA c : credit[c].issued,
                    {c \in Credits : credit[c].return = r})

(* A return never gives more than its approved frozen value                *)
(* (creditWithBalances, "cannot exceed its approved frozen value").        *)
ReturnValueGivenOnce ==
    \A r \in Returns : ValueGivenFor(r) <= Issued(r)

(* A settled refund is final: no later step changes it, and while a refund *)
(* waits for the provider its amount stays held on the return's credit.    *)
SettledIsFinal ==
    [][\A x \in Settlements :
         /\ settlement[x].status \in Spent => settlement'[x] = settlement[x]
         /\ settlement[x].status = "provider-refund-pending" =>
              /\ settlement'[x].amount = settlement[x].amount
              /\ settlement'[x].status \in {"provider-refund-pending",
                   "provider-refunded", "provider-refund-rejected"}]_returnVars

=============================================================================
