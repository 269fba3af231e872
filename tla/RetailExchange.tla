--------------------------- MODULE RetailExchange ---------------------------
(***************************************************************************)
(* Counter exchanges (src/domain/retail-exchange.ts): the credit of an     *)
(* approved return, and a top-up if it falls short, pay for replacement    *)
(* goods.  The cashier asks; an independent reviewer's approval issues a   *)
(* bridge store credit, runs the till's checkout in the cashier's name     *)
(* with it, and settles the return's credit, all in one step.              *)
(***************************************************************************)
EXTENDS RetailReturns

CONSTANTS
    Exchanges,
    ExchangeKey,   \* the till key of each exchange's sale
    TopUps         \* the tenders a shortfall may be paid with

ASSUME ExchangeAssumption ==
    /\ ExchangeKey \in [Exchanges -> Keys]
    /\ \A e, f \in Exchanges : ExchangeKey[e] = ExchangeKey[f] => e = f
    /\ \A e \in Exchanges, k \in RawKeys : ExchangeKey[e] # CleanKey[k]
    /\ TopUps \subseteq Seq(Tender)
    /\ "store-credit" \in Methods

VARIABLE exchange

exchangeVars == <<returnVars, exchange>>

NoExchange == [status |-> "none", return |-> None, creditVersion |-> 0,
               shift |-> None, quantity |-> 0, applied |-> 0, topUp |-> << >>,
               requestedBy |-> None, approvedBy |-> None]

Exchange == [status : {"none", "requested", "approved", "rejected"},
             return : Returns \cup {None}, creditVersion : Nat,
             shift : Shifts \cup {None}, quantity : Nat, applied : Int,
             topUp : Seq(Tender), requestedBy : Actors \cup {None},
             approvedBy : Actors \cup {None}]

ExchangeInit == ReturnInit /\ exchange = [e \in Exchanges |-> NoExchange]

Least(m, n) == IF m <= n THEN m ELSE n

(* The shortfall is tendered exactly, never in store credit.               *)
TopUpCovers(topUp, shortfall) ==
    IF shortfall > 0
    THEN /\ Len(topUp) = 1
         /\ topUp[1].method # "store-credit"
         /\ topUp[1].amount = shortfall
    ELSE topUp = << >>

CreateRetailExchange(e, r, s, quantity, topUp, a) ==
    LET total == UnitPrice * quantity
        applied == Least(Available(r), total)
    IN  /\ exchange[e].status = "none"
        /\ ret[r].status = "approved"
        /\ a \notin {ret[r].requestedBy, ret[r].inspectedBy, ret[r].approvedBy}
        /\ TillOpenFor(s, a)
        /\ TopUpCovers(topUp, total - applied)
        /\ exchange' = [exchange EXCEPT ![e] = [@ EXCEPT !.status = "requested",
             !.return = r, !.creditVersion = ret[r].creditVersion, !.shift = s,
             !.quantity = quantity, !.applied = applied, !.topUp = topUp,
             !.requestedBy = a]]
        /\ UNCHANGED returnVars

RejectRetailExchange(e, a) ==
    /\ exchange[e].status = "requested"
    /\ a # exchange[e].requestedBy
    /\ exchange' = [exchange EXCEPT ![e] = [@ EXCEPT !.status = "rejected"]]
    /\ UNCHANGED returnVars

(* The replacement sale, paid with the bridge credit c and the top-up.     *)
ReplacementSale(e, c) ==
    [customer |-> sales[ret[exchange[e].return].sale].request.customer,
     quantity |-> exchange[e].quantity,
     tenders |-> <<[method |-> "store-credit", amount |-> exchange[e].applied,
                    reference |-> c]>> \o exchange[e].topUp]

(* The till's checks on that sale: the bridge credit was issued for it in  *)
(* the same step, and customer credit is never one tender of several.      *)
ReplacementAccepted(e, q) ==
    /\ shift[exchange[e].shift].status = "open"
    /\ exchange[e].applied > 0
    /\ \A i \in DOMAIN q.tenders :
         ReferenceUnused(q, i) /\ q.tenders[i].method # "customer-credit"
    /\ q.quantity <= stock

(* Mutant: the source credit taken as the request saw it. *)
CreditAnyVersion(e) ==
    ret[exchange[e].return].status = "approved"

CreditAsRequested(e) ==
    /\ ret[exchange[e].return].status = "approved"
    /\ ret[exchange[e].return].creditVersion = exchange[e].creditVersion
    /\ exchange[e].applied <= Available(exchange[e].return)

(* Store credits: the bridge is spent by the sale, and what the return had *)
(* left is issued as a further store credit.                               *)
Remainder(e) == Available(exchange[e].return) - exchange[e].applied

ExchangeCredits(e, c, d) ==
    LET r == exchange[e].return
        bridged == [credit EXCEPT ![c] = StoreCreditFor(r, exchange[e].applied, 0)]
    IN  IF Remainder(e) <= 0 THEN bridged
        ELSE [bridged EXCEPT ![d] = StoreCreditFor(r, Remainder(e), Remainder(e))]

(* The settlement on the return's credit covers the applied amount only:   *)
(* the remainder stays available there as well.                            *)
ApproveRetailExchange(e, x, c, d, a) ==
    LET r == exchange[e].return
        s == exchange[e].shift
        q == ReplacementSale(e, c)
        cashier == shift[s].cashier
    IN  /\ exchange[e].status = "requested"
        /\ a # exchange[e].requestedBy
        /\ CreditAsRequested(e)
        /\ ReplacementAccepted(e, q)
        /\ settlement[x].status = "none"
        /\ credit[c].status = "none" /\ credit[d].status = "none"
        /\ c = d <=> Remainder(e) <= 0
        /\ sales' = Append(sales, [key |-> ExchangeKey[e], shift |-> s,
                                   cashier |-> cashier, request |-> q])
        /\ receipts' = receipts \cup ReceiptsOf(Len(sales) + 1, s, q, cashier)
        /\ stock' = stock - q.quantity
        /\ drawer' = [drawer EXCEPT ![s] = @ + TenderedBy(q, "cash")]
        /\ credit' = ExchangeCredits(e, c, d)
        /\ settlement' = [settlement EXCEPT ![x] = [@ EXCEPT
             !.status = "store-credit-issued", !.return = r,
             !.method = "store-credit", !.amount = exchange[e].applied,
             !.requestedBy = exchange[e].requestedBy, !.decidedBy = a, !.credit = c]]
        /\ ret' = [ret EXCEPT ![r] = [ret[r] EXCEPT !.creditVersion = @ + 1]]
        /\ exchange' = [exchange EXCEPT ![e] = [@ EXCEPT
             !.status = "approved", !.approvedBy = a]]
        /\ UNCHANGED <<shift, expectedCash, owed, varianceJournals>>

ExchangeStep(e, a) ==
    \/ \E r \in Returns, s \in Shifts, quantity \in 1..InitialStock, topUp \in TopUps :
         CreateRetailExchange(e, r, s, quantity, topUp, a)
    \/ RejectRetailExchange(e, a)
    \/ \E x \in Settlements, c, d \in Credits : ApproveRetailExchange(e, x, c, d, a)

ExchangeNext ==
    \/ ReturnNext /\ UNCHANGED exchange
    \/ \E e \in Exchanges, a \in Actors : ExchangeStep(e, a)

ExchangeSpec == ExchangeInit /\ [][ExchangeNext]_exchangeVars

-----------------------------------------------------------------------------
ExchangeTypeOK == exchange \in [Exchanges -> Exchange]

(* The credit a return was exchanged for is the credit as it stood when    *)
(* the replacement was priced (sourceCreditVersion): exchanges, refunds    *)
(* and requests waiting for an answer never hold more of a return's credit *)
(* than its approval issued.                                               *)
ExchangesStayWithinCredit ==
    \A r \in Returns : SettledAs(r, Spent \cup Reserved) <= Issued(r)

=============================================================================
