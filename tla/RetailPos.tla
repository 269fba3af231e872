----------------------------- MODULE RetailPos ------------------------------
(***************************************************************************)
(* The retail till (src/domain/retail-pos.ts): cashier shifts, the single  *)
(* checkout boundary, and the maker-checker close of a shift with its      *)
(* tender reconciliation and variance resolution.  Receipts are also open  *)
(* to the finance desk (reconcilePayment of order-to-cash.ts), and refund  *)
(* settlements, which the close subtracts, belong to RetailReturns.        *)
(*                                                                         *)
(* One branch, one item at one price, in the smallest money unit.  What a  *)
(* client sends is a member of Requests; sending the same one again under  *)
(* the same key is a retry.  Dates, discounts, vouchers and loyalty points *)
(* are not modelled, and neither is a credit hold for overdue invoices: a  *)
(* refusal leaves the state as it was.                                     *)
(***************************************************************************)
EXTENDS Integers, Sequences, FiniteSetsExt

CONSTANTS
    Actors,
    FinanceDesk,   \* the actors who may approve receivables
    Counters, Customers, Shifts, Credits, Returns, Settlements,
    Methods,
    RawKeys, Keys, References,
    CleanKey,      \* the stored form of each transaction key
    CounterOf,     \* the counter each shift is opened on
    Requests,      \* [customer, quantity, tenders] a client may send
    UnitPrice,     \* the grand total of one unit
    CreditLimit,   \* approved limit of each customer, or None
    InitialStock,  \* units in the counter's bin
    OpeningCash,   \* the floats a drawer may open with
    Counts,        \* the amounts a cashier may declare at a close
    MaxJournals,   \* bound on the variance journals of a shift
    None

Tender == [method : Methods, amount : Nat \ {0}, reference : References]
Request == [customer : Customers, quantity : Nat \ {0}, tenders : Seq(Tender)]

ASSUME PosAssumption ==
    /\ FinanceDesk \subseteq Actors
    /\ CleanKey \in [RawKeys -> Keys]
    /\ CounterOf \in [Shifts -> Counters]
    /\ UnitPrice \in Nat \ {0}
    /\ \A c \in Customers : CreditLimit[c] # None => CreditLimit[c] \in Nat
    /\ InitialStock \in Nat
    /\ OpeningCash \subseteq Nat
    /\ Counts \subseteq Nat
    /\ "cash" \in Methods
    /\ MaxJournals \in Nat
    /\ Credits \subseteq References
    /\ None \notin Actors \cup Shifts \cup Customers
    /\ Requests \subseteq Request
    /\ IsFiniteSet(Settlements)

VARIABLES
    shift,            \* cashier shifts
    expectedCash,     \* drawer cash each shift's close request computed
    sales,            \* completed sales, oldest first
    receipts,         \* payment receipts of counter sales
    credit,           \* retail store credits
    settlement,       \* refund settlements of returns
    stock,            \* units available in the counter's bin
    owed,             \* outstanding receivables of each customer
    varianceJournals, \* variance journals posted for each shift
    drawer            \* the cash physically in each shift's drawer

vars == <<shift, expectedCash, sales, receipts, credit, settlement, stock,
          owed, varianceJournals, drawer>>

NoShift == [status |-> "none", cashier |-> None, opening |-> 0,
            closeBy |-> None, short |-> FALSE, rails |-> "undeclared",
            resolution |-> "none", maker |-> None, checker |-> None,
            closedBy |-> None]
NoCredit == [status |-> "none", customer |-> None, return |-> None,
             issued |-> 0, available |-> 0]
NoSettlement == [status |-> "none", return |-> None, method |-> "cash",
                 amount |-> 0, shift |-> None, requestedBy |-> None,
                 decidedBy |-> None, confirmedBy |-> None, credit |-> None]

Shift == [status : {"none", "open", "close-requested", "closed"},
          cashier : Actors \cup {None}, opening : Nat,
          closeBy : Actors \cup {None},
          short : BOOLEAN,   \* declared cash differs from expected cash
          rails : {"undeclared", "agreed", "off"}, \* tender-by-tender count
          resolution : {"none", "requested", "approved", "rejected"},
          maker : Actors \cup {None}, checker : Actors \cup {None},
          closedBy : Actors \cup {None}]
Sale == [key : Keys, shift : Shifts, cashier : Actors, request : Request]
Receipt == [sale : Nat, tender : Nat, shift : Shifts, method : Methods,
            amount : Nat, reference : References,
            status : {"recorded", "reconciled"}, journal : {"draft", "ready"},
            recordedBy : Actors, reconciledBy : Actors \cup {None}]
Credit == [status : {"none", "active", "redeemed"},
           customer : Customers \cup {None}, return : Returns \cup {None},
           issued : Nat, available : Nat]
Settlement == [status : {"none", "requested", "rejected", "cash-refunded",
                         "provider-refund-pending", "provider-refunded",
                         "provider-refund-rejected", "store-credit-issued"},
               return : Returns \cup {None}, method : Methods, amount : Nat,
               shift : Shifts \cup {None}, requestedBy : Actors \cup {None},
               decidedBy : Actors \cup {None}, confirmedBy : Actors \cup {None},
               credit : Credits \cup {None}]

Init ==
    /\ shift = [s \in Shifts |-> NoShift]
    /\ expectedCash = [s \in Shifts |-> 0]
    /\ sales = << >>
    /\ receipts = {}
    /\ credit = [c \in Credits |-> NoCredit]
    /\ settlement = [x \in Settlements |-> NoSettlement]
    /\ stock = InitialStock
    /\ owed = [c \in Customers |-> 0]
    /\ varianceJournals = [s \in Shifts |-> 0]
    /\ drawer = [s \in Shifts |-> 0]

-----------------------------------------------------------------------------
(* Amounts.                                                                *)

Price(q) == UnitPrice * q.quantity

TenderedBy(q, m) ==
    MapThenSumSet(LAMBDA i : q.tenders[i].amount,
                  {i \in DOMAIN q.tenders : q.tenders[i].method = m})

Tendered(q) == MapThenSumSet(LAMBDA i : q.tenders[i].amount, DOMAIN q.tenders)

SoldInShift(s, m) ==
    MapThenSumSet(LAMBDA n : TenderedBy(sales[n].request, m),
                  {n \in DOMAIN sales : sales[n].shift = s})

(* Mutant: refunds in every state counted, pending ones too. *)
RefundedWhenRequested(s) ==
    MapThenSumSet(LAMBDA x : settlement[x].amount,
        {x \in Settlements : /\ settlement[x].shift = s
                             /\ settlement[x].status \in {"requested", "cash-refunded"}})

(* Settlements paid out of the shift's drawer; only cash names a shift.    *)
RefundedFromDrawer(s) ==
    MapThenSumSet(LAMBDA x : settlement[x].amount,
        {x \in Settlements : /\ settlement[x].shift = s
                             /\ settlement[x].status = "cash-refunded"})

ExpectedOn(s, m) ==
    SoldInShift(s, m)
    + (IF m = "cash" THEN shift[s].opening - RefundedFromDrawer(s) ELSE 0)

-----------------------------------------------------------------------------
(* Checkout.                                                               *)

OpenRetailCashierShift(s, opening, a) ==
    /\ shift[s].status = "none"
    /\ \A t \in Shifts : CounterOf[t] = CounterOf[s] =>
         shift[t].status \in {"none", "closed"}
    /\ shift' = [shift EXCEPT ![s] = [@ EXCEPT
         !.status = "open", !.cashier = a, !.opening = opening]]
    /\ drawer' = [drawer EXCEPT ![s] = opening]
    /\ UNCHANGED <<expectedCash, sales, receipts, credit, settlement, stock,
                   owed, varianceJournals>>

KeyUsed(k) == \E n \in DOMAIN sales : sales[n].key = k

TillOpenFor(s, a) == shift[s].status = "open" /\ shift[s].cashier = a

(* Mutant: a reference compared with this checkout's tenders only. *)
ReferenceFreshHere(q, i) ==
    \A j \in DOMAIN q.tenders \ {i} :
      ~ /\ q.tenders[j].method = q.tenders[i].method
        /\ q.tenders[j].reference = q.tenders[i].reference

ReferenceUnused(q, i) ==
    /\ \A j \in DOMAIN q.tenders \ {i} :
         ~ /\ q.tenders[j].method = q.tenders[i].method
           /\ q.tenders[j].reference = q.tenders[i].reference
    /\ \A r \in receipts :
         ~ /\ r.method = q.tenders[i].method
           /\ r.reference = q.tenders[i].reference

StoreCreditCovers(q, i) ==
    \E c \in Credits :
      /\ c = q.tenders[i].reference
      /\ credit[c].status = "active"
      /\ credit[c].customer = q.customer
      /\ q.tenders[i].amount <= credit[c].available

CustomerCreditAllowed(q) ==
    /\ Len(q.tenders) = 1
    /\ CreditLimit[q.customer] # None
    /\ owed[q.customer] + Price(q) <= CreditLimit[q.customer]

(* validateTenders. *)
TendersAccepted(q) ==
    /\ Len(q.tenders) \in 1..8
    /\ Tendered(q) = Price(q)
    /\ \A i \in DOMAIN q.tenders :
         /\ ReferenceUnused(q, i)
         /\ q.tenders[i].method = "store-credit" => StoreCreditCovers(q, i)
         /\ q.tenders[i].method = "customer-credit" => CustomerCreditAllowed(q)

(* A checkout under a key already stored is a retry: it returns the state  *)
(* unchanged, or is refused if it sends something else.                    *)
IsReplay(k, s, q) ==
    \E n \in DOMAIN sales :
      sales[n].key = k /\ sales[n].shift = s /\ sales[n].request = q

CanSell(k, s, q, a) ==
    /\ TillOpenFor(s, a)
    /\ ~ KeyUsed(k)
    /\ TendersAccepted(q)
    /\ q.quantity <= stock

(* Credit sales leave the receivable open and record no receipt.           *)
ReceiptsOf(n, s, q, a) ==
    {[sale |-> n, tender |-> i, shift |-> s,
      method |-> q.tenders[i].method, amount |-> q.tenders[i].amount,
      reference |-> q.tenders[i].reference, status |-> "recorded",
      journal |-> "draft", recordedBy |-> a, reconciledBy |-> None] :
        i \in {j \in DOMAIN q.tenders : q.tenders[j].method # "customer-credit"}}

(* Mutant: a store credit marked redeemed with its balance left on it. *)
CreditMarkedRedeemed(q) ==
    [c \in Credits |->
      IF \E i \in DOMAIN q.tenders :
           q.tenders[i].method = "store-credit" /\ q.tenders[i].reference = c
      THEN [credit[c] EXCEPT !.status = "redeemed"] ELSE credit[c]]

CreditAfter(q) ==
    [c \in Credits |->
      LET spent == {i \in DOMAIN q.tenders :
            q.tenders[i].method = "store-credit" /\ q.tenders[i].reference = c}
          left == credit[c].available - q.tenders[CHOOSE i \in spent : TRUE].amount
      IN  IF spent = {} THEN credit[c]
          ELSE [credit[c] EXCEPT !.available = left,
                  !.status = IF left <= 0 THEN "redeemed" ELSE @]]

OwedAfter(q) ==
    IF \E i \in DOMAIN q.tenders : q.tenders[i].method = "customer-credit"
    THEN [owed EXCEPT ![q.customer] = @ + Price(q)]
    ELSE owed

(* Everything a completed sale changes, at once; k is the cleaned key.     *)
Sell(k, s, q, a) ==
    /\ sales' = Append(sales, [key |-> k, shift |-> s, cashier |-> a, request |-> q])
    /\ receipts' = receipts \cup ReceiptsOf(Len(sales) + 1, s, q, a)
    /\ credit' = CreditAfter(q)
    /\ stock' = stock - q.quantity
    /\ owed' = OwedAfter(q)
    /\ drawer' = [drawer EXCEPT ![s] = @ + TenderedBy(q, "cash")]
    /\ UNCHANGED <<shift, expectedCash, settlement, varianceJournals>>

(* Mutant: the key looked up as it was typed. *)
CheckoutUnderRawKey(k, s, q, a) ==
    /\ ~ \E n \in DOMAIN sales : sales[n].key = k
    /\ TillOpenFor(s, a)
    /\ TendersAccepted(q)
    /\ q.quantity <= stock
    /\ Sell(CleanKey[k], s, q, a)

CheckoutRetailSale(k, s, q, a) ==
    /\ CanSell(CleanKey[k], s, q, a)
    /\ Sell(CleanKey[k], s, q, a)

-----------------------------------------------------------------------------
(* The close of a shift.                                                   *)

(* tenderReconciliation: every rail declared, or none is.                  *)
RailsVerdict(s, rails) ==
    IF rails = << >> THEN "undeclared"
    ELSE IF \A m \in Methods : rails[m] = ExpectedOn(s, m) THEN "agreed" ELSE "off"

RequestRetailCashierShiftClose(s, counted, rails, a) ==
    /\ TillOpenFor(s, a)
    /\ expectedCash' = [expectedCash EXCEPT ![s] = ExpectedOn(s, "cash")]
    /\ shift' = [shift EXCEPT ![s] = [@ EXCEPT
         !.status = "close-requested", !.closeBy = a,
         !.short = (counted # ExpectedOn(s, "cash")),
         !.rails = RailsVerdict(s, rails)]]
    /\ UNCHANGED <<sales, receipts, credit, settlement, stock, owed,
                   varianceJournals, drawer>>

HasVariance(s) == shift[s].short \/ shift[s].rails = "off"

RequestVarianceResolution(s, a) ==
    /\ shift[s].status = "close-requested"
    /\ a \notin {shift[s].cashier, shift[s].closeBy}
    /\ HasVariance(s)
    /\ shift[s].resolution \notin {"requested", "approved"}
    /\ shift' = [shift EXCEPT ![s] = [@ EXCEPT
         !.resolution = "requested", !.maker = a, !.checker = None]]
    /\ UNCHANGED <<expectedCash, sales, receipts, credit, settlement, stock,
                   owed, varianceJournals, drawer>>

(* cashierVarianceJournal has lines to post: a declaration by rail decides *)
(* alone, and refuses the approval when its rails all agree.               *)
JournalHasLines(s) ==
    IF shift[s].rails = "undeclared" THEN shift[s].short ELSE shift[s].rails = "off"

DecideVarianceResolution(s, decision, a) ==
    /\ shift[s].status = "close-requested"
    /\ shift[s].resolution = "requested"
    /\ a \notin {shift[s].cashier, shift[s].closeBy, shift[s].maker}
    /\ decision = "approved" => JournalHasLines(s) /\ varianceJournals[s] < MaxJournals
    /\ shift' = [shift EXCEPT ![s] = [@ EXCEPT
         !.resolution = decision, !.checker = a]]
    /\ varianceJournals' =
         IF decision = "approved"
         THEN [varianceJournals EXCEPT ![s] = @ + 1] ELSE varianceJournals
    /\ UNCHANGED <<expectedCash, sales, receipts, credit, settlement, stock,
                   owed, drawer>>

Reconciled(r, a) ==
    [r EXCEPT !.status = "reconciled", !.journal = "ready", !.reconciledBy = a]

CashOfShift(s) ==
    {r \in receipts : r.shift = s /\ r.method = "cash" /\ r.status = "recorded"}

(* Mutant: the receipts left for the finance desk. *)
ApproveCloseOnly(s, a) ==
    /\ shift[s].status = "close-requested"
    /\ a \notin {shift[s].cashier, shift[s].closeBy}
    /\ HasVariance(s) => shift[s].resolution = "approved"
    /\ shift' = [shift EXCEPT ![s] = [@ EXCEPT !.status = "closed", !.closedBy = a]]
    /\ UNCHANGED <<expectedCash, sales, receipts, credit, settlement, stock,
                   owed, varianceJournals, drawer>>

(* decideRetailCashierShiftClose, approved: the shift's cash receipts are  *)
(* reconciled and their payment journals released with it.                 *)
ApproveShiftClose(s, a) ==
    /\ shift[s].status = "close-requested"
    /\ a \notin {shift[s].cashier, shift[s].closeBy}
    /\ HasVariance(s) => shift[s].resolution = "approved"
    /\ shift' = [shift EXCEPT ![s] = [@ EXCEPT !.status = "closed", !.closedBy = a]]
    /\ receipts' = (receipts \ CashOfShift(s)) \cup
                   {Reconciled(r, a) : r \in CashOfShift(s)}
    /\ UNCHANGED <<expectedCash, sales, credit, settlement, stock, owed,
                   varianceJournals, drawer>>

(* Mutant: the evidence of the last count left on the reopened shift. *)
RejectKeepingResolution(s, a) ==
    /\ shift[s].status = "close-requested"
    /\ a \notin {shift[s].cashier, shift[s].closeBy}
    /\ shift' = [shift EXCEPT ![s] = [@ EXCEPT !.status = "open", !.closeBy = None]]
    /\ UNCHANGED <<expectedCash, sales, receipts, credit, settlement, stock,
                   owed, varianceJournals, drawer>>

(* decideRetailCashierShiftClose, rejected: the drawer reopens without any *)
(* of the close's evidence; a variance journal already posted stays.       *)
RejectShiftClose(s, a) ==
    /\ shift[s].status = "close-requested"
    /\ a \notin {shift[s].cashier, shift[s].closeBy}
    /\ shift' = [shift EXCEPT ![s] =
         [NoShift EXCEPT !.status = "open", !.cashier = shift[s].cashier,
                         !.opening = shift[s].opening]]
    /\ expectedCash' = [expectedCash EXCEPT ![s] = 0]
    /\ UNCHANGED <<sales, receipts, credit, settlement, stock, owed,
                   varianceJournals, drawer>>

(* reconcilePayment of order-to-cash.ts: any recorded receipt, whatever    *)
(* its method, its recorder or the state of its shift.                     *)
ReconcilePayment(r, a) ==
    /\ r.status = "recorded"
    /\ receipts' = (receipts \ {r}) \cup {Reconciled(r, a)}
    /\ UNCHANGED <<shift, expectedCash, sales, credit, settlement, stock, owed,
                   varianceJournals, drawer>>

-----------------------------------------------------------------------------
Declarations == {<< >>} \cup [Methods -> Counts]

ShiftStep(s, a) ==
    \/ \E opening \in OpeningCash : OpenRetailCashierShift(s, opening, a)
    \/ \E counted \in Counts, rails \in Declarations :
         RequestRetailCashierShiftClose(s, counted, rails, a)
    \/ RequestVarianceResolution(s, a)
    \/ \E decision \in {"approved", "rejected"} :
         DecideVarianceResolution(s, decision, a)
    \/ ApproveShiftClose(s, a)
    \/ RejectShiftClose(s, a)

CounterStep(a) ==
    \E k \in RawKeys, s \in Shifts, q \in Requests : CheckoutRetailSale(k, s, q, a)

FinanceStep(a) == \E r \in receipts : ReconcilePayment(r, a)

Next ==
    \E a \in Actors :
      \/ \E s \in Shifts : ShiftStep(s, a)
      \/ CounterStep(a)
      \/ a \in FinanceDesk /\ FinanceStep(a)

Spec == Init /\ [][Next]_vars

-----------------------------------------------------------------------------
(* Every record of the till keeps the shape its handlers give it           *)
(* (RetailCashierShift, RetailSale and PaymentReceipt of the contracts).   *)
TypeOK ==
    /\ shift \in [Shifts -> Shift]
    /\ sales \in Seq(Sale)
    /\ receipts \subseteq Receipt
    /\ credit \in [Credits -> Credit]
    /\ settlement \in [Settlements -> Settlement]
    /\ stock \in Nat
    /\ owed \in [Customers -> Nat]
    /\ varianceJournals \in [Shifts -> Nat]
    /\ expectedCash \in [Shifts -> Int]
    /\ drawer \in [Shifts -> Int]

(* What the close of a shift compares the count with is the cash really in *)
(* its drawer, and stays so while the close is under review and after it:  *)
(* expectedCash, computed once in requestRetailCashierShiftClose from      *)
(* sales and refunds, must not be overtaken by either.                     *)
DrawerMatchesExpectation ==
    \A s \in Shifts :
      shift[s].status \in {"close-requested", "closed"} =>
        expectedCash[s] = drawer[s]

(* One drawer per counter: at most one shift of a counter is not closed    *)
(* (openRetailCashierShift), through every reopening of a rejected close.  *)
OneShiftPerCounter ==
    \A s, t \in Shifts :
      /\ s # t
      /\ CounterOf[s] = CounterOf[t]
      => ~ /\ shift[s].status \in {"open", "close-requested"}
           /\ shift[t].status \in {"open", "close-requested"}

(* A transaction key names one sale however often and in whatever spelling *)
(* the client retries it (checkoutRetailSale).                             *)
OneSalePerKey ==
    \A m, n \in DOMAIN sales : sales[m].key = sales[n].key => m = n

(* No two receipts rest on the same tender evidence (validateTenders).     *)
EvidenceUsedOnce ==
    \A r, t \in receipts :
      /\ r.method = t.method
      /\ r.reference = t.reference
      => r = t

(* A closed shift leaves nothing open: all of its cash is reconciled and   *)
(* its payment journals are released (decideRetailCashierShiftClose),      *)
(* whatever the finance desk reconciled before.                            *)
ClosedTillIsSettled ==
    \A s \in Shifts : shift[s].status = "closed" =>
      \A r \in receipts : r.shift = s /\ r.method = "cash" =>
        r.status = "reconciled" /\ r.journal = "ready"

(* A shift whose count disagreed closes only on a resolution prepared and  *)
(* approved by two people, neither the cashier, and reviewed by someone    *)
(* other than the cashier; the variance is then in the journals.  A drawer *)
(* that was reopened starts over, so no approval outlives its count.       *)
VarianceIsIndependentlyResolved ==
    \A s \in Shifts :
      /\ shift[s].status = "open" => shift[s].resolution = "none"
      /\ shift[s].status = "closed" =>
           /\ shift[s].closedBy \in Actors \ {shift[s].cashier}
           /\ HasVariance(s) =>
                /\ shift[s].resolution = "approved"
                /\ {shift[s].maker, shift[s].checker} \subseteq
                     Actors \ {shift[s].cashier}
                /\ shift[s].maker # shift[s].checker
                /\ varianceJournals[s] > 0

(* Store credit is never spent twice: what is gone from a credit is what   *)
(* its receipts took, and it is redeemed exactly when nothing is left      *)
(* (checkoutRetailSale, retailStoreCredits).                               *)
StoreCreditIsConserved ==
    \A c \in Credits :
      /\ credit[c].issued - credit[c].available =
           MapThenSumSet(LAMBDA r : r.amount,
             {r \in receipts : r.method = "store-credit" /\ r.reference = c})
      /\ credit[c].status = "redeemed" <=>
           credit[c].status # "none" /\ credit[c].available = 0

(* A closed shift is final: no later step changes it, sells in it or moves *)
(* cash through its drawer.                                                *)
CloseIsFinal ==
    [][\A s \in Shifts : shift[s].status = "closed" =>
         /\ shift'[s] = shift[s]
         /\ drawer'[s] = drawer[s]
         /\ {n \in DOMAIN sales' : sales'[n].shift = s} =
            {n \in DOMAIN sales : sales[n].shift = s}]_vars

=============================================================================
