---------------------------- MODULE RetailProofs ----------------------------
(***************************************************************************)
(* Theorems about the till, its returns and exchanges and its offline      *)
(* queue, for every number of people, counters, shifts, keys, requests,    *)
(* returns, settlements and amounts that the assumptions allow.            *)
(***************************************************************************)
EXTENDS RetailExchange, RetailOfflineQueue, SequenceTheorems, TotalsProofs

-----------------------------------------------------------------------------
(* The sums of the till: of tenders, of sales and of settlements.          *)

TenderTotal(t, S) == MapThenSumSet(LAMBDA i : t[i].amount, S)
SalesTotal(m, S) == MapThenSumSet(LAMBDA n : TenderedBy(sales[n].request, m), S)
SettledTotal(S) == MapThenSumSet(LAMBDA x : settlement[x].amount, S)

LEMMA TenderTotalIs ==
    ASSUME NEW t, NEW S, IsFiniteSet(S), \A i \in S : t[i].amount \in Nat
    PROVE  TenderTotal(t, S) \in Nat
<1> DEFINE f == [i \in S |-> t[i].amount]
           Eq(h) == h = [s \in SUBSET S |-> IF s = {} THEN 0
                         ELSE LET x == CHOOSE x \in s : TRUE IN t[x].amount + h[s \ {x}]]
<1>0. Terms(f, S) /\ \A i \in S : f[i] >= 0
  BY DEF Terms
<1>1. PICK g : Adds(g, f, S)
  BY <1>0, AddsExists
<1>2. Eq(g)
  BY <1>1, PickIsMember DEF Adds, Pick
<1>3. Eq(CHOOSE h : Eq(h))
  <2> HIDE DEF Eq
  <2> QED
    BY <1>2
<1>4. \A h : Eq(h) => Adds(h, f, S)
  BY PickIsMember DEF Adds, Pick
<1>5. TenderTotal(t, S) = (CHOOSE h : Eq(h))[S]
  BY DEF TenderTotal, MapThenSumSet, MapThenFoldSet
<1> HIDE DEF Eq, f
<1>6. TenderTotal(t, S) = Total(f, S)
  BY <1>0, <1>3, <1>4, <1>5, TotalIs
<1> QED
  BY <1>0, <1>6, TotalType, TotalCovers

LEMMA SalesTotalIs ==
    ASSUME NEW m, NEW S, IsFiniteSet(S), \A n \in S : TenderedBy(sales[n].request, m) \in Int
    PROVE  LET f == [n \in S |-> TenderedBy(sales[n].request, m)] IN
           Terms(f, S) /\ SalesTotal(m, S) = Total(f, S)
<1> DEFINE f == [n \in S |-> TenderedBy(sales[n].request, m)]
           Eq(h) == h = [s \in SUBSET S |-> IF s = {} THEN 0
                         ELSE LET x == CHOOSE x \in s : TRUE
                              IN TenderedBy(sales[x].request, m) + h[s \ {x}]]
<1>0. Terms(f, S)
  BY DEF Terms
<1>1. PICK g : Adds(g, f, S)
  BY <1>0, AddsExists
<1>2. Eq(g)
  BY <1>1, PickIsMember DEF Adds, Pick
<1>3. Eq(CHOOSE h : Eq(h))
  <2> HIDE DEF Eq
  <2> QED
    BY <1>2
<1>4. \A h : Eq(h) => Adds(h, f, S)
  BY PickIsMember DEF Adds, Pick
<1>5. SalesTotal(m, S) = (CHOOSE h : Eq(h))[S]
  BY DEF SalesTotal, MapThenSumSet, MapThenFoldSet
<1> HIDE DEF Eq
<1> QED
  BY <1>0, <1>3, <1>4, <1>5, TotalIs

LEMMA SettledTotalIs ==
    ASSUME NEW S, IsFiniteSet(S), \A x \in S : settlement[x].amount \in Nat
    PROVE  LET f == [x \in S |-> settlement[x].amount] IN
           Terms(f, S) /\ SettledTotal(S) = Total(f, S) /\ SettledTotal(S) \in Nat
<1> DEFINE f == [x \in S |-> settlement[x].amount]
           Eq(h) == h = [s \in SUBSET S |-> IF s = {} THEN 0
                         ELSE LET x == CHOOSE x \in s : TRUE IN settlement[x].amount + h[s \ {x}]]
<1>0. Terms(f, S) /\ \A x \in S : f[x] >= 0
  BY DEF Terms
<1>1. PICK g : Adds(g, f, S)
  BY <1>0, AddsExists
<1>2. Eq(g)
  BY <1>1, PickIsMember DEF Adds, Pick
<1>3. Eq(CHOOSE h : Eq(h))
  <2> HIDE DEF Eq
  <2> QED
    BY <1>2
<1>4. \A h : Eq(h) => Adds(h, f, S)
  BY PickIsMember DEF Adds, Pick
<1>5. SettledTotal(S) = (CHOOSE h : Eq(h))[S]
  BY DEF SettledTotal, MapThenSumSet, MapThenFoldSet
<1> HIDE DEF Eq
<1>6. SettledTotal(S) = Total(f, S)
  BY <1>0, <1>3, <1>4, <1>5, TotalIs
<1>7. SettledTotal(S) \in Nat
  BY <1>0, <1>6, TotalType, TotalCovers
<1> QED
  BY <1>0, <1>6, <1>7

LEMMA SequenceDomain ==
    ASSUME NEW T, NEW t \in Seq(T)
    PROVE  IsFiniteSet(DOMAIN t) /\ DOMAIN t = 1..Len(t) /\ \A i \in DOMAIN t : t[i] \in T
<1>1. DOMAIN t = 1..Len(t) /\ Len(t) \in Nat
  OBVIOUS
<1>2. IsFiniteSet(1..Len(t))
  BY <1>1, FS_Interval
<1> QED
  BY <1>1, <1>2

LEMMA TenderedIsNat ==
    ASSUME NEW q \in Request, NEW m
    PROVE  TenderedBy(q, m) \in Nat
<1> DEFINE S == {i \in DOMAIN q.tenders : q.tenders[i].method = m}
<1>1. q.tenders \in Seq(Tender)
  BY DEF Request
<1>2. IsFiniteSet(DOMAIN q.tenders) /\ \A i \in DOMAIN q.tenders : q.tenders[i] \in Tender
  BY <1>1, SequenceDomain
<1>3. IsFiniteSet(S) /\ \A i \in S : q.tenders[i].amount \in Nat
  BY <1>2, FS_Subset DEF Tender
<1>4. TenderedBy(q, m) = TenderTotal(q.tenders, S)
  BY DEF TenderedBy, TenderTotal
<1> HIDE DEF S
<1> QED
  BY <1>3, <1>4, TenderTotalIs

(* The sums of records that keep their types. *)
LEMMA SumsTyped ==
    ASSUME sales \in Seq(Sale), settlement \in [Settlements -> Settlement]
    PROVE  /\ \A s, m : SoldInShift(s, m) \in Int
           /\ \A s : RefundedFromDrawer(s) \in Nat
<1>1. IsFiniteSet(DOMAIN sales) /\ \A n \in DOMAIN sales : sales[n] \in Sale
  BY SequenceDomain
<1>2. ASSUME NEW s, NEW m PROVE SoldInShift(s, m) \in Int
  <2> DEFINE S == {n \in DOMAIN sales : sales[n].shift = s}
  <2>1. IsFiniteSet(S)
    BY <1>1, FS_Subset
  <2>2. \A n \in S : TenderedBy(sales[n].request, m) \in Int
    BY <1>1, TenderedIsNat DEF Sale
  <2>3. SoldInShift(s, m) = SalesTotal(m, S)
    BY DEF SoldInShift, SalesTotal
  <2> HIDE DEF S
  <2> QED
    BY <2>1, <2>2, <2>3, SalesTotalIs, TotalType
<1>3. ASSUME NEW s PROVE RefundedFromDrawer(s) \in Nat
  <2> DEFINE S == {x \in Settlements : settlement[x].shift = s
                                         /\ settlement[x].status = "cash-refunded"}
  <2>1. IsFiniteSet(S) /\ \A x \in S : settlement[x].amount \in Nat
    BY PosAssumption, FS_Subset DEF Settlement
  <2>2. RefundedFromDrawer(s) = SettledTotal(S)
    BY DEF RefundedFromDrawer, SettledTotal
  <2> HIDE DEF S
  <2> QED
    BY <2>1, <2>2, SettledTotalIs
<1> QED
  BY <1>2, <1>3

-----------------------------------------------------------------------------
(* Typing.                                                                 *)

LEMMA InitTypeOK == Init => TypeOK
<1> SUFFICES ASSUME Init PROVE TypeOK
  OBVIOUS
<1>1. NoShift \in Shift
  BY DEF NoShift, Shift
<1>2. NoCredit \in Credit
  BY DEF NoCredit, Credit
<1>3. NoSettlement \in Settlement
  BY PosAssumption DEF NoSettlement, Settlement
<1> QED
  BY <1>1, <1>2, <1>3, PosAssumption DEF Init, TypeOK

LEMMA RequestTyping ==
    ASSUME NEW q \in Request
    PROVE  /\ q.customer \in Customers
           /\ q.quantity \in Nat \ {0}
           /\ Price(q) \in Nat
           /\ q.tenders \in Seq(Tender)
           /\ \A i \in DOMAIN q.tenders :
                /\ i \in Nat
                /\ q.tenders[i].method \in Methods
                /\ q.tenders[i].amount \in Nat \ {0}
                /\ q.tenders[i].reference \in References
<1>1. q.customer \in Customers /\ q.quantity \in Nat \ {0} /\ q.tenders \in Seq(Tender)
  BY DEF Request
<1>2. UnitPrice \in Nat
  BY PosAssumption
<1>3. Price(q) \in Nat
  BY <1>1, <1>2 DEF Price
<1>4. ASSUME NEW i \in DOMAIN q.tenders
      PROVE  i \in Nat /\ q.tenders[i] \in Tender
  BY <1>1
<1> QED
  BY <1>1, <1>3, <1>4 DEF Tender

(* Whatever a step does to one shift, typing needs only the new record.    *)
LEMMA ShiftUpdate ==
    ASSUME TypeOK, NEW s \in Shifts, NEW x \in Shift,
           shift' = [shift EXCEPT ![s] = x],
           receipts' \subseteq Receipt,
           varianceJournals' \in [Shifts -> Nat],
           expectedCash' \in [Shifts -> Int], drawer' \in [Shifts -> Int],
           UNCHANGED <<sales, credit, settlement, stock, owed>>
    PROVE  TypeOK'
  BY DEF TypeOK

LEMMA ReconciledTyping ==
    ASSUME NEW r \in Receipt, NEW a \in Actors
    PROVE  Reconciled(r, a) \in Receipt
  BY DEF Reconciled, Receipt

LEMMA ShiftStepTypeOK ==
    ASSUME TypeOK, NEW s \in Shifts, NEW a \in Actors, ShiftStep(s, a)
    PROVE  TypeOK'
<1>s. /\ shift[s] \in Shift /\ receipts \subseteq Receipt
      /\ varianceJournals \in [Shifts -> Nat]
      /\ expectedCash \in [Shifts -> Int] /\ drawer \in [Shifts -> Int]
  BY DEF TypeOK
<1>1. ASSUME NEW opening \in OpeningCash, OpenRetailCashierShift(s, opening, a)
      PROVE  TypeOK'
  <2>1. opening \in Nat
    BY PosAssumption
  <2>2. [shift[s] EXCEPT !.status = "open", !.cashier = a, !.opening = opening] \in Shift
    BY <1>s, <2>1 DEF Shift
  <2>3. drawer' \in [Shifts -> Int] /\ expectedCash' = expectedCash
    BY <1>1, <1>s, <2>1 DEF OpenRetailCashierShift
  <2> QED
    BY <1>1, <1>s, <2>2, <2>3, ShiftUpdate DEF OpenRetailCashierShift
<1>2. ASSUME NEW counted \in Counts, NEW rails \in Declarations,
             RequestRetailCashierShiftClose(s, counted, rails, a)
      PROVE  TypeOK'
  <2> DEFINE isShort == counted # ExpectedOn(s, "cash")
  <2> DEFINE verdict == RailsVerdict(s, rails)
  <2>1. isShort \in BOOLEAN
    OBVIOUS
  <2>2. verdict \in {"undeclared", "agreed", "off"}
    BY DEF RailsVerdict
  <2>3. [shift[s] EXCEPT !.status = "close-requested", !.closeBy = a,
                         !.short = isShort, !.rails = verdict] \in Shift
    <3> HIDE DEF isShort, verdict
    <3> QED
      BY <1>s, <2>1, <2>2 DEF Shift
  <2>4. expectedCash' \in [Shifts -> Int] /\ drawer' = drawer
    <3>1. ExpectedOn(s, "cash") \in Int
      BY <1>s, SumsTyped DEF ExpectedOn, TypeOK, Shift
    <3> QED
      BY <1>2, <1>s, <3>1 DEF RequestRetailCashierShiftClose
  <2> QED
    BY <1>2, <1>s, <2>3, <2>4, ShiftUpdate DEF RequestRetailCashierShiftClose
<1>3. ASSUME RequestVarianceResolution(s, a)
      PROVE  TypeOK'
  <2>1. [shift[s] EXCEPT !.resolution = "requested", !.maker = a,
                         !.checker = None] \in Shift
    BY <1>s DEF Shift
  <2> QED
    BY <1>3, <1>s, <2>1, ShiftUpdate DEF RequestVarianceResolution
<1>4. ASSUME NEW decision \in {"approved", "rejected"},
             DecideVarianceResolution(s, decision, a)
      PROVE  TypeOK'
  <2>1. [shift[s] EXCEPT !.resolution = decision, !.checker = a] \in Shift
    BY <1>s DEF Shift
  <2>2. varianceJournals' \in [Shifts -> Nat]
    BY <1>4, <1>s DEF DecideVarianceResolution
  <2> QED
    BY <1>4, <1>s, <2>1, <2>2, ShiftUpdate DEF DecideVarianceResolution
<1>5. ASSUME ApproveShiftClose(s, a)
      PROVE  TypeOK'
  <2>1. [shift[s] EXCEPT !.status = "closed", !.closedBy = a] \in Shift
    BY <1>s DEF Shift
  <2>2. receipts' \subseteq Receipt
    BY <1>5, <1>s, ReconciledTyping DEF ApproveShiftClose, CashOfShift
  <2> QED
    BY <1>5, <1>s, <2>1, <2>2, ShiftUpdate DEF ApproveShiftClose
<1>6. ASSUME RejectShiftClose(s, a)
      PROVE  TypeOK'
  <2>1. [NoShift EXCEPT !.status = "open", !.cashier = shift[s].cashier,
                        !.opening = shift[s].opening] \in Shift
    BY <1>s DEF Shift, NoShift
  <2>2. expectedCash' \in [Shifts -> Int] /\ drawer' = drawer
    BY <1>6, <1>s DEF RejectShiftClose
  <2> QED
    BY <1>6, <1>s, <2>1, <2>2, ShiftUpdate DEF RejectShiftClose
<1> QED
  BY <1>1, <1>2, <1>3, <1>4, <1>5, <1>6 DEF ShiftStep

(* A tender of store credit never takes more than the credit has left.     *)
LEMMA CreditAfterTyping ==
    ASSUME TypeOK, NEW q \in Request, TendersAccepted(q)
    PROVE  CreditAfter(q) \in [Credits -> Credit]
<1> SUFFICES ASSUME NEW c \in Credits
             PROVE  CreditAfter(q)[c] \in Credit
  BY DEF CreditAfter
<1> DEFINE spent == {i \in DOMAIN q.tenders :
             q.tenders[i].method = "store-credit" /\ q.tenders[i].reference = c}
<1> DEFINE left == credit[c].available - q.tenders[CHOOSE i \in spent : TRUE].amount
<1>1. credit[c] \in Credit
  BY DEF TypeOK
<1>2. CASE spent = {}
  BY <1>1, <1>2 DEF CreditAfter
<1>3. CASE spent # {}
  <2>1. PICK i \in spent : i = CHOOSE j \in spent : TRUE
    BY <1>3
  <2>2. StoreCreditCovers(q, i)
    BY DEF TendersAccepted
  <2>3. q.tenders[i].amount \in Nat /\ q.tenders[i].amount <= credit[c].available
    BY <2>2, RequestTyping DEF StoreCreditCovers
  <2>4. left \in Nat
    BY <1>1, <2>1, <2>3 DEF Credit
  <2>5. CreditAfter(q)[c] = [credit[c] EXCEPT !.available = left,
                                !.status = IF left <= 0 THEN "redeemed" ELSE @]
    BY <1>3 DEF CreditAfter
  <2>6. (IF left <= 0 THEN "redeemed" ELSE credit[c].status)
          \in {"none", "active", "redeemed"}
    BY <1>1 DEF Credit
  <2> QED
    <3> HIDE DEF left
    <3> QED
      BY <1>1, <2>4, <2>5, <2>6 DEF Credit
<1> QED
  BY <1>2, <1>3

LEMMA ReceiptsTyping ==
    ASSUME TypeOK, NEW s \in Shifts, NEW q \in Request, NEW a \in Actors
    PROVE  ReceiptsOf(Len(sales) + 1, s, q, a) \subseteq Receipt
<1>1. Len(sales) + 1 \in Nat
  BY DEF TypeOK
<1> QED
  BY <1>1, RequestTyping DEF ReceiptsOf, Receipt

LEMMA CounterStepTypeOK ==
    ASSUME TypeOK, NEW a \in Actors, CounterStep(a)
    PROVE  TypeOK'
<1>1. PICK k \in RawKeys, s \in Shifts, q \in Requests : CheckoutRetailSale(k, s, q, a)
  BY DEF CounterStep
<1>2. TendersAccepted(q) /\ q.quantity <= stock /\ Sell(CleanKey[k], s, q, a)
      /\ q \in Request
  BY <1>1, PosAssumption DEF CheckoutRetailSale, CanSell
<1>3. sales' \in Seq(Sale)
  <2>1. CleanKey[k] \in Keys
    BY PosAssumption
  <2>2. [key |-> CleanKey[k], shift |-> s, cashier |-> a, request |-> q] \in Sale
    BY <1>2, <2>1 DEF Sale
  <2> QED
    BY <1>2, <2>2 DEF Sell, TypeOK
<1>4. receipts' \subseteq Receipt
  BY <1>2, ReceiptsTyping DEF Sell, TypeOK
<1>5. credit' \in [Credits -> Credit]
  BY <1>2, CreditAfterTyping DEF Sell
<1>6. stock' \in Nat
  BY <1>2, RequestTyping DEF Sell, TypeOK
<1>7. owed' \in [Customers -> Nat]
  BY <1>2, RequestTyping DEF Sell, OwedAfter, TypeOK
<1>8. drawer' \in [Shifts -> Int]
  BY <1>2, TenderedIsNat DEF Sell, TypeOK
<1> QED
  BY <1>2, <1>3, <1>4, <1>5, <1>6, <1>7, <1>8 DEF Sell, TypeOK

LEMMA FinanceStepTypeOK ==
    ASSUME TypeOK, NEW a \in Actors, FinanceStep(a)
    PROVE  TypeOK'
<1>1. PICK r \in receipts : ReconcilePayment(r, a)
  BY DEF FinanceStep
<1>2. receipts' \subseteq Receipt
  BY <1>1, ReconciledTyping DEF ReconcilePayment, TypeOK
<1> QED
  BY <1>1, <1>2 DEF ReconcilePayment, TypeOK

LEMMA TillTypeOK == TypeOK /\ [Next]_vars => TypeOK'
<1> SUFFICES ASSUME TypeOK, [Next]_vars PROVE TypeOK'
  OBVIOUS
<1>1. CASE UNCHANGED vars
  BY <1>1 DEF TypeOK, vars
<1> QED
  BY <1>1, ShiftStepTypeOK, CounterStepTypeOK, FinanceStepTypeOK DEF Next

(* Every record of the till keeps its shape, stock and balances of store   *)
(* credits never go below zero, whatever is sold by whom.                  *)
THEOREM PosTyping == Spec => []TypeOK
BY TillTypeOK, InitTypeOK, PTL DEF Spec

-----------------------------------------------------------------------------
(* Independent review of the till.  Beside the property, the invariant     *)
(* follows a count from its request to its close: who prepared and who     *)
(* decided its resolution, and that an approval posted a journal.          *)

ReviewInv ==
    \A s \in Shifts :
      /\ shift[s].status \in {"none", "open"} => shift[s].resolution = "none"
      /\ shift[s].resolution \in {"requested", "approved"} =>
           shift[s].maker \in Actors \ {shift[s].cashier}
      /\ shift[s].resolution = "approved" =>
           /\ shift[s].checker \in Actors \ {shift[s].cashier, shift[s].maker}
           /\ varianceJournals[s] > 0
      /\ shift[s].status = "closed" =>
           /\ shift[s].closedBy \in Actors \ {shift[s].cashier}
           /\ HasVariance(s) => shift[s].resolution = "approved"

LEMMA ReviewUpdate ==
    ASSUME TypeOK, ReviewInv, NEW s \in Shifts, NEW x,
           shift' = [shift EXCEPT ![s] = x],
           DOMAIN varianceJournals' = Shifts,
           \A t \in Shifts \ {s} : varianceJournals'[t] = varianceJournals[t],
           x.status \in {"none", "open"} => x.resolution = "none",
           x.resolution \in {"requested", "approved"} =>
             x.maker \in Actors \ {x.cashier},
           x.resolution = "approved" =>
             /\ x.checker \in Actors \ {x.cashier, x.maker}
             /\ varianceJournals'[s] > 0,
           x.status = "closed" =>
             /\ x.closedBy \in Actors \ {x.cashier}
             /\ (x.short \/ x.rails = "off") => x.resolution = "approved"
    PROVE  ReviewInv'
<1> SUFFICES ASSUME NEW t \in Shifts
             PROVE
      /\ shift'[t].status \in {"none", "open"} => shift'[t].resolution = "none"
      /\ shift'[t].resolution \in {"requested", "approved"} =>
           shift'[t].maker \in Actors \ {shift'[t].cashier}
      /\ shift'[t].resolution = "approved" =>
           /\ shift'[t].checker \in Actors \ {shift'[t].cashier, shift'[t].maker}
           /\ varianceJournals'[t] > 0
      /\ shift'[t].status = "closed" =>
           /\ shift'[t].closedBy \in Actors \ {shift'[t].cashier}
           /\ HasVariance(t)' => shift'[t].resolution = "approved"
  BY DEF ReviewInv
<1>1. CASE t = s
  <2>1. shift'[t] = x
    BY <1>1 DEF TypeOK
  <2> QED
    BY <1>1, <2>1 DEF HasVariance
<1>2. CASE t # s
  <2>1. shift'[t] = shift[t] /\ varianceJournals'[t] = varianceJournals[t]
    BY <1>2 DEF TypeOK
  <2> QED
    BY <2>1 DEF ReviewInv, HasVariance
<1> QED
  BY <1>1, <1>2

LEMMA ShiftStepReview ==
    ASSUME TypeOK, ReviewInv, NEW s \in Shifts, NEW a \in Actors, ShiftStep(s, a)
    PROVE  ReviewInv'
<1>s. /\ shift[s] \in Shift /\ DOMAIN shift = Shifts
      /\ DOMAIN varianceJournals = Shifts /\ varianceJournals[s] \in Nat
  BY DEF TypeOK
<1>r. /\ shift[s].status \in {"none", "open"} => shift[s].resolution = "none"
      /\ shift[s].resolution \in {"requested", "approved"} =>
           shift[s].maker \in Actors \ {shift[s].cashier}
      /\ shift[s].resolution = "approved" =>
           /\ shift[s].checker \in Actors \ {shift[s].cashier, shift[s].maker}
           /\ varianceJournals[s] > 0
  BY DEF ReviewInv
<1>1. ASSUME NEW opening \in OpeningCash, OpenRetailCashierShift(s, opening, a)
      PROVE  ReviewInv'
  <2> DEFINE x == [shift[s] EXCEPT !.status = "open", !.cashier = a,
                                   !.opening = opening]
  <2>1. x.status = "open" /\ x.resolution = "none"
    BY <1>1, <1>s, <1>r DEF Shift, OpenRetailCashierShift
  <2>2. shift' = [shift EXCEPT ![s] = x] /\ varianceJournals' = varianceJournals
    BY <1>1 DEF OpenRetailCashierShift
  <2> HIDE DEF x
  <2> QED
    BY <1>s, <2>1, <2>2, ReviewUpdate
<1>2. ASSUME NEW counted \in Counts, NEW rails \in Declarations,
             RequestRetailCashierShiftClose(s, counted, rails, a)
      PROVE  ReviewInv'
  <2> DEFINE isShort == counted # ExpectedOn(s, "cash")
  <2> DEFINE verdict == RailsVerdict(s, rails)
  <2> DEFINE x == [shift[s] EXCEPT !.status = "close-requested", !.closeBy = a,
                                   !.short = isShort, !.rails = verdict]
  <2>1. shift' = [shift EXCEPT ![s] = x] /\ varianceJournals' = varianceJournals
    BY <1>2 DEF RequestRetailCashierShiftClose
  <2>2. shift[s].resolution = "none"
    BY <1>2, <1>r DEF RequestRetailCashierShiftClose, TillOpenFor
  <2>3. x.status = "close-requested" /\ x.resolution = "none"
    <3> HIDE DEF isShort, verdict
    <3> QED
      BY <1>s, <2>2 DEF Shift
  <2> HIDE DEF x
  <2> QED
    BY <1>s, <2>1, <2>3, ReviewUpdate
<1>3. ASSUME RequestVarianceResolution(s, a)
      PROVE  ReviewInv'
  <2> DEFINE x == [shift[s] EXCEPT !.resolution = "requested", !.maker = a,
                                   !.checker = None]
  <2>1. shift' = [shift EXCEPT ![s] = x] /\ varianceJournals' = varianceJournals
    BY <1>3 DEF RequestVarianceResolution
  <2>2. /\ x.status = "close-requested" /\ x.resolution = "requested"
        /\ x.maker \in Actors \ {x.cashier}
    BY <1>3, <1>s DEF RequestVarianceResolution, Shift
  <2> HIDE DEF x
  <2> QED
    BY <1>s, <2>1, <2>2, ReviewUpdate
<1>4. ASSUME NEW decision \in {"approved", "rejected"},
             DecideVarianceResolution(s, decision, a)
      PROVE  ReviewInv'
  <2> DEFINE x == [shift[s] EXCEPT !.resolution = decision, !.checker = a]
  <2>1. shift' = [shift EXCEPT ![s] = x]
    BY <1>4 DEF DecideVarianceResolution
  <2>2. /\ x.status = "close-requested" /\ x.resolution = decision
        /\ x.maker = shift[s].maker /\ x.cashier = shift[s].cashier /\ x.checker = a
    BY <1>4, <1>s DEF DecideVarianceResolution, Shift
  <2>3. /\ shift[s].maker \in Actors \ {shift[s].cashier}
        /\ a \notin {shift[s].cashier, shift[s].maker}
    BY <1>4, <1>r DEF DecideVarianceResolution
  <2>4. /\ DOMAIN varianceJournals' = Shifts
        /\ \A t \in Shifts \ {s} : varianceJournals'[t] = varianceJournals[t]
        /\ decision = "approved" => varianceJournals'[s] > 0
    BY <1>4, <1>s DEF DecideVarianceResolution
  <2> HIDE DEF x
  <2> QED
    BY <1>s, <2>1, <2>2, <2>3, <2>4, ReviewUpdate
<1>5. ASSUME ApproveShiftClose(s, a)
      PROVE  ReviewInv'
  <2> DEFINE x == [shift[s] EXCEPT !.status = "closed", !.closedBy = a]
  <2>1. shift' = [shift EXCEPT ![s] = x] /\ varianceJournals' = varianceJournals
    BY <1>5 DEF ApproveShiftClose
  <2>2. /\ x.status = "closed" /\ x.closedBy = a
        /\ x.cashier = shift[s].cashier /\ x.resolution = shift[s].resolution
        /\ x.maker = shift[s].maker /\ x.checker = shift[s].checker
        /\ x.short = shift[s].short /\ x.rails = shift[s].rails
    BY <1>s DEF Shift
  <2>3. /\ a \in Actors \ {shift[s].cashier}
        /\ (shift[s].short \/ shift[s].rails = "off") =>
             shift[s].resolution = "approved"
    BY <1>5 DEF ApproveShiftClose, HasVariance
  <2> HIDE DEF x
  <2> QED
    BY <1>s, <1>r, <2>1, <2>2, <2>3, ReviewUpdate
<1>6. ASSUME RejectShiftClose(s, a)
      PROVE  ReviewInv'
  <2> DEFINE x == [NoShift EXCEPT !.status = "open", !.cashier = shift[s].cashier,
                                  !.opening = shift[s].opening]
  <2>1. shift' = [shift EXCEPT ![s] = x] /\ varianceJournals' = varianceJournals
    BY <1>6 DEF RejectShiftClose
  <2>2. x.status = "open" /\ x.resolution = "none"
    BY DEF NoShift
  <2> HIDE DEF x
  <2> QED
    BY <1>s, <2>1, <2>2, ReviewUpdate
<1> QED
  BY <1>1, <1>2, <1>3, <1>4, <1>5, <1>6 DEF ShiftStep

LEMMA OtherStepsKeepShifts ==
    ASSUME NEW a \in Actors, CounterStep(a) \/ FinanceStep(a)
    PROVE  UNCHANGED <<shift, expectedCash, varianceJournals>>
  BY DEF CounterStep, CheckoutRetailSale, Sell, FinanceStep, ReconcilePayment

(* The till keeps the evidence of reviews; nothing else of it touches it.  *)
LEMMA ReviewStep == TypeOK /\ ReviewInv /\ [Next]_vars => ReviewInv'
<1> SUFFICES ASSUME TypeOK, ReviewInv, [Next]_vars PROVE ReviewInv'
  OBVIOUS
<1>1. CASE UNCHANGED <<shift, varianceJournals>>
  BY <1>1 DEF ReviewInv, HasVariance
<1>2. CASE UNCHANGED vars
  BY <1>1, <1>2 DEF vars
<1> QED
  BY <1>1, <1>2, ShiftStepReview, OtherStepsKeepShifts DEF Next

LEMMA ReviewIs == TypeOK /\ ReviewInv => VarianceIsIndependentlyResolved
<1> SUFFICES ASSUME TypeOK, ReviewInv, NEW s \in Shifts
             PROVE
    /\ shift[s].status = "open" => shift[s].resolution = "none"
    /\ shift[s].status = "closed" =>
         /\ shift[s].closedBy \in Actors \ {shift[s].cashier}
         /\ HasVariance(s) =>
              /\ shift[s].resolution = "approved"
              /\ {shift[s].maker, shift[s].checker} \subseteq
                   Actors \ {shift[s].cashier}
              /\ shift[s].maker # shift[s].checker
              /\ varianceJournals[s] > 0
  BY DEF VarianceIsIndependentlyResolved
<1> QED
  BY DEF ReviewInv

(* A counted shift that disagreed closes only on a resolution that two     *)
(* people other than its cashier prepared and approved, in the journals,   *)
(* however often it was counted, sent back and counted again.              *)
THEOREM VarianceReview == Spec => []VarianceIsIndependentlyResolved
<1>1. Init => ReviewInv
  BY DEF Init, ReviewInv, NoShift
<1> QED
  BY <1>1, ReviewStep, ReviewIs, PosTyping, PTL DEF Spec

-----------------------------------------------------------------------------
(* One drawer per counter.                                                 *)

(* Only the opening of a shift takes it from "none" or makes it live, and  *)
(* nothing takes a closed one back.                                        *)
LEMMA LiveShifts ==
    ASSUME TypeOK, NEW s \in Shifts, NEW a \in Actors, ShiftStep(s, a)
    PROVE  /\ \A t \in Shifts \ {s} : shift'[t] = shift[t]
           /\ \/ shift[s].status \in {"open", "close-requested"}
              \/ \A t \in Shifts : CounterOf[t] = CounterOf[s] =>
                   shift[t].status \in {"none", "closed"}
  BY DEF TypeOK, ShiftStep, OpenRetailCashierShift, TillOpenFor,
     RequestRetailCashierShiftClose, RequestVarianceResolution,
     DecideVarianceResolution, ApproveShiftClose, RejectShiftClose

(* At most one shift of a counter is open or under review: the rejection   *)
(* of a close can always reopen its drawer without meeting another.        *)
THEOREM OneDrawer == Spec => []OneShiftPerCounter
<1>1. Init => OneShiftPerCounter
  BY DEF Init, OneShiftPerCounter, NoShift
<1>2. TypeOK /\ OneShiftPerCounter /\ [Next]_vars => OneShiftPerCounter'
  <2> SUFFICES ASSUME TypeOK, OneShiftPerCounter, [Next]_vars
               PROVE  OneShiftPerCounter'
    OBVIOUS
  <2>1. CASE UNCHANGED shift
    BY <2>1 DEF OneShiftPerCounter
  <2>2. CASE UNCHANGED vars
    BY <2>1, <2>2 DEF vars
  <2>3. ASSUME NEW s \in Shifts, NEW a \in Actors, ShiftStep(s, a)
        PROVE  OneShiftPerCounter'
    BY <2>3, LiveShifts DEF OneShiftPerCounter
  <2> QED
    BY <2>1, <2>2, <2>3, OtherStepsKeepShifts DEF Next
<1> QED
  BY <1>1, <1>2, PosTyping, PTL DEF Spec

-----------------------------------------------------------------------------
(* Sales and their evidence.                                               *)

LEMMA ShiftStepKeepsSales ==
    ASSUME NEW s \in Shifts, NEW a \in Actors, ShiftStep(s, a) \/ FinanceStep(a)
    PROVE  UNCHANGED sales
  BY DEF ShiftStep, OpenRetailCashierShift, RequestRetailCashierShiftClose,
     RequestVarianceResolution, DecideVarianceResolution, ApproveShiftClose,
     RejectShiftClose, FinanceStep, ReconcilePayment

(* A key that was retried, in whatever spelling, names one sale.           *)
THEOREM RetrySafety == Spec => []OneSalePerKey
<1>1. Init => OneSalePerKey
  BY DEF Init, OneSalePerKey
<1>2. TypeOK /\ OneSalePerKey /\ [Next]_vars => OneSalePerKey'
  <2> SUFFICES ASSUME TypeOK, OneSalePerKey, [Next]_vars
               PROVE  OneSalePerKey'
    OBVIOUS
  <2>1. CASE UNCHANGED sales
    BY <2>1 DEF OneSalePerKey
  <2>2. ASSUME NEW a \in Actors, CounterStep(a)
        PROVE  OneSalePerKey'
    <3>1. PICK k \in RawKeys, s \in Shifts, q \in Requests :
            CheckoutRetailSale(k, s, q, a)
      BY <2>2 DEF CounterStep
    <3> DEFINE sale == [key |-> CleanKey[k], shift |-> s, cashier |-> a, request |-> q]
    <3>2. sales' = Append(sales, sale)
      BY <3>1 DEF CheckoutRetailSale, Sell
    <3>3. \A n \in DOMAIN sales : sales[n].key # sale.key
      BY <3>1 DEF CheckoutRetailSale, CanSell, KeyUsed
    <3>4. CleanKey[k] \in Keys
      BY PosAssumption
    <3>5. sale \in Sale
      BY <3>4, PosAssumption DEF Sale
    <3> HIDE DEF sale
    <3> QED
      BY <3>2, <3>3, <3>5 DEF OneSalePerKey, TypeOK
  <2>3. CASE UNCHANGED vars
    BY <2>1, <2>3 DEF vars
  <2> QED
    BY <2>1, <2>2, <2>3, ShiftStepKeepsSales DEF Next, FinanceStep, ReconcilePayment
<1> QED
  BY <1>1, <1>2, PosTyping, PTL DEF Spec

(* What reconciliation leaves of a receipt.                                *)
LEMMA ReconciledKeeps ==
    ASSUME NEW r \in Receipt, NEW a \in Actors
    PROVE  /\ Reconciled(r, a).method = r.method
           /\ Reconciled(r, a).reference = r.reference
           /\ Reconciled(r, a).shift = r.shift
           /\ Reconciled(r, a).status = "reconciled"
           /\ Reconciled(r, a).journal = "ready"
  BY DEF Reconciled, Receipt

(* A step that reconciles some receipts and leaves the rest keeps evidence *)
(* unique, and no unsettled receipt appears in it.                         *)
LEMMA SettlingStep ==
    ASSUME TypeOK, NEW a \in Actors, NEW R \in SUBSET receipts,
           receipts' = (receipts \ R) \cup {Reconciled(r, a) : r \in R}
    PROVE  /\ EvidenceUsedOnce => EvidenceUsedOnce'
           /\ \A t \in receipts' :
                \/ t \in receipts \ R
                \/ \E r \in R : /\ t.shift = r.shift
                                /\ t.status = "reconciled" /\ t.journal = "ready"
<1>1. \A r \in receipts : r \in Receipt
  BY DEF TypeOK
<1>2. \A t \in receipts' : \E r \in receipts :
        /\ t.method = r.method /\ t.reference = r.reference
        /\ t = IF r \in R THEN Reconciled(r, a) ELSE r
  BY <1>1, ReconciledKeeps
<1>3. EvidenceUsedOnce => EvidenceUsedOnce'
  BY <1>2 DEF EvidenceUsedOnce
<1>4. \A t \in receipts' :
        \/ t \in receipts \ R
        \/ \E r \in R : /\ t.shift = r.shift
                        /\ t.status = "reconciled" /\ t.journal = "ready"
  BY <1>1, ReconciledKeeps
<1> QED
  BY <1>3, <1>4

LEMMA ShiftStepReceipts ==
    ASSUME NEW s \in Shifts, NEW a \in Actors, ShiftStep(s, a)
    PROVE  UNCHANGED receipts \/ ApproveShiftClose(s, a)
  BY DEF ShiftStep, OpenRetailCashierShift, RequestRetailCashierShiftClose,
     RequestVarianceResolution, DecideVarianceResolution, RejectShiftClose

LEMMA CheckoutEvidence ==
    ASSUME TypeOK, EvidenceUsedOnce, NEW a \in Actors, CounterStep(a)
    PROVE  EvidenceUsedOnce'
<1>1. PICK k \in RawKeys, s \in Shifts, q \in Requests : CheckoutRetailSale(k, s, q, a)
  BY DEF CounterStep
<1> DEFINE n == Len(sales) + 1
<1>2. receipts' = receipts \cup ReceiptsOf(n, s, q, a)
  BY <1>1 DEF CheckoutRetailSale, Sell
<1>3. \A i \in DOMAIN q.tenders : ReferenceUnused(q, i)
  BY <1>1 DEF CheckoutRetailSale, CanSell, TendersAccepted
<1> HIDE DEF n
<1>4. \A t \in ReceiptsOf(n, s, q, a) : \E i \in DOMAIN q.tenders :
        /\ t.method = q.tenders[i].method /\ t.reference = q.tenders[i].reference
        /\ t = [sale |-> n, tender |-> i, shift |-> s,
                method |-> q.tenders[i].method, amount |-> q.tenders[i].amount,
                reference |-> q.tenders[i].reference, status |-> "recorded",
                journal |-> "draft", recordedBy |-> a, reconciledBy |-> None]
  BY DEF ReceiptsOf
<1>5. ASSUME NEW t \in ReceiptsOf(n, s, q, a), NEW u \in ReceiptsOf(n, s, q, a),
             t.method = u.method, t.reference = u.reference
      PROVE  t = u
  BY <1>3, <1>4, <1>5 DEF ReferenceUnused
<1>6. ASSUME NEW t \in receipts, NEW u \in ReceiptsOf(n, s, q, a)
      PROVE  ~ (t.method = u.method /\ t.reference = u.reference)
  BY <1>3, <1>4 DEF ReferenceUnused
<1> QED
  BY <1>2, <1>5, <1>6 DEF EvidenceUsedOnce

(* No two receipts of the shop, in one sale or in any two, rest on the     *)
(* same reference of the same rail.                                        *)
THEOREM EvidenceSafety == Spec => []EvidenceUsedOnce
<1>1. Init => EvidenceUsedOnce
  BY DEF Init, EvidenceUsedOnce
<1>2. TypeOK /\ EvidenceUsedOnce /\ [Next]_vars => EvidenceUsedOnce'
  <2> SUFFICES ASSUME TypeOK, EvidenceUsedOnce, [Next]_vars
               PROVE  EvidenceUsedOnce'
    OBVIOUS
  <2>1. CASE UNCHANGED receipts
    BY <2>1 DEF EvidenceUsedOnce
  <2>2. ASSUME NEW a \in Actors, NEW s \in Shifts, ApproveShiftClose(s, a)
        PROVE  EvidenceUsedOnce'
    BY <2>2, SettlingStep DEF ApproveShiftClose, CashOfShift
  <2>3. ASSUME NEW a \in Actors, FinanceStep(a)
        PROVE  EvidenceUsedOnce'
    <3>1. PICK r \in receipts : ReconcilePayment(r, a)
      BY <2>3 DEF FinanceStep
    <3> DEFINE R == {r}
    <3>2. R \in SUBSET receipts
      OBVIOUS
    <3>3. receipts' = (receipts \ R) \cup {Reconciled(t, a) : t \in R}
      BY <3>1 DEF ReconcilePayment
    <3> HIDE DEF R
    <3> QED
      BY <3>2, <3>3, SettlingStep
  <2>4. CASE UNCHANGED vars
    BY <2>1, <2>4 DEF vars
  <2> QED
    BY <2>1, <2>2, <2>3, <2>4, ShiftStepReceipts, CheckoutEvidence DEF Next
<1> QED
  BY <1>1, <1>2, PosTyping, PTL DEF Spec

-----------------------------------------------------------------------------
(* The settled till.                                                       *)

(* A reconciled receipt has its payment journal released.                  *)
ReleasedInv ==
    /\ ClosedTillIsSettled
    /\ \A r \in receipts : r.status = "reconciled" => r.journal = "ready"

LEMMA ApprovalSettles ==
    ASSUME TypeOK, ReleasedInv, NEW s \in Shifts, NEW a \in Actors,
           ApproveShiftClose(s, a)
    PROVE  ReleasedInv'
<1> DEFINE R == CashOfShift(s)
<1>1. receipts' = (receipts \ R) \cup {Reconciled(r, a) : r \in R}
  BY DEF ApproveShiftClose
<1>2. R \in SUBSET receipts
  BY DEF CashOfShift
<1>3. \A t \in receipts' :
        \/ t \in receipts \ R
        \/ \E r \in R : /\ t.shift = r.shift
                        /\ t.status = "reconciled" /\ t.journal = "ready"
  <2> HIDE DEF R
  <2> QED
    BY <1>1, <1>2, SettlingStep
<1>4. \A t \in Shifts \ {s} : shift'[t] = shift[t]
  BY DEF ApproveShiftClose, TypeOK
<1>5. \A t \in receipts \ R : t.shift = s /\ t.method = "cash" => t.status = "reconciled"
  BY DEF CashOfShift, TypeOK, Receipt
<1>6. \A t \in receipts' : t.status = "reconciled" => t.journal = "ready"
  BY <1>3 DEF ReleasedInv
<1>7. ClosedTillIsSettled'
  <2> SUFFICES ASSUME NEW t \in Shifts, shift'[t].status = "closed",
                      NEW r \in receipts', r.shift = t, r.method = "cash"
               PROVE  r.status = "reconciled" /\ r.journal = "ready"
    BY DEF ClosedTillIsSettled
  <2>1. CASE r \in receipts \ R /\ t = s
    BY <1>5, <1>6, <2>1
  <2>2. CASE r \in receipts \ R /\ t # s
    BY <1>4, <2>2 DEF ReleasedInv, ClosedTillIsSettled
  <2> QED
    BY <1>3, <2>1, <2>2
<1> QED
  BY <1>6, <1>7 DEF ReleasedInv

(* Leaving aside the approval of a close, no shift becomes closed.         *)
LEMMA OthersCloseNothing ==
    ASSUME TypeOK, NEW s \in Shifts, NEW a \in Actors, ShiftStep(s, a),
           UNCHANGED receipts, NEW t \in Shifts, shift'[t].status = "closed",
           ~ ApproveShiftClose(s, a)
    PROVE  shift[t].status = "closed"
<1>1. CASE t # s
  BY <1>1, LiveShifts
<1>2. CASE t = s
  <2> USE <1>2
  <2>s. shift[s] \in Shift /\ DOMAIN shift = Shifts
    BY DEF TypeOK
  <2>1. ~ \E opening \in OpeningCash : OpenRetailCashierShift(s, opening, a)
    BY <2>s DEF OpenRetailCashierShift, Shift
  <2>2. ~ \E counted \in Counts, rails \in Declarations :
            RequestRetailCashierShiftClose(s, counted, rails, a)
    BY <2>s DEF RequestRetailCashierShiftClose, Shift
  <2>3. ~ RequestVarianceResolution(s, a)
    BY <2>s DEF RequestVarianceResolution, Shift
  <2>4. ~ \E decision \in {"approved", "rejected"} :
            DecideVarianceResolution(s, decision, a)
    BY <2>s DEF DecideVarianceResolution, Shift
  <2>5. ~ RejectShiftClose(s, a)
    BY <2>s DEF RejectShiftClose, NoShift
  <2> QED
    BY <2>1, <2>2, <2>3, <2>4, <2>5 DEF ShiftStep
<1> QED
  BY <1>1, <1>2

LEMMA CheckoutReleased ==
    ASSUME TypeOK, ReleasedInv, NEW a \in Actors, CounterStep(a)
    PROVE  ReleasedInv'
<1>1. PICK k \in RawKeys, s \in Shifts, q \in Requests : CheckoutRetailSale(k, s, q, a)
  BY DEF CounterStep
<1>2. /\ receipts' = receipts \cup ReceiptsOf(Len(sales) + 1, s, q, a)
      /\ shift' = shift /\ shift[s].status = "open"
  BY <1>1 DEF CheckoutRetailSale, Sell, CanSell, TillOpenFor
<1>3. \A t \in ReceiptsOf(Len(sales) + 1, s, q, a) :
        t.shift = s /\ t.status = "recorded"
  BY DEF ReceiptsOf
<1> QED
  BY <1>2, <1>3 DEF ReleasedInv, ClosedTillIsSettled

(* The till settles what it closes and adds receipts to open shifts only.  *)
LEMMA ReleasedStep == TypeOK /\ ReleasedInv /\ [Next]_vars => ReleasedInv'
<1> SUFFICES ASSUME TypeOK, ReleasedInv, [Next]_vars PROVE ReleasedInv'
  OBVIOUS
<1>1. ASSUME NEW s \in Shifts, NEW a \in Actors, ShiftStep(s, a)
      PROVE  ReleasedInv'
  <2>1. CASE ApproveShiftClose(s, a)
    BY <2>1, ApprovalSettles
  <2>2. CASE ~ ApproveShiftClose(s, a)
    <3>1. UNCHANGED receipts
      BY <1>1, <2>2, ShiftStepReceipts
    <3>2. \A t \in Shifts : shift'[t].status = "closed" => shift[t].status = "closed"
      BY <1>1, <2>2, <3>1, OthersCloseNothing
    <3> QED
      BY <3>1, <3>2 DEF ReleasedInv, ClosedTillIsSettled
  <2> QED
    BY <2>1, <2>2
<1>2. ASSUME NEW a \in Actors, FinanceStep(a)
      PROVE  ReleasedInv'
  <2>1. PICK r \in receipts : ReconcilePayment(r, a)
    BY <1>2 DEF FinanceStep
  <2>2. /\ receipts' = (receipts \ {r}) \cup {Reconciled(r, a)}
        /\ shift' = shift
    BY <2>1 DEF ReconcilePayment
  <2>3. /\ Reconciled(r, a).status = "reconciled"
        /\ Reconciled(r, a).journal = "ready"
    BY ReconciledKeeps DEF TypeOK
  <2>4. \A t \in receipts' : t = Reconciled(r, a) \/ t \in receipts
    BY <2>2
  <2> QED
    BY <2>2, <2>3, <2>4 DEF ReleasedInv, ClosedTillIsSettled
<1>3. CASE UNCHANGED vars
  BY <1>3 DEF ReleasedInv, ClosedTillIsSettled, vars
<1> QED
  BY <1>1, <1>2, <1>3, CheckoutReleased DEF Next

(* Whatever the finance desk reconciled before and whoever sold what, the  *)
(* approval of a close leaves no cash of its shift unsettled, for good.    *)
THEOREM SettledTill == Spec => []ClosedTillIsSettled
<1>1. Init => ReleasedInv
  BY DEF Init, ReleasedInv, ClosedTillIsSettled
<1>2. ReleasedInv => ClosedTillIsSettled
  BY DEF ReleasedInv
<1> QED
  BY <1>1, <1>2, ReleasedStep, PosTyping, PTL DEF Spec

-----------------------------------------------------------------------------
(* A closed shift is final.                                                *)

LEMMA ClosedStaysInShiftStep ==
    ASSUME TypeOK, NEW t \in Shifts, shift[t].status = "closed",
           NEW s \in Shifts, NEW a \in Actors, ShiftStep(s, a)
    PROVE  shift'[t] = shift[t] /\ drawer'[t] = drawer[t] /\ sales' = sales
<1>1. s # t
  BY DEF ShiftStep, OpenRetailCashierShift, TillOpenFor,
     RequestRetailCashierShiftClose, RequestVarianceResolution,
     DecideVarianceResolution, ApproveShiftClose, RejectShiftClose
<1>2. drawer'[t] = drawer[t]
  BY <1>1 DEF TypeOK, ShiftStep, OpenRetailCashierShift,
     RequestRetailCashierShiftClose, RequestVarianceResolution,
     DecideVarianceResolution, ApproveShiftClose, RejectShiftClose
<1> QED
  BY <1>1, <1>2, LiveShifts, ShiftStepKeepsSales

LEMMA ClosedStaysInCheckout ==
    ASSUME TypeOK, NEW t \in Shifts, shift[t].status = "closed",
           NEW a \in Actors, CounterStep(a)
    PROVE  /\ shift'[t] = shift[t] /\ drawer'[t] = drawer[t]
           /\ {n \in DOMAIN sales' : sales'[n].shift = t} =
              {n \in DOMAIN sales : sales[n].shift = t}
<1>1. PICK k \in RawKeys, s \in Shifts, q \in Requests : CheckoutRetailSale(k, s, q, a)
  BY DEF CounterStep
<1>2. s # t /\ shift' = shift
  BY <1>1 DEF CheckoutRetailSale, CanSell, TillOpenFor, Sell
<1>3. drawer'[t] = drawer[t]
  BY <1>1, <1>2 DEF CheckoutRetailSale, Sell, TypeOK
<1> DEFINE sale == [key |-> CleanKey[k], shift |-> s, cashier |-> a, request |-> q]
<1>4. sales' = Append(sales, sale) /\ sale.shift = s
  BY <1>1 DEF CheckoutRetailSale, Sell
<1>5. CleanKey[k] \in Keys
  BY PosAssumption
<1>6. sale \in Sale /\ sales \in Seq(Sale)
  BY <1>5, PosAssumption DEF Sale, TypeOK
<1>7. /\ DOMAIN sales' = DOMAIN sales \cup {Len(sales) + 1}
      /\ sales'[Len(sales) + 1] = sale
      /\ \A n \in DOMAIN sales : sales'[n] = sales[n]
  <2> HIDE DEF sale
  <2> QED
    BY <1>4, <1>6
<1>8. {n \in DOMAIN sales' : sales'[n].shift = t} =
      {n \in DOMAIN sales : sales[n].shift = t}
  <2> HIDE DEF sale
  <2> QED
    BY <1>2, <1>4, <1>7
<1> QED
  BY <1>2, <1>3, <1>8

ClosedKept ==
    \A s \in Shifts : shift[s].status = "closed" =>
      /\ shift'[s] = shift[s]
      /\ drawer'[s] = drawer[s]
      /\ {n \in DOMAIN sales' : sales'[n].shift = s} =
         {n \in DOMAIN sales : sales[n].shift = s}

LEMMA TillKeepsClosed ==
    ASSUME TypeOK, [Next]_vars
    PROVE  ClosedKept
<1> USE DEF ClosedKept
<1> TAKE t \in Shifts
<1> HAVE shift[t].status = "closed"
<1>1. CASE UNCHANGED vars
  BY <1>1 DEF vars
<1>2. ASSUME NEW a \in Actors, FinanceStep(a)
      PROVE  UNCHANGED <<shift, drawer, sales>>
  BY <1>2 DEF FinanceStep, ReconcilePayment
<1>3. ASSUME NEW s \in Shifts, NEW a \in Actors, ShiftStep(s, a)
      PROVE  /\ shift'[t] = shift[t] /\ drawer'[t] = drawer[t]
             /\ {n \in DOMAIN sales' : sales'[n].shift = t} =
                {n \in DOMAIN sales : sales[n].shift = t}
  BY <1>3, ClosedStaysInShiftStep
<1> QED
  BY <1>1, <1>2, <1>3, ClosedStaysInCheckout DEF Next

(* No step changes a shift once it is closed, sells in it or moves cash    *)
(* through its drawer.                                                     *)
THEOREM ClosedForGood == Spec => CloseIsFinal
<1>1. TypeOK /\ [Next]_vars => [ClosedKept]_vars
  BY TillKeepsClosed
<1> QED
  BY <1>1, PosTyping, PTL DEF Spec, CloseIsFinal, ClosedKept

-----------------------------------------------------------------------------
(* The whole shop: the till with its returns and its exchanges.  Its sums  *)
(* are stated for any sales and any settlements, so that those before and  *)
(* after a step can be compared.                                           *)

SalesOf(t, m, S) == MapThenSumSet(LAMBDA n : TenderedBy(t[n].request, m), S)
SoldOf(t, s, m) == SalesOf(t, m, {n \in DOMAIN t : t[n].shift = s})

SalesTerms(t, m, S) == [n \in S |-> TenderedBy(t[n].request, m)]

LEMMA SalesOfIsTotal ==
    ASSUME NEW t, NEW m, NEW S, IsFiniteSet(S),
           \A n \in S : TenderedBy(t[n].request, m) \in Int
    PROVE  Terms(SalesTerms(t, m, S), S) /\ SalesOf(t, m, S) = Total(SalesTerms(t, m, S), S)
<1> DEFINE f == SalesTerms(t, m, S)
           Eq(h) == h = [s \in SUBSET S |-> IF s = {} THEN 0
                         ELSE LET x == CHOOSE x \in s : TRUE
                              IN TenderedBy(t[x].request, m) + h[s \ {x}]]
<1>0. Terms(f, S)
  BY DEF Terms, SalesTerms
<1>1. PICK g : Adds(g, f, S)
  BY <1>0, AddsExists
<1>2. Eq(g)
  BY <1>1, PickIsMember DEF Adds, Pick, SalesTerms
<1>3. Eq(CHOOSE h : Eq(h))
  <2> HIDE DEF Eq
  <2> QED
    BY <1>2
<1>4. \A h : Eq(h) => Adds(h, f, S)
  BY PickIsMember DEF Adds, Pick, SalesTerms
<1>5. SalesOf(t, m, S) = (CHOOSE h : Eq(h))[S]
  BY DEF SalesOf, MapThenSumSet, MapThenFoldSet
<1> HIDE DEF Eq, f
<1>6. SalesOf(t, m, S) = Total(f, S)
  BY <1>0, <1>3, <1>4, <1>5, TotalIs
<1> QED
  BY <1>0, <1>6 DEF f

(* A step that touches one settlement changes a sum by it alone.           *)
LEMMA HeldChange ==
    ASSUME IsFiniteSet(Settlements), \A y \in Settlements : settlement[y].amount \in Nat,
           \A y \in Settlements : settlement'[y].amount \in Nat,
           NEW S \in SUBSET Settlements, NEW T \in SUBSET Settlements, NEW x \in Settlements,
           \A y \in Settlements \ {x} : (y \in S <=> y \in T) /\ settlement'[y] = settlement[y]
    PROVE  /\ HeldBy(settlement', T) = HeldBy(settlement, S) - Adding(settlement, x, S)
                                       + Adding(settlement', x, T)
           /\ HeldBy(settlement', T) \in Nat /\ HeldBy(settlement, S) \in Nat
           /\ Adding(settlement, x, S) \in Nat /\ Adding(settlement', x, T) \in Nat
<1> DEFINE R == S \ {x}
<1>0. IsFiniteSet(S) /\ IsFiniteSet(T) /\ IsFiniteSet(R)
  BY FS_Subset
<1>1. R = T \ {x} /\ \A y \in R : y \in Settlements
                                   /\ settlement'[y].amount = settlement[y].amount
  OBVIOUS
<1>2. HeldBy(settlement', R) = HeldBy(settlement, R)
  <2> HIDE DEF R
  <2> QED
    BY <1>0, <1>1, HeldSame
<1>3. /\ HeldBy(settlement, S) = HeldBy(settlement, R) + Adding(settlement, x, S)
      /\ HeldBy(settlement, S) \in Nat /\ HeldBy(settlement, R) \in Nat
      /\ Adding(settlement, x, S) \in Nat
  BY <1>0, HeldSplit
<1>4. /\ HeldBy(settlement', T) = HeldBy(settlement', T \ {x}) + Adding(settlement', x, T)
      /\ HeldBy(settlement', T) \in Nat /\ Adding(settlement', x, T) \in Nat
  BY <1>0, HeldSplit
<1>5. HeldBy(settlement', T) = HeldBy(settlement', R) + Adding(settlement', x, T)
  <2> HIDE DEF R
  <2> QED
    BY <1>1, <1>4
<1> HIDE DEF R
<1> QED
  BY <1>2, <1>3, <1>4, <1>5

(* One sale more.                                                          *)
LEMMA SoldAppend ==
    ASSUME NEW t \in Seq(Sale), NEW v \in Sale, NEW s, NEW m
    PROVE  /\ SoldOf(Append(t, v), s, m) =
                SoldOf(t, s, m) + (IF v.shift = s THEN TenderedBy(v.request, m) ELSE 0)
           /\ SoldOf(t, s, m) \in Int
<1> DEFINE u == Append(t, v)
           k == Len(t) + 1
           S == {n \in DOMAIN t : t[n].shift = s}
           T == {n \in DOMAIN u : u[n].shift = s}
<1>1. /\ u \in Seq(Sale) /\ DOMAIN u = DOMAIN t \cup {k} /\ u[k] = v /\ k \notin DOMAIN t
      /\ \A n \in DOMAIN t : u[n] = t[n]
  OBVIOUS
<1>2. IsFiniteSet(DOMAIN t) /\ IsFiniteSet(DOMAIN u)
  BY <1>1, SequenceDomain
<1>3. IsFiniteSet(S) /\ IsFiniteSet(T)
  BY <1>2, FS_Subset
<1>4. /\ \A n \in S : TenderedBy(t[n].request, m) \in Int
      /\ \A n \in T : TenderedBy(u[n].request, m) \in Int
      /\ TenderedBy(v.request, m) \in Int
  <2>1. /\ \A n \in DOMAIN t : t[n].request \in Request
        /\ \A n \in DOMAIN u : u[n].request \in Request
        /\ v.request \in Request
    <3> HIDE DEF u
    <3>1. \A n \in DOMAIN t : t[n] \in Sale
      BY SequenceDomain
    <3>2. \A n \in DOMAIN u : u[n] \in Sale
      BY <1>1, SequenceDomain
    <3> QED
      BY <3>1, <3>2 DEF Sale
  <2> HIDE DEF u
  <2> QED
    BY <2>1, TenderedIsNat
<1>5. /\ Terms(SalesTerms(t, m, S), S) /\ SalesOf(t, m, S) = Total(SalesTerms(t, m, S), S)
      /\ Terms(SalesTerms(u, m, T), T) /\ SalesOf(u, m, T) = Total(SalesTerms(u, m, T), T)
  <2> HIDE DEF S, T, u
  <2> QED
    BY <1>3, <1>4, SalesOfIsTotal
<1>6. SoldOf(t, s, m) = SalesOf(t, m, S) /\ SoldOf(u, s, m) = SalesOf(u, m, T)
  BY DEF SoldOf
<1>7. CASE v.shift = s
  <2>1. T \ {k} = S /\ k \in T
    BY <1>1, <1>7
  <2>2. \A n \in S : SalesTerms(u, m, T)[n] = SalesTerms(t, m, S)[n]
    BY <1>1, <2>1 DEF SalesTerms
  <2>3. SalesTerms(u, m, T)[k] = TenderedBy(v.request, m)
    BY <1>1, <2>1 DEF SalesTerms
  <2> HIDE DEF S, T, u, k
  <2>4. Total(SalesTerms(u, m, T), T) = SalesTerms(u, m, T)[k] + Total(SalesTerms(u, m, T), S)
    BY <1>5, <2>1, TotalTake
  <2>5. Total(SalesTerms(u, m, T), S) = Total(SalesTerms(t, m, S), S)
    BY <1>5, <2>2, TotalSame
  <2>6. Total(SalesTerms(t, m, S), S) \in Int
    BY <1>5, TotalType
  <2> QED
    BY <1>4, <1>5, <1>6, <1>7, <2>3, <2>4, <2>5, <2>6 DEF u
<1>8. CASE v.shift # s
  <2>1. T = S
    BY <1>1, <1>8
  <2>2. \A n \in S : SalesTerms(u, m, T)[n] = SalesTerms(t, m, S)[n]
    BY <1>1, <2>1 DEF SalesTerms
  <2> HIDE DEF S, T, u, k
  <2>3. Total(SalesTerms(u, m, T), S) = Total(SalesTerms(t, m, S), S)
    BY <1>5, <2>2, TotalSame
  <2>4. Total(SalesTerms(t, m, S), S) \in Int
    BY <1>5, TotalType
  <2> QED
    BY <1>5, <1>6, <1>8, <2>1, <2>3, <2>4 DEF u
<1> QED
  BY <1>7, <1>8

LEMMA SoldNothing ==
    ASSUME NEW t, NEW s, NEW m, \A n \in DOMAIN t : t[n].shift # s
    PROVE  SoldOf(t, s, m) = 0
<1>1. {n \in DOMAIN t : t[n].shift = s} = {}
  OBVIOUS
<1>2. SoldOf(t, s, m) = Total(SalesTerms(t, m, {}), {})
  BY <1>1, FS_EmptySet, SalesOfIsTotal DEF SoldOf
<1> QED
  BY <1>2, TotalEmpty

-----------------------------------------------------------------------------
(* What the records of the shop refer to: a cashier, a shift that was      *)
(* opened, a sale that was made, a return that was approved.               *)

ShopTypes == TypeOK /\ ReturnTypeOK /\ ExchangeTypeOK

ShiftPlaces == \A s \in Shifts : shift[s].status # "none" => shift[s].cashier \in Actors
SalePlaces == \A n \in DOMAIN sales : shift[sales[n].shift].status # "none"
ReturnPlaces == \A r \in Returns : ret[r].status # "none" => ret[r].sale \in DOMAIN sales
SettlementPlaces ==
    \A x \in Settlements :
      /\ settlement[x].status # "none" =>
           /\ settlement[x].return \in Returns
           /\ ret[settlement[x].return].status = "approved"
           /\ settlement[x].method = "cash" => settlement[x].shift \in Shifts
      /\ settlement[x].shift \in Shifts => shift[settlement[x].shift].status # "none"
ExchangePlaces ==
    \A e \in Exchanges : exchange[e].status = "requested" =>
      /\ exchange[e].return \in Returns /\ exchange[e].shift \in Shifts
      /\ exchange[e].quantity # 0
      /\ \A i \in DOMAIN exchange[e].topUp : exchange[e].topUp[i].method # "store-credit"

PlaceInv == /\ ShiftPlaces /\ SalePlaces /\ ReturnPlaces
            /\ SettlementPlaces /\ ExchangePlaces

LEMMA SalesTyped ==
    ASSUME TypeOK, NEW n \in DOMAIN sales
    PROVE  /\ sales[n] \in Sale /\ sales[n].shift \in Shifts
           /\ sales[n].request \in Request /\ n \in Nat
<1>1. sales[n] \in Sale /\ n \in Nat
  BY DEF TypeOK
<1> QED
  BY <1>1 DEF Sale

(* A shift that was opened stays opened, in its cashier's name and with    *)
(* its float.                                                              *)
LEMMA ShiftsMoveOn ==
    ASSUME TypeOK, NEW s \in Shifts, NEW a \in Actors, ShiftStep(s, a)
    PROVE  /\ \A t \in Shifts \ {s} : shift'[t] = shift[t]
           /\ shift'[s].status # "none"
           /\ shift[s].status # "none" => /\ shift'[s].cashier = shift[s].cashier
                                          /\ shift'[s].opening = shift[s].opening
           /\ shift[s].status = "none" => shift'[s].cashier \in Actors
<1>s. shift[s] \in Shift /\ DOMAIN shift = Shifts
  BY DEF TypeOK
<1>1. ASSUME NEW opening \in OpeningCash, OpenRetailCashierShift(s, opening, a)
      PROVE  /\ shift'[s].status = "open" /\ shift[s].status = "none"
             /\ shift'[s].cashier = a
  BY <1>1, <1>s DEF OpenRetailCashierShift, Shift
<1>2. ASSUME NEW counted \in Counts, NEW rails \in Declarations,
             RequestRetailCashierShiftClose(s, counted, rails, a)
      PROVE  /\ shift[s].status # "none" /\ shift'[s].status = "close-requested"
             /\ shift'[s].cashier = shift[s].cashier /\ shift'[s].opening = shift[s].opening
  BY <1>2, <1>s DEF RequestRetailCashierShiftClose, TillOpenFor, Shift
<1>3. ASSUME RequestVarianceResolution(s, a)
      PROVE  /\ shift[s].status # "none" /\ shift'[s].status = "close-requested"
             /\ shift'[s].cashier = shift[s].cashier /\ shift'[s].opening = shift[s].opening
  BY <1>3, <1>s DEF RequestVarianceResolution, Shift
<1>4. ASSUME NEW decision \in {"approved", "rejected"},
             DecideVarianceResolution(s, decision, a)
      PROVE  /\ shift[s].status # "none" /\ shift'[s].status = "close-requested"
             /\ shift'[s].cashier = shift[s].cashier /\ shift'[s].opening = shift[s].opening
  BY <1>4, <1>s DEF DecideVarianceResolution, Shift
<1>5. ASSUME ApproveShiftClose(s, a)
      PROVE  /\ shift[s].status # "none" /\ shift'[s].status = "closed"
             /\ shift'[s].cashier = shift[s].cashier /\ shift'[s].opening = shift[s].opening
  BY <1>5, <1>s DEF ApproveShiftClose, Shift
<1>6. ASSUME RejectShiftClose(s, a)
      PROVE  /\ shift[s].status # "none" /\ shift'[s].status = "open"
             /\ shift'[s].cashier = shift[s].cashier /\ shift'[s].opening = shift[s].opening
  BY <1>6, <1>s DEF RejectShiftClose, NoShift, Shift
<1>7. \A t \in Shifts \ {s} : shift'[t] = shift[t]
  BY LiveShifts
<1> QED
  BY <1>1, <1>2, <1>3, <1>4, <1>5, <1>6, <1>7 DEF ShiftStep

LEMMA ShiftStepFrame ==
    ASSUME NEW s \in Shifts, NEW a \in Actors, ShiftStep(s, a)
    PROVE  UNCHANGED <<sales, credit, settlement, stock, owed>>
  BY DEF ShiftStep, OpenRetailCashierShift, RequestRetailCashierShiftClose,
     RequestVarianceResolution, DecideVarianceResolution, ApproveShiftClose,
     RejectShiftClose

(* Places depend on the statuses of shifts alone, and these never go back. *)
LEMMA ShiftStepPlaces ==
    ASSUME TypeOK, PlaceInv, NEW s \in Shifts, NEW a \in Actors, ShiftStep(s, a),
           UNCHANGED <<ret, exchange>>
    PROVE  PlaceInv'
<1>1. \A t \in Shifts : shift[t].status # "none" => shift'[t].status # "none"
  BY ShiftsMoveOn
<1>2. UNCHANGED <<sales, settlement>>
  BY ShiftStepFrame
<1>3. ShiftPlaces'
  BY ShiftsMoveOn DEF PlaceInv, ShiftPlaces
<1>4. SalePlaces'
  <2>1. \A n \in DOMAIN sales : sales[n].shift \in Shifts
    BY SalesTyped
  <2> QED
    BY <1>1, <1>2, <2>1 DEF PlaceInv, SalePlaces
<1>5. SettlementPlaces'
  BY <1>1, <1>2 DEF PlaceInv, SettlementPlaces
<1>6. ReturnPlaces' /\ ExchangePlaces'
  BY <1>2 DEF PlaceInv, ReturnPlaces, ExchangePlaces
<1> QED
  BY <1>3, <1>4, <1>5, <1>6 DEF PlaceInv

(* A sale made in an open shift.                                           *)
LEMMA SaleMadePlaces ==
    ASSUME TypeOK, PlaceInv, NEW v \in Sale, sales' = Append(sales, v),
           shift[v.shift].status = "open", shift' = shift
    PROVE  /\ ShiftPlaces' /\ SalePlaces'
           /\ DOMAIN sales \subseteq DOMAIN sales'
           /\ \A n \in DOMAIN sales : sales'[n] = sales[n]
           /\ Len(sales) + 1 \notin DOMAIN sales
           /\ DOMAIN sales' = DOMAIN sales \cup {Len(sales) + 1}
           /\ sales'[Len(sales) + 1] = v
<1>1. /\ DOMAIN sales' = DOMAIN sales \cup {Len(sales) + 1}
      /\ sales'[Len(sales) + 1] = v /\ Len(sales) + 1 \notin DOMAIN sales
      /\ \A n \in DOMAIN sales : sales'[n] = sales[n]
  BY DEF TypeOK
<1>2. SalePlaces'
  BY <1>1 DEF PlaceInv, SalePlaces
<1>3. ShiftPlaces'
  BY DEF PlaceInv, ShiftPlaces
<1> QED
  BY <1>1, <1>2, <1>3

LEMMA CheckoutMakesSale ==
    ASSUME NEW k \in RawKeys, NEW s \in Shifts, NEW q \in Requests, NEW a \in Actors,
           CheckoutRetailSale(k, s, q, a)
    PROVE  LET v == [key |-> CleanKey[k], shift |-> s, cashier |-> a, request |-> q]
           IN  /\ v \in Sale /\ sales' = Append(sales, v) /\ q \in Request
               /\ shift[s].status = "open" /\ shift' = shift
               /\ receipts' = receipts \cup ReceiptsOf(Len(sales) + 1, s, q, a)
               /\ credit' = CreditAfter(q) /\ TendersAccepted(q)
               /\ drawer' = [drawer EXCEPT ![s] = @ + TenderedBy(q, "cash")]
               /\ UNCHANGED <<expectedCash, settlement>>
<1>1. CleanKey[k] \in Keys /\ q \in Request
  BY PosAssumption
<1> QED
  BY <1>1 DEF CheckoutRetailSale, CanSell, TillOpenFor, Sell, Sale

LEMMA CounterStepPlaces ==
    ASSUME TypeOK, PlaceInv, NEW a \in Actors, CounterStep(a), UNCHANGED <<ret, exchange>>
    PROVE  PlaceInv'
<1>1. PICK k \in RawKeys, s \in Shifts, q \in Requests : CheckoutRetailSale(k, s, q, a)
  BY DEF CounterStep
<1> DEFINE v == [key |-> CleanKey[k], shift |-> s, cashier |-> a, request |-> q]
<1>2. /\ v \in Sale /\ sales' = Append(sales, v) /\ v.shift = s /\ shift[s].status = "open"
      /\ shift' = shift /\ settlement' = settlement
  BY <1>1, CheckoutMakesSale
<1>3. /\ ShiftPlaces' /\ SalePlaces' /\ DOMAIN sales \subseteq DOMAIN sales'
  <2> HIDE DEF v
  <2> QED
    BY <1>2, SaleMadePlaces
<1>4. ReturnPlaces'
  BY <1>3 DEF PlaceInv, ReturnPlaces
<1>5. SettlementPlaces' /\ ExchangePlaces'
  BY <1>2 DEF PlaceInv, SettlementPlaces, ExchangePlaces
<1> QED
  BY <1>3, <1>4, <1>5 DEF PlaceInv

LEMMA TillPlaces ==
    ASSUME TypeOK, PlaceInv, Next, UNCHANGED <<ret, exchange>>
    PROVE  PlaceInv'
<1>1. ASSUME NEW a \in Actors, FinanceStep(a)
      PROVE  PlaceInv'
  <2>1. UNCHANGED <<shift, sales, settlement>>
    BY <1>1 DEF FinanceStep, ReconcilePayment
  <2> QED
    BY <2>1 DEF PlaceInv, ShiftPlaces, SalePlaces, ReturnPlaces, SettlementPlaces,
                ExchangePlaces
<1> QED
  BY <1>1, ShiftStepPlaces, CounterStepPlaces DEF Next

(* The records of a return case. *)
LEMMA ReturnRecord ==
    ASSUME ReturnTypeOK, NEW r \in Returns
    PROVE  /\ ret[r] \in Return /\ ret[r].sale \in Nat /\ ret[r].quantity \in Nat
           /\ ret[r].creditVersion \in Nat /\ DOMAIN ret = Returns
  BY DEF ReturnTypeOK, Return

LEMMA ReturnStepShop ==
    ASSUME ShopTypes, PlaceInv, NEW r \in Returns, NEW a \in Actors, ReturnStep(r, a),
           UNCHANGED exchange
    PROVE  ShopTypes' /\ PlaceInv'
<1>r. ret[r] \in Return /\ DOMAIN ret = Returns /\ ret \in [Returns -> Return]
  BY ReturnRecord DEF ShopTypes, ReturnTypeOK
<1>t. TypeOK /\ ExchangeTypeOK
  BY DEF ShopTypes
<1>1. ASSUME NEW n \in DOMAIN sales, NEW quantity \in 1..sales[n].request.quantity,
             CreateRetailReturnRequest(r, n, quantity, a)
      PROVE  /\ TypeOK' /\ UNCHANGED <<shift, sales, settlement>>
             /\ ret' = [ret EXCEPT ![r] = ret'[r]] /\ ret'[r] \in Return
             /\ ret'[r].sale \in DOMAIN sales
             /\ ret[r].status # "approved"
  <2>1. n \in Nat /\ sales[n].request.quantity \in Nat /\ quantity \in Nat
    BY <1>t, SalesTyped, RequestTyping
  <2> DEFINE z == [ret[r] EXCEPT !.status = "requested", !.sale = n,
                                 !.quantity = quantity, !.requestedBy = a]
  <2>2. z \in Return /\ z.sale = n
    BY <1>r, <2>1 DEF Return
  <2>3. ret' = [ret EXCEPT ![r] = z] /\ UNCHANGED vars /\ ret[r].status = "none"
    BY <1>1 DEF CreateRetailReturnRequest
  <2>4. UNCHANGED <<shift, sales, settlement>>
    BY <2>3 DEF vars
  <2>5. TypeOK'
    BY <1>t, <2>3 DEF TypeOK, vars
  <2> HIDE DEF z
  <2> QED
    BY <1>r, <2>2, <2>3, <2>4, <2>5
<1>2. ASSUME NEW outcome \in {"resalable", "isolated"}, InspectRetailReturn(r, outcome, a)
      PROVE  /\ TypeOK' /\ UNCHANGED <<shift, sales, settlement>>
             /\ ret' = [ret EXCEPT ![r] = ret'[r]] /\ ret'[r] \in Return
             /\ ret'[r].sale \in DOMAIN sales
             /\ ret[r].status # "approved"
  <2> DEFINE z == [ret[r] EXCEPT !.status = "inspected", !.inspectedBy = a,
                                 !.outcome = outcome]
  <2>1. z \in Return /\ z.sale = ret[r].sale
    BY <1>r DEF Return
  <2>2. ret' = [ret EXCEPT ![r] = z] /\ UNCHANGED vars /\ ret[r].status = "requested"
    BY <1>2 DEF InspectRetailReturn
  <2>3. ret[r].sale \in DOMAIN sales
    BY <2>2 DEF PlaceInv, ReturnPlaces
  <2>4. UNCHANGED <<shift, sales, settlement>>
    BY <2>2 DEF vars
  <2>5. TypeOK'
    BY <1>t, <2>2 DEF TypeOK, vars
  <2> HIDE DEF z
  <2> QED
    BY <1>r, <2>1, <2>2, <2>3, <2>4, <2>5
<1>3. ASSUME NEW decision \in {"approved", "rejected"}, DecideRetailReturn(r, decision, a)
      PROVE  /\ TypeOK' /\ UNCHANGED <<shift, sales, settlement>>
             /\ ret' = [ret EXCEPT ![r] = ret'[r]] /\ ret'[r] \in Return
             /\ ret'[r].sale \in DOMAIN sales
             /\ ret[r].status # "approved"
  <2> DEFINE y == [ret[r] EXCEPT !.status = "approved", !.approvedBy = a, !.creditVersion = 1]
             w == [ret[r] EXCEPT !.status = "rejected"]
  <2>1. y \in Return /\ y.sale = ret[r].sale /\ w \in Return /\ w.sale = ret[r].sale
    BY <1>r DEF Return
  <2>2. /\ ret' = [ret EXCEPT ![r] = y] \/ ret' = [ret EXCEPT ![r] = w]
        /\ ret[r].status = "inspected"
        /\ UNCHANGED <<shift, expectedCash, sales, receipts, credit, settlement,
                       owed, varianceJournals, drawer>>
    BY <1>3 DEF DecideRetailReturn
  <2>3. stock' \in Nat
    BY <1>3, <1>t, <1>r DEF DecideRetailReturn, TypeOK, Return
  <2>4. ret[r].sale \in DOMAIN sales
    BY <2>2 DEF PlaceInv, ReturnPlaces
  <2>5. TypeOK'
    BY <1>t, <2>2, <2>3 DEF TypeOK
  <2> HIDE DEF y, w
  <2> QED
    BY <1>r, <2>1, <2>2, <2>4, <2>5
<1>4. /\ TypeOK' /\ UNCHANGED <<shift, sales, settlement>>
      /\ ret' = [ret EXCEPT ![r] = ret'[r]] /\ ret'[r] \in Return
      /\ ret'[r].sale \in DOMAIN sales
      /\ ret[r].status # "approved"
  BY <1>1, <1>2, <1>3 DEF ReturnStep
<1>5. ShopTypes'
  BY <1>4, <1>r, <1>t DEF ShopTypes, ReturnTypeOK, ExchangeTypeOK
<1>6. \A t \in Returns \ {r} : ret'[t] = ret[t]
  BY <1>4, <1>r
<1>7. ShiftPlaces' /\ SalePlaces' /\ ExchangePlaces'
  BY <1>4 DEF PlaceInv, ShiftPlaces, SalePlaces, ExchangePlaces
<1>8. ReturnPlaces'
  BY <1>4, <1>6 DEF PlaceInv, ReturnPlaces
<1>9. SettlementPlaces'
  BY <1>4, <1>6 DEF PlaceInv, SettlementPlaces
<1> QED
  BY <1>5, <1>7, <1>8, <1>9 DEF PlaceInv

-----------------------------------------------------------------------------
(* Steps of one settlement: its return's credit moves to a new version,    *)
(* and the settlement becomes z.                                           *)

Touches(x, r, z) ==
    /\ settlement' = [settlement EXCEPT ![x] = z]
    /\ ret' = [ret EXCEPT ![r] = [ret[r] EXCEPT !.creditVersion = @ + 1]]

Moves(x, r, z) ==
    /\ Touches(x, r, z)
    /\ UNCHANGED <<shift, expectedCash, sales, receipts, stock, owed, varianceJournals,
                   exchange>>

LEMMA TouchesShop ==
    ASSUME ShopTypes, PlaceInv, NEW x \in Settlements, NEW r \in Returns, NEW z \in Settlement,
           Touches(x, r, z), shift' = shift, DOMAIN sales \subseteq DOMAIN sales',
           z.status # "none" =>
             /\ z.return = r /\ ret[r].status = "approved"
             /\ z.method = "cash" => z.shift \in Shifts,
           z.shift \in Shifts => shift[z.shift].status # "none"
    PROVE  /\ settlement' \in [Settlements -> Settlement] /\ ReturnTypeOK'
           /\ ReturnPlaces' /\ SettlementPlaces'
           /\ \A t \in Returns : ret'[t].status = ret[t].status /\ ret'[t].sale = ret[t].sale
                                 /\ ret'[t].quantity = ret[t].quantity
           /\ \A y \in Settlements : settlement'[y] = IF y = x THEN z ELSE settlement[y]
<1>r. ret[r] \in Return /\ DOMAIN ret = Returns /\ ret \in [Returns -> Return]
  BY ReturnRecord DEF ShopTypes, ReturnTypeOK
<1>t. settlement \in [Settlements -> Settlement]
  BY DEF ShopTypes, TypeOK
<1> DEFINE v == [ret[r] EXCEPT !.creditVersion = @ + 1]
<1>1. /\ v \in Return /\ v.status = ret[r].status /\ v.sale = ret[r].sale
      /\ v.quantity = ret[r].quantity
  BY <1>r DEF Return
<1>2. ret' = [ret EXCEPT ![r] = v]
  BY DEF Touches
<1> HIDE DEF v
<1>3. \A t \in Returns : ret'[t].status = ret[t].status /\ ret'[t].sale = ret[t].sale
                         /\ ret'[t].quantity = ret[t].quantity
  BY <1>r, <1>1, <1>2
<1>4. /\ \A y \in Settlements : settlement'[y] = IF y = x THEN z ELSE settlement[y]
      /\ settlement' \in [Settlements -> Settlement]
  BY <1>t DEF Touches
<1>5. ReturnTypeOK'
  BY <1>r, <1>1, <1>2 DEF ReturnTypeOK
<1>6. ReturnPlaces'
  BY <1>3 DEF PlaceInv, ReturnPlaces
<1>7. SettlementPlaces'
  <2> SUFFICES ASSUME NEW y \in Settlements
               PROVE
      /\ settlement'[y].status # "none" =>
           /\ settlement'[y].return \in Returns
           /\ ret'[settlement'[y].return].status = "approved"
           /\ settlement'[y].method = "cash" => settlement'[y].shift \in Shifts
      /\ settlement'[y].shift \in Shifts => shift'[settlement'[y].shift].status # "none"
    BY DEF SettlementPlaces
  <2>1. CASE y = x
    BY <1>3, <1>4, <2>1
  <2>2. CASE y # x
    BY <1>3, <1>4, <2>2 DEF PlaceInv, SettlementPlaces
  <2> QED
    BY <2>1, <2>2
<1> QED
  BY <1>3, <1>4, <1>5, <1>6, <1>7

LEMMA SettlementMovesShop ==
    ASSUME ShopTypes, PlaceInv, NEW x \in Settlements, NEW r \in Returns, NEW z \in Settlement,
           Moves(x, r, z),
           credit' \in [Credits -> Credit], drawer' \in [Shifts -> Int],
           z.status # "none" =>
             /\ z.return = r /\ ret[r].status = "approved"
             /\ z.method = "cash" => z.shift \in Shifts,
           z.shift \in Shifts => shift[z.shift].status # "none"
    PROVE  ShopTypes' /\ PlaceInv'
<1>1. Touches(x, r, z) /\ shift' = shift /\ DOMAIN sales \subseteq DOMAIN sales'
  BY DEF Moves
<1>2. /\ settlement' \in [Settlements -> Settlement] /\ ReturnTypeOK'
      /\ ReturnPlaces' /\ SettlementPlaces'
  BY <1>1, TouchesShop
<1>3. TypeOK' /\ ExchangeTypeOK'
  BY <1>2 DEF Moves, ShopTypes, TypeOK, ExchangeTypeOK
<1>4. ShiftPlaces' /\ SalePlaces' /\ ExchangePlaces'
  BY DEF Moves, PlaceInv, ShiftPlaces, SalePlaces, ExchangePlaces
<1> QED
  BY <1>2, <1>3, <1>4 DEF ShopTypes, PlaceInv

(* The four things a settlement step can be: a request, an answer that     *)
(* moves no value, a payment from the drawer, the issue of a store credit. *)
Asks(x, r, z) ==
    /\ settlement[x].status = "none" /\ z.status = "requested"
    /\ ret[r].status = "approved" /\ z.return = r
    /\ z.amount <= Available(r) /\ SettlementAllowed(r, z.method, z.amount, z.shift, z.requestedBy)
    /\ z.method \in {"cash", "upi", "card", "store-credit"}
    /\ UNCHANGED <<credit, drawer>>

Keeps(x, r, z) ==
    /\ settlement[x].status \in {"requested", "provider-refund-pending"}
    /\ r = settlement[x].return /\ z.return = r
    /\ z.method = settlement[x].method /\ z.amount = settlement[x].amount
    /\ z.shift = settlement[x].shift

Answers(x, r, z) ==
    /\ Keeps(x, r, z)
    /\ IF settlement[x].status = "requested"
       THEN z.status \in {"rejected", "provider-refund-pending"}
       ELSE z.status \in {"provider-refunded", "provider-refund-rejected"}
    /\ UNCHANGED <<credit, drawer>>

Pays(x, r, z) ==
    /\ Keeps(x, r, z) /\ settlement[x].status = "requested"
    /\ z.status = "cash-refunded" /\ z.method = "cash" /\ shift[z.shift].status = "open"
    /\ drawer' = [drawer EXCEPT ![z.shift] = @ - z.amount]
    /\ UNCHANGED credit

Issues(x, r, z, c) ==
    /\ Keeps(x, r, z) /\ settlement[x].status = "requested"
    /\ z.status = "store-credit-issued" /\ z.method = "store-credit"
    /\ credit[c].status = "none"
    /\ credit' = [credit EXCEPT ![c] = StoreCreditFor(r, z.amount, z.amount)]
    /\ UNCHANGED drawer

LEMMA SettlementRecord ==
    ASSUME TypeOK, NEW x \in Settlements
    PROVE  /\ settlement[x] \in Settlement /\ settlement[x].amount \in Nat
           /\ DOMAIN settlement = Settlements /\ IsFiniteSet(Settlements)
  BY PosAssumption DEF TypeOK, Settlement

LEMMA RequestCase ==
    ASSUME ShopTypes, PlaceInv, NEW x \in Settlements, NEW a \in Actors, NEW r \in Returns,
           NEW method \in {"cash", "upi", "card", "store-credit"} \cap Methods,
           NEW s \in Shifts \cup {None}, NEW amount \in 1..Available(r),
           RequestRetailReturnSettlement(x, r, method, amount, s, a), UNCHANGED exchange
    PROVE  \E z \in Settlement : /\ Moves(x, r, z) /\ Asks(x, r, z)
                                 /\ z.method = "cash" => z.shift \in Shifts
                                 /\ z.shift \in Shifts => shift[z.shift].status # "none"
<1>s. settlement[x] \in Settlement /\ settlement[x].status = "none" /\ ret[r].status = "approved"
  BY SettlementRecord DEF ShopTypes, RequestRetailReturnSettlement
<1>a. amount \in Nat
  <2>1. amount \in Int /\ amount >= 1
    OBVIOUS
  <2> QED
    BY <2>1
<1>b. amount <= Available(r) /\ SettlementAllowed(r, method, amount, s, a)
  BY DEF RequestRetailReturnSettlement
<1> DEFINE z == [settlement[x] EXCEPT !.status = "requested", !.return = r,
                   !.method = method, !.amount = amount, !.shift = s, !.requestedBy = a]
<1>1. z \in Settlement
  BY <1>s, <1>a DEF Settlement
<1>2. /\ z.status = "requested" /\ z.return = r /\ z.method = method /\ z.amount = amount
      /\ z.shift = s /\ z.requestedBy = a
  BY <1>s DEF Settlement
<1>3. Moves(x, r, z) /\ UNCHANGED <<credit, drawer>>
  BY DEF RequestRetailReturnSettlement, Moves, Touches
<1>4. /\ method = "cash" => s \in Shifts
      /\ s \in Shifts => shift[s].status # "none"
  <2>1. CASE method = "cash"
    BY <1>b, <2>1 DEF SettlementAllowed, DrawerOpenFor
  <2>2. CASE method # "cash"
    BY <1>b, <2>2, PosAssumption DEF SettlementAllowed
  <2> QED
    BY <2>1, <2>2
<1>5. Asks(x, r, z)
  <2> HIDE DEF z
  <2> QED
    BY <1>s, <1>b, <1>2, <1>3 DEF Asks
<1> HIDE DEF z
<1> QED
  BY <1>1, <1>2, <1>3, <1>4, <1>5

LEMMA DecideCase ==
    ASSUME ShopTypes, PlaceInv, NEW x \in Settlements, NEW a \in Actors,
           NEW decision \in {"approved", "rejected"},
           DecideRetailReturnSettlement(x, decision, a), UNCHANGED exchange
    PROVE  \E z \in Settlement :
             LET r == settlement[x].return
             IN  /\ Moves(x, r, z)
                 /\ Answers(x, r, z) \/ Pays(x, r, z) \/ \E c \in Credits : Issues(x, r, z, c)
<1> DEFINE r == settlement[x].return
           y == [settlement[x] EXCEPT !.status = "rejected", !.decidedBy = a]
           p == [settlement[x] EXCEPT !.status = "cash-refunded", !.decidedBy = a]
           h == [settlement[x] EXCEPT !.status = "provider-refund-pending", !.decidedBy = a]
           i(c) == [settlement[x] EXCEPT !.status = "store-credit-issued",
                                         !.decidedBy = a, !.credit = c]
<1>s. settlement[x] \in Settlement /\ settlement[x].status = "requested"
  BY SettlementRecord DEF ShopTypes, DecideRetailReturnSettlement
<1>m. \A z : settlement' = [settlement EXCEPT ![x] = z] => Moves(x, r, z)
  BY DEF DecideRetailReturnSettlement, Moves, Touches
<1>1. CASE settlement' = [settlement EXCEPT ![x] = y] /\ UNCHANGED <<credit, drawer>>
  <2>1. y \in Settlement /\ Keeps(x, r, y) /\ y.status = "rejected"
    BY <1>s DEF Settlement, Keeps
  <2> HIDE DEF y
  <2>2. Moves(x, r, y) /\ Answers(x, r, y)
    BY <1>s, <1>m, <1>1, <2>1 DEF Answers
  <2> QED
    BY <2>1, <2>2
<1>2. CASE HoldForProvider(x, a)
  <2>1. h \in Settlement /\ Keeps(x, r, h) /\ h.status = "provider-refund-pending"
    BY <1>s DEF Settlement, Keeps
  <2>2. settlement' = [settlement EXCEPT ![x] = h] /\ UNCHANGED <<credit, drawer>>
    BY <1>2 DEF HoldForProvider
  <2> HIDE DEF h
  <2>3. Moves(x, r, h) /\ Answers(x, r, h)
    BY <1>s, <1>m, <2>1, <2>2 DEF Answers
  <2> QED
    BY <2>1, <2>3
<1>3. CASE PayCash(x, a)
  <2>1. p \in Settlement /\ Keeps(x, r, p) /\ p.status = "cash-refunded"
    BY <1>s DEF Settlement, Keeps
  <2>2. /\ settlement' = [settlement EXCEPT ![x] = p]
        /\ settlement[x].method = "cash" /\ shift[settlement[x].shift].status = "open"
        /\ drawer' = [drawer EXCEPT ![settlement[x].shift] = @ - settlement[x].amount]
        /\ UNCHANGED credit
    BY <1>3 DEF PayCash, DrawerOpenFor
  <2> HIDE DEF p
  <2>3. Moves(x, r, p) /\ Pays(x, r, p)
    BY <1>s, <1>m, <2>1, <2>2 DEF Pays, Keeps
  <2> QED
    BY <2>1, <2>3
<1>4. ASSUME NEW c \in Credits, IssueStoreCredit(x, c, a)
      PROVE  \E z \in Settlement : Moves(x, r, z) /\ Issues(x, r, z, c)
  <2> DEFINE z == i(c)
  <2>1. z \in Settlement /\ Keeps(x, r, z) /\ z.status = "store-credit-issued"
    BY <1>s DEF Settlement, Keeps
  <2>2. /\ settlement' = [settlement EXCEPT ![x] = z]
        /\ settlement[x].method = "store-credit" /\ credit[c].status = "none"
        /\ credit' = [credit EXCEPT ![c] = StoreCreditFor(r, settlement[x].amount,
                                                          settlement[x].amount)]
        /\ UNCHANGED drawer
    BY <1>4 DEF IssueStoreCredit
  <2> HIDE DEF z
  <2>3. Moves(x, r, z) /\ Issues(x, r, z, c)
    BY <1>s, <1>m, <2>1, <2>2 DEF Issues, Keeps
  <2> QED
    BY <2>1, <2>3
<1>5. \/ settlement' = [settlement EXCEPT ![x] = y] /\ UNCHANGED <<credit, drawer>>
      \/ HoldForProvider(x, a) \/ PayCash(x, a)
      \/ \E c \in Credits : IssueStoreCredit(x, c, a)
  BY DEF DecideRetailReturnSettlement
<1> HIDE DEF y, p, h, i
<1> QED
  BY <1>1, <1>2, <1>3, <1>4, <1>5

LEMMA ConfirmCase ==
    ASSUME ShopTypes, PlaceInv, NEW x \in Settlements, NEW a \in Actors,
           NEW decision \in {"confirmed", "rejected"},
           ConfirmRetailReturnProviderRefund(x, decision, a), UNCHANGED exchange
    PROVE  \E z \in Settlement : LET r == settlement[x].return
                                 IN  Moves(x, r, z) /\ Answers(x, r, z)
<1> DEFINE r == settlement[x].return
           answer == IF decision = "confirmed" THEN "provider-refunded"
                     ELSE "provider-refund-rejected"
           z == [settlement[x] EXCEPT !.status = answer, !.confirmedBy = a]
<1>s. settlement[x] \in Settlement /\ settlement[x].status = "provider-refund-pending"
  BY SettlementRecord DEF ShopTypes, ConfirmRetailReturnProviderRefund
<1>1. answer \in {"provider-refunded", "provider-refund-rejected"}
  OBVIOUS
<1>2. settlement' = [settlement EXCEPT ![x] = z] /\ UNCHANGED <<credit, drawer>>
  BY DEF ConfirmRetailReturnProviderRefund
<1>3. Moves(x, r, z)
  BY DEF ConfirmRetailReturnProviderRefund, Moves, Touches
<1> HIDE DEF answer
<1>4. z \in Settlement /\ Keeps(x, r, z) /\ z.status = answer
  BY <1>s, <1>1 DEF Settlement, Keeps
<1> HIDE DEF z
<1>5. Answers(x, r, z)
  BY <1>s, <1>1, <1>2, <1>4 DEF Answers
<1> QED
  BY <1>3, <1>4, <1>5

(* Every settlement step is one of the four.                               *)
LEMMA SettlementStepIs ==
    ASSUME ShopTypes, PlaceInv, NEW x \in Settlements, NEW a \in Actors,
           SettlementStep(x, a), UNCHANGED exchange
    PROVE  \E z \in Settlement, r \in Returns :
             /\ Moves(x, r, z) /\ z.return = r /\ ret[r].status = "approved"
             /\ z.method = "cash" => z.shift \in Shifts
             /\ z.shift \in Shifts => shift[z.shift].status # "none"
             /\ \/ Asks(x, r, z) \/ Answers(x, r, z) \/ Pays(x, r, z)
                \/ \E c \in Credits : Issues(x, r, z, c)
<1>1. CASE \E r \in Returns, method \in {"cash", "upi", "card", "store-credit"} \cap Methods,
              s \in Shifts \cup {None} : \E amount \in 1..Available(r) :
             RequestRetailReturnSettlement(x, r, method, amount, s, a)
  BY <1>1, RequestCase DEF Asks
<1>2. ASSUME NEW z \in Settlement, Moves(x, settlement[x].return, z),
             \/ Answers(x, settlement[x].return, z) \/ Pays(x, settlement[x].return, z)
             \/ \E c \in Credits : Issues(x, settlement[x].return, z, c)
      PROVE  LET r == settlement[x].return
             IN  /\ r \in Returns /\ z.return = r /\ ret[r].status = "approved"
                 /\ z.method = "cash" => z.shift \in Shifts
                 /\ z.shift \in Shifts => shift[z.shift].status # "none"
  <2>1. Keeps(x, settlement[x].return, z)
    BY <1>2 DEF Answers, Pays, Issues
  <2> QED
    BY <2>1 DEF Keeps, PlaceInv, SettlementPlaces
<1>3. CASE \E decision \in {"approved", "rejected"} :
             DecideRetailReturnSettlement(x, decision, a)
  BY <1>2, <1>3, DecideCase
<1>4. CASE \E decision \in {"confirmed", "rejected"} :
             ConfirmRetailReturnProviderRefund(x, decision, a)
  BY <1>2, <1>4, ConfirmCase
<1> QED
  BY <1>1, <1>3, <1>4 DEF SettlementStep

LEMMA StoreCreditTyped ==
    ASSUME ShopTypes, PlaceInv, NEW r \in Returns, ret[r].status = "approved",
           NEW amount \in Nat, NEW available \in Nat
    PROVE  StoreCreditFor(r, amount, available) \in Credit
<1>1. ret[r].sale \in DOMAIN sales
  BY DEF PlaceInv, ReturnPlaces
<1>2. sales[ret[r].sale].request.customer \in Customers
  BY <1>1, SalesTyped, RequestTyping DEF ShopTypes
<1> QED
  BY <1>2 DEF StoreCreditFor, Credit

LEMMA SettlementStepShop ==
    ASSUME ShopTypes, PlaceInv, NEW x \in Settlements, NEW a \in Actors,
           SettlementStep(x, a), UNCHANGED exchange
    PROVE  ShopTypes' /\ PlaceInv'
<1>1. PICK z \in Settlement, r \in Returns :
             /\ Moves(x, r, z) /\ z.return = r /\ ret[r].status = "approved"
             /\ z.method = "cash" => z.shift \in Shifts
             /\ z.shift \in Shifts => shift[z.shift].status # "none"
             /\ \/ Asks(x, r, z) \/ Answers(x, r, z) \/ Pays(x, r, z)
                \/ \E c \in Credits : Issues(x, r, z, c)
  BY SettlementStepIs
<1>2. credit \in [Credits -> Credit] /\ drawer \in [Shifts -> Int] /\ z.amount \in Nat
  BY DEF ShopTypes, TypeOK, Settlement
<1>3. credit' \in [Credits -> Credit]
  BY <1>1, <1>2, StoreCreditTyped DEF Asks, Answers, Pays, Issues
<1>4. drawer' \in [Shifts -> Int]
  BY <1>1, <1>2 DEF Asks, Answers, Pays, Issues
<1> QED
  BY <1>1, <1>3, <1>4, SettlementMovesShop

-----------------------------------------------------------------------------
(* The approval of an exchange is a sale, a settlement and an issue of     *)
(* store credit at once.                                                   *)

LEMMA ExchangeRecord ==
    ASSUME ShopTypes, NEW e \in Exchanges
    PROVE  /\ exchange[e] \in Exchange /\ DOMAIN exchange = Exchanges
           /\ exchange[e].quantity \in Nat /\ exchange[e].applied \in Int
           /\ exchange[e].topUp \in Seq(Tender)
  BY DEF ShopTypes, ExchangeTypeOK, Exchange

LEMMA ReplacementIsRequest ==
    ASSUME ShopTypes, PlaceInv, NEW e \in Exchanges, NEW c \in Credits,
           exchange[e].status = "requested", exchange[e].applied > 0,
           ret[exchange[e].return].status = "approved"
    PROVE  /\ ReplacementSale(e, c) \in Request
           /\ DOMAIN ReplacementSale(e, c).tenders = 1..(Len(exchange[e].topUp) + 1)
           /\ ReplacementSale(e, c).tenders[1] =
                [method |-> "store-credit", amount |-> exchange[e].applied, reference |-> c]
           /\ \A i \in DOMAIN ReplacementSale(e, c).tenders :
                i # 1 => ReplacementSale(e, c).tenders[i].method # "store-credit"
<1> DEFINE b == [method |-> "store-credit", amount |-> exchange[e].applied, reference |-> c]
           up == exchange[e].topUp
           tenders == <<b>> \o up
           customer == sales[ret[exchange[e].return].sale].request.customer
<1>1. exchange[e].return \in Returns /\ exchange[e].quantity \in Nat \ {0} /\ up \in Seq(Tender)
      /\ \A i \in DOMAIN up : up[i].method # "store-credit"
  BY ExchangeRecord DEF PlaceInv, ExchangePlaces
<1>2. customer \in Customers
  <2>1. ret[exchange[e].return].sale \in DOMAIN sales
    BY <1>1 DEF PlaceInv, ReturnPlaces
  <2> QED
    BY <2>1, SalesTyped, RequestTyping DEF ShopTypes
<1>3. b \in Tender
  BY ExchangeRecord, ExchangeAssumption, PosAssumption DEF Tender
<1> HIDE DEF b, up, customer
<1>4. <<b>> \in Seq(Tender) /\ Len(<<b>>) = 1 /\ <<b>>[1] = b
  BY <1>3
<1>5. tenders \in Seq(Tender) /\ Len(tenders) = Len(up) + 1
      /\ \A i \in 1..Len(tenders) :
           tenders[i] = IF i <= 1 THEN <<b>>[i] ELSE up[i - 1]
  BY <1>1, <1>4, ConcatProperties
<1> HIDE DEF tenders
<1>6. DOMAIN tenders = 1..(Len(up) + 1) /\ DOMAIN up = 1..Len(up) /\ Len(up) \in Nat
  BY <1>1, <1>5
<1>7. tenders[1] = b
  BY <1>4, <1>5, <1>6
<1>8. \A i \in DOMAIN tenders : i # 1 => tenders[i].method # "store-credit"
  <2> SUFFICES ASSUME NEW i \in 1..(Len(up) + 1), i # 1
               PROVE  tenders[i].method # "store-credit"
    BY <1>6
  <2>1. tenders[i] = up[i - 1] /\ i - 1 \in DOMAIN up
    BY <1>5, <1>6
  <2> QED
    BY <1>1, <2>1
<1>9. ReplacementSale(e, c) = [customer |-> customer, quantity |-> exchange[e].quantity,
                               tenders |-> tenders]
  BY DEF ReplacementSale, customer, tenders, b, up
<1> QED
  BY <1>1, <1>2, <1>5, <1>6, <1>7, <1>8, <1>9 DEF Request, b, up

(* The settlement an approved exchange writes. *)
ExchangeSettled(e, x, c, a) ==
    [settlement[x] EXCEPT !.status = "store-credit-issued", !.return = exchange[e].return,
       !.method = "store-credit", !.amount = exchange[e].applied,
       !.requestedBy = exchange[e].requestedBy, !.decidedBy = a, !.credit = c]

(* What the approval of an exchange does to the till and to the return. *)
Approval(e, x, c, a) ==
    LET q == ReplacementSale(e, c)
        s == exchange[e].shift
        r == exchange[e].return
        z == ExchangeSettled(e, x, c, a)
        v == [key |-> ExchangeKey[e], shift |-> s, cashier |-> shift[s].cashier,
              request |-> q]
    IN  /\ q \in Request /\ v \in Sale /\ s \in Shifts /\ r \in Returns
        /\ exchange[e].applied \in Nat \ {0}
        /\ shift[s].status = "open" /\ shift[s].cashier \in Actors
        /\ \A i \in DOMAIN q.tenders : ReferenceUnused(q, i)
        /\ sales' = Append(sales, v) /\ shift' = shift
        /\ receipts' = receipts \cup
                       ReceiptsOf(Len(sales) + 1, s, q, shift[s].cashier)
        /\ drawer' = [drawer EXCEPT ![s] = @ + TenderedBy(q, "cash")]
        /\ z \in Settlement /\ Touches(x, r, z) /\ z.return = r
        /\ z.method = "store-credit" /\ z.amount = exchange[e].applied
        /\ z.status = "store-credit-issued" /\ z.shift = settlement[x].shift
        /\ settlement[x].status = "none"
        /\ ret[r].status = "approved" /\ z.amount <= Available(r)

LEMMA ApprovalIs ==
    ASSUME ShopTypes, PlaceInv, NEW e \in Exchanges, NEW x \in Settlements,
           NEW c \in Credits, NEW d \in Credits, NEW a \in Actors,
           ApproveRetailExchange(e, x, c, d, a)
    PROVE  Approval(e, x, c, a)
<1> DEFINE q == ReplacementSale(e, c)
           s == exchange[e].shift
           r == exchange[e].return
           z == ExchangeSettled(e, x, c, a)
           v == [key |-> ExchangeKey[e], shift |-> s, cashier |-> shift[s].cashier,
                 request |-> q]
<1>0. settlement[x] \in Settlement /\ exchange[e] \in Exchange
  BY SettlementRecord, ExchangeRecord DEF ShopTypes
<1>1. /\ exchange[e].status = "requested" /\ ret[r].status = "approved"
      /\ exchange[e].applied <= Available(r)
      /\ shift[s].status = "open" /\ exchange[e].applied > 0
      /\ \A i \in DOMAIN q.tenders : ReferenceUnused(q, i)
      /\ settlement[x].status = "none"
  BY DEF ApproveRetailExchange, CreditAsRequested, ReplacementAccepted
<1>2. s \in Shifts /\ r \in Returns /\ shift[s].cashier \in Actors
  BY <1>1 DEF PlaceInv, ExchangePlaces, ShiftPlaces
<1>3. q \in Request
  BY <1>1, ReplacementIsRequest
<1>4. exchange[e].applied \in Nat \ {0} /\ exchange[e].requestedBy \in Actors \cup {None}
  BY <1>0, <1>1 DEF Exchange
<1>5. /\ sales' = Append(sales, v) /\ shift' = shift
      /\ receipts' = receipts \cup ReceiptsOf(Len(sales) + 1, s, q, shift[s].cashier)
      /\ drawer' = [drawer EXCEPT ![s] = @ + TenderedBy(q, "cash")]
      /\ Touches(x, r, z)
  BY DEF ApproveRetailExchange, Touches, ExchangeSettled
<1>6. ExchangeKey[e] \in Keys
  BY ExchangeAssumption
<1>7. v \in Sale
  <2> HIDE DEF q, s
  <2> QED
    BY <1>2, <1>3, <1>6 DEF Sale
<1>8. /\ z \in Settlement /\ z.return = r /\ z.method = "store-credit"
      /\ z.amount = exchange[e].applied /\ z.status = "store-credit-issued"
      /\ z.shift = settlement[x].shift
  <2>1. "store-credit" \in Methods
    BY ExchangeAssumption
  <2> QED
    BY <1>0, <1>2, <1>4, <2>1 DEF Settlement, ExchangeSettled
<1> HIDE DEF q, z, v, r, s
<1>9. z.amount <= Available(r)
  BY <1>1, <1>8
<1> QED
  BY <1>1, <1>2, <1>3, <1>4, <1>5, <1>7, <1>8, <1>9 DEF Approval, q, z, v, r, s

LEMMA ReturnedTotalTyped ==
    ASSUME ShopTypes, NEW r \in Returns, NEW K
    PROVE  SettledAs(r, K) \in Nat
<1> DEFINE S == {x \in Settlements : settlement[x].return = r /\ settlement[x].status \in K}
<1>1. IsFiniteSet(S) /\ \A x \in S : settlement[x].amount \in Nat
  BY SettlementRecord, PosAssumption, FS_Subset DEF ShopTypes
<1>2. SettledAs(r, K) = HeldBy(settlement, S)
  BY DEF SettledAs, HeldBy
<1> HIDE DEF S
<1> QED
  BY <1>1, <1>2, HeldIsTotal

LEMMA AvailableTyped ==
    ASSUME ShopTypes, NEW r \in Returns
    PROVE  Issued(r) \in Nat /\ Available(r) \in Int
<1>1. ret[r].quantity \in Nat /\ UnitPrice \in Nat
  BY ReturnRecord, PosAssumption DEF ShopTypes
<1>2. UnitPrice * ret[r].quantity \in Nat
  BY <1>1
<1>3. Issued(r) \in Nat
  BY <1>2 DEF Issued
<1> QED
  BY <1>3, ReturnedTotalTyped DEF Available

LEMMA ExchangeCreditsTyped ==
    ASSUME ShopTypes, PlaceInv, NEW e \in Exchanges, NEW c \in Credits, NEW d \in Credits,
           exchange[e].return \in Returns, exchange[e].applied \in Nat,
           ret[exchange[e].return].status = "approved"
    PROVE  ExchangeCredits(e, c, d) \in [Credits -> Credit]
<1> DEFINE r == exchange[e].return
<1>1. Remainder(e) \in Int
  BY AvailableTyped DEF Remainder
<1>2. StoreCreditFor(r, exchange[e].applied, 0) \in Credit
  BY StoreCreditTyped
<1>3. Remainder(e) > 0 => StoreCreditFor(r, Remainder(e), Remainder(e)) \in Credit
  <2>1. Remainder(e) > 0 => Remainder(e) \in Nat
    BY <1>1
  <2> QED
    BY <2>1, StoreCreditTyped
<1>4. credit \in [Credits -> Credit]
  BY DEF ShopTypes, TypeOK
<1> HIDE DEF r
<1> QED
  BY <1>1, <1>2, <1>3, <1>4 DEF ExchangeCredits, r

LEMMA ApproveExchangeShop ==
    ASSUME ShopTypes, PlaceInv, NEW e \in Exchanges, NEW x \in Settlements,
           NEW c \in Credits, NEW d \in Credits, NEW a \in Actors,
           ApproveRetailExchange(e, x, c, d, a)
    PROVE  ShopTypes' /\ PlaceInv'
<1> DEFINE q == ReplacementSale(e, c)
           s == exchange[e].shift
           r == exchange[e].return
           z == ExchangeSettled(e, x, c, a)
           v == [key |-> ExchangeKey[e], shift |-> s, cashier |-> shift[s].cashier,
                 request |-> q]
<1>1. /\ q \in Request /\ v \in Sale /\ s \in Shifts /\ r \in Returns
      /\ exchange[e].applied \in Nat \ {0}
      /\ shift[s].status = "open" /\ shift[s].cashier \in Actors
      /\ sales' = Append(sales, v) /\ shift' = shift
      /\ receipts' = receipts \cup ReceiptsOf(Len(sales) + 1, s, q, shift[s].cashier)
      /\ drawer' = [drawer EXCEPT ![s] = @ + TenderedBy(q, "cash")]
      /\ z \in Settlement /\ Touches(x, r, z) /\ z.return = r
      /\ z.method = "store-credit" /\ z.shift = settlement[x].shift
      /\ z.status = "store-credit-issued" /\ ret[r].status = "approved" /\ v.shift = s
  <2>1. Approval(e, x, c, a)
    BY ApprovalIs
  <2> QED
    BY <2>1 DEF Approval
<1>t. TypeOK
  BY DEF ShopTypes
<1>2. q.quantity <= stock /\ stock' = stock - q.quantity /\ credit' = ExchangeCredits(e, c, d)
      /\ exchange' = [exchange EXCEPT ![e] = [@ EXCEPT !.status = "approved", !.approvedBy = a]]
      /\ UNCHANGED <<expectedCash, owed, varianceJournals>>
  BY DEF ApproveRetailExchange, ReplacementAccepted
<1>n. q.quantity \in Nat /\ TenderedBy(q, "cash") \in Nat
  BY <1>1, RequestTyping, TenderedIsNat
<1>e. exchange[e] \in Exchange /\ exchange \in [Exchanges -> Exchange]
  BY DEF ShopTypes, ExchangeTypeOK
<1>3. [exchange[e] EXCEPT !.status = "approved", !.approvedBy = a] \in Exchange
  BY <1>e DEF Exchange
<1>4. ExchangeTypeOK'
  BY <1>2, <1>3, <1>e DEF ExchangeTypeOK
<1>5. ExchangePlaces'
  BY <1>2, <1>e DEF PlaceInv, ExchangePlaces, Exchange
<1>6. credit' \in [Credits -> Credit]
  BY <1>1, <1>2, ExchangeCreditsTyped
<1>7. receipts' \subseteq Receipt
  <2>1. ReceiptsOf(Len(sales) + 1, s, q, shift[s].cashier) \subseteq Receipt
    BY <1>t, <1>1, ReceiptsTyping
  <2> HIDE DEF q, s
  <2> QED
    BY <1>t, <1>1, <2>1 DEF TypeOK
<1> HIDE DEF q, s, r, z, v
<1>8. /\ ShiftPlaces' /\ SalePlaces' /\ DOMAIN sales \subseteq DOMAIN sales'
  BY <1>t, <1>1, SaleMadePlaces
<1>9. settlement[x].shift \in Shifts => shift[settlement[x].shift].status # "none"
  BY DEF PlaceInv, SettlementPlaces
<1>10. /\ settlement' \in [Settlements -> Settlement] /\ ReturnTypeOK'
       /\ ReturnPlaces' /\ SettlementPlaces'
  BY <1>1, <1>8, <1>9, TouchesShop
<1>11. TypeOK'
  <2>1. sales' \in Seq(Sale) /\ stock' \in Nat /\ drawer' \in [Shifts -> Int]
    BY <1>t, <1>1, <1>2, <1>n DEF TypeOK
  <2> QED
    BY <1>t, <1>1, <1>2, <1>6, <1>7, <1>10, <2>1 DEF TypeOK
<1> QED
  BY <1>4, <1>5, <1>8, <1>10, <1>11 DEF ShopTypes, PlaceInv

LEMMA CreateExchangeShop ==
    ASSUME ShopTypes, PlaceInv, NEW e \in Exchanges, NEW r \in Returns, NEW s \in Shifts,
           NEW quantity \in 1..InitialStock, NEW topUp \in TopUps, NEW a \in Actors,
           CreateRetailExchange(e, r, s, quantity, topUp, a)
    PROVE  ShopTypes' /\ PlaceInv'
<1> DEFINE total == UnitPrice * quantity
           applied == Least(Available(r), total)
           z == [exchange[e] EXCEPT !.status = "requested", !.return = r,
                   !.creditVersion = ret[r].creditVersion, !.shift = s,
                   !.quantity = quantity, !.applied = applied, !.topUp = topUp,
                   !.requestedBy = a]
<1>1. exchange' = [exchange EXCEPT ![e] = z] /\ UNCHANGED returnVars
  BY DEF CreateRetailExchange
<1>2. quantity \in Nat \ {0} /\ topUp \in Seq(Tender) /\ ret[r].creditVersion \in Nat
  <2>1. quantity \in Int /\ quantity >= 1
    BY PosAssumption
  <2> QED
    BY <2>1, ExchangeAssumption, ReturnRecord DEF ShopTypes
<1>3. total \in Int
  <2>1. UnitPrice \in Int
    BY PosAssumption
  <2> QED
    BY <1>2, <2>1
<1>4. applied \in Int
  BY <1>3, AvailableTyped DEF Least
<1>5. \A i \in DOMAIN topUp : topUp[i].method # "store-credit"
  <2>1. TopUpCovers(topUp, total - applied)
    BY DEF CreateRetailExchange
  <2> HIDE DEF total, applied
  <2>2. topUp = << >> \/ (Len(topUp) = 1 /\ topUp[1].method # "store-credit")
    BY <2>1 DEF TopUpCovers
  <2>3. DOMAIN topUp = 1..Len(topUp)
    BY <1>2
  <2> QED
    BY <2>2, <2>3
<1>e. exchange[e] \in Exchange /\ exchange \in [Exchanges -> Exchange]
  BY DEF ShopTypes, ExchangeTypeOK
<1> HIDE DEF applied, total
<1>6. /\ z \in Exchange /\ z.return = r /\ z.shift = s /\ z.quantity = quantity /\ z.topUp = topUp
  BY <1>e, <1>2, <1>4 DEF Exchange
<1> HIDE DEF z
<1>7. ShopTypes'
  BY <1>1, <1>6, <1>e DEF ShopTypes, TypeOK, ReturnTypeOK, ExchangeTypeOK, returnVars, vars
<1>8. ExchangePlaces'
  BY <1>1, <1>2, <1>5, <1>6, <1>e DEF PlaceInv, ExchangePlaces
<1>9. ShiftPlaces' /\ SalePlaces' /\ ReturnPlaces' /\ SettlementPlaces'
  BY <1>1 DEF PlaceInv, ShiftPlaces, SalePlaces, ReturnPlaces, SettlementPlaces,
              returnVars, vars
<1> QED
  BY <1>7, <1>8, <1>9 DEF PlaceInv

LEMMA RejectExchangeShop ==
    ASSUME ShopTypes, PlaceInv, NEW e \in Exchanges, NEW a \in Actors,
           RejectRetailExchange(e, a)
    PROVE  ShopTypes' /\ PlaceInv'
<1> DEFINE z == [exchange[e] EXCEPT !.status = "rejected"]
<1>1. exchange' = [exchange EXCEPT ![e] = z] /\ UNCHANGED returnVars
  BY DEF RejectRetailExchange
<1>e. exchange[e] \in Exchange /\ exchange \in [Exchanges -> Exchange]
  BY DEF ShopTypes, ExchangeTypeOK
<1>2. z \in Exchange /\ z.status = "rejected"
  BY <1>e DEF Exchange
<1> HIDE DEF z
<1>3. ShopTypes'
  BY <1>1, <1>2, <1>e DEF ShopTypes, TypeOK, ReturnTypeOK, ExchangeTypeOK, returnVars, vars
<1>4. ExchangePlaces'
  BY <1>1, <1>2, <1>e DEF PlaceInv, ExchangePlaces
<1>5. ShiftPlaces' /\ SalePlaces' /\ ReturnPlaces' /\ SettlementPlaces'
  BY <1>1 DEF PlaceInv, ShiftPlaces, SalePlaces, ReturnPlaces, SettlementPlaces,
              returnVars, vars
<1> QED
  BY <1>3, <1>4, <1>5 DEF PlaceInv

(* The steps of the shop, and what may be assumed of the state they start. *)
ShopInv == ShopTypes /\ PlaceInv

TillMove == Next /\ UNCHANGED <<ret, exchange>>
ReturnMove == \E a \in Actors, r \in Returns : ReturnStep(r, a) /\ UNCHANGED exchange
SettlementMove ==
    \E a \in Actors, x \in Settlements : SettlementStep(x, a) /\ UNCHANGED exchange
AskExchange ==
    \E a \in Actors, e \in Exchanges :
      \/ \E r \in Returns, s \in Shifts, quantity \in 1..InitialStock, topUp \in TopUps :
           CreateRetailExchange(e, r, s, quantity, topUp, a)
      \/ RejectRetailExchange(e, a)
ApproveExchange ==
    \E a \in Actors, e \in Exchanges, x \in Settlements, c, d \in Credits :
      ApproveRetailExchange(e, x, c, d, a)

LEMMA ShopSteps ==
    ASSUME [ExchangeNext]_exchangeVars
    PROVE  \/ TillMove \/ ReturnMove \/ SettlementMove \/ AskExchange \/ ApproveExchange
           \/ UNCHANGED exchangeVars
  BY DEF ExchangeNext, ReturnNext, ExchangeStep, TillMove, ReturnMove, SettlementMove,
     AskExchange, ApproveExchange

LEMMA AskExchangeFrame == AskExchange => UNCHANGED returnVars
<1> SUFFICES ASSUME AskExchange PROVE UNCHANGED returnVars
  OBVIOUS
<1>1. PICK a \in Actors, e \in Exchanges :
        \/ \E r \in Returns, s \in Shifts, quantity \in 1..InitialStock, topUp \in TopUps :
             CreateRetailExchange(e, r, s, quantity, topUp, a)
        \/ RejectRetailExchange(e, a)
  BY DEF AskExchange
<1> QED
  BY <1>1 DEF CreateRetailExchange, RejectRetailExchange

LEMMA ShopInitially == ExchangeInit => ShopInv
<1> SUFFICES ASSUME ExchangeInit PROVE ShopInv
  OBVIOUS
<1>1. TypeOK /\ Init
  BY InitTypeOK DEF ExchangeInit, ReturnInit
<1>2. ReturnTypeOK
  <2>1. NoReturn \in Return
    BY DEF NoReturn, Return
  <2> QED
    BY <2>1 DEF ExchangeInit, ReturnInit, ReturnTypeOK
<1>3. ExchangeTypeOK
  <2>1. << >> \in Seq(Tender)
    OBVIOUS
  <2>2. NoExchange \in Exchange
    BY <2>1 DEF NoExchange, Exchange
  <2> QED
    BY <2>2 DEF ExchangeInit, ExchangeTypeOK
<1>4. PlaceInv
  BY <1>1, PosAssumption DEF ExchangeInit, ReturnInit, Init, PlaceInv, ShiftPlaces, SalePlaces,
     ReturnPlaces, SettlementPlaces, ExchangePlaces, NoShift, NoSettlement, NoReturn, NoExchange
<1> QED
  BY <1>1, <1>2, <1>3, <1>4 DEF ShopInv, ShopTypes

LEMMA ShopStep == ShopInv /\ [ExchangeNext]_exchangeVars => ShopInv'
<1> SUFFICES ASSUME ShopInv, [ExchangeNext]_exchangeVars PROVE ShopInv'
  OBVIOUS
<1>0. ShopTypes /\ PlaceInv
  BY DEF ShopInv
<1>1. CASE TillMove
  <2>1. TypeOK' /\ PlaceInv'
    BY <1>0, <1>1, TillTypeOK, TillPlaces DEF TillMove, ShopTypes
  <2> QED
    BY <1>0, <1>1, <2>1 DEF TillMove, ShopInv, ShopTypes, ReturnTypeOK, ExchangeTypeOK
<1>2. CASE ReturnMove
  BY <1>0, <1>2, ReturnStepShop DEF ReturnMove, ShopInv
<1>3. CASE SettlementMove
  BY <1>0, <1>3, SettlementStepShop DEF SettlementMove, ShopInv
<1>4. CASE AskExchange
  BY <1>0, <1>4, CreateExchangeShop, RejectExchangeShop DEF AskExchange, ShopInv
<1>5. CASE ApproveExchange
  BY <1>0, <1>5, ApproveExchangeShop DEF ApproveExchange, ShopInv
<1>6. CASE UNCHANGED exchangeVars
  BY <1>0, <1>6 DEF ShopInv, ShopTypes, TypeOK, ReturnTypeOK, ExchangeTypeOK, PlaceInv,
     ShiftPlaces, SalePlaces, ReturnPlaces, SettlementPlaces, ExchangePlaces,
     exchangeVars, returnVars, vars
<1> QED
  BY <1>1, <1>2, <1>3, <1>4, <1>5, <1>6, ShopSteps

LEMMA ShopThroughout == ExchangeSpec => []ShopInv
BY ShopInitially, ShopStep, PTL DEF ExchangeSpec

(* Every record of the shop keeps its shape through sales, returns,        *)
(* settlements and exchanges: an approved exchange sells within the stock, *)
(* for an amount above nothing, in the name of a cashier.                  *)
THEOREM ShopTyping == ExchangeSpec => [](TypeOK /\ ReturnTypeOK /\ ExchangeTypeOK)
<1>1. ShopInv => TypeOK /\ ReturnTypeOK /\ ExchangeTypeOK
  BY DEF ShopInv, ShopTypes
<1> QED
  BY <1>1, ShopThroughout, PTL

-----------------------------------------------------------------------------
(* What is settled on a return's credit stays within what was issued.      *)

AsSet(z, r, K) == {x \in Settlements : z[x].return = r /\ z[x].status \in K}

Live == Spent \cup Reserved

WithinInv == \A r \in Returns : HeldBy(settlement, AsSet(settlement, r, Live)) <= Issued(r)

LEMMA SettledAsIs ==
    ASSUME NEW r, NEW K
    PROVE  SettledAs(r, K) = HeldBy(settlement, AsSet(settlement, r, K))
  BY DEF SettledAs, HeldBy, AsSet

LEMMA WithinIs == WithinInv <=> ExchangesStayWithinCredit
  BY SettledAsIs DEF WithinInv, ExchangesStayWithinCredit, Live

(* A settlement that starts within the credit available, or moves on, on   *)
(* its return r.                                                           *)
SettlesWithin(x, r, z) ==
    /\ z.return = r
    /\ \/ settlement[x].status = "none" /\ z.amount <= Available(r)
       \/ /\ settlement[x].status \in Reserved /\ settlement[x].return = r
          /\ z.amount = settlement[x].amount

LEMMA WithinStays ==
    ASSUME ShopInv, WithinInv, NEW x \in Settlements, NEW r \in Returns,
           NEW z \in Settlement, Touches(x, r, z), SettlesWithin(x, r, z),
           ret[r].status = "approved"
    PROVE  WithinInv'
<1> USE DEF ShopInv
<1>0. /\ IsFiniteSet(Settlements) /\ z.amount \in Nat /\ "none" \notin Live
      /\ \A y \in Settlements : settlement[y].amount \in Nat
      /\ \A y \in Settlements : settlement'[y] = IF y = x THEN z ELSE settlement[y]
  <2>1. settlement \in [Settlements -> Settlement]
    BY DEF ShopTypes, TypeOK
  <2> QED
    BY <2>1, PosAssumption DEF Touches, Settlement, Live, Spent, Reserved
<1>1. ASSUME NEW t \in Returns
      PROVE  Issued(t)' = Issued(t)
  <2>1. ret[r] \in Return /\ ret \in [Returns -> Return]
    BY DEF ShopTypes, ReturnTypeOK
  <2> DEFINE v == [ret[r] EXCEPT !.creditVersion = @ + 1]
  <2>2. v.status = ret[r].status /\ v.quantity = ret[r].quantity
    BY <2>1 DEF Return
  <2>3. ret' = [ret EXCEPT ![r] = v]
    BY DEF Touches
  <2> HIDE DEF v
  <2>4. ret'[t].status = ret[t].status /\ ret'[t].quantity = ret[t].quantity
    BY <2>1, <2>2, <2>3
  <2> QED
    BY <2>4 DEF Issued
<1>2. ASSUME NEW t \in Returns
      PROVE  HeldBy(settlement', AsSet(settlement', t, Live)) <= Issued(t)'
  <2> DEFINE S == AsSet(settlement, t, Live)
             T == AsSet(settlement', t, Live)
  <2>1. S \in SUBSET Settlements /\ T \in SUBSET Settlements
    BY DEF AsSet
  <2>2. \A y \in Settlements \ {x} : (y \in S <=> y \in T) /\ settlement'[y] = settlement[y]
    BY <1>0 DEF AsSet
  <2>3. \A y \in Settlements : settlement'[y].amount \in Nat
    BY <1>0
  <2>4. /\ x \in S <=> settlement[x].return = t /\ settlement[x].status \in Live
        /\ x \in T <=> z.return = t /\ z.status \in Live
        /\ settlement'[x] = z
    BY <1>0 DEF AsSet
  <2> DEFINE old == Adding(settlement, x, S)
             new == Adding(settlement', x, T)
  <2>5. HeldBy(settlement, S) <= Issued(t) /\ Issued(t) \in Nat
    BY AvailableTyped DEF WithinInv
  <2> HIDE DEF S, T
  <2>6. /\ HeldBy(settlement', T) = HeldBy(settlement, S) - old + new
        /\ HeldBy(settlement', T) \in Nat /\ HeldBy(settlement, S) \in Nat
        /\ old \in Nat /\ new \in Nat
    <3>1. /\ IsFiniteSet(Settlements) /\ \A y \in Settlements : settlement[y].amount \in Nat
      BY <1>0
    <3> HIDE DEF old, new
    <3>2. old = Adding(settlement, x, S) /\ new = Adding(settlement', x, T)
      BY DEF old, new
    <3> QED
      BY <2>1, <2>2, <2>3, <3>1, <3>2, HeldChange
  <2>8. CASE t # r
    <3>1. old = 0 /\ new = 0
      <4>1. x \notin S /\ x \notin T
        BY <1>0, <2>4, <2>8 DEF SettlesWithin
      <4> QED
        BY <4>1 DEF Adding
    <3> HIDE DEF old, new
    <3> QED
      BY <1>1, <2>5, <2>6, <3>1 DEF T
  <2>9. CASE t = r /\ settlement[x].status = "none" /\ z.amount <= Available(r)
    <3>1. old = 0 /\ new <= z.amount
      <4>1. x \notin S
        BY <1>0, <2>4, <2>9
      <4> QED
        BY <1>0, <2>4, <4>1 DEF Adding
    <3>2. Available(r) = Issued(r) - HeldBy(settlement, AsSet(settlement, r, Live))
      <4> DEFINE A == AsSet(settlement, r, Spent)
                 B == AsSet(settlement, r, Reserved)
      <4>1. AsSet(settlement, r, Live) = A \cup B /\ A \cap B = {}
        BY DEF AsSet, Live, Spent, Reserved
      <4>2. /\ IsFiniteSet(A) /\ IsFiniteSet(B) /\ \A y \in A \cup B : settlement[y].amount \in Nat
        BY <1>0, FS_Subset DEF AsSet
      <4>3. /\ SettledAs(r, Spent) = HeldBy(settlement, A)
            /\ SettledAs(r, Reserved) = HeldBy(settlement, B)
        BY SettledAsIs
      <4> HIDE DEF A, B
      <4>4. HeldBy(settlement, A \cup B) = HeldBy(settlement, A) + HeldBy(settlement, B)
            /\ HeldBy(settlement, A) \in Nat /\ HeldBy(settlement, B) \in Nat
        BY <4>1, <4>2, HeldApart, HeldIsTotal
      <4>5. Available(r) = Issued(r) - HeldBy(settlement, A) - HeldBy(settlement, B)
            /\ Issued(r) \in Nat
        BY <4>3, AvailableTyped DEF Available
      <4> QED
        BY <4>1, <4>4, <4>5
    <3> HIDE DEF old, new
    <3> QED
      BY <1>0, <1>1, <2>5, <2>6, <2>9, <3>1, <3>2 DEF S, T
  <2>10. CASE /\ t = r /\ settlement[x].status \in Reserved /\ settlement[x].return = r
              /\ z.amount = settlement[x].amount
    <3>1. new <= old
      <4>1. x \in S
        BY <2>4, <2>10 DEF Live
      <4> QED
        BY <1>0, <2>4, <2>10, <4>1 DEF Adding
    <3> HIDE DEF old, new
    <3> QED
      BY <1>1, <2>5, <2>6, <3>1 DEF T
  <2> QED
    BY <2>8, <2>9, <2>10 DEF SettlesWithin
<1> QED
  BY <1>2 DEF WithinInv

(* Every settlement step, and the approval of an exchange, settles within. *)
LEMMA SettlementMoveIs ==
    ASSUME ShopInv, SettlementMove
    PROVE  \E x \in Settlements, r \in Returns, z \in Settlement :
             Moves(x, r, z) /\ SettlesWithin(x, r, z) /\ ret[r].status = "approved"
<1>0. ShopTypes /\ PlaceInv
  BY DEF ShopInv
<1>1. PICK a \in Actors, x \in Settlements : SettlementStep(x, a) /\ UNCHANGED exchange
  BY DEF SettlementMove
<1>2. PICK z \in Settlement, r \in Returns :
         /\ Moves(x, r, z) /\ z.return = r /\ ret[r].status = "approved"
         /\ \/ Asks(x, r, z) \/ Answers(x, r, z) \/ Pays(x, r, z)
            \/ \E c \in Credits : Issues(x, r, z, c)
  BY <1>0, <1>1, SettlementStepIs
<1>3. SettlesWithin(x, r, z)
  BY <1>2 DEF SettlesWithin, Asks, Answers, Pays, Issues, Keeps, Reserved
<1> QED
  BY <1>2, <1>3

LEMMA WithinStep ==
    ShopInv /\ WithinInv /\ [ExchangeNext]_exchangeVars => WithinInv'
<1> SUFFICES ASSUME ShopInv, WithinInv, [ExchangeNext]_exchangeVars
             PROVE  WithinInv'
  OBVIOUS
<1>1. CASE UNCHANGED <<ret, settlement>>
  BY <1>1 DEF WithinInv, Issued
<1>2. CASE TillMove
  <2>1. UNCHANGED settlement
    <3>1. PICK a \in Actors : \/ \E s \in Shifts : ShiftStep(s, a)
                              \/ CounterStep(a) \/ FinanceStep(a)
      BY <1>2 DEF TillMove, Next
    <3> QED
      BY <3>1, ShiftStepFrame DEF CounterStep, CheckoutRetailSale, Sell, FinanceStep,
                                  ReconcilePayment
  <2> QED
    BY <1>1, <1>2, <2>1 DEF TillMove
<1>3. CASE ReturnMove
  <2>1. PICK a \in Actors, r \in Returns : ReturnStep(r, a)
    BY <1>3 DEF ReturnMove
  <2>2. ret \in [Returns -> Return]
    BY DEF ShopInv, ShopTypes, ReturnTypeOK
  <2>3. /\ UNCHANGED settlement /\ ret[r].status # "approved"
        /\ \A t \in Returns \ {r} : ret'[t] = ret[t]
    BY <2>1, <2>2 DEF ReturnStep, CreateRetailReturnRequest, InspectRetailReturn,
                      DecideRetailReturn, vars
  <2>4. ASSUME NEW t \in Returns
        PROVE  HeldBy(settlement', AsSet(settlement', t, Live)) <= Issued(t)'
    <3> DEFINE held == HeldBy(settlement, AsSet(settlement, t, Live))
    <3>1. HeldBy(settlement', AsSet(settlement', t, Live)) = held
      BY <2>3
    <3>2. held <= Issued(t)
      BY DEF WithinInv
    <3>5. held \in Nat
      BY SettledAsIs, ReturnedTotalTyped DEF ShopInv
    <3> HIDE DEF held
    <3>3. CASE t # r
      BY <2>3, <3>1, <3>2, <3>3 DEF Issued
    <3>4. CASE t = r
      <4>1. held <= 0
        BY <2>3, <3>2, <3>4 DEF Issued
      <4>2. Issued(t)' \in Nat
        <5>1. ShopTypes'
          BY ShopStep DEF ShopInv
        <5>2. ret'[t].quantity \in Nat /\ UnitPrice \in Nat
          BY <5>1, PosAssumption DEF ShopTypes, ReturnTypeOK, Return
        <5>3. UnitPrice * ret'[t].quantity \in Nat
          BY <5>2
        <5> QED
          BY <5>3 DEF Issued
      <4> QED
        BY <3>1, <3>5, <4>1, <4>2
    <3> QED
      BY <3>3, <3>4
  <2> QED
    BY <2>4 DEF WithinInv
<1>4. CASE SettlementMove
  BY <1>4, SettlementMoveIs, WithinStays DEF Moves
<1>5. CASE AskExchange
  BY <1>1, <1>5, AskExchangeFrame DEF returnVars, vars
<1>6. CASE ApproveExchange
  <2>1. PICK a \in Actors, e \in Exchanges, x \in Settlements, c \in Credits, d \in Credits :
          ApproveRetailExchange(e, x, c, d, a)
    BY <1>6 DEF ApproveExchange
  <2> DEFINE q == ReplacementSale(e, c)
             s == exchange[e].shift
             r == exchange[e].return
             z == ExchangeSettled(e, x, c, a)
             v == [key |-> ExchangeKey[e], shift |-> s, cashier |-> shift[s].cashier,
                   request |-> q]
  <2>2. /\ r \in Returns /\ z \in Settlement /\ Touches(x, r, z) /\ z.return = r
        /\ settlement[x].status = "none" /\ z.amount <= Available(r)
        /\ ret[r].status = "approved"
    <3>1. ShopTypes /\ PlaceInv
      BY DEF ShopInv
    <3>2. Approval(e, x, c, a)
      BY <2>1, <3>1, ApprovalIs
    <3> QED
      BY <3>2 DEF Approval
  <2> HIDE DEF q, s, r, z, v
  <2> QED
    BY <2>2, WithinStays DEF SettlesWithin
<1>7. CASE UNCHANGED exchangeVars
  BY <1>1, <1>7 DEF exchangeVars, returnVars, vars
<1> QED
  BY <1>2, <1>3, <1>4, <1>5, <1>6, <1>7, ShopSteps

(* Refunds paid, refunds waiting for the provider and exchanges never hold *)
(* more of a return's credit than its approval issued, however many of     *)
(* them were asked for at once.                                            *)
THEOREM CreditIsNeverOverdrawn == ExchangeSpec => []ExchangesStayWithinCredit
<1>1. ExchangeInit => WithinInv
  <2> SUFFICES ASSUME ExchangeInit, NEW t \in Returns
               PROVE  HeldBy(settlement, AsSet(settlement, t, Live)) <= Issued(t)
    BY DEF WithinInv
  <2>1. AsSet(settlement, t, Live) = {}
    BY DEF AsSet, ExchangeInit, ReturnInit, Init, NoSettlement, Live, Spent, Reserved
  <2>2. HeldBy(settlement, AsSet(settlement, t, Live)) = 0
    BY <2>1, HeldNone
  <2>3. Issued(t) \in Nat
    BY ShopInitially, AvailableTyped DEF ShopInv
  <2> QED
    BY <2>2, <2>3
<1> QED
  BY <1>1, WithinIs, WithinStep, ShopThroughout, PTL DEF ExchangeSpec

-----------------------------------------------------------------------------
(* Money goes back the way it came.                                        *)

OnRail(z, w, n, m) ==
    {x \in Settlements : /\ z[x].method = m /\ z[x].status \in Live
                         /\ w[z[x].return].sale = n}

RailInv ==
    \A n \in DOMAIN sales, m \in Methods \ {"store-credit"} :
      HeldBy(settlement, OnRail(settlement, ret, n, m)) <= TenderedBy(sales[n].request, m)

LEMMA ExposureIs ==
    ASSUME NEW n, NEW m
    PROVE  Exposure(n, m) = HeldBy(settlement, OnRail(settlement, ret, n, m))
<1>1. OnRail(settlement, ret, n, m) =
        {x \in Settlements : /\ settlement[x].method = m
                             /\ settlement[x].status \in Spent \cup Reserved
                             /\ ret[settlement[x].return].sale = n}
  BY DEF OnRail, Live
<1> QED
  BY <1>1 DEF Exposure, HeldBy

LEMMA RailIs == RailInv <=> RefundsStayWithinTender
  BY ExposureIs DEF RailInv, RefundsStayWithinTender

(* No settlement refers to a sale that was not made.                       *)
LEMMA NothingRefundedYet ==
    ASSUME ShopInv, NEW n, n \notin DOMAIN sales, NEW m
    PROVE  HeldBy(settlement, OnRail(settlement, ret, n, m)) = 0
<1>1. OnRail(settlement, ret, n, m) = {}
  <2> SUFFICES ASSUME NEW x \in Settlements, settlement[x].status \in Live,
                      ret[settlement[x].return].sale = n
               PROVE  FALSE
    BY DEF OnRail
  <2>1. settlement[x].status # "none"
    BY DEF Live, Spent, Reserved
  <2> QED
    BY <2>1 DEF ShopInv, PlaceInv, SettlementPlaces, ReturnPlaces
<1> QED
  BY <1>1, HeldNone

LEMMA SettlementAmounts ==
    ASSUME ShopInv
    PROVE  IsFiniteSet(Settlements) /\ \A y \in Settlements : settlement[y].amount \in Nat
  BY SettlementRecord, PosAssumption DEF ShopInv, ShopTypes

(* What a step of one settlement does to the refunds on a rail.            *)
LEMMA RailChange ==
    ASSUME ShopInv, NEW x \in Settlements, NEW r \in Returns, NEW z \in Settlement,
           Touches(x, r, z), z.return = r, NEW n, NEW m
    PROVE  LET S == OnRail(settlement, ret, n, m)
               T == OnRail(settlement', ret', n, m)
           IN  /\ HeldBy(settlement', T) = HeldBy(settlement, S) - Adding(settlement, x, S)
                                           + Adding(settlement', x, T)
               /\ HeldBy(settlement, S) \in Nat
               /\ Adding(settlement, x, S) \in Nat /\ Adding(settlement', x, T) \in Nat
               /\ x \in T <=> z.method = m /\ z.status \in Live /\ ret[r].sale = n
               /\ settlement'[x] = z
<1> DEFINE S == OnRail(settlement, ret, n, m)
           T == OnRail(settlement', ret', n, m)
<1>1. /\ \A t \in Returns : ret'[t].sale = ret[t].sale
      /\ \A y \in Settlements : settlement'[y] = IF y = x THEN z ELSE settlement[y]
  <2>1. settlement \in [Settlements -> Settlement] /\ ret \in [Returns -> Return]
    BY DEF ShopInv, ShopTypes, TypeOK, ReturnTypeOK
  <2> DEFINE v == [ret[r] EXCEPT !.creditVersion = @ + 1]
  <2>2. v.sale = ret[r].sale
    BY <2>1 DEF Return
  <2>3. ret' = [ret EXCEPT ![r] = v]
    BY DEF Touches
  <2> HIDE DEF v
  <2> QED
    BY <2>1, <2>2, <2>3 DEF Touches
<1>2. IsFiniteSet(Settlements) /\ \A y \in Settlements : settlement[y].amount \in Nat
  BY SettlementAmounts
<1>3. \A y \in Settlements : settlement'[y].amount \in Nat
  BY <1>1, <1>2 DEF Settlement
<1>4. \A y \in Settlements : settlement[y].status \in Live => settlement[y].return \in Returns
  BY DEF ShopInv, PlaceInv, SettlementPlaces, Live, Spent, Reserved
<1>5. \A y \in Settlements \ {x} : (y \in S <=> y \in T) /\ settlement'[y] = settlement[y]
  BY <1>1, <1>4 DEF OnRail
<1>6. x \in T <=> z.method = m /\ z.status \in Live /\ ret[r].sale = n
  BY <1>1 DEF OnRail
<1>7. S \in SUBSET Settlements /\ T \in SUBSET Settlements
  BY DEF OnRail
<1>8. settlement'[x] = z
  BY <1>1
<1> HIDE DEF S, T
<1>9. /\ HeldBy(settlement', T) = HeldBy(settlement, S) - Adding(settlement, x, S)
                                  + Adding(settlement', x, T)
      /\ HeldBy(settlement, S) \in Nat
      /\ Adding(settlement, x, S) \in Nat /\ Adding(settlement', x, T) \in Nat
  BY <1>2, <1>3, <1>5, <1>7, HeldChange
<1> QED
  BY <1>6, <1>8, <1>9 DEF S, T

LEMMA RailRequest ==
    ASSUME ShopInv, RailInv, NEW x \in Settlements, NEW r \in Returns, NEW z \in Settlement,
           Moves(x, r, z), Asks(x, r, z)
    PROVE  RailInv'
<1> SUFFICES ASSUME NEW n \in DOMAIN sales, NEW m \in Methods \ {"store-credit"}
             PROVE  HeldBy(settlement', OnRail(settlement', ret', n, m))
                      <= TenderedBy(sales[n].request, m)
  BY DEF RailInv, Moves
<1> DEFINE S == OnRail(settlement, ret, n, m)
           T == OnRail(settlement', ret', n, m)
<1>1. /\ HeldBy(settlement', T) = HeldBy(settlement, S) - Adding(settlement, x, S)
                                  + Adding(settlement', x, T)
      /\ HeldBy(settlement, S) \in Nat
      /\ Adding(settlement, x, S) \in Nat /\ Adding(settlement', x, T) \in Nat
      /\ x \in T <=> z.method = m /\ z.status \in Live /\ ret[r].sale = n
      /\ settlement'[x] = z
  BY RailChange DEF Moves, Asks
<1>2. HeldBy(settlement, S) <= TenderedBy(sales[n].request, m)
  BY DEF RailInv
<1>3. TenderedBy(sales[n].request, m) \in Nat
  BY SalesTyped, TenderedIsNat DEF ShopInv, ShopTypes
<1>4. CASE z.method = m /\ ret[r].sale = n
  <2>1. TenderCapacity(r, m, z.amount)
    BY <1>4 DEF Asks, SettlementAllowed
  <2>2. HeldBy(settlement, S) + z.amount <= TenderedBy(sales[n].request, m)
    BY <1>4, <2>1, ExposureIs DEF TenderCapacity
  <2>3. z.amount \in Nat /\ Adding(settlement', x, T) <= z.amount
    BY <1>1 DEF Settlement, Adding
  <2> HIDE DEF S, T
  <2> QED
    BY <1>1, <1>3, <2>2, <2>3 DEF T
<1>5. CASE ~ (z.method = m /\ ret[r].sale = n)
  <2>1. Adding(settlement', x, T) = 0
    BY <1>1, <1>5 DEF Adding
  <2> HIDE DEF S, T
  <2> QED
    BY <1>1, <1>2, <1>3, <2>1 DEF T
<1> QED
  BY <1>4, <1>5

LEMMA RailAnswer ==
    ASSUME ShopInv, RailInv, NEW x \in Settlements, NEW r \in Returns, NEW z \in Settlement,
           Moves(x, r, z), Keeps(x, r, z)
    PROVE  RailInv'
<1> SUFFICES ASSUME NEW n \in DOMAIN sales, NEW m \in Methods \ {"store-credit"}
             PROVE  HeldBy(settlement', OnRail(settlement', ret', n, m))
                      <= TenderedBy(sales[n].request, m)
  BY DEF RailInv, Moves
<1> DEFINE S == OnRail(settlement, ret, n, m)
           T == OnRail(settlement', ret', n, m)
<1>1. /\ HeldBy(settlement', T) = HeldBy(settlement, S) - Adding(settlement, x, S)
                                  + Adding(settlement', x, T)
      /\ HeldBy(settlement, S) \in Nat
      /\ Adding(settlement, x, S) \in Nat /\ Adding(settlement', x, T) \in Nat
      /\ x \in T <=> z.method = m /\ z.status \in Live /\ ret[r].sale = n
      /\ settlement'[x] = z
  BY RailChange DEF Moves, Keeps
<1>2. HeldBy(settlement, S) <= TenderedBy(sales[n].request, m)
  BY DEF RailInv
<1>3. TenderedBy(sales[n].request, m) \in Nat
  BY SalesTyped, TenderedIsNat DEF ShopInv, ShopTypes
<1>4. x \in T => x \in S
  BY <1>1 DEF Keeps, OnRail, Live, Reserved
<1>5. Adding(settlement', x, T) <= Adding(settlement, x, S)
  <2>1. z.amount = settlement[x].amount
    BY DEF Keeps
  <2> HIDE DEF S, T
  <2> QED
    BY <1>1, <1>4, <2>1 DEF Adding
<1> HIDE DEF S, T
<1> QED
  BY <1>1, <1>2, <1>3, <1>5 DEF T

(* A sale made: nothing of it was refunded, and the others stay.           *)
LEMMA RailSale ==
    ASSUME ShopInv, RailInv, NEW v \in Sale, sales' = Append(sales, v),
           \A n, m : n = Len(sales) + 1 /\ m # "store-credit" =>
             HeldBy(settlement', OnRail(settlement', ret', n, m)) = 0,
           \A n \in DOMAIN sales, m \in Methods \ {"store-credit"} :
             HeldBy(settlement', OnRail(settlement', ret', n, m))
               = HeldBy(settlement, OnRail(settlement, ret, n, m))
    PROVE  RailInv'
<1> SUFFICES ASSUME NEW n \in DOMAIN sales', NEW m \in Methods \ {"store-credit"}
             PROVE  HeldBy(settlement', OnRail(settlement', ret', n, m))
                      <= TenderedBy(sales'[n].request, m)
  BY DEF RailInv
<1>1. /\ DOMAIN sales' = DOMAIN sales \cup {Len(sales) + 1}
      /\ sales'[Len(sales) + 1] = v
      /\ \A k \in DOMAIN sales : sales'[k] = sales[k]
  BY DEF ShopInv, ShopTypes, TypeOK
<1>2. CASE n \in DOMAIN sales
  BY <1>1, <1>2 DEF RailInv
<1>3. CASE n = Len(sales) + 1
  <2>1. HeldBy(settlement', OnRail(settlement', ret', n, m)) = 0
    BY <1>3
  <2>2. TenderedBy(v.request, m) \in Nat
    BY TenderedIsNat DEF Sale
  <2> QED
    BY <1>1, <1>3, <2>1, <2>2
<1> QED
  BY <1>1, <1>2, <1>3

LEMMA TillFrame ==
    ASSUME TillMove
    PROVE  /\ UNCHANGED <<ret, exchange, settlement>>
           /\ \/ UNCHANGED sales
              \/ \E a \in Actors, k \in RawKeys, s \in Shifts, q \in Requests :
                   CheckoutRetailSale(k, s, q, a)
<1>1. PICK a \in Actors : \/ \E s \in Shifts : ShiftStep(s, a)
                          \/ CounterStep(a) \/ FinanceStep(a)
  BY DEF TillMove, Next
<1>2. UNCHANGED <<ret, exchange>>
  BY DEF TillMove
<1>3. ASSUME NEW s \in Shifts, ShiftStep(s, a)
      PROVE  UNCHANGED <<sales, settlement>>
  BY <1>3, ShiftStepFrame
<1>4. CASE FinanceStep(a)
  BY <1>2, <1>4 DEF FinanceStep, ReconcilePayment
<1>5. CASE CounterStep(a)
  BY <1>2, <1>5 DEF CounterStep, CheckoutRetailSale, Sell
<1> QED
  BY <1>1, <1>2, <1>3, <1>4, <1>5

LEMMA ReturnFrame ==
    ASSUME ShopInv, ReturnMove
    PROVE  /\ UNCHANGED <<shift, expectedCash, sales, receipts, credit, settlement, drawer,
                          exchange>>
           /\ \E r \in Returns : /\ ret[r].status # "approved"
                                 /\ \A t \in Returns \ {r} : ret'[t] = ret[t]
<1>1. PICK a \in Actors, r \in Returns : ReturnStep(r, a) /\ UNCHANGED exchange
  BY DEF ReturnMove
<1>2. ret \in [Returns -> Return]
  BY DEF ShopInv, ShopTypes, ReturnTypeOK
<1>3. UNCHANGED <<shift, expectedCash, sales, receipts, credit, settlement, drawer>>
  BY <1>1 DEF ReturnStep, CreateRetailReturnRequest, InspectRetailReturn,
              DecideRetailReturn, vars
<1>4. ret[r].status # "approved" /\ \A t \in Returns \ {r} : ret'[t] = ret[t]
  BY <1>1, <1>2 DEF ReturnStep, CreateRetailReturnRequest, InspectRetailReturn,
                    DecideRetailReturn
<1> QED
  BY <1>1, <1>3, <1>4

LEMMA RailStep == ShopInv /\ RailInv /\ [ExchangeNext]_exchangeVars => RailInv'
<1> SUFFICES ASSUME ShopInv, RailInv, [ExchangeNext]_exchangeVars PROVE RailInv'
  OBVIOUS
<1>1. CASE UNCHANGED <<sales, ret, settlement>>
  BY <1>1 DEF RailInv
<1>2. CASE TillMove
  <2>1. ASSUME NEW a \in Actors, NEW k \in RawKeys, NEW s \in Shifts, NEW q \in Requests,
               CheckoutRetailSale(k, s, q, a)
        PROVE  RailInv'
    <3> DEFINE v == [key |-> CleanKey[k], shift |-> s, cashier |-> a, request |-> q]
    <3>1. v \in Sale /\ sales' = Append(sales, v)
      BY <2>1, CheckoutMakesSale
    <3>2. UNCHANGED <<ret, settlement>>
      BY <1>2, TillFrame
    <3>3. Len(sales) + 1 \notin DOMAIN sales
      BY DEF ShopInv, ShopTypes, TypeOK
    <3>4. \A n, m : n = Len(sales) + 1 /\ m # "store-credit" =>
             HeldBy(settlement', OnRail(settlement', ret', n, m)) = 0
      BY <3>2, <3>3, NothingRefundedYet
    <3>5. \A n \in DOMAIN sales, m \in Methods \ {"store-credit"} :
             HeldBy(settlement', OnRail(settlement', ret', n, m))
               = HeldBy(settlement, OnRail(settlement, ret, n, m))
      BY <3>2
    <3> HIDE DEF v
    <3> QED
      BY <3>1, <3>4, <3>5, RailSale
  <2> QED
    BY <1>1, <1>2, <2>1, TillFrame
<1>3. CASE ReturnMove
  <2>1. PICK r \in Returns : /\ ret[r].status # "approved"
                             /\ \A t \in Returns \ {r} : ret'[t] = ret[t]
    BY <1>3, ReturnFrame
  <2>2. UNCHANGED <<sales, settlement>>
    BY <1>3, ReturnFrame
  <2>3. ASSUME NEW n, NEW m
        PROVE  OnRail(settlement', ret', n, m) = OnRail(settlement, ret, n, m)
    <3>1. \A y \in Settlements : settlement[y].status \in Live =>
            settlement[y].return \in Returns /\ settlement[y].return # r
      BY <2>1 DEF ShopInv, PlaceInv, SettlementPlaces, Live, Spent, Reserved
    <3> QED
      BY <2>1, <2>2, <3>1 DEF OnRail
  <2>4. ASSUME NEW n \in DOMAIN sales', NEW m \in Methods \ {"store-credit"}
        PROVE  HeldBy(settlement', OnRail(settlement', ret', n, m))
                 <= TenderedBy(sales'[n].request, m)
    BY <2>2, <2>3 DEF RailInv
  <2> QED
    BY <2>4 DEF RailInv
<1>4. CASE SettlementMove
  <2>0. ShopTypes /\ PlaceInv
    BY DEF ShopInv
  <2>1. PICK a \in Actors, x \in Settlements : SettlementStep(x, a) /\ UNCHANGED exchange
    BY <1>4 DEF SettlementMove
  <2>2. PICK z \in Settlement, r \in Returns :
           /\ Moves(x, r, z)
           /\ \/ Asks(x, r, z) \/ Answers(x, r, z) \/ Pays(x, r, z)
              \/ \E c \in Credits : Issues(x, r, z, c)
    BY <2>0, <2>1, SettlementStepIs
  <2>3. Asks(x, r, z) \/ Keeps(x, r, z)
    BY <2>2 DEF Answers, Pays, Issues
  <2> QED
    BY <2>2, <2>3, RailRequest, RailAnswer
<1>5. CASE AskExchange
  BY <1>1, <1>5, AskExchangeFrame DEF returnVars, vars
<1>6. CASE ApproveExchange
  <2>0. ShopTypes /\ PlaceInv
    BY DEF ShopInv
  <2>1. PICK a \in Actors, e \in Exchanges, x \in Settlements, c \in Credits, d \in Credits :
          ApproveRetailExchange(e, x, c, d, a)
    BY <1>6 DEF ApproveExchange
  <2> DEFINE q == ReplacementSale(e, c)
             s == exchange[e].shift
             r == exchange[e].return
             z == ExchangeSettled(e, x, c, a)
             v == [key |-> ExchangeKey[e], shift |-> s, cashier |-> shift[s].cashier,
                   request |-> q]
  <2>2. /\ r \in Returns /\ z \in Settlement /\ Touches(x, r, z) /\ z.return = r
        /\ settlement[x].status = "none" /\ z.method = "store-credit"
        /\ v \in Sale /\ sales' = Append(sales, v)
    <3>1. Approval(e, x, c, a)
      BY <2>0, <2>1, ApprovalIs
    <3> QED
      BY <3>1 DEF Approval
  <2> HIDE DEF q, s, r, z, v
  <2>3. ASSUME NEW n, NEW m, m # "store-credit"
        PROVE  HeldBy(settlement', OnRail(settlement', ret', n, m))
                 = HeldBy(settlement, OnRail(settlement, ret, n, m))
    <3> DEFINE S == OnRail(settlement, ret, n, m)
               T == OnRail(settlement', ret', n, m)
    <3>1. /\ HeldBy(settlement', T) = HeldBy(settlement, S) - Adding(settlement, x, S)
                                      + Adding(settlement', x, T)
          /\ HeldBy(settlement, S) \in Nat
          /\ x \in T <=> z.method = m /\ z.status \in Live /\ ret[r].sale = n
      BY <2>2, RailChange
    <3>2. x \notin S
      BY <2>2 DEF OnRail, Live, Spent, Reserved
    <3>3. x \notin T
      BY <2>2, <2>3, <3>1
    <3> HIDE DEF S, T
    <3>4. Adding(settlement, x, S) = 0 /\ Adding(settlement', x, T) = 0
      BY <3>2, <3>3 DEF Adding
    <3> QED
      BY <3>1, <3>4 DEF S, T
  <2>4. Len(sales) + 1 \notin DOMAIN sales
    BY DEF ShopInv, ShopTypes, TypeOK
  <2>5. \A n, m : n = Len(sales) + 1 /\ m # "store-credit" =>
           HeldBy(settlement', OnRail(settlement', ret', n, m)) = 0
    BY <2>3, <2>4, NothingRefundedYet
  <2>6. \A n \in DOMAIN sales, m \in Methods \ {"store-credit"} :
           HeldBy(settlement', OnRail(settlement', ret', n, m))
             = HeldBy(settlement, OnRail(settlement, ret, n, m))
    BY <2>3
  <2> QED
    BY <2>2, <2>5, <2>6, RailSale
<1>7. CASE UNCHANGED exchangeVars
  BY <1>1, <1>7 DEF exchangeVars, returnVars, vars
<1> QED
  BY <1>2, <1>3, <1>4, <1>5, <1>6, <1>7, ShopSteps

(* Across all returns of a sale, refunds paid and refunds waiting never    *)
(* exceed what was tendered on their rail, whatever is asked for at once   *)
(* and in whatever order it is answered.                                   *)
THEOREM RefundsKeepToTheirRail == ExchangeSpec => []RefundsStayWithinTender
<1>1. ExchangeInit => RailInv
  BY DEF ExchangeInit, ReturnInit, Init, RailInv
<1> QED
  BY <1>1, RailIs, RailStep, ShopThroughout, PTL DEF ExchangeSpec

-----------------------------------------------------------------------------
(* Settled refunds are final.                                              *)

(* No settled refund changes, and one that waits for the provider keeps    *)
(* its amount until the provider's answer, in every step of the shop.      *)
THEOREM SettledRefundsAreFinal == ExchangeSpec => SettledIsFinal
<1>1. ASSUME ShopInv, [ExchangeNext]_exchangeVars, NEW y \in Settlements
      PROVE  /\ settlement[y].status \in Spent => settlement'[y] = settlement[y]
             /\ settlement[y].status = "provider-refund-pending" =>
                  /\ settlement'[y].amount = settlement[y].amount
                  /\ settlement'[y].status \in {"provider-refund-pending",
                       "provider-refunded", "provider-refund-rejected"}
  <2>0. ShopTypes /\ PlaceInv /\ settlement \in [Settlements -> Settlement]
    BY <1>1 DEF ShopInv, ShopTypes, TypeOK
  <2>1. CASE UNCHANGED settlement
    BY <2>1
  <2>2. CASE SettlementMove
    <3>1. PICK a \in Actors, x \in Settlements : SettlementStep(x, a) /\ UNCHANGED exchange
      BY <2>2 DEF SettlementMove
    <3>2. PICK z \in Settlement, r \in Returns :
             /\ Moves(x, r, z)
             /\ \/ Asks(x, r, z) \/ Answers(x, r, z) \/ Pays(x, r, z)
                \/ \E c \in Credits : Issues(x, r, z, c)
      BY <2>0, <3>1, SettlementStepIs
    <3>3. settlement'[y] = IF y = x THEN z ELSE settlement[y]
      BY <2>0, <3>2 DEF Moves, Touches
    <3>4. settlement[x].status \notin Spent
      BY <3>2 DEF Asks, Answers, Pays, Issues, Keeps, Spent
    <3>5. settlement[x].status = "provider-refund-pending" =>
            /\ z.amount = settlement[x].amount
            /\ z.status \in {"provider-refunded", "provider-refund-rejected"}
      BY <3>2 DEF Asks, Answers, Pays, Issues, Keeps
    <3> QED
      BY <3>3, <3>4, <3>5
  <2>3. CASE ApproveExchange
    <3>1. PICK a \in Actors, e \in Exchanges, x \in Settlements, c \in Credits, d \in Credits :
            ApproveRetailExchange(e, x, c, d, a)
      BY <2>3 DEF ApproveExchange
    <3>2. settlement[x].status = "none" /\ \A t \in Settlements \ {x} : settlement'[t] = settlement[t]
      BY <2>0, <3>1 DEF ApproveRetailExchange
    <3> QED
      BY <3>2 DEF Spent
  <2> QED
    BY <1>1, <2>1, <2>2, <2>3, ShopSteps, TillFrame, ReturnFrame, AskExchangeFrame
    DEF exchangeVars, returnVars, vars
<1>2. ShopInv /\ [ExchangeNext]_exchangeVars =>
        [\A x \in Settlements :
           /\ settlement[x].status \in Spent => settlement'[x] = settlement[x]
           /\ settlement[x].status = "provider-refund-pending" =>
                /\ settlement'[x].amount = settlement[x].amount
                /\ settlement'[x].status \in {"provider-refund-pending",
                     "provider-refunded", "provider-refund-rejected"}]_returnVars
  BY <1>1
<1> QED
  BY <1>2, ShopThroughout, PTL DEF ExchangeSpec, SettledIsFinal

-----------------------------------------------------------------------------
(* The cash in a drawer: what it opened with and took, less what it paid.  *)

PaidFrom(z, s) == {x \in Settlements : z[x].shift = s /\ z[x].status = "cash-refunded"}

CashInv ==
    \A s \in Shifts :
      /\ shift[s].status # "none" =>
           drawer[s] = SoldOf(sales, s, "cash") + shift[s].opening
                       - HeldBy(settlement, PaidFrom(settlement, s))
      /\ shift[s].status \in {"close-requested", "closed"} => expectedCash[s] = drawer[s]

LEMMA SoldTyped ==
    ASSUME ShopInv, NEW s, NEW m
    PROVE  SoldOf(sales, s, m) \in Int
<1> DEFINE S == {n \in DOMAIN sales : sales[n].shift = s}
<1>1. sales \in Seq(Sale) /\ TypeOK
  BY DEF ShopInv, ShopTypes, TypeOK
<1>2. IsFiniteSet(S)
  BY <1>1, SequenceDomain, FS_Subset
<1>3. \A n \in S : TenderedBy(sales[n].request, m) \in Int
  BY <1>1, SalesTyped, TenderedIsNat
<1>4. SoldOf(sales, s, m) = SalesOf(sales, m, S)
  BY DEF SoldOf
<1> HIDE DEF S
<1>5. /\ Terms(SalesTerms(sales, m, S), S)
      /\ SalesOf(sales, m, S) = Total(SalesTerms(sales, m, S), S)
  BY <1>2, <1>3, SalesOfIsTotal
<1> QED
  BY <1>4, <1>5, TotalType

LEMMA PaidTyped ==
    ASSUME ShopInv, NEW s
    PROVE  HeldBy(settlement, PaidFrom(settlement, s)) \in Nat
<1> DEFINE S == PaidFrom(settlement, s)
<1>1. S \subseteq Settlements
  BY DEF PaidFrom
<1> HIDE DEF S
<1>2. IsFiniteSet(S) /\ \A x \in S : settlement[x].amount \in Nat
  BY <1>1, SettlementAmounts, FS_Subset
<1>3. HeldBy(settlement, S) \in Nat
  BY <1>2, HeldIsTotal
<1> QED
  BY <1>3 DEF S

(* What the close of a shift expects, by its definition in the model.      *)
LEMMA ExpectedIs ==
    ASSUME NEW s
    PROVE  ExpectedOn(s, "cash") = SoldOf(sales, s, "cash")
             + (shift[s].opening - HeldBy(settlement, PaidFrom(settlement, s)))
<1>1. SoldInShift(s, "cash") = SoldOf(sales, s, "cash")
  BY DEF SoldInShift, SoldOf, SalesOf
<1>2. RefundedFromDrawer(s) = HeldBy(settlement, PaidFrom(settlement, s))
  BY DEF RefundedFromDrawer, HeldBy, PaidFrom
<1> QED
  BY <1>1, <1>2 DEF ExpectedOn

LEMMA PaidChange ==
    ASSUME ShopInv, NEW x \in Settlements, NEW r \in Returns, NEW z \in Settlement,
           Touches(x, r, z), NEW s
    PROVE  LET S == PaidFrom(settlement, s)
               T == PaidFrom(settlement', s)
           IN  /\ HeldBy(settlement', T) = HeldBy(settlement, S) - Adding(settlement, x, S)
                                           + Adding(settlement', x, T)
               /\ HeldBy(settlement, S) \in Nat
               /\ Adding(settlement, x, S) \in Nat /\ Adding(settlement', x, T) \in Nat
               /\ x \in S <=> settlement[x].shift = s /\ settlement[x].status = "cash-refunded"
               /\ x \in T <=> z.shift = s /\ z.status = "cash-refunded"
               /\ settlement'[x] = z
<1> DEFINE S == PaidFrom(settlement, s)
           T == PaidFrom(settlement', s)
<1>1. \A y \in Settlements : settlement'[y] = IF y = x THEN z ELSE settlement[y]
  BY DEF ShopInv, ShopTypes, TypeOK, Touches
<1>2. IsFiniteSet(Settlements) /\ \A y \in Settlements : settlement[y].amount \in Nat
  BY SettlementAmounts
<1>3. \A y \in Settlements : settlement'[y].amount \in Nat
  BY <1>1, <1>2 DEF Settlement
<1>4. \A y \in Settlements \ {x} : (y \in S <=> y \in T) /\ settlement'[y] = settlement[y]
  BY <1>1 DEF PaidFrom
<1>5. /\ x \in S <=> settlement[x].shift = s /\ settlement[x].status = "cash-refunded"
      /\ x \in T <=> z.shift = s /\ z.status = "cash-refunded"
      /\ S \in SUBSET Settlements /\ T \in SUBSET Settlements /\ settlement'[x] = z
  BY <1>1 DEF PaidFrom
<1> HIDE DEF S, T
<1>6. /\ HeldBy(settlement', T) = HeldBy(settlement, S) - Adding(settlement, x, S)
                                  + Adding(settlement', x, T)
      /\ HeldBy(settlement, S) \in Nat
      /\ Adding(settlement, x, S) \in Nat /\ Adding(settlement', x, T) \in Nat
  BY <1>2, <1>3, <1>4, <1>5, HeldChange
<1> QED
  BY <1>5, <1>6 DEF S, T

(* A settlement step that pays no cash leaves every drawer's refunds.      *)
LEMMA PaidSame ==
    ASSUME ShopInv, NEW x \in Settlements, NEW r \in Returns, NEW z \in Settlement,
           Touches(x, r, z), z.status # "cash-refunded",
           settlement[x].status # "cash-refunded"
    PROVE  \A s \in Shifts : HeldBy(settlement', PaidFrom(settlement', s))
                               = HeldBy(settlement, PaidFrom(settlement, s))
<1> SUFFICES ASSUME NEW s \in Shifts
             PROVE  HeldBy(settlement', PaidFrom(settlement', s))
                      = HeldBy(settlement, PaidFrom(settlement, s))
  OBVIOUS
<1> DEFINE S == PaidFrom(settlement, s)
           T == PaidFrom(settlement', s)
<1>1. /\ HeldBy(settlement', T) = HeldBy(settlement, S) - Adding(settlement, x, S)
                                  + Adding(settlement', x, T)
      /\ HeldBy(settlement, S) \in Nat /\ x \notin S /\ x \notin T
  BY PaidChange
<1> HIDE DEF S, T
<1>2. Adding(settlement, x, S) = 0 /\ Adding(settlement', x, T) = 0
  BY <1>1 DEF Adding
<1> QED
  BY <1>1, <1>2 DEF S, T

(* Shift steps: opening counts the float, a request freezes what is in the *)
(* drawer, and no other one moves cash.                                    *)
LEMMA CashShiftStep ==
    ASSUME ShopInv, CashInv, NEW s \in Shifts, NEW a \in Actors, ShiftStep(s, a)
    PROVE  CashInv'
<1>t. /\ shift \in [Shifts -> Shift] /\ drawer \in [Shifts -> Int]
      /\ expectedCash \in [Shifts -> Int] /\ TypeOK /\ PlaceInv
  BY DEF ShopInv, ShopTypes, TypeOK
<1>0. UNCHANGED <<sales, settlement>>
  BY ShiftStepFrame
<1>1. ASSUME NEW opening \in OpeningCash, OpenRetailCashierShift(s, opening, a)
      PROVE  /\ shift'[s].status = "open"
             /\ drawer'[s] = SoldOf(sales, s, "cash") + shift'[s].opening
                             - HeldBy(settlement, PaidFrom(settlement, s))
  <2>1. /\ shift[s].status = "none" /\ shift'[s].opening = opening
        /\ shift'[s].status = "open" /\ drawer'[s] = opening /\ opening \in Int
    BY <1>1, <1>t, PosAssumption DEF OpenRetailCashierShift, Shift
  <2>2. \A n \in DOMAIN sales : sales[n].shift # s
    BY <1>t, <2>1 DEF PlaceInv, SalePlaces
  <2>3. PaidFrom(settlement, s) = {}
    BY <1>t, <2>1 DEF PlaceInv, SettlementPlaces, PaidFrom
  <2>4. SoldOf(sales, s, "cash") = 0 /\ HeldBy(settlement, PaidFrom(settlement, s)) = 0
    BY <2>2, <2>3, SoldNothing, HeldNone
  <2> QED
    BY <2>1, <2>4
<1>2. ASSUME NEW counted \in Counts, NEW rails \in Declarations,
             RequestRetailCashierShiftClose(s, counted, rails, a)
      PROVE  /\ drawer' = drawer /\ shift[s].status # "none"
             /\ expectedCash'[s] = SoldOf(sales, s, "cash")
                  + (shift[s].opening - HeldBy(settlement, PaidFrom(settlement, s)))
  <2>1. expectedCash'[s] = ExpectedOn(s, "cash")
    BY <1>2, <1>t DEF RequestRetailCashierShiftClose
  <2> QED
    BY <1>2, <2>1, ExpectedIs DEF RequestRetailCashierShiftClose, TillOpenFor
<1>3. ASSUME \/ RequestVarianceResolution(s, a) \/ ApproveShiftClose(s, a)
             \/ \E decision \in {"approved", "rejected"} :
                  DecideVarianceResolution(s, decision, a)
      PROVE  /\ UNCHANGED <<drawer, expectedCash>>
             /\ shift[s].status = "close-requested"
  BY <1>3 DEF RequestVarianceResolution, DecideVarianceResolution, ApproveShiftClose
<1>4. ASSUME RejectShiftClose(s, a)
      PROVE  drawer' = drawer /\ shift'[s].status = "open" /\ shift[s].status # "none"
  BY <1>4, <1>t DEF RejectShiftClose, NoShift, Shift
<1>5. \A u \in Shifts \ {s} : /\ shift'[u] = shift[u] /\ drawer'[u] = drawer[u]
                              /\ expectedCash'[u] = expectedCash[u]
  BY <1>t, LiveShifts DEF ShiftStep, OpenRetailCashierShift, RequestRetailCashierShiftClose,
     RequestVarianceResolution, DecideVarianceResolution, ApproveShiftClose, RejectShiftClose
<1>6. shift[s].status # "none" => shift'[s].opening = shift[s].opening
  BY <1>t, ShiftsMoveOn
<1>7. /\ shift[s].status # "none" =>
           drawer[s] = SoldOf(sales, s, "cash") + shift[s].opening
                       - HeldBy(settlement, PaidFrom(settlement, s))
      /\ shift[s].status \in {"close-requested", "closed"} => expectedCash[s] = drawer[s]
  BY DEF CashInv
<1>8. /\ SoldOf(sales, s, "cash") \in Int
      /\ HeldBy(settlement, PaidFrom(settlement, s)) \in Nat /\ shift[s].opening \in Nat
  BY <1>t, SoldTyped, PaidTyped DEF Shift
<1>9. /\ shift'[s].status # "none" =>
           drawer'[s] = SoldOf(sales, s, "cash") + shift'[s].opening
                        - HeldBy(settlement, PaidFrom(settlement, s))
      /\ shift'[s].status \in {"close-requested", "closed"} => expectedCash'[s] = drawer'[s]
  BY <1>1, <1>2, <1>3, <1>4, <1>6, <1>7, <1>8 DEF ShiftStep
<1>10. ASSUME NEW u \in Shifts
       PROVE  /\ shift'[u].status # "none" =>
                   drawer'[u] = SoldOf(sales, u, "cash") + shift'[u].opening
                                - HeldBy(settlement, PaidFrom(settlement, u))
              /\ shift'[u].status \in {"close-requested", "closed"} =>
                   expectedCash'[u] = drawer'[u]
  BY <1>5, <1>9 DEF CashInv
<1> QED
  BY <1>0, <1>10 DEF CashInv

(* A sale: in an open shift, and its cash is in the drawer.                *)
LEMMA CashSale ==
    ASSUME ShopInv, CashInv, NEW v \in Sale, sales' = Append(sales, v), shift' = shift,
           shift[v.shift].status = "open", expectedCash' = expectedCash,
           drawer' = [drawer EXCEPT ![v.shift] = @ + TenderedBy(v.request, "cash")],
           \A s \in Shifts : HeldBy(settlement', PaidFrom(settlement', s))
                               = HeldBy(settlement, PaidFrom(settlement, s))
    PROVE  CashInv'
<1> SUFFICES ASSUME NEW s \in Shifts
             PROVE  /\ shift[s].status # "none" =>
                         drawer'[s] = SoldOf(sales', s, "cash") + shift[s].opening
                                      - HeldBy(settlement', PaidFrom(settlement', s))
                    /\ shift[s].status \in {"close-requested", "closed"} =>
                         expectedCash[s] = drawer'[s]
  BY DEF CashInv
<1>1. /\ sales \in Seq(Sale) /\ drawer \in [Shifts -> Int] /\ drawer[s] \in Int
      /\ shift[s].opening \in Nat /\ v.shift \in Shifts
  BY DEF ShopInv, ShopTypes, TypeOK, Shift, Sale
<1>2. SoldOf(sales', s, "cash") = SoldOf(sales, s, "cash")
        + (IF v.shift = s THEN TenderedBy(v.request, "cash") ELSE 0)
  BY <1>1, SoldAppend
<1>3. /\ SoldOf(sales, s, "cash") \in Int
      /\ HeldBy(settlement, PaidFrom(settlement, s)) \in Nat
      /\ TenderedBy(v.request, "cash") \in Nat
  BY SoldTyped, PaidTyped, TenderedIsNat DEF Sale
<1>4. drawer'[s] = drawer[s] + (IF v.shift = s THEN TenderedBy(v.request, "cash") ELSE 0)
  BY <1>1, <1>3
<1>5. /\ shift[s].status # "none" =>
           drawer[s] = SoldOf(sales, s, "cash") + shift[s].opening
                       - HeldBy(settlement, PaidFrom(settlement, s))
      /\ shift[s].status \in {"close-requested", "closed"} => expectedCash[s] = drawer[s]
  BY DEF CashInv
<1>6. shift[s].status \in {"close-requested", "closed"} => v.shift # s
  OBVIOUS
<1>7. HeldBy(settlement', PaidFrom(settlement', s)) = HeldBy(settlement, PaidFrom(settlement, s))
  OBVIOUS
<1> DEFINE taken == IF v.shift = s THEN TenderedBy(v.request, "cash") ELSE 0
           sold == SoldOf(sales, s, "cash")
           paid == HeldBy(settlement, PaidFrom(settlement, s))
<1>8. /\ taken \in Int /\ sold \in Int /\ paid \in Int
      /\ v.shift # s => taken = 0
  BY <1>3
<1>9. /\ drawer'[s] = drawer[s] + taken /\ SoldOf(sales', s, "cash") = sold + taken
      /\ HeldBy(settlement', PaidFrom(settlement', s)) = paid
      /\ shift[s].status # "none" => drawer[s] = sold + shift[s].opening - paid
  BY <1>2, <1>4, <1>5, <1>7
<1> HIDE DEF taken, sold, paid
<1>10. shift[s].status # "none" =>
         drawer'[s] = SoldOf(sales', s, "cash") + shift[s].opening
                      - HeldBy(settlement', PaidFrom(settlement', s))
  BY <1>1, <1>8, <1>9
<1>11. shift[s].status \in {"close-requested", "closed"} => expectedCash[s] = drawer'[s]
  BY <1>1, <1>5, <1>6, <1>8, <1>9
<1> QED
  BY <1>10, <1>11

(* A settlement paid from a drawer: from an open one, by its amount.       *)
LEMMA CashPaid ==
    ASSUME ShopInv, CashInv, NEW x \in Settlements, NEW r \in Returns, NEW z \in Settlement,
           Moves(x, r, z), Pays(x, r, z), z.shift \in Shifts
    PROVE  CashInv'
<1> SUFFICES ASSUME NEW s \in Shifts
             PROVE  /\ shift[s].status # "none" =>
                         drawer'[s] = SoldOf(sales, s, "cash") + shift[s].opening
                                      - HeldBy(settlement', PaidFrom(settlement', s))
                    /\ shift[s].status \in {"close-requested", "closed"} =>
                         expectedCash[s] = drawer'[s]
  BY DEF CashInv, Moves
<1>1. /\ drawer \in [Shifts -> Int] /\ drawer[s] \in Int
      /\ shift[s].opening \in Nat /\ z.amount \in Nat
  BY DEF ShopInv, ShopTypes, TypeOK, Shift, Settlement
<1>2. /\ drawer' = [drawer EXCEPT ![z.shift] = @ - z.amount]
      /\ z.status = "cash-refunded" /\ settlement[x].status = "requested"
      /\ shift[z.shift].status = "open" /\ Touches(x, r, z)
  BY DEF Pays, Moves
<1> DEFINE S == PaidFrom(settlement, s)
           T == PaidFrom(settlement', s)
<1>3. /\ HeldBy(settlement', T) = HeldBy(settlement, S) - Adding(settlement, x, S)
                                  + Adding(settlement', x, T)
      /\ HeldBy(settlement, S) \in Nat /\ settlement'[x] = z
      /\ x \in S <=> settlement[x].shift = s /\ settlement[x].status = "cash-refunded"
      /\ x \in T <=> z.shift = s /\ z.status = "cash-refunded"
  BY <1>2, PaidChange
<1>4. /\ Adding(settlement, x, S) = 0
      /\ Adding(settlement', x, T) = IF z.shift = s THEN z.amount ELSE 0
  BY <1>2, <1>3 DEF Adding
<1>5. drawer'[s] = drawer[s] - (IF z.shift = s THEN z.amount ELSE 0)
  BY <1>1, <1>2
<1>6. /\ shift[s].status # "none" =>
           drawer[s] = SoldOf(sales, s, "cash") + shift[s].opening - HeldBy(settlement, S)
      /\ shift[s].status \in {"close-requested", "closed"} => expectedCash[s] = drawer[s]
  BY DEF CashInv
<1>7. SoldOf(sales, s, "cash") \in Int
  BY SoldTyped
<1> HIDE DEF S, T
<1>8. HeldBy(settlement', T) = HeldBy(settlement, S) + (IF z.shift = s THEN z.amount ELSE 0)
  BY <1>1, <1>3, <1>4
<1>9. shift[s].status \in {"close-requested", "closed"} => z.shift # s
  BY <1>2
<1> QED
  BY <1>1, <1>5, <1>6, <1>7, <1>8, <1>9, <1>3 DEF T

LEMMA CashStep == ShopInv /\ CashInv /\ [ExchangeNext]_exchangeVars => CashInv'
<1> SUFFICES ASSUME ShopInv, CashInv, [ExchangeNext]_exchangeVars PROVE CashInv'
  OBVIOUS
<1>0. ShopTypes /\ PlaceInv
  BY DEF ShopInv
<1>1. CASE UNCHANGED <<shift, expectedCash, sales, settlement, drawer>>
  BY <1>1 DEF CashInv
<1>2. CASE TillMove
  <2>1. PICK a \in Actors : \/ \E s \in Shifts : ShiftStep(s, a)
                            \/ CounterStep(a) \/ FinanceStep(a)
    BY <1>2 DEF TillMove, Next
  <2>2. ASSUME NEW k \in RawKeys, NEW s \in Shifts, NEW q \in Requests,
               CheckoutRetailSale(k, s, q, a)
        PROVE  CashInv'
    <3> DEFINE v == [key |-> CleanKey[k], shift |-> s, cashier |-> a, request |-> q]
    <3>1. /\ v \in Sale /\ sales' = Append(sales, v) /\ shift' = shift
          /\ shift[v.shift].status = "open" /\ expectedCash' = expectedCash
          /\ drawer' = [drawer EXCEPT ![v.shift] = @ + TenderedBy(v.request, "cash")]
          /\ settlement' = settlement
      BY <2>2, CheckoutMakesSale
    <3> HIDE DEF v
    <3>2. \A u \in Shifts : HeldBy(settlement', PaidFrom(settlement', u))
                              = HeldBy(settlement, PaidFrom(settlement, u))
      BY <3>1
    <3> QED
      BY <3>1, <3>2, CashSale
  <2>3. CASE FinanceStep(a)
    BY <1>1, <2>3 DEF FinanceStep, ReconcilePayment
  <2> QED
    BY <2>1, <2>2, <2>3, CashShiftStep DEF CounterStep
<1>3. CASE ReturnMove
  BY <1>1, <1>3, ReturnFrame
<1>4. CASE SettlementMove
  <2>1. PICK a \in Actors, x \in Settlements : SettlementStep(x, a) /\ UNCHANGED exchange
    BY <1>4 DEF SettlementMove
  <2>2. PICK z \in Settlement, r \in Returns :
           /\ Moves(x, r, z) /\ z.return = r
           /\ z.method = "cash" => z.shift \in Shifts
           /\ \/ Asks(x, r, z) \/ Answers(x, r, z) \/ Pays(x, r, z)
              \/ \E c \in Credits : Issues(x, r, z, c)
    BY <1>0, <2>1, SettlementStepIs
  <2>3. CASE Pays(x, r, z)
    BY <2>2, <2>3, CashPaid DEF Pays
  <2>4. CASE ~ Pays(x, r, z)
    <3>1. /\ UNCHANGED <<shift, expectedCash, sales, drawer>> /\ Touches(x, r, z)
          /\ z.status # "cash-refunded" /\ settlement[x].status # "cash-refunded"
      BY <2>2, <2>4 DEF Moves, Asks, Answers, Issues, Keeps
    <3>2. \A s \in Shifts : HeldBy(settlement', PaidFrom(settlement', s))
                              = HeldBy(settlement, PaidFrom(settlement, s))
      BY <3>1, PaidSame
    <3> QED
      BY <3>1, <3>2 DEF CashInv
  <2> QED
    BY <2>3, <2>4
<1>5. CASE AskExchange
  BY <1>1, <1>5, AskExchangeFrame DEF returnVars, vars
<1>6. CASE ApproveExchange
  <2>1. PICK a \in Actors, e \in Exchanges, x \in Settlements, c \in Credits, d \in Credits :
          ApproveRetailExchange(e, x, c, d, a)
    BY <1>6 DEF ApproveExchange
  <2> DEFINE q == ReplacementSale(e, c)
             s == exchange[e].shift
             r == exchange[e].return
             z == ExchangeSettled(e, x, c, a)
             v == [key |-> ExchangeKey[e], shift |-> s, cashier |-> shift[s].cashier,
                   request |-> q]
  <2>2. Approval(e, x, c, a)
    BY <1>0, <2>1, ApprovalIs
  <2>3. expectedCash' = expectedCash
    BY <2>1 DEF ApproveRetailExchange
  <2>4. /\ r \in Returns /\ z \in Settlement /\ Touches(x, r, z)
        /\ settlement[x].status = "none" /\ z.status = "store-credit-issued"
        /\ v \in Sale /\ sales' = Append(sales, v) /\ shift' = shift
        /\ shift[v.shift].status = "open"
        /\ drawer' = [drawer EXCEPT ![v.shift] = @ + TenderedBy(v.request, "cash")]
    BY <2>2 DEF Approval
  <2> HIDE DEF q, s, r, z, v
  <2>5. \A u \in Shifts : HeldBy(settlement', PaidFrom(settlement', u))
                            = HeldBy(settlement, PaidFrom(settlement, u))
    BY <2>4, PaidSame
  <2> QED
    BY <2>3, <2>4, <2>5, CashSale
<1>7. CASE UNCHANGED exchangeVars
  BY <1>1, <1>7 DEF exchangeVars, returnVars, vars
<1> QED
  BY <1>2, <1>3, <1>4, <1>5, <1>6, <1>7, ShopSteps

(* What the close of a shift compares the count with is the cash really in *)
(* its drawer, and neither a late refund nor an exchange's sale overtakes  *)
(* it while the close is under review or after it.                         *)
THEOREM DrawersMatch == ExchangeSpec => []DrawerMatchesExpectation
<1>1. ExchangeInit => CashInv
  BY DEF ExchangeInit, ReturnInit, Init, CashInv, NoShift
<1>2. CashInv => DrawerMatchesExpectation
  BY DEF CashInv, DrawerMatchesExpectation
<1> QED
  BY <1>1, <1>2, CashStep, ShopThroughout, PTL DEF ExchangeSpec

-----------------------------------------------------------------------------
(* Store credit: what is gone from a credit is what the one receipt that   *)
(* refers to it took.                                                      *)

AmountOf(S) == MapThenSumSet(LAMBDA r : r.amount, S)
AmountTerms(S) == [r \in S |-> r.amount]

LEMMA AmountIsTotal ==
    ASSUME NEW S, IsFiniteSet(S), \A r \in S : r.amount \in Int
    PROVE  Terms(AmountTerms(S), S) /\ AmountOf(S) = Total(AmountTerms(S), S)
<1> DEFINE f == AmountTerms(S)
           Eq(h) == h = [s \in SUBSET S |-> IF s = {} THEN 0
                         ELSE LET r == CHOOSE r \in s : TRUE IN r.amount + h[s \ {r}]]
<1>0. Terms(f, S)
  BY DEF Terms, AmountTerms
<1>1. PICK g : Adds(g, f, S)
  BY <1>0, AddsExists
<1>2. Eq(g)
  BY <1>1, PickIsMember DEF Adds, Pick, AmountTerms
<1>3. Eq(CHOOSE h : Eq(h))
  <2> HIDE DEF Eq
  <2> QED
    BY <1>2
<1>4. \A h : Eq(h) => Adds(h, f, S)
  BY PickIsMember DEF Adds, Pick, AmountTerms
<1>5. AmountOf(S) = (CHOOSE h : Eq(h))[S]
  BY DEF AmountOf, MapThenSumSet, MapThenFoldSet
<1> HIDE DEF Eq, f
<1>6. AmountOf(S) = Total(f, S)
  BY <1>0, <1>3, <1>4, <1>5, TotalIs
<1> QED
  BY <1>0, <1>6 DEF f

LEMMA AmountOfNone == AmountOf({}) = 0
<1>1. AmountOf({}) = Total(AmountTerms({}), {})
  BY FS_EmptySet, AmountIsTotal
<1> QED
  BY <1>1, TotalEmpty

LEMMA AmountOfOne ==
    ASSUME NEW r, r.amount \in Int
    PROVE  AmountOf({r}) = r.amount
<1> DEFINE S == {r}
<1>1. IsFiniteSet(S) /\ r \in S /\ S \ {r} = {} /\ AmountTerms(S)[r] = r.amount
  BY FS_Singleton DEF AmountTerms
<1>2. \A t \in S : t.amount \in Int
  OBVIOUS
<1> HIDE DEF S
<1>3. Terms(AmountTerms(S), S) /\ AmountOf(S) = Total(AmountTerms(S), S)
  BY <1>1, <1>2, AmountIsTotal
<1>4. Total(AmountTerms(S), S) = AmountTerms(S)[r] + Total(AmountTerms(S), S \ {r})
  BY <1>1, <1>3, TotalTake
<1>5. Total(AmountTerms(S), {}) = 0
  BY TotalEmpty
<1>6. Total(AmountTerms(S), S \ {r}) = 0
  BY <1>1, <1>5
<1>7. AmountOf(S) = r.amount + 0
  BY <1>1, <1>3, <1>4, <1>6
<1>8. r.amount + 0 = r.amount
  OBVIOUS
<1> QED
  BY <1>7, <1>8 DEF S

SpentOn(R, c) == {r \in R : r.method = "store-credit" /\ r.reference = c}

CreditKept(k, S) ==
    /\ S = {} => k.issued = k.available
    /\ \A r \in S : k.status # "none" /\ k.issued - k.available = r.amount
    /\ k.status = "redeemed" <=> k.status # "none" /\ k.available = 0

CreditInv == EvidenceUsedOnce /\ \A c \in Credits : CreditKept(credit[c], SpentOn(receipts, c))

LEMMA CreditIs ==
    ASSUME ShopInv, CreditInv
    PROVE  StoreCreditIsConserved
<1> SUFFICES ASSUME NEW c \in Credits
             PROVE  /\ credit[c].issued - credit[c].available
                         = AmountOf(SpentOn(receipts, c))
                    /\ credit[c].status = "redeemed" <=>
                         credit[c].status # "none" /\ credit[c].available = 0
  BY DEF StoreCreditIsConserved, AmountOf, SpentOn
<1> DEFINE S == SpentOn(receipts, c)
<1>1. /\ \A r \in receipts : r.amount \in Int
      /\ credit[c].issued \in Nat /\ credit[c].available \in Nat
  BY DEF ShopInv, ShopTypes, TypeOK, Receipt, Credit
<1>2. CreditKept(credit[c], S)
  BY DEF CreditInv
<1>3. ASSUME S = {}
      PROVE  credit[c].issued - credit[c].available = AmountOf(S)
  <2>1. credit[c].issued = credit[c].available
    BY <1>2, <1>3 DEF CreditKept
  <2> QED
    BY <1>1, <1>3, <2>1, AmountOfNone
<1>4. ASSUME NEW r \in S
      PROVE  credit[c].issued - credit[c].available = AmountOf(S)
  <2>1. S = {r} /\ r \in receipts
    BY <1>4 DEF SpentOn, CreditInv, EvidenceUsedOnce
  <2>2. credit[c].issued - credit[c].available = r.amount
    BY <1>2, <1>4 DEF CreditKept
  <2> HIDE DEF S
  <2> QED
    BY <1>1, <2>1, <2>2, AmountOfOne
<1> HIDE DEF S
<1>5. credit[c].issued - credit[c].available = AmountOf(S)
  BY <1>3, <1>4
<1> QED
  BY <1>2, <1>5 DEF CreditKept, S

(* A sale whose evidence was never used keeps evidence unique.             *)
LEMMA SaleEvidence ==
    ASSUME EvidenceUsedOnce, NEW n, NEW s, NEW q, NEW a,
           receipts' = receipts \cup ReceiptsOf(n, s, q, a),
           \A i \in DOMAIN q.tenders : ReferenceUnused(q, i)
    PROVE  EvidenceUsedOnce'
<1>1. \A t \in ReceiptsOf(n, s, q, a) : \E i \in DOMAIN q.tenders :
        /\ t.method = q.tenders[i].method /\ t.reference = q.tenders[i].reference
        /\ t = [sale |-> n, tender |-> i, shift |-> s,
                method |-> q.tenders[i].method, amount |-> q.tenders[i].amount,
                reference |-> q.tenders[i].reference, status |-> "recorded",
                journal |-> "draft", recordedBy |-> a, reconciledBy |-> None]
  BY DEF ReceiptsOf
<1>2. ASSUME NEW t \in ReceiptsOf(n, s, q, a), NEW u \in ReceiptsOf(n, s, q, a),
             t.method = u.method, t.reference = u.reference
      PROVE  t = u
  BY <1>1, <1>2 DEF ReferenceUnused
<1>3. ASSUME NEW t \in receipts, NEW u \in ReceiptsOf(n, s, q, a)
      PROVE  ~ (t.method = u.method /\ t.reference = u.reference)
  BY <1>1 DEF ReferenceUnused
<1> QED
  BY <1>2, <1>3 DEF EvidenceUsedOnce

(* The store-credit receipts a sale adds: one at most for a credit, and    *)
(* none where there was one.                                               *)
SpendsOn(q, i, c) ==
    /\ SpentOn(receipts, c) = {}
    /\ \A j \in DOMAIN q.tenders : q.tenders[j].method = "store-credit"
                                /\ q.tenders[j].reference = c => j = i
    /\ SpentOn(receipts', c) # {}
    /\ \A t \in SpentOn(receipts', c) : t.amount = q.tenders[i].amount

Spending(q, c) == {i \in DOMAIN q.tenders : /\ q.tenders[i].method = "store-credit"
                                           /\ q.tenders[i].reference = c}

LEMMA SaleSpends ==
    ASSUME NEW n, NEW s, NEW q, NEW a, NEW c,
           receipts' = receipts \cup ReceiptsOf(n, s, q, a),
           \A i \in DOMAIN q.tenders : ReferenceUnused(q, i)
    PROVE  /\ \A i \in Spending(q, c) : SpendsOn(q, i, c)
           /\ Spending(q, c) = {} => SpentOn(receipts', c) = SpentOn(receipts, c)
<1> DEFINE T(i) == [sale |-> n, tender |-> i, shift |-> s,
                    method |-> q.tenders[i].method, amount |-> q.tenders[i].amount,
                    reference |-> q.tenders[i].reference, status |-> "recorded",
                    journal |-> "draft", recordedBy |-> a, reconciledBy |-> None]
<1>1. \A i : /\ T(i).method = q.tenders[i].method /\ T(i).amount = q.tenders[i].amount
             /\ T(i).reference = q.tenders[i].reference
  OBVIOUS
<1>2. /\ \A t \in ReceiptsOf(n, s, q, a) : \E i \in DOMAIN q.tenders : t = T(i)
      /\ \A i \in DOMAIN q.tenders :
           q.tenders[i].method # "customer-credit" => T(i) \in ReceiptsOf(n, s, q, a)
  BY DEF ReceiptsOf
<1> HIDE DEF T
<1>3. ASSUME NEW i \in DOMAIN q.tenders, q.tenders[i].method = "store-credit",
             q.tenders[i].reference = c
      PROVE  /\ SpentOn(receipts, c) = {}
             /\ \A j \in DOMAIN q.tenders : q.tenders[j].method = "store-credit"
                                         /\ q.tenders[j].reference = c => j = i
             /\ T(i) \in SpentOn(receipts', c)
             /\ \A t \in SpentOn(receipts', c) : t.amount = q.tenders[i].amount
  <2>1. /\ SpentOn(receipts, c) = {}
        /\ \A j \in DOMAIN q.tenders : q.tenders[j].method = "store-credit"
                                    /\ q.tenders[j].reference = c => j = i
    BY <1>3 DEF ReferenceUnused, SpentOn
  <2>2. T(i) \in SpentOn(receipts', c)
    BY <1>1, <1>2, <1>3 DEF SpentOn
  <2>3. \A t \in SpentOn(receipts', c) : t.amount = q.tenders[i].amount
    BY <1>1, <1>2, <2>1 DEF SpentOn
  <2> QED
    BY <2>1, <2>2, <2>3
<1>4. (\A i \in DOMAIN q.tenders :
         ~ (q.tenders[i].method = "store-credit" /\ q.tenders[i].reference = c))
        => SpentOn(receipts', c) = SpentOn(receipts, c)
  BY <1>1, <1>2 DEF SpentOn
<1>5. ASSUME NEW i \in Spending(q, c)
      PROVE  SpendsOn(q, i, c)
  BY <1>3 DEF Spending, SpendsOn
<1>6. Spending(q, c) = {} => SpentOn(receipts', c) = SpentOn(receipts, c)
  BY <1>4 DEF Spending
<1> QED
  BY <1>5, <1>6

(* Reconciling receipts leaves what each credit was spent on.              *)
LEMMA CreditSettled ==
    ASSUME ShopInv, CreditInv, NEW a \in Actors, NEW R \in SUBSET receipts,
           receipts' = (receipts \ R) \cup {Reconciled(r, a) : r \in R}, credit' = credit
    PROVE  CreditInv'
<1>0. TypeOK /\ \A r \in receipts : r \in Receipt
  BY DEF ShopInv, ShopTypes, TypeOK
<1>1. EvidenceUsedOnce'
  BY <1>0, SettlingStep DEF CreditInv
<1>2. \A r \in receipts : /\ Reconciled(r, a).method = r.method
                          /\ Reconciled(r, a).reference = r.reference
                          /\ Reconciled(r, a).amount = r.amount
  BY <1>0 DEF Reconciled, Receipt
<1>3. ASSUME NEW c \in Credits
      PROVE  CreditKept(credit[c], SpentOn(receipts', c))
  <2>1. CreditKept(credit[c], SpentOn(receipts, c))
    BY DEF CreditInv
  <2>2. \A t \in SpentOn(receipts', c) : \E r \in SpentOn(receipts, c) : t.amount = r.amount
    BY <1>2 DEF SpentOn
  <2>3. \A r \in SpentOn(receipts, c) : \E t \in SpentOn(receipts', c) : TRUE
    <3> SUFFICES ASSUME NEW r \in SpentOn(receipts, c)
                 PROVE  \E t : t \in SpentOn(receipts', c)
      OBVIOUS
    <3>1. r \in receipts /\ r.method = "store-credit" /\ r.reference = c
      BY DEF SpentOn
    <3>2. CASE r \in R
      <4>1. Reconciled(r, a) \in receipts'
        BY <3>2
      <4> QED
        BY <1>2, <3>1, <4>1 DEF SpentOn
    <3>3. CASE r \notin R
      BY <3>1, <3>3 DEF SpentOn
    <3> QED
      BY <3>2, <3>3
  <2> QED
    BY <2>1, <2>2, <2>3 DEF CreditKept
<1> QED
  BY <1>1, <1>3 DEF CreditInv

(* A till sale takes each store credit's part from that credit.            *)
LEMMA CreditSold ==
    ASSUME ShopInv, CreditInv, NEW k \in RawKeys, NEW s \in Shifts, NEW q \in Requests,
           NEW a \in Actors, CheckoutRetailSale(k, s, q, a)
    PROVE  CreditInv'
<1>1. /\ receipts' = receipts \cup ReceiptsOf(Len(sales) + 1, s, q, a)
      /\ credit' = CreditAfter(q) /\ TendersAccepted(q) /\ q \in Request
  BY CheckoutMakesSale
<1>2. \A i \in DOMAIN q.tenders : ReferenceUnused(q, i)
  BY <1>1 DEF TendersAccepted
<1>3. EvidenceUsedOnce'
  BY <1>1, <1>2, SaleEvidence DEF CreditInv
<1> DEFINE n == Len(sales) + 1
<1>n. receipts' = receipts \cup ReceiptsOf(n, s, q, a)
  BY <1>1
<1> HIDE DEF n
<1>4. \A c \in Credits :
        /\ \A i \in Spending(q, c) : SpendsOn(q, i, c)
        /\ Spending(q, c) = {} => SpentOn(receipts', c) = SpentOn(receipts, c)
  BY <1>n, <1>2, SaleSpends
<1>5. ASSUME NEW c \in Credits
      PROVE  CreditKept(credit'[c], SpentOn(receipts', c))
  <2> DEFINE spent == Spending(q, c)
             left == credit[c].available - q.tenders[CHOOSE i \in spent : TRUE].amount
  <2>0. CreditKept(credit[c], SpentOn(receipts, c)) /\ credit[c] \in Credit
    BY DEF CreditInv, ShopInv, ShopTypes, TypeOK
  <2>1. credit'[c] = IF spent = {} THEN credit[c]
                     ELSE [credit[c] EXCEPT !.available = left,
                             !.status = IF left <= 0 THEN "redeemed" ELSE @]
    BY <1>1 DEF CreditAfter, Spending
  <2>2. CASE spent = {}
    <3>1. SpentOn(receipts', c) = SpentOn(receipts, c)
      BY <1>4, <2>2
    <3> QED
      BY <2>0, <2>1, <2>2, <3>1
  <2>3. ASSUME NEW i \in spent
        PROVE  CreditKept(credit'[c], SpentOn(receipts', c))
    <3>1. /\ i \in DOMAIN q.tenders /\ q.tenders[i].method = "store-credit"
          /\ q.tenders[i].reference = c
      BY DEF Spending
    <3>2. /\ SpentOn(receipts, c) = {} /\ SpentOn(receipts', c) # {}
          /\ \A t \in SpentOn(receipts', c) : t.amount = q.tenders[i].amount
          /\ spent = {i}
      BY <1>4, <3>1 DEF Spending, SpendsOn
    <3>3. StoreCreditCovers(q, i)
      BY <1>1, <3>1 DEF TendersAccepted
    <3>4. /\ credit[c].status = "active" /\ q.tenders[i].amount <= credit[c].available
      BY <3>1, <3>3 DEF StoreCreditCovers
    <3>5. q.tenders[i].amount \in Nat
      BY <1>1, <3>1, RequestTyping DEF Request, Tender
    <3>6. left = credit[c].available - q.tenders[i].amount /\ spent # {}
      BY <3>2
    <3> HIDE DEF spent, left
    <3>7. /\ credit'[c].available = left /\ credit'[c].issued = credit[c].issued
          /\ credit'[c].status = IF left <= 0 THEN "redeemed" ELSE "active"
          /\ credit[c].issued = credit[c].available /\ credit[c].available \in Nat
      BY <2>0, <2>1, <3>2, <3>4, <3>6 DEF CreditKept, Credit
    <3>8. credit'[c].issued - credit'[c].available = q.tenders[i].amount /\ left >= 0
      BY <3>4, <3>5, <3>6, <3>7
    <3>9. left \in Int
      BY <3>5, <3>6, <3>7
    <3> QED
      BY <3>2, <3>7, <3>8, <3>9 DEF CreditKept
  <2> QED
    BY <2>2, <2>3
<1> QED
  BY <1>3, <1>5 DEF CreditInv

(* A credit newly issued: nothing was spent on it before.                  *)
LEMMA CreditIssued ==
    ASSUME ShopInv, CreditInv, NEW c \in Credits, NEW r, NEW amount,
           credit[c].status = "none", receipts' = receipts,
           credit' = [credit EXCEPT ![c] = StoreCreditFor(r, amount, amount)]
    PROVE  CreditInv'
<1>1. EvidenceUsedOnce'
  BY DEF CreditInv, EvidenceUsedOnce
<1>2. SpentOn(receipts, c) = {}
  BY DEF CreditInv, CreditKept
<1>3. CreditKept(StoreCreditFor(r, amount, amount), {})
  BY DEF CreditKept, StoreCreditFor
<1>4. \A d \in Credits : credit'[d] = IF d = c THEN StoreCreditFor(r, amount, amount)
                                      ELSE credit[d]
  BY DEF ShopInv, ShopTypes, TypeOK
<1> QED
  BY <1>1, <1>2, <1>3, <1>4 DEF CreditInv

(* An approved exchange issues one credit and spends it at once; what the  *)
(* return has left comes back as a second one, on which nothing was spent. *)
LEMMA CreditExchanged ==
    ASSUME ShopInv, CreditInv, NEW e \in Exchanges, NEW x \in Settlements,
           NEW c \in Credits, NEW d \in Credits, NEW a \in Actors,
           ApproveRetailExchange(e, x, c, d, a)
    PROVE  CreditInv'
<1> DEFINE q == ReplacementSale(e, c)
           n == Len(sales) + 1
           s == exchange[e].shift
           r == exchange[e].return
           bridged == [credit EXCEPT ![c] = StoreCreditFor(r, exchange[e].applied, 0)]
<1>0. ShopTypes /\ PlaceInv /\ credit \in [Credits -> Credit]
  BY DEF ShopInv, ShopTypes, TypeOK
<1>1. /\ exchange[e].status = "requested" /\ exchange[e].applied > 0
      /\ ret[r].status = "approved"
      /\ credit[c].status = "none" /\ credit[d].status = "none"
      /\ c = d <=> Remainder(e) <= 0
      /\ credit' = ExchangeCredits(e, c, d)
  BY DEF ApproveRetailExchange, CreditAsRequested, ReplacementAccepted
<1>2. Approval(e, x, c, a)
  BY <1>0, ApprovalIs
<1>3. /\ receipts' = receipts \cup ReceiptsOf(n, s, q, shift[s].cashier)
      /\ \A i \in DOMAIN q.tenders : ReferenceUnused(q, i)
      /\ exchange[e].applied \in Nat \ {0}
  BY <1>2 DEF Approval
<1>4. /\ 1 \in DOMAIN q.tenders
      /\ q.tenders[1] = [method |-> "store-credit", amount |-> exchange[e].applied,
                         reference |-> c]
      /\ \A i \in DOMAIN q.tenders : i # 1 => q.tenders[i].method # "store-credit"
  <2>1. exchange[e].topUp \in Seq(Tender)
    BY <1>0, ExchangeRecord
  <2>2. 1 \in 1..(Len(exchange[e].topUp) + 1)
    BY <2>1
  <2> QED
    BY <1>0, <1>1, <2>2, ReplacementIsRequest
<1> HIDE DEF q, n, s
<1>5. EvidenceUsedOnce'
  BY <1>3, SaleEvidence DEF CreditInv
<1>6. \A u \in Credits :
        /\ \A i \in Spending(q, u) : SpendsOn(q, i, u)
        /\ Spending(q, u) = {} => SpentOn(receipts', u) = SpentOn(receipts, u)
  BY <1>3, SaleSpends
<1>7. 1 \in Spending(q, c) /\ \A u \in Credits \ {c} : Spending(q, u) = {}
  BY <1>4 DEF Spending
<1>8. /\ SpentOn(receipts', c) # {}
      /\ \A t \in SpentOn(receipts', c) : t.amount = exchange[e].applied
      /\ \A u \in Credits \ {c} : SpentOn(receipts', u) = SpentOn(receipts, u)
  BY <1>4, <1>6, <1>7 DEF SpendsOn
<1>9. /\ \A u \in Credits \ {c} : bridged[u] = credit[u]
      /\ bridged[c] = StoreCreditFor(r, exchange[e].applied, 0) /\ DOMAIN bridged = Credits
  BY <1>0
<1>10. /\ \A u \in Credits \ {c, d} : credit'[u] = credit[u]
       /\ credit'[c] = StoreCreditFor(r, exchange[e].applied, 0)
       /\ c # d => credit'[d] = StoreCreditFor(r, Remainder(e), Remainder(e))
  <2>1. credit' = IF Remainder(e) <= 0 THEN bridged
                  ELSE [bridged EXCEPT ![d] = StoreCreditFor(r, Remainder(e), Remainder(e))]
    BY <1>1 DEF ExchangeCredits
  <2> HIDE DEF bridged, r
  <2> QED
    BY <1>1, <1>9, <2>1
<1>11. CreditKept(credit'[c], SpentOn(receipts', c))
  <2>1. /\ credit'[c].status = "redeemed" /\ credit'[c].available = 0
        /\ credit'[c].issued = exchange[e].applied
    BY <1>10 DEF StoreCreditFor
  <2>2. credit'[c].issued - credit'[c].available = exchange[e].applied
    BY <1>3, <2>1
  <2>3. \A t \in SpentOn(receipts', c) :
          credit'[c].issued - credit'[c].available = t.amount
    BY <1>8, <2>2
  <2> QED
    BY <1>8, <2>1, <2>3 DEF CreditKept
<1>12. c # d => CreditKept(credit'[d], SpentOn(receipts', d))
  <2> SUFFICES ASSUME c # d PROVE CreditKept(credit'[d], SpentOn(receipts', d))
    OBVIOUS
  <2>1. SpentOn(receipts', d) = {}
    BY <1>1, <1>8 DEF CreditInv, CreditKept
  <2> QED
    BY <1>10, <2>1 DEF CreditKept, StoreCreditFor
<1>13. \A u \in Credits \ {c, d} : CreditKept(credit'[u], SpentOn(receipts', u))
  BY <1>8, <1>10 DEF CreditInv
<1> QED
  BY <1>5, <1>11, <1>12, <1>13 DEF CreditInv

LEMMA CreditStep == ShopInv /\ CreditInv /\ [ExchangeNext]_exchangeVars => CreditInv'
<1> SUFFICES ASSUME ShopInv, CreditInv, [ExchangeNext]_exchangeVars PROVE CreditInv'
  OBVIOUS
<1>0. ShopTypes /\ PlaceInv
  BY DEF ShopInv
<1>1. CASE UNCHANGED <<receipts, credit>>
  BY <1>1 DEF CreditInv, EvidenceUsedOnce, SpentOn
<1>2. CASE TillMove
  <2>1. PICK a \in Actors : \/ \E s \in Shifts : ShiftStep(s, a)
                            \/ CounterStep(a) \/ FinanceStep(a)
    BY <1>2 DEF TillMove, Next
  <2>2. ASSUME NEW s \in Shifts, ShiftStep(s, a)
        PROVE  CreditInv'
    <3>1. credit' = credit
      BY <2>2, ShiftStepFrame
    <3>2. CASE UNCHANGED receipts
      BY <1>1, <3>1, <3>2
    <3>3. CASE ApproveShiftClose(s, a)
      <4>1. receipts' = (receipts \ CashOfShift(s)) \cup
                          {Reconciled(r, a) : r \in CashOfShift(s)}
        BY <3>3 DEF ApproveShiftClose
      <4>2. CashOfShift(s) \in SUBSET receipts
        BY DEF CashOfShift
      <4> QED
        BY <3>1, <4>1, <4>2, CreditSettled
    <3> QED
      BY <2>2, <3>2, <3>3, ShiftStepReceipts
  <2>3. CASE CounterStep(a)
    BY <2>3, CreditSold DEF CounterStep
  <2>4. CASE FinanceStep(a)
    <3>1. PICK r \in receipts : ReconcilePayment(r, a)
      BY <2>4 DEF FinanceStep
    <3> DEFINE R == {r}
    <3>2. R \in SUBSET receipts /\ credit' = credit
      BY <3>1 DEF ReconcilePayment
    <3>3. receipts' = (receipts \ R) \cup {Reconciled(t, a) : t \in R}
      BY <3>1 DEF ReconcilePayment
    <3> HIDE DEF R
    <3> QED
      BY <3>2, <3>3, CreditSettled
  <2> QED
    BY <2>1, <2>2, <2>3, <2>4
<1>3. CASE ReturnMove
  BY <1>1, <1>3, ReturnFrame
<1>4. CASE SettlementMove
  <2>1. PICK a \in Actors, x \in Settlements : SettlementStep(x, a) /\ UNCHANGED exchange
    BY <1>4 DEF SettlementMove
  <2>2. PICK z \in Settlement, r \in Returns :
           /\ Moves(x, r, z)
           /\ \/ Asks(x, r, z) \/ Answers(x, r, z) \/ Pays(x, r, z)
              \/ \E c \in Credits : Issues(x, r, z, c)
    BY <1>0, <2>1, SettlementStepIs
  <2>3. receipts' = receipts
    BY <2>2 DEF Moves
  <2>4. CASE UNCHANGED credit
    BY <1>1, <2>3, <2>4
  <2>5. ASSUME NEW c \in Credits, Issues(x, r, z, c)
        PROVE  CreditInv'
    BY <2>3, <2>5, CreditIssued DEF Issues
  <2> QED
    BY <2>2, <2>4, <2>5 DEF Asks, Answers, Pays
<1>5. CASE AskExchange
  BY <1>1, <1>5, AskExchangeFrame DEF returnVars, vars
<1>6. CASE ApproveExchange
  BY <1>6, CreditExchanged DEF ApproveExchange
<1>7. CASE UNCHANGED exchangeVars
  BY <1>1, <1>7 DEF exchangeVars, returnVars, vars
<1> QED
  BY <1>2, <1>3, <1>4, <1>5, <1>6, <1>7, ShopSteps

(* Store credit is never spent twice, through settlements that issue it,   *)
(* sales that spend it and exchanges that do both: what is gone from a     *)
(* credit is the sum of the receipts that refer to it.                     *)
THEOREM CreditIsConserved == ExchangeSpec => []StoreCreditIsConserved
<1>1. ExchangeInit => CreditInv
  BY DEF ExchangeInit, ReturnInit, Init, CreditInv, EvidenceUsedOnce, CreditKept, SpentOn,
         NoCredit
<1> QED
  BY <1>1, CreditIs, CreditStep, ShopThroughout, PTL DEF ExchangeSpec

-----------------------------------------------------------------------------
(* The offline queue: every step of it is a step of the till or leaves the *)
(* till alone, so that it can only make sales the till would have made.    *)

QueueInv ==
    /\ queue \in [Items -> Item]
    /\ \A i \in Items : queue[i].status # "none" =>
         /\ queue[i].key \in RawKeys /\ queue[i].shift \in Shifts
         /\ queue[i].request \in Requests

LEMMA SyncedAttempt ==
    ASSUME QueueInv, NEW i \in Items, NEW outcome \in {"synced", "conflict"},
           Synchronised(i, outcome)
    PROVE  /\ queue' \in [Items -> Item]
           /\ \A j \in Items \ {i} : queue'[j] = queue[j]
           /\ queue'[i].status = outcome /\ queue'[i].key = queue[i].key
           /\ queue'[i].shift = queue[i].shift /\ queue'[i].request = queue[i].request
<1> DEFINE z == [queue[i] EXCEPT !.status = outcome, !.attempts = @ + 1]
<1>1. /\ queue \in [Items -> Item] /\ queue[i] \in Item
      /\ queue[i].attempts \in Nat /\ queue[i].attempts + 1 \in Nat
  BY DEF QueueInv, Item
<1>2. /\ z \in Item /\ z.status = outcome /\ z.key = queue[i].key
      /\ z.shift = queue[i].shift /\ z.request = queue[i].request
  BY <1>1 DEF Item
<1>3. queue' = [queue EXCEPT ![i] = z]
  BY DEF Synchronised
<1> HIDE DEF z
<1> QED
  BY <1>1, <1>2, <1>3

(* A synchronisation sells as the till would, or leaves the till alone.    *)
LEMMA SyncIs ==
    ASSUME QueueInv, NEW i \in Items, NEW a \in Actors, SyncRetailOfflineSale(i, a)
    PROVE  /\ queue[i].status = "queued" /\ queue[i].key \in RawKeys
           /\ queue[i].shift \in Shifts /\ queue[i].request \in Requests
           /\ \/ /\ CheckoutRetailSale(queue[i].key, queue[i].shift, queue[i].request, a)
                 /\ Synchronised(i, FoundUnderTypedKey(i))
              \/ UNCHANGED vars /\ Synchronised(i, "conflict")
              \/ /\ UNCHANGED vars /\ Synchronised(i, FoundUnderTypedKey(i))
                 /\ IsReplay(CleanKey[queue[i].key], queue[i].shift, queue[i].request)
           /\ FoundUnderTypedKey(i) \in {"synced", "conflict"}
<1>1. queue[i].status = "queued" /\ (SyncSells(i, a) \/ SyncReplays(i, a) \/ SyncRefused(i, a))
  BY DEF SyncRetailOfflineSale
<1>2. /\ queue[i].key \in RawKeys /\ queue[i].shift \in Shifts
      /\ queue[i].request \in Requests
  BY <1>1 DEF QueueInv
<1>3. FoundUnderTypedKey(i) \in {"synced", "conflict"}
  BY DEF FoundUnderTypedKey
<1>4. CASE SyncSells(i, a)
  BY <1>1, <1>2, <1>3, <1>4 DEF SyncSells, CheckoutRetailSale
<1>5. CASE SyncReplays(i, a)
  BY <1>1, <1>2, <1>3, <1>5 DEF SyncReplays
<1>6. CASE SyncRefused(i, a)
  BY <1>1, <1>2, <1>3, <1>6 DEF SyncRefused
<1> QED
  BY <1>1, <1>4, <1>5, <1>6

LEMMA QueueIsTill == QueueInv /\ [OfflineNext]_offlineVars => [Next]_vars
<1> SUFFICES ASSUME QueueInv, [OfflineNext]_offlineVars PROVE [Next]_vars
  OBVIOUS
<1>1. ASSUME NEW i \in Items, NEW a \in Actors, OfflineStep(i, a)
      PROVE  [Next]_vars
  <2>1. CASE SyncRetailOfflineSale(i, a)
    <3>1. \/ CheckoutRetailSale(queue[i].key, queue[i].shift, queue[i].request, a)
          \/ UNCHANGED vars
      BY <2>1, SyncIs
    <3>2. /\ queue[i].key \in RawKeys /\ queue[i].shift \in Shifts
          /\ queue[i].request \in Requests
      BY <2>1, SyncIs
    <3> QED
      BY <3>1, <3>2 DEF Next, CounterStep
  <2>2. CASE \E k \in RawKeys, s \in Shifts, q \in Requests :
               EnqueueRetailOfflineSale(i, k, s, q, a)
    BY <2>2 DEF EnqueueRetailOfflineSale
  <2>3. CASE \E resolution \in {"requeued", "discarded"} :
               ResolveRetailOfflineSale(i, resolution, a)
    BY <2>3 DEF ResolveRetailOfflineSale
  <2> QED
    BY <1>1, <2>1, <2>2, <2>3 DEF OfflineStep
<1> QED
  BY <1>1 DEF OfflineNext, offlineVars

LEMMA QueueStep == QueueInv /\ [OfflineNext]_offlineVars => QueueInv'
<1> SUFFICES ASSUME QueueInv, [OfflineNext]_offlineVars PROVE QueueInv'
  OBVIOUS
<1>0. queue \in [Items -> Item]
  BY DEF QueueInv
<1>1. CASE UNCHANGED queue
  BY <1>1 DEF QueueInv
<1>2. ASSUME NEW i \in Items, NEW a \in Actors, SyncRetailOfflineSale(i, a)
      PROVE  QueueInv'
  <2>1. /\ queue[i].key \in RawKeys /\ queue[i].shift \in Shifts
        /\ queue[i].request \in Requests
        /\ \E outcome \in {"synced", "conflict"} : Synchronised(i, outcome)
    BY <1>2, SyncIs
  <2>2. /\ queue' \in [Items -> Item] /\ \A j \in Items \ {i} : queue'[j] = queue[j]
        /\ queue'[i].key = queue[i].key
        /\ queue'[i].shift = queue[i].shift /\ queue'[i].request = queue[i].request
    BY <2>1, SyncedAttempt
  <2> QED
    BY <2>1, <2>2 DEF QueueInv
<1>3. ASSUME NEW i \in Items, NEW a \in Actors, NEW k \in RawKeys, NEW s \in Shifts,
             NEW q \in Requests, EnqueueRetailOfflineSale(i, k, s, q, a)
      PROVE  QueueInv'
  <2> DEFINE z == [queue[i] EXCEPT !.status = "queued", !.key = k, !.shift = s,
                                   !.request = q, !.queuedBy = a]
  <2>1. z \in Item /\ z.key = k /\ z.shift = s /\ z.request = q
    BY <1>0 DEF Item
  <2>2. queue' = [queue EXCEPT ![i] = z]
    BY <1>3 DEF EnqueueRetailOfflineSale
  <2> HIDE DEF z
  <2> QED
    BY <1>0, <2>1, <2>2 DEF QueueInv
<1>4. ASSUME NEW i \in Items, NEW a \in Actors, NEW resolution \in {"requeued", "discarded"},
             ResolveRetailOfflineSale(i, resolution, a)
      PROVE  QueueInv'
  <2> DEFINE z == [queue[i] EXCEPT !.status =
                     IF resolution = "requeued" THEN "queued" ELSE "discarded"]
  <2>1. /\ z \in Item /\ z.key = queue[i].key /\ z.shift = queue[i].shift
        /\ z.request = queue[i].request
    BY <1>0 DEF Item
  <2>2. queue' = [queue EXCEPT ![i] = z] /\ queue[i].status = "conflict"
    BY <1>4 DEF ResolveRetailOfflineSale
  <2> HIDE DEF z
  <2> QED
    BY <1>0, <2>1, <2>2 DEF QueueInv
<1> QED
  BY <1>1, <1>2, <1>3, <1>4 DEF OfflineNext, OfflineStep, offlineVars

LEMMA QueueThroughout == OfflineSpec => []QueueInv
<1>1. OfflineInit => QueueInv
  BY DEF OfflineInit, QueueInv, NoItem, Item
<1> QED
  BY <1>1, QueueStep, PTL DEF OfflineSpec

(* The queue implements the till: whatever is queued, synchronised,        *)
(* refused, requeued or discarded, the shop only ever takes the steps the  *)
(* till allows, so that what holds of the till holds behind the queue too. *)
THEOREM QueueImplementsTill == OfflineSpec => Spec
<1>1. OfflineInit => Init
  BY DEF OfflineInit
<1> QED
  BY <1>1, QueueIsTill, QueueThroughout, PTL DEF OfflineSpec, Spec

-----------------------------------------------------------------------------
(* What a synchronised item stands for.                                    *)

KeysAreClean == \A n \in DOMAIN sales : \E k \in RawKeys : sales[n].key = CleanKey[k]

SoldItem(t, z) ==
    \E n \in DOMAIN t : t[n].key = z.key /\ t[n].shift = z.shift /\ t[n].request = z.request

(* The till only adds sales, each under a cleaned key.                     *)
LEMMA SalesGrow ==
    ASSUME TypeOK, [Next]_vars
    PROVE  /\ \A n \in DOMAIN sales : n \in DOMAIN sales' /\ sales'[n] = sales[n]
           /\ KeysAreClean => KeysAreClean'
<1>1. CASE UNCHANGED sales
  BY <1>1 DEF KeysAreClean
<1>2. ASSUME NEW a \in Actors, NEW k \in RawKeys, NEW s \in Shifts, NEW q \in Requests,
             CheckoutRetailSale(k, s, q, a)
      PROVE  /\ \A n \in DOMAIN sales : n \in DOMAIN sales' /\ sales'[n] = sales[n]
             /\ KeysAreClean => KeysAreClean'
  <2> DEFINE v == [key |-> CleanKey[k], shift |-> s, cashier |-> a, request |-> q]
  <2>1. sales' = Append(sales, v) /\ sales \in Seq(Sale) /\ v \in Sale /\ v.key = CleanKey[k]
    BY <1>2, CheckoutMakesSale DEF TypeOK
  <2> HIDE DEF v
  <2>2. /\ DOMAIN sales' = DOMAIN sales \cup {Len(sales) + 1} /\ sales'[Len(sales) + 1] = v
        /\ \A n \in DOMAIN sales : sales'[n] = sales[n]
    BY <2>1
  <2> QED
    BY <2>1, <2>2 DEF KeysAreClean
<1>3. ASSUME NEW a \in Actors, FinanceStep(a) \/ \E s \in Shifts : ShiftStep(s, a)
      PROVE  sales' = sales
  <2>1. CASE FinanceStep(a)
    BY <2>1 DEF FinanceStep, ReconcilePayment
  <2>2. ASSUME NEW s \in Shifts, ShiftStep(s, a)
        PROVE  sales' = sales
    BY <2>2, ShiftStepFrame
  <2> QED
    BY <1>3, <2>1, <2>2
<1>4. CASE UNCHANGED vars
  BY <1>1, <1>4 DEF vars
<1> QED
  BY <1>1, <1>2, <1>3, <1>4 DEF Next, CounterStep

(* A sale found under the key as it was typed is the item's own: that key  *)
(* was clean, and the sale under it is the one just made, or the one just  *)
(* recognised.                                                             *)
LEMMA SyncFindsItsSale ==
    ASSUME TypeOK, QueueInv, KeysAreClean, NEW i \in Items, NEW a \in Actors,
           SyncRetailOfflineSale(i, a), queue'[i].status = "synced"
    PROVE  SoldItem(sales', queue[i])
<1>1. /\ queue[i].key \in RawKeys /\ queue[i].shift \in Shifts
      /\ queue[i].request \in Requests
      /\ \/ CheckoutRetailSale(queue[i].key, queue[i].shift, queue[i].request, a)
         \/ UNCHANGED vars /\ Synchronised(i, "conflict")
         \/ /\ UNCHANGED vars
            /\ IsReplay(CleanKey[queue[i].key], queue[i].shift, queue[i].request)
      /\ \/ Synchronised(i, FoundUnderTypedKey(i)) \/ Synchronised(i, "conflict")
      /\ FoundUnderTypedKey(i) \in {"synced", "conflict"}
  BY SyncIs
<1>2. Synchronised(i, FoundUnderTypedKey(i)) /\ ~ Synchronised(i, "conflict")
  BY <1>1, SyncedAttempt
<1>3. FoundUnderTypedKey(i) = "synced"
  BY <1>1, <1>2, SyncedAttempt
<1>4. PICK n \in DOMAIN sales' : sales'[n].key = queue[i].key
  BY <1>3 DEF FoundUnderTypedKey
<1>5. CASE CheckoutRetailSale(queue[i].key, queue[i].shift, queue[i].request, a)
  <2> DEFINE v == [key |-> CleanKey[queue[i].key], shift |-> queue[i].shift, cashier |-> a,
                   request |-> queue[i].request]
  <2>1. /\ sales' = Append(sales, v) /\ sales \in Seq(Sale) /\ v \in Sale
        /\ v.key = CleanKey[queue[i].key] /\ v.shift = queue[i].shift
        /\ v.request = queue[i].request
    BY <1>1, <1>5, CheckoutMakesSale DEF TypeOK
  <2>2. ~ KeyUsed(CleanKey[queue[i].key])
    BY <1>5 DEF CheckoutRetailSale, CanSell
  <2> HIDE DEF v
  <2>3. /\ DOMAIN sales' = DOMAIN sales \cup {Len(sales) + 1} /\ sales'[Len(sales) + 1] = v
        /\ \A m \in DOMAIN sales : sales'[m] = sales[m]
    BY <2>1
  <2>4. CASE n = Len(sales) + 1
    BY <1>4, <2>1, <2>3, <2>4 DEF SoldItem
  <2>5. CASE n \in DOMAIN sales
    <3>1. PICK k \in RawKeys : queue[i].key = CleanKey[k]
      BY <1>4, <2>3, <2>5 DEF KeysAreClean
    <3>2. CleanKey[queue[i].key] = queue[i].key
      BY <1>1, <3>1, OfflineAssumption
    <3> QED
      BY <1>4, <2>2, <2>3, <2>5, <3>2 DEF KeyUsed
  <2> QED
    BY <1>4, <2>3, <2>4, <2>5
<1>6. CASE /\ UNCHANGED vars
           /\ IsReplay(CleanKey[queue[i].key], queue[i].shift, queue[i].request)
  <2>1. sales' = sales
    BY <1>6 DEF vars
  <2>2. PICK k \in RawKeys : queue[i].key = CleanKey[k]
    BY <1>4, <2>1 DEF KeysAreClean
  <2>3. CleanKey[queue[i].key] = queue[i].key
    BY <1>1, <2>2, OfflineAssumption
  <2> QED
    BY <1>6, <2>1, <2>3 DEF IsReplay, SoldItem
<1> QED
  BY <1>1, <1>2, <1>5, <1>6

SoldInv == KeysAreClean /\ \A i \in Items : queue[i].status = "synced" => SoldItem(sales, queue[i])

LEMMA SoldStep ==
    TypeOK /\ QueueInv /\ SoldInv /\ [OfflineNext]_offlineVars => SoldInv'
<1> SUFFICES ASSUME TypeOK, QueueInv, SoldInv, [OfflineNext]_offlineVars PROVE SoldInv'
  OBVIOUS
<1>1. /\ \A n \in DOMAIN sales : n \in DOMAIN sales' /\ sales'[n] = sales[n]
      /\ KeysAreClean'
  BY QueueIsTill, SalesGrow DEF SoldInv
<1>2. ASSUME NEW i \in Items, SoldItem(sales, queue[i])
      PROVE  SoldItem(sales', queue[i])
  BY <1>1, <1>2 DEF SoldItem
<1>3. ASSUME NEW i \in Items, queue'[i].status = "synced", queue'[i] = queue[i]
      PROVE  SoldItem(sales', queue'[i])
  BY <1>2, <1>3 DEF SoldInv
<1>4. ASSUME NEW i \in Items, NEW a \in Actors, SyncRetailOfflineSale(i, a)
      PROVE  \A j \in Items : queue'[j].status = "synced" => SoldItem(sales', queue'[j])
  <2>1. queue'[i].status = "synced" => SoldItem(sales', queue[i])
    BY <1>4, SyncFindsItsSale DEF SoldInv
  <2>2. \E outcome \in {"synced", "conflict"} : Synchronised(i, outcome)
    BY <1>4, SyncIs
  <2>3. /\ \A j \in Items \ {i} : queue'[j] = queue[j]
        /\ queue'[i].key = queue[i].key
        /\ queue'[i].shift = queue[i].shift /\ queue'[i].request = queue[i].request
    BY <2>2, SyncedAttempt
  <2>4. queue'[i].status = "synced" => SoldItem(sales', queue'[i])
    BY <2>1, <2>3 DEF SoldItem
  <2> QED
    BY <1>3, <2>3, <2>4
<1>5. ASSUME NEW i \in Items, NEW a \in Actors, OfflineStep(i, a),
             ~ SyncRetailOfflineSale(i, a)
      PROVE  \A j \in Items : queue'[j].status = "synced" => queue'[j] = queue[j]
  <2>1. queue \in [Items -> Item]
    BY DEF QueueInv
  <2>2. ASSUME NEW k \in RawKeys, NEW s \in Shifts, NEW q \in Requests,
               EnqueueRetailOfflineSale(i, k, s, q, a)
        PROVE  queue'[i].status = "queued" /\ \A j \in Items \ {i} : queue'[j] = queue[j]
    <3> DEFINE z == [queue[i] EXCEPT !.status = "queued", !.key = k, !.shift = s,
                                     !.request = q, !.queuedBy = a]
    <3>1. queue' = [queue EXCEPT ![i] = z] /\ z.status = "queued"
      BY <2>1, <2>2 DEF EnqueueRetailOfflineSale, Item
    <3> HIDE DEF z
    <3> QED
      BY <2>1, <3>1
  <2>3. ASSUME NEW resolution \in {"requeued", "discarded"},
               ResolveRetailOfflineSale(i, resolution, a)
        PROVE  queue'[i].status # "synced" /\ \A j \in Items \ {i} : queue'[j] = queue[j]
    <3> DEFINE z == [queue[i] EXCEPT !.status =
                       IF resolution = "requeued" THEN "queued" ELSE "discarded"]
    <3>1. queue' = [queue EXCEPT ![i] = z] /\ z.status # "synced"
      BY <2>1, <2>3 DEF ResolveRetailOfflineSale, Item
    <3> HIDE DEF z
    <3> QED
      BY <2>1, <3>1
  <2> QED
    BY <1>5, <2>2, <2>3 DEF OfflineStep
<1>6. \A i \in Items : queue'[i].status = "synced" => SoldItem(sales', queue'[i])
  BY <1>3, <1>4, <1>5 DEF OfflineNext, offlineVars
<1> QED
  BY <1>1, <1>6 DEF SoldInv

(* A synchronised item stands for one sale with exactly its content, in    *)
(* its shift, whether the sync made it or found it made; it stays so.      *)
THEOREM SyncedItemsAreSold == OfflineSpec => []SyncedMeansSold
<1>1. OfflineInit => SoldInv
  BY DEF OfflineInit, Init, SoldInv, KeysAreClean, NoItem
<1>2. SoldInv => SyncedMeansSold
  BY DEF SoldInv, SyncedMeansSold, SoldItem
<1>3. OfflineSpec => []TypeOK
  BY QueueImplementsTill, PosTyping, PTL
<1> QED
  BY <1>1, <1>2, <1>3, SoldStep, QueueThroughout, PTL DEF OfflineSpec

-----------------------------------------------------------------------------
(* What was shown of the till alone holds of the whole shop: refunds and   *)
(* exchanges leave shifts, reviews and settled cash as they are.           *)

LEMMA SettlementFrame ==
    ASSUME ShopInv, SettlementMove
    PROVE  /\ UNCHANGED <<shift, varianceJournals, receipts, sales, exchange>>
           /\ \A t \in Shifts : shift[t].status # "open" => drawer'[t] = drawer[t]
<1>0. ShopTypes /\ PlaceInv /\ drawer \in [Shifts -> Int]
  BY DEF ShopInv, ShopTypes, TypeOK
<1>1. PICK a \in Actors, x \in Settlements : SettlementStep(x, a) /\ UNCHANGED exchange
  BY DEF SettlementMove
<1>2. PICK z \in Settlement, r \in Returns :
         /\ Moves(x, r, z)
         /\ \/ Asks(x, r, z) \/ Answers(x, r, z) \/ Pays(x, r, z)
            \/ \E c \in Credits : Issues(x, r, z, c)
  BY <1>0, <1>1, SettlementStepIs
<1>3. UNCHANGED <<shift, varianceJournals, receipts, sales, exchange>>
  BY <1>2 DEF Moves
<1>4. CASE UNCHANGED drawer
  BY <1>3, <1>4
<1>5. CASE Pays(x, r, z)
  <2>1. drawer' = [drawer EXCEPT ![z.shift] = @ - z.amount] /\ shift[z.shift].status = "open"
    BY <1>5 DEF Pays
  <2> QED
    BY <1>0, <1>3, <2>1
<1> QED
  BY <1>2, <1>4, <1>5 DEF Asks, Answers, Issues

(* An approved exchange sells in an open shift, under its own key.         *)
LEMMA ExchangeFrame ==
    ASSUME ShopInv, NEW e \in Exchanges, NEW x \in Settlements, NEW c \in Credits,
           NEW d \in Credits, NEW a \in Actors, ApproveRetailExchange(e, x, c, d, a)
    PROVE  /\ UNCHANGED <<shift, varianceJournals>>
           /\ exchange[e].status = "requested" /\ exchange'[e].status = "approved"
           /\ \A f \in Exchanges \ {e} : exchange'[f] = exchange[f]
           /\ \A t \in receipts' : \/ t \in receipts
                                   \/ shift[t.shift].status = "open" /\ t.status = "recorded"
           /\ \A t \in Shifts : shift[t].status # "open" => drawer'[t] = drawer[t]
           /\ \E v \in Sale : /\ sales' = Append(sales, v) /\ v.key = ExchangeKey[e]
                              /\ shift[v.shift].status = "open"
<1>0. ShopTypes /\ PlaceInv /\ drawer \in [Shifts -> Int] /\ exchange \in [Exchanges -> Exchange]
  BY DEF ShopInv, ShopTypes, TypeOK, ExchangeTypeOK
<1> DEFINE q == ReplacementSale(e, c)
           s == exchange[e].shift
           v == [key |-> ExchangeKey[e], shift |-> s, cashier |-> shift[s].cashier,
                 request |-> q]
<1>1. Approval(e, x, c, a)
  BY <1>0, ApprovalIs
<1>2. /\ v \in Sale /\ sales' = Append(sales, v) /\ shift[s].status = "open"
      /\ v.key = ExchangeKey[e] /\ v.shift = s
      /\ receipts' = receipts \cup ReceiptsOf(Len(sales) + 1, s, q, shift[s].cashier)
      /\ drawer' = [drawer EXCEPT ![s] = @ + TenderedBy(q, "cash")]
  BY <1>1 DEF Approval
<1>3. /\ UNCHANGED <<shift, varianceJournals>> /\ exchange[e].status = "requested"
      /\ exchange' = [exchange EXCEPT ![e] = [exchange[e] EXCEPT
                        !.status = "approved", !.approvedBy = a]]
  BY DEF ApproveRetailExchange
<1>4. exchange'[e].status = "approved" /\ \A f \in Exchanges \ {e} : exchange'[f] = exchange[f]
  <2>1. [exchange[e] EXCEPT !.status = "approved", !.approvedBy = a].status = "approved"
    BY <1>0 DEF Exchange
  <2> QED
    BY <1>0, <1>3, <2>1
<1>5. \A t \in ReceiptsOf(Len(sales) + 1, s, q, shift[s].cashier) :
         t.shift = s /\ t.status = "recorded"
  BY DEF ReceiptsOf
<1> HIDE DEF q, s, v
<1>6. \A t \in Shifts : shift[t].status # "open" => drawer'[t] = drawer[t]
  BY <1>0, <1>2
<1>7. \A t \in receipts' : \/ t \in receipts
                           \/ shift[t.shift].status = "open" /\ t.status = "recorded"
  BY <1>2, <1>5
<1> QED
  BY <1>2, <1>3, <1>4, <1>6, <1>7

LEMMA ShopKeepsReviews ==
    ShopInv /\ ReviewInv /\ ReleasedInv /\ [ExchangeNext]_exchangeVars =>
      ReviewInv' /\ ReleasedInv'
<1> SUFFICES ASSUME ShopInv, ReviewInv, ReleasedInv, [ExchangeNext]_exchangeVars
             PROVE  ReviewInv' /\ ReleasedInv'
  OBVIOUS
<1>0. TypeOK
  BY DEF ShopInv, ShopTypes
<1>1. CASE [Next]_vars
  BY <1>0, <1>1, ReviewStep, ReleasedStep
<1>2. ASSUME UNCHANGED <<shift, varianceJournals>>
      PROVE  ReviewInv'
  BY <1>2 DEF ReviewInv, HasVariance
<1>3. ASSUME UNCHANGED <<shift, receipts>>
      PROVE  ReleasedInv'
  BY <1>3 DEF ReleasedInv, ClosedTillIsSettled
<1>4. CASE ReturnMove
  <2>1. UNCHANGED <<shift, receipts>>
    BY <1>4, ReturnFrame
  <2>2. UNCHANGED varianceJournals
    BY <1>4 DEF ReturnMove, ReturnStep, CreateRetailReturnRequest, InspectRetailReturn,
                DecideRetailReturn, vars
  <2> QED
    BY <1>2, <1>3, <2>1, <2>2
<1>5. CASE SettlementMove
  BY <1>2, <1>3, <1>5, SettlementFrame
<1>6. CASE ApproveExchange
  <2>1. PICK a \in Actors, e \in Exchanges, x \in Settlements, c \in Credits, d \in Credits :
          ApproveRetailExchange(e, x, c, d, a)
    BY <1>6 DEF ApproveExchange
  <2>2. /\ UNCHANGED <<shift, varianceJournals>>
        /\ \A t \in receipts' : \/ t \in receipts
                                \/ shift[t.shift].status = "open" /\ t.status = "recorded"
    BY <2>1, ExchangeFrame
  <2>3. ReleasedInv'
    BY <2>2 DEF ReleasedInv, ClosedTillIsSettled
  <2> QED
    BY <1>2, <2>2, <2>3
<1> QED
  BY <1>1, <1>4, <1>5, <1>6, ShopSteps, AskExchangeFrame DEF TillMove, exchangeVars, returnVars

(* The reviews of counts and the settlement of closed tills hold of the    *)
(* shop with its refunds and exchanges: neither a refund paid from a       *)
(* drawer nor an exchange sold into one gets around a close.               *)
THEOREM ShopReviews == ExchangeSpec => [](VarianceIsIndependentlyResolved /\ ClosedTillIsSettled)
<1>1. ExchangeInit => ReviewInv /\ ReleasedInv
  BY DEF ExchangeInit, ReturnInit, Init, ReviewInv, NoShift, ReleasedInv, ClosedTillIsSettled
<1>2. ShopInv /\ ReviewInv /\ ReleasedInv =>
        VarianceIsIndependentlyResolved /\ ClosedTillIsSettled
  BY ReviewIs DEF ShopInv, ShopTypes, ReleasedInv
<1> QED
  BY <1>1, <1>2, ShopKeepsReviews, ShopThroughout, PTL DEF ExchangeSpec

LEMMA SaleElsewhere ==
    ASSUME TypeOK, NEW v \in Sale, sales' = Append(sales, v), NEW t, t # v.shift
    PROVE  {n \in DOMAIN sales' : sales'[n].shift = t} = {n \in DOMAIN sales : sales[n].shift = t}
<1>1. /\ DOMAIN sales' = DOMAIN sales \cup {Len(sales) + 1}
      /\ sales'[Len(sales) + 1] = v
      /\ \A n \in DOMAIN sales : sales'[n] = sales[n]
  BY DEF TypeOK
<1> QED
  BY <1>1

(* No step of the shop changes a closed shift, sells in it or moves cash   *)
(* through its drawer; refunds asked for while it was open included.       *)
THEOREM ShopClosedForGood == ExchangeSpec => CloseIsFinal
<1>1. ASSUME ShopInv, [ExchangeNext]_exchangeVars
      PROVE  ClosedKept
  <2>0. TypeOK
    BY <1>1 DEF ShopInv, ShopTypes
  <2>1. CASE [Next]_vars
    BY <2>0, <2>1, TillKeepsClosed
  <2>2. CASE UNCHANGED <<shift, sales>>
             /\ \A t \in Shifts : shift[t].status # "open" => drawer'[t] = drawer[t]
    BY <2>2 DEF ClosedKept
  <2>3. CASE ReturnMove
    BY <1>1, <2>2, <2>3, ReturnFrame
  <2>4. CASE SettlementMove
    BY <1>1, <2>2, <2>4, SettlementFrame
  <2>5. CASE ApproveExchange
    <3>1. PICK a \in Actors, e \in Exchanges, x \in Settlements, c \in Credits, d \in Credits :
            ApproveRetailExchange(e, x, c, d, a)
      BY <2>5 DEF ApproveExchange
    <3>2. /\ shift' = shift
          /\ \A t \in Shifts : shift[t].status # "open" => drawer'[t] = drawer[t]
      BY <1>1, <3>1, ExchangeFrame
    <3>3. PICK v \in Sale : sales' = Append(sales, v) /\ shift[v.shift].status = "open"
      BY <1>1, <3>1, ExchangeFrame
    <3> QED
      BY <2>0, <3>2, <3>3, SaleElsewhere DEF ClosedKept
  <2> QED
    BY <1>1, <2>1, <2>3, <2>4, <2>5, ShopSteps, AskExchangeFrame
    DEF TillMove, exchangeVars, returnVars
<1>2. ShopInv /\ [ExchangeNext]_exchangeVars => [ClosedKept]_vars
  BY <1>1
<1> QED
  BY <1>2, ShopThroughout, PTL DEF ExchangeSpec, CloseIsFinal, ClosedKept

(* No two receipts of the whole shop rest on the same reference of a rail, *)
(* those of the sales an exchange makes included.                          *)
THEOREM ShopEvidence == ExchangeSpec => []EvidenceUsedOnce
<1>1. ExchangeInit => CreditInv
  BY DEF ExchangeInit, ReturnInit, Init, CreditInv, EvidenceUsedOnce, CreditKept, SpentOn,
         NoCredit
<1>2. CreditInv => EvidenceUsedOnce
  BY DEF CreditInv
<1> QED
  BY <1>1, <1>2, CreditStep, ShopThroughout, PTL DEF ExchangeSpec

(* A sale's key was typed at the till or belongs to an approved exchange.  *)
KeyInv ==
    /\ OneSalePerKey
    /\ \A n \in DOMAIN sales :
         \/ \E k \in RawKeys : sales[n].key = CleanKey[k]
         \/ \E e \in Exchanges : sales[n].key = ExchangeKey[e] /\ exchange[e].status = "approved"

LEMMA KeySold ==
    ASSUME TypeOK, KeyInv, NEW v \in Sale, sales' = Append(sales, v),
           \A n \in DOMAIN sales : sales[n].key # v.key,
           \A e \in Exchanges : exchange[e].status = "approved" =>
             exchange'[e].status = "approved",
           \/ \E k \in RawKeys : v.key = CleanKey[k]
           \/ \E e \in Exchanges : v.key = ExchangeKey[e] /\ exchange'[e].status = "approved"
    PROVE  KeyInv'
<1>1. /\ DOMAIN sales' = DOMAIN sales \cup {Len(sales) + 1}
      /\ sales'[Len(sales) + 1] = v
      /\ \A n \in DOMAIN sales : sales'[n] = sales[n]
  BY DEF TypeOK
<1>2. OneSalePerKey'
  BY <1>1 DEF KeyInv, OneSalePerKey
<1>3. ASSUME NEW n \in DOMAIN sales'
      PROVE  \/ \E k \in RawKeys : sales'[n].key = CleanKey[k]
             \/ \E e \in Exchanges : /\ sales'[n].key = ExchangeKey[e]
                                     /\ exchange'[e].status = "approved"
  BY <1>1 DEF KeyInv
<1> QED
  BY <1>2, <1>3 DEF KeyInv

LEMMA KeyStep == ShopInv /\ KeyInv /\ [ExchangeNext]_exchangeVars => KeyInv'
<1> SUFFICES ASSUME ShopInv, KeyInv, [ExchangeNext]_exchangeVars PROVE KeyInv'
  OBVIOUS
<1>0. TypeOK
  BY DEF ShopInv, ShopTypes
<1>1. CASE /\ UNCHANGED sales
           /\ \A e \in Exchanges : exchange[e].status = "approved" =>
                exchange'[e].status = "approved"
  BY <1>1 DEF KeyInv, OneSalePerKey
<1>2. CASE TillMove
  <2>1. ASSUME NEW a \in Actors, NEW k \in RawKeys, NEW s \in Shifts, NEW q \in Requests,
               CheckoutRetailSale(k, s, q, a)
        PROVE  KeyInv'
    <3> DEFINE v == [key |-> CleanKey[k], shift |-> s, cashier |-> a, request |-> q]
    <3>1. v \in Sale /\ sales' = Append(sales, v) /\ v.key = CleanKey[k]
      BY <2>1, CheckoutMakesSale
    <3>2. \A n \in DOMAIN sales : sales[n].key # CleanKey[k]
      BY <2>1 DEF CheckoutRetailSale, CanSell, KeyUsed
    <3>3. exchange' = exchange
      BY <1>2 DEF TillMove
    <3> HIDE DEF v
    <3> QED
      BY <1>0, <3>1, <3>2, <3>3, KeySold
  <2> QED
    BY <1>1, <1>2, <2>1, TillFrame
<1>3. CASE ReturnMove
  BY <1>1, <1>3, ReturnFrame
<1>4. CASE SettlementMove
  BY <1>1, <1>4, SettlementFrame
<1>5. CASE AskExchange
  <2>1. exchange \in [Exchanges -> Exchange] /\ UNCHANGED sales
    BY <1>5, AskExchangeFrame DEF ShopInv, ShopTypes, ExchangeTypeOK, returnVars, vars
  <2>2. PICK a \in Actors, e \in Exchanges :
          \/ \E r \in Returns, s \in Shifts, quantity \in 1..InitialStock, topUp \in TopUps :
               CreateRetailExchange(e, r, s, quantity, topUp, a)
          \/ RejectRetailExchange(e, a)
    BY <1>5 DEF AskExchange
  <2>3. /\ exchange[e].status # "approved"
        /\ \A f \in Exchanges \ {e} : exchange'[f] = exchange[f]
    BY <2>1, <2>2 DEF CreateRetailExchange, RejectRetailExchange
  <2> QED
    BY <1>1, <2>1, <2>3
<1>6. CASE ApproveExchange
  <2>1. PICK a \in Actors, e \in Exchanges, x \in Settlements, c \in Credits, d \in Credits :
          ApproveRetailExchange(e, x, c, d, a)
    BY <1>6 DEF ApproveExchange
  <2>2. /\ exchange[e].status = "requested" /\ exchange'[e].status = "approved"
        /\ \A f \in Exchanges \ {e} : exchange'[f] = exchange[f]
    BY <2>1, ExchangeFrame
  <2>3. PICK v \in Sale : sales' = Append(sales, v) /\ v.key = ExchangeKey[e]
    BY <2>1, ExchangeFrame
  <2>4. \A n \in DOMAIN sales : sales[n].key # ExchangeKey[e]
    BY <2>2, ExchangeAssumption DEF KeyInv
  <2> QED
    BY <1>0, <2>2, <2>3, <2>4, KeySold
<1>7. CASE UNCHANGED exchangeVars
  BY <1>1, <1>7 DEF exchangeVars, returnVars, vars
<1> QED
  BY <1>2, <1>3, <1>4, <1>5, <1>6, <1>7, ShopSteps

(* A key names one sale in the whole shop: an exchange is sold once, and   *)
(* never under a key a client's retry could name.                          *)
THEOREM ShopRetrySafety == ExchangeSpec => []OneSalePerKey
<1>1. ExchangeInit => KeyInv
  BY DEF ExchangeInit, ReturnInit, Init, KeyInv, OneSalePerKey
<1>2. KeyInv => OneSalePerKey
  BY DEF KeyInv
<1> QED
  BY <1>1, <1>2, KeyStep, ShopThroughout, PTL DEF ExchangeSpec

=============================================================================
