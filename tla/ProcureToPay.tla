---------------------------- MODULE ProcureToPay ----------------------------
(***************************************************************************)
(* From a purchase requisition to the payment of the supplier              *)
(* (src/domain/procurement.ts, and the payment proposals of treasury.ts).  *)
(*                                                                         *)
(* One requisition, its request for quotation, the purchase order that     *)
(* comes of it with one line, and that line's receipts, landed costs,      *)
(* invoices and payments.  Wherever the code asks for a second or a third  *)
(* person, one is there.  Dates, tax, the basis of an allocation and       *)
(* serial or batch tracking are left out; goods are valued first-in        *)
(* first-out.  A unit is ordered at one unit of money: Prices above one    *)
(* are beyond the tolerance of a match.  Goods lie at the dock (the        *)
(* receiving bin of every receipt) or on the shelf.                        *)
(***************************************************************************)
EXTENDS Shared, Integers, FiniteSets, FiniteSetsExt

CONSTANTS
    Suppliers, Receipts, Costs, Invoices, Payments,
    Required,   \* quantity of the requisition's line
    Prices      \* what a supplier may invoice a unit at

ASSUME ProcureAssumption ==
    /\ IsFiniteSet(Receipts) /\ IsFiniteSet(Invoices) /\ IsFiniteSet(Payments)
    /\ Required \in Nat /\ Prices \subseteq Nat

VARIABLES
    supplier, requisition, rfq, quote,    \* sourcing
    order,                                \* the purchase order
    receipt, layer,                       \* goodsReceipts and their cost layers
    dock, shelf,                          \* quantities in the two bins
    landedCost, invoice, match, payment

sourcingVars == <<supplier, requisition, rfq, quote>>
goodsVars == <<receipt, layer, dock, shelf, landedCost>>
payableVars == <<invoice, match, payment>>
procureVars == <<sourcingVars, order, goodsVars, payableVars>>

NoRfq == [status |-> "none", addressed |-> {}]
NoOrder == [status |-> "none", supplier |-> None, received |-> 0, invoiced |-> 0]
NoReceipt == [status |-> "none", quantity |-> 0]
NoLandedCost == [status |-> "none", receipt |-> None]
NoInvoice == [quantity |-> 0, total |-> 0]
NoPayment == [status |-> "none", invoice |-> None, amount |-> 0]

ProcureInit ==
    /\ supplier = [s \in Suppliers |-> "none"]
    /\ requisition = "none"
    /\ rfq = NoRfq
    /\ quote = [s \in Suppliers |-> "none"]
    /\ order = NoOrder
    /\ receipt = [g \in Receipts |-> NoReceipt]
    /\ layer = [g \in Receipts |-> 0]
    /\ dock = 0 /\ shelf = 0
    /\ landedCost = [c \in Costs |-> NoLandedCost]
    /\ invoice = [i \in Invoices |-> NoInvoice]
    /\ match = [i \in Invoices |-> "none"]
    /\ payment = [p \in Payments |-> NoPayment]

Decisions == {"approved", "rejected"}
Quantities == 1 .. Required

-----------------------------------------------------------------------------
CreateSupplier(s) ==
    /\ supplier[s] = "none"
    /\ supplier' = [supplier EXCEPT ![s] = "pending"]
    /\ UNCHANGED <<requisition, rfq, quote>>

DecideSupplier(s, decision) ==
    /\ supplier[s] = "pending"
    /\ supplier' = [supplier EXCEPT ![s] = decision]
    /\ UNCHANGED <<requisition, rfq, quote>>

CreatePurchaseRequisition ==
    /\ requisition = "none"
    /\ requisition' = "submitted"
    /\ UNCHANGED <<supplier, rfq, quote>>

DecidePurchaseRequisition(decision) ==
    /\ requisition = "submitted"
    /\ requisition' = decision
    /\ UNCHANGED <<supplier, rfq, quote>>

Approved == {s \in Suppliers : supplier[s] = "approved"}

CreateRfqFromRequisition(addressed) ==
    /\ requisition = "approved"
    /\ addressed # {} /\ addressed \subseteq Approved
    /\ requisition' = "converted"
    /\ rfq' = [status |-> "draft", addressed |-> addressed]
    /\ UNCHANGED <<supplier, quote>>

IssueRfq ==
    /\ rfq.status = "draft"
    /\ rfq' = [rfq EXCEPT !.status = "issued"]
    /\ UNCHANGED <<supplier, requisition, quote>>

RecordSupplierQuotation(s) ==
    /\ rfq.status = "issued"
    /\ s \in rfq.addressed \cap Approved
    /\ quote[s] # "submitted"
    /\ quote' = [quote EXCEPT ![s] = "submitted"]
    /\ UNCHANGED <<supplier, requisition, rfq>>

AwardRfq(s) ==
    /\ rfq.status = "issued"
    /\ quote[s] = "submitted"
    /\ rfq' = [rfq EXCEPT !.status = "awarded"]
    /\ quote' = [t \in Suppliers |-> IF t = s THEN "awarded"
                                    ELSE IF quote[t] = "none" THEN "none" ELSE "lost"]
    /\ UNCHANGED <<supplier, requisition>>

-----------------------------------------------------------------------------
(* A quotation is converted once, also when its order is then rejected.    *)
CreatePurchaseOrderFromRfq(s) ==
    /\ rfq.status = "awarded" /\ quote[s] = "awarded"
    /\ order.status = "none"
    /\ s \in Approved
    /\ order' = [NoOrder EXCEPT !.status = "submitted", !.supplier = s]
    /\ UNCHANGED <<sourcingVars, goodsVars, payableVars>>

DecidePurchaseOrder(decision) ==
    /\ order.status = "submitted"
    /\ order' = [order EXCEPT !.status = decision]
    /\ UNCHANGED <<sourcingVars, goodsVars, payableVars>>

RecordGoodsReceipt(g, quantity) ==
    LET received == order.received + quantity IN
    /\ order.status \in {"approved", "partially-received"}
    /\ receipt[g].status = "none"
    /\ received <= Required
    /\ receipt' = [receipt EXCEPT ![g] = [status |-> "cost-pending", quantity |-> quantity]]
    /\ layer' = [layer EXCEPT ![g] = quantity]
    /\ dock' = dock + quantity
    /\ order' = [order EXCEPT !.received = received,
                              !.status = IF received = Required THEN "received"
                                         ELSE "partially-received"]
    /\ UNCHANGED <<shelf, landedCost, sourcingVars, payableVars>>

(* A completed putaway changes bins and no layer.                          *)
Putaway(quantity) ==
    /\ quantity <= dock
    /\ dock' = dock - quantity /\ shelf' = shelf + quantity
    /\ UNCHANGED <<receipt, layer, landedCost, sourcingVars, order, payableVars>>

(* A sale or an issue to production takes units one at a time from a bin,  *)
(* and from the layer with the earliest date, which is entered by hand.    *)
Consume(g) ==
    /\ layer[g] > 0
    /\ layer' = [layer EXCEPT ![g] = @ - 1]
    /\ \/ dock > 0 /\ dock' = dock - 1 /\ UNCHANGED shelf
       \/ shelf > 0 /\ shelf' = shelf - 1 /\ UNCHANGED dock
    /\ UNCHANGED <<receipt, landedCost, sourcingVars, order, payableVars>>

-----------------------------------------------------------------------------
CreateLandedCost(c, g) ==
    /\ landedCost[c].status = "none"
    /\ receipt[g].status = "cost-pending"
    /\ ~ \E d \in Costs : landedCost[d] = [status |-> "pending", receipt |-> g]
    /\ landedCost' = [landedCost EXCEPT ![c] = [status |-> "pending", receipt |-> g]]
    /\ UNCHANGED <<receipt, layer, dock, shelf, sourcingVars, order, payableVars>>

(* An approval looks for the whole quantity in the receipt's cost layer.   *)
DecideLandedCost(c, decision) ==
    LET g == landedCost[c].receipt IN
    /\ landedCost[c].status = "pending"
    /\ decision = "approved" => layer[g] = receipt[g].quantity
    /\ landedCost' = [landedCost EXCEPT ![c].status = decision]
    /\ receipt' = IF decision = "approved" THEN [receipt EXCEPT ![g].status = "costed"]
                  ELSE receipt
    /\ UNCHANGED <<layer, dock, shelf, sourcingVars, order, payableVars>>

-----------------------------------------------------------------------------
(* Mutant: what is on order may be invoiced before it has come. *)
UninvoicedOrdered == Required - order.invoiced

Uninvoiced == order.received - order.invoiced

(* An invoice matches when it is for the whole order at its price; any     *)
(* other is for a person to decide.                                        *)
RecordSupplierInvoice(i, quantity, price) ==
    /\ order.status \in {"partially-received", "received"}
    /\ invoice[i] = NoInvoice
    /\ quantity <= Uninvoiced
    /\ invoice' = [invoice EXCEPT ![i] =
         [quantity |-> quantity, total |-> quantity * price]]
    /\ match' = [match EXCEPT ![i] =
         IF quantity = Required /\ price = 1 THEN "matched" ELSE "variance-review"]
    /\ order' = [order EXCEPT !.invoiced = @ + quantity]
    /\ UNCHANGED <<payment, sourcingVars, goodsVars>>

(* A rejected match leaves the quantity invoiced.                          *)
DecideThreeWayMatch(i, decision) ==
    /\ match[i] = "variance-review"
    /\ match' = [match EXCEPT ![i] = decision]
    /\ UNCHANGED <<invoice, payment, sourcingVars, order, goodsVars>>

PaymentEligible(i) == match[i] \in {"matched", "approved"}

Committed(i) ==
    {p \in Payments : payment[p].invoice = i
                   /\ payment[p].status \in {"submitted", "approved", "released", "settled"}}

AmountOf(ps) == MapThenSumSet(LAMBDA p : payment[p].amount, ps)

CreatePaymentProposal(p, i, amount) ==
    /\ payment[p].status = "none"
    /\ PaymentEligible(i)
    /\ amount <= invoice[i].total - AmountOf(Committed(i))
    /\ payment' = [payment EXCEPT ![p] =
         [status |-> "submitted", invoice |-> i, amount |-> amount]]
    /\ UNCHANGED <<invoice, match, sourcingVars, order, goodsVars>>

PaymentMoves == {<<"submitted", "approved">>, <<"submitted", "rejected">>,
                 <<"approved", "released">>, <<"released", "settled">>,
                 <<"released", "failed">>}

(* decide, release and settlePaymentProposal.                              *)
MovePayment(p, from, to) ==
    /\ payment[p].status = from
    /\ payment' = [payment EXCEPT ![p].status = to]
    /\ UNCHANGED <<invoice, match, sourcingVars, order, goodsVars>>

-----------------------------------------------------------------------------
Sourcing ==
    \/ \E s \in Suppliers :
         \/ CreateSupplier(s) \/ RecordSupplierQuotation(s) \/ AwardRfq(s)
         \/ \E decision \in Decisions : DecideSupplier(s, decision)
    \/ CreatePurchaseRequisition \/ IssueRfq
    \/ \E decision \in Decisions : DecidePurchaseRequisition(decision)
    \/ \E addressed \in SUBSET Suppliers : CreateRfqFromRequisition(addressed)

Receiving ==
    \/ \E g \in Receipts :
         \/ \E q \in Quantities : RecordGoodsReceipt(g, q)
         \/ Consume(g)
         \/ \E c \in Costs : CreateLandedCost(c, g)
    \/ \E q \in Quantities : Putaway(q)
    \/ \E c \in Costs, decision \in Decisions : DecideLandedCost(c, decision)

Paying ==
    \/ \E i \in Invoices :
         \/ \E q \in Quantities, price \in Prices : RecordSupplierInvoice(i, q, price)
         \/ \E decision \in Decisions : DecideThreeWayMatch(i, decision)
         \/ \E p \in Payments : \E amount \in 1 .. invoice[i].total :
                CreatePaymentProposal(p, i, amount)
    \/ \E p \in Payments, move \in PaymentMoves : MovePayment(p, move[1], move[2])

ProcureNext ==
    \/ Sourcing /\ UNCHANGED <<order, goodsVars, payableVars>>
    \/ \E s \in Suppliers : CreatePurchaseOrderFromRfq(s)
    \/ \E decision \in Decisions : DecidePurchaseOrder(decision)
    \/ Receiving \/ Paying

ProcureSpec == ProcureInit /\ [][ProcureNext]_procureVars

-----------------------------------------------------------------------------
Shares == 0 .. Required
OrderRecord ==
    [status : {"none", "submitted", "approved", "rejected", "partially-received", "received"},
     supplier : Suppliers \cup {None}, received : Shares, invoiced : Shares]
ReceiptRecord == [status : {"none", "cost-pending", "costed"}, quantity : Shares]
CostRecord ==
    [status : {"none", "pending", "approved", "rejected"}, receipt : Receipts \cup {None}]
InvoiceRecord == [quantity : Shares, total : Nat]
PaymentRecord ==
    [status : {"none", "submitted", "approved", "rejected", "released", "settled", "failed"},
     invoice : Invoices \cup {None}, amount : Nat]

(* Every record keeps the shape its handlers give it.                      *)
ProcureTypeOK ==
    /\ supplier \in [Suppliers -> {"none", "pending", "approved", "rejected"}]
    /\ requisition \in {"none", "submitted", "approved", "rejected", "converted"}
    /\ rfq \in [status : {"none", "draft", "issued", "awarded"}, addressed : SUBSET Suppliers]
    /\ quote \in [Suppliers -> {"none", "submitted", "awarded", "lost"}]
    /\ order \in OrderRecord
    /\ receipt \in [Receipts -> ReceiptRecord] /\ layer \in [Receipts -> Shares]
    /\ dock \in Nat /\ shelf \in Nat
    /\ landedCost \in [Costs -> CostRecord]
    /\ invoice \in [Invoices -> InvoiceRecord]
    /\ match \in [Invoices -> {"none", "matched", "variance-review", "approved", "rejected"}]
    /\ payment \in [Payments -> PaymentRecord]

Invoiced == MapThenSumSet(LAMBDA i : invoice[i].quantity, Invoices)
Received == MapThenSumSet(LAMBDA g : receipt[g].quantity, Receipts)

(* Money goes out for goods that came: through partial receipts, several   *)
(* invoices, variances and payments that are rejected or fail and are      *)
(* proposed again, all live payments of an invoice stay within an accepted *)
(* invoice, all invoices within what was received, and what was received   *)
(* within an order that was approved and won by an approved supplier.      *)
PaymentsAreBacked ==
    /\ \A i \in Invoices : Committed(i) # {} =>
         PaymentEligible(i) /\ AmountOf(Committed(i)) <= invoice[i].total
    /\ Invoiced <= Received /\ Received <= Required
    /\ Received > 0 => /\ order.status \in {"partially-received", "received"}
                       /\ supplier[order.supplier] = "approved"
                       /\ quote[order.supplier] = "awarded"
=============================================================================
