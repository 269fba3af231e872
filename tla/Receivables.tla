---------------------------- MODULE Receivables -----------------------------
(***************************************************************************)
(* Order to cash after the invoice, and collections                        *)
(* (src/domain/order-to-cash.ts, src/domain/collections-finance.ts), for   *)
(* the invoices of one customer account in one company and branch.         *)
(*                                                                         *)
(* An invoice, its receivable and its dunning case share one identity.     *)
(* Dates only tell whether a receivable is late, which is chosen anew for  *)
(* every dunning run: current, due and overdue receivables are all "open". *)
(* Invoices are dated outside closed periods and bank lines inside the     *)
(* window of the receipt they are matched with; a statement has one line.  *)
(* Journals are what they post to accounts-receivable.                     *)
(***************************************************************************)
EXTENDS Shared, Integers, FiniteSets, FiniteSetsExt

CONSTANTS
    Users, Invoices, Receipts, BankLines, Disputes, WriteOffs,
    Amounts,        \* the amounts of invoices, payments and adjustments
    MaxAdjustments  \* bound on credit notes, debit notes and withholdings

(* There are finitely many documents, and amounts are not negative.        *)
ASSUME ReceivablesAssumption ==
    /\ IsFiniteSet(Invoices) /\ IsFiniteSet(Receipts)
    /\ Amounts \subseteq Nat
    /\ None \notin Invoices \cup Receipts

VARIABLES
    invoice,      \* status and creator
    receivable,   \* what is owed, and why
    receipt,      \* PaymentReceipt, with what it is allocated to
    cashJournal,  \* the payment journal of each receipt
    posted,       \* accounts-receivable in every other journal
    dispute, dunning, writeOff,
    bankLine,     \* a bank statement and its line
    creditNotes,  \* <<invoice, amount>> of each credit note
    adjustments   \* how many notes and withholdings were recorded

receivablesVars == <<invoice, receivable, receipt, cashJournal, posted, dispute,
                     dunning, writeOff, bankLine, creditNotes, adjustments>>
claims == <<dispute, dunning, writeOff>>
cash == <<receipt, cashJournal, bankLine>>

NoInvoice == [status |-> "none", amount |-> 0, by |-> None]
NoReceivable == [status |-> "none", original |-> 0, adjustment |-> 0, paid |-> 0,
                 withheld |-> 0, writtenOff |-> 0, outstanding |-> 0]
NoReceipt == [status |-> "none", method |-> None, amount |-> 0, by |-> None,
              to |-> [i \in Invoices |-> 0], unapplied |-> 0]
NoJournal == [status |-> "none", allocated |-> 0, unapplied |-> 0]
NoClaim == [status |-> "none", on |-> None, amount |-> 0, by |-> None]
NoLine == [status |-> "none", credit |-> 0, receipt |-> None]

ReceivablesInit ==
    /\ invoice = [i \in Invoices |-> NoInvoice]
    /\ receivable = [i \in Invoices |-> NoReceivable]
    /\ receipt = [p \in Receipts |-> NoReceipt]
    /\ cashJournal = [p \in Receipts |-> NoJournal]
    /\ posted = 0
    /\ dispute = [d \in Disputes |-> NoClaim]
    /\ dunning = [i \in Invoices |-> "none"]
    /\ writeOff = [w \in WriteOffs |-> NoClaim]
    /\ bankLine = [b \in BankLines |-> NoLine]
    /\ creditNotes = {}
    /\ adjustments = 0

Issued == {i \in Invoices : receivable[i].status # "none"}
Owed(i) == receivable[i].outstanding
Allocated(to) == MapThenSumSet(LAMBDA i : to[i], Invoices)
ActiveDisputes(i) == {d \in Disputes : dispute[d].on = i /\ dispute[d].status = "open"}
DisputedAmount(i) == MapThenSumSet(LAMBDA d : dispute[d].amount, ActiveDisputes(i))

-----------------------------------------------------------------------------
CreateInvoiceDraft(u, i, amount) ==
    /\ invoice[i].status = "none"
    /\ invoice' = [invoice EXCEPT ![i] = [status |-> "draft", amount |-> amount, by |-> u]]
    /\ UNCHANGED <<receivable, cash, posted, claims, creditNotes, adjustments>>

IssueInvoice(u, i) ==
    /\ invoice[i].status = "draft"
    /\ invoice[i].by # u
    /\ invoice' = [invoice EXCEPT ![i].status = "issued"]
    /\ receivable' = [receivable EXCEPT ![i] = [NoReceivable EXCEPT
         !.status = "open", !.original = invoice[i].amount, !.outstanding = invoice[i].amount]]
    /\ posted' = posted + invoice[i].amount
    /\ UNCHANGED <<cash, claims, creditNotes, adjustments>>

(* A note on the invoice leaves the invoice itself as it was.              *)
Adjusted(r, change) ==
    [r EXCEPT !.adjustment = @ + change,
              !.outstanding = @ + change,
              !.status = CASE r.outstanding + change = 0 -> "paid"
                           [] r.outstanding + change # 0 /\ r.paid # 0 -> "partially-paid"
                           [] OTHER -> @]

CreateCreditDebitNote(i, kind, amount) ==
    LET change == IF kind = "debit" THEN amount ELSE -amount IN
    /\ i \in Issued
    /\ adjustments < MaxAdjustments
    /\ kind = "credit" => amount <= Owed(i)
    /\ receivable' = [receivable EXCEPT ![i] = Adjusted(@, change)]
    /\ posted' = posted + change
    /\ creditNotes' = creditNotes \cup (IF kind = "credit" THEN {<<i, amount>>} ELSE {})
    /\ adjustments' = adjustments + 1
    /\ UNCHANGED <<invoice, cash, claims>>

-----------------------------------------------------------------------------
(* Paying part of a receivable makes it partially-paid, whatever it was.   *)
Reduced(r, amount, settled) ==
    [r EXCEPT !.outstanding = @ - amount,
              !.status = IF r.outstanding = amount THEN settled ELSE "partially-paid"]

AfterPayment(to) ==
    [i \in Invoices |-> IF to[i] = 0 THEN receivable[i]
                        ELSE [Reduced(receivable[i], to[i], "paid") EXCEPT !.paid = @ + to[i]]]

(* Every invoice follows its receivable, when that is paid or part paid.   *)
InvoicesAfter(receivables, among) ==
    [i \in Invoices |->
        IF i \in among /\ receivables[i].status \in {"paid", "partially-paid"}
        THEN [invoice[i] EXCEPT !.status = receivables[i].status] ELSE invoice[i]]

Payable(to) == \A i \in Invoices : to[i] > 0 => i \in Issued /\ to[i] <= Owed(i)

(* The allocations may not exceed the amount; the rest stays unapplied.    *)
RecordPayment(u, p, method, amount, to) ==
    LET rest == amount - Allocated(to) IN
    /\ receipt[p].status = "none"
    /\ rest >= 0
    /\ Payable(to)
    /\ receipt' = [receipt EXCEPT ![p] = [status |-> "recorded", method |-> method,
         amount |-> amount, by |-> u, to |-> to, unapplied |-> rest]]
    /\ receivable' = AfterPayment(to)
    /\ invoice' = InvoicesAfter(AfterPayment(to), Invoices)
    /\ cashJournal' = [cashJournal EXCEPT ![p] =
         [status |-> "draft", allocated |-> Allocated(to), unapplied |-> rest]]
    /\ UNCHANGED <<posted, claims, bankLine, creditNotes, adjustments>>

(* assertCanonicalPaymentJournal. *)
Canonical(p) == cashJournal[p].allocated = Allocated(receipt[p].to)
             /\ cashJournal[p].unapplied = receipt[p].unapplied

(* Mutant: cash of a receipt that was reconciled may still be applied. *)
StaysApplicable(p) ==
    receipt[p].status \in {"recorded", "reconciled"} /\ Canonical(p)

Applicable(p) ==
    /\ receipt[p].status = "recorded"
    /\ cashJournal[p].status = "draft"
    /\ Canonical(p)

(* Mutant: an application takes the place of the earlier allocations. *)
ReappliedCash(held, to) ==
    [held EXCEPT !.to = to, !.unapplied = @ - Allocated(to)]

AppliedCash(held, to) ==
    [held EXCEPT !.to = [i \in Invoices |-> @[i] + to[i]],
                 !.unapplied = @ - Allocated(to)]

(* Cash held unapplied moves to open receivables inside the same journal.  *)
ApplyUnappliedReceipt(p, to) ==
    LET applied == AppliedCash(receipt[p], to)
        targets == {i \in Invoices : to[i] > 0}
    IN  /\ Applicable(p)
        /\ targets # {}
        /\ Allocated(to) <= receipt[p].unapplied
        /\ Payable(to)
        /\ \A i \in targets : receivable[i].status \in {"open", "partially-paid"}
        /\ receipt' = [receipt EXCEPT ![p] = applied]
        /\ receivable' = AfterPayment(to)
        /\ invoice' = InvoicesAfter(AfterPayment(to), targets)
        /\ cashJournal' = [cashJournal EXCEPT ![p] =
             [@ EXCEPT !.allocated = Allocated(applied.to), !.unapplied = applied.unapplied]]
        /\ UNCHANGED <<posted, claims, bankLine, creditNotes, adjustments>>

Reconciled(p) ==
    /\ receipt' = [receipt EXCEPT ![p].status = "reconciled"]
    /\ cashJournal' = [cashJournal EXCEPT ![p].status = "ready"]

ReconcilePayment(p) ==
    /\ receipt[p].status = "recorded"
    /\ Reconciled(p)
    /\ UNCHANGED <<invoice, receivable, posted, claims, bankLine, creditNotes, adjustments>>

ExportJournal(p) ==
    /\ cashJournal[p].status = "ready"
    /\ cashJournal' = [cashJournal EXCEPT ![p].status = "exported"]
    /\ UNCHANGED <<invoice, receivable, receipt, posted, claims, bankLine, creditNotes, adjustments>>

-----------------------------------------------------------------------------
(* Candidates are recorded receipts of the amount; one may be suggested.   *)
PreviewBankStatement(b, credit) ==
    /\ bankLine[b].status = "none"
    /\ bankLine' = [bankLine EXCEPT ![b] = [status |-> "preview", credit |-> credit, receipt |-> None]]
    /\ UNCHANGED <<invoice, receivable, receipt, cashJournal, posted, claims, creditNotes, adjustments>>

CommitBankStatement(b) ==
    /\ bankLine[b].status = "preview"
    /\ bankLine' = [bankLine EXCEPT ![b].status = "committed"]
    /\ UNCHANGED <<invoice, receivable, receipt, cashJournal, posted, claims, creditNotes, adjustments>>

(* Mutant: any receipt of the amount may be matched, also a settled one. *)
MatchesAmount(u, b, p) ==
    /\ receipt[p].status # "none"
    /\ receipt[p].amount = bankLine[b].credit
    /\ receipt[p].method = "bank"
    /\ receipt[p].by # u

MayMatch(u, b, p) ==
    /\ receipt[p].status = "recorded"
    /\ receipt[p].amount = bankLine[b].credit
    /\ receipt[p].method = "bank"
    /\ receipt[p].by # u
    /\ \A other \in BankLines : bankLine[other].receipt # p

ConfirmBankMatch(u, b, p) ==
    /\ bankLine[b].status = "committed"
    /\ MayMatch(u, b, p)
    /\ bankLine' = [bankLine EXCEPT ![b].status = "matched", ![b].receipt = p]
    /\ Reconciled(p)
    /\ UNCHANGED <<invoice, receivable, posted, claims, creditNotes, adjustments>>

(* A line may be set aside before its statement is committed: it is then   *)
(* neither matched nor committed again.                                    *)
ExcludeBankLine(b) ==
    /\ bankLine[b].status \in {"preview", "committed"}
    /\ bankLine' = [bankLine EXCEPT ![b].status = "excluded"]
    /\ UNCHANGED <<invoice, receivable, receipt, cashJournal, posted, claims, creditNotes, adjustments>>

-----------------------------------------------------------------------------
(* receivableStatus: what amounts and dates say, disputes left aside.      *)
PlainStatus(r) ==
    CASE r.outstanding = 0 -> IF r.writtenOff > 0 THEN "written-off" ELSE "paid"
      [] r.outstanding # 0 /\ r.paid + r.withheld > 0 -> "partially-paid"
      [] OTHER -> "open"

(* A run recomputes every status, then opens a case where money that is    *)
(* not disputed is late; cases on file stay as they are.                   *)
RunDunning(late) ==
    /\ late \subseteq Issued
    /\ receivable' = [i \in Invoices |->
         IF i \in Issued THEN [receivable[i] EXCEPT !.status = PlainStatus(receivable[i])]
         ELSE receivable[i]]
    /\ dunning' = [i \in Invoices |->
         IF i \in late /\ Owed(i) > DisputedAmount(i) /\ dunning[i] \in {"none", "resolved"}
         THEN "open" ELSE dunning[i]]
    /\ UNCHANGED <<invoice, cash, posted, dispute, writeOff, creditNotes, adjustments>>

RecordCollectionActivity(i, outcome) ==
    /\ dunning[i] \in {"open", "paused"}
    /\ dunning' = [dunning EXCEPT ![i] =
         CASE outcome = "paid" -> "resolved"
           [] outcome \in {"promised-to-pay", "dispute-raised"} -> "paused"
           [] OTHER -> "open"]
    /\ UNCHANGED <<invoice, receivable, cash, posted, dispute, writeOff, creditNotes, adjustments>>

OpenReceivableDispute(u, d, i, amount) ==
    /\ dispute[d].status = "none"
    /\ i \in Issued /\ Owed(i) > 0
    /\ DisputedAmount(i) + amount <= Owed(i)
    /\ dispute' = [dispute EXCEPT ![d] =
         [status |-> "open", on |-> i, amount |-> amount, by |-> u]]
    /\ receivable' = [receivable EXCEPT ![i].status = "disputed"]
    /\ dunning' = [dunning EXCEPT ![i] = IF @ = "open" THEN "paused" ELSE @]
    /\ UNCHANGED <<invoice, cash, posted, writeOff, creditNotes, adjustments>>

(* Mutant: the mark is lifted only when no dispute was open before. *)
LiftedTooLate(i, d) ==
    IF ActiveDisputes(i) = {}
    THEN [receivable[i] EXCEPT !.status = PlainStatus(receivable[i])] ELSE receivable[i]

(* The mark goes with the last dispute.                                    *)
Lifted(i, d) ==
    IF ActiveDisputes(i) \subseteq {d}
    THEN [receivable[i] EXCEPT !.status = PlainStatus(receivable[i])] ELSE receivable[i]

(* Evidence for the two resolutions that take money off the receivable.    *)
Evidenced(d, resolution) ==
    /\ resolution = "credit-note" =>
         \E n \in creditNotes : n[1] = dispute[d].on /\ n[2] >= dispute[d].amount
    /\ resolution = "write-off" =>
         \E w \in WriteOffs : /\ writeOff[w].on = dispute[d].on
                              /\ writeOff[w].status = "approved"
                              /\ writeOff[w].amount >= dispute[d].amount

ResolveReceivableDispute(u, d, resolution) ==
    LET i == dispute[d].on IN
    /\ dispute[d].status = "open"
    /\ dispute[d].by # u
    /\ Evidenced(d, resolution)
    /\ dispute' = [dispute EXCEPT ![d].status = "closed"]
    /\ receivable' = [receivable EXCEPT ![i] = Lifted(i, d)]
    /\ UNCHANGED <<invoice, cash, posted, dunning, writeOff, creditNotes, adjustments>>

-----------------------------------------------------------------------------
PendingWriteOff(i) ==
    MapThenSumSet(LAMBDA w : writeOff[w].amount,
        {w \in WriteOffs : writeOff[w].on = i /\ writeOff[w].status = "pending"})

RequestWriteOff(u, w, i, amount) ==
    /\ writeOff[w].status = "none"
    /\ i \in Issued
    /\ PendingWriteOff(i) + amount <= Owed(i)
    /\ writeOff' = [writeOff EXCEPT ![w] =
         [status |-> "pending", on |-> i, amount |-> amount, by |-> u]]
    /\ UNCHANGED <<invoice, receivable, cash, posted, dispute, dunning, creditNotes, adjustments>>

(* Between request and decision the customer may have paid.                *)
StillOwed(w) == writeOff[w].amount <= Owed(writeOff[w].on)

DecideWriteOff(u, w, decision) ==
    LET i == writeOff[w].on
        amount == writeOff[w].amount
    IN  /\ writeOff[w].status = "pending"
        /\ writeOff[w].by # u
        /\ writeOff' = [writeOff EXCEPT ![w].status = decision]
        /\ \/ decision = "rejected" /\ UNCHANGED <<receivable, invoice, posted>>
           \/ /\ decision = "approved"
              /\ StillOwed(w)
              /\ receivable' = [receivable EXCEPT ![i] =
                   [Reduced(receivable[i], amount, "written-off") EXCEPT !.writtenOff = @ + amount]]
              /\ invoice' = [invoice EXCEPT ![i].status =
                   IF Owed(i) = amount THEN "written-off" ELSE @]
              /\ posted' = posted - amount
        /\ UNCHANGED <<cash, dispute, dunning, creditNotes, adjustments>>

(* Tax the customer deducted: it settles part of the receivable.           *)
RecordDeductedTax(i, amount) ==
    /\ i \in Issued /\ amount <= Owed(i)
    /\ adjustments < MaxAdjustments
    /\ receivable' = [receivable EXCEPT ![i] =
         [Reduced(receivable[i], amount, "paid") EXCEPT !.withheld = @ + amount]]
    /\ invoice' = [invoice EXCEPT ![i].status =
         IF Owed(i) = amount THEN "paid" ELSE "partially-paid"]
    /\ posted' = posted - amount
    /\ adjustments' = adjustments + 1
    /\ UNCHANGED <<cash, claims, creditNotes>>

(* Tax collected at source: it is added, and the status is not looked at.  *)
RecordCollectedTax(i, amount) ==
    /\ i \in Issued
    /\ adjustments < MaxAdjustments
    /\ receivable' = [receivable EXCEPT ![i] =
         [receivable[i] EXCEPT !.adjustment = @ + amount, !.outstanding = @ + amount]]
    /\ posted' = posted + amount
    /\ adjustments' = adjustments + 1
    /\ UNCHANGED <<invoice, cash, claims, creditNotes>>

-----------------------------------------------------------------------------
Outcomes == {"paid", "promised-to-pay", "dispute-raised", "no-response"}
Resolutions == {"credit-note", "write-off", "rejected"}
Allocations == [Invoices -> {0} \cup Amounts]

InvoiceStep ==
    \E i \in Invoices : \/ \E u \in Users, a \in Amounts : CreateInvoiceDraft(u, i, a)
                        \/ \E u \in Users : IssueInvoice(u, i)
                        \/ \E k \in {"credit", "debit"}, a \in Amounts :
                               CreateCreditDebitNote(i, k, a)
                        \/ \E a \in Amounts : RecordDeductedTax(i, a) \/ RecordCollectedTax(i, a)

CashStep ==
    \E p \in Receipts :
        \/ \E u \in Users, m \in {"cash", "bank"}, a \in Amounts, to \in Allocations :
               RecordPayment(u, p, m, a, to)
        \/ \E to \in Allocations : ApplyUnappliedReceipt(p, to)
        \/ ReconcilePayment(p)
        \/ ExportJournal(p)
        \/ \E u \in Users, b \in BankLines : ConfirmBankMatch(u, b, p)

BankStep ==
    \E b \in BankLines : \/ \E a \in Amounts : PreviewBankStatement(b, a)
                         \/ CommitBankStatement(b)
                         \/ ExcludeBankLine(b)

ClaimStep ==
    \/ \E late \in SUBSET Invoices : RunDunning(late)
    \/ \E i \in Invoices, o \in Outcomes : RecordCollectionActivity(i, o)
    \/ \E u \in Users, d \in Disputes, i \in Invoices, a \in Amounts :
           OpenReceivableDispute(u, d, i, a)
    \/ \E u \in Users, d \in Disputes, r \in Resolutions : ResolveReceivableDispute(u, d, r)
    \/ \E u \in Users, w \in WriteOffs, i \in Invoices, a \in Amounts :
           RequestWriteOff(u, w, i, a)
    \/ \E u \in Users, w \in WriteOffs, d \in {"approved", "rejected"} : DecideWriteOff(u, w, d)

ReceivablesNext == InvoiceStep \/ CashStep \/ BankStep \/ ClaimStep

ReceivablesSpec == ReceivablesInit /\ [][ReceivablesNext]_receivablesVars

-----------------------------------------------------------------------------
InvoiceRecord ==
    [status : {"none", "draft", "issued", "partially-paid", "paid", "written-off"},
     amount : Nat, by : Users \cup {None}]
ReceivableRecord ==
    [status : {"none", "open", "partially-paid", "paid", "disputed", "written-off"},
     original : Nat, adjustment : Int, paid : Nat, withheld : Nat, writtenOff : Nat,
     outstanding : Int]
ReceiptRecord ==
    [status : {"none", "recorded", "reconciled"}, method : {None, "cash", "bank"},
     amount : Nat, by : Users \cup {None}, to : [Invoices -> Nat], unapplied : Nat]
JournalRecord ==
    [status : {"none", "draft", "ready", "exported"}, allocated : Nat, unapplied : Nat]
ClaimRecord ==
    [status : {"none", "open", "closed", "pending", "approved", "rejected"},
     on : Invoices \cup {None}, amount : Nat, by : Users \cup {None}]
LineRecord ==
    [status : {"none", "preview", "committed", "matched", "excluded"},
     credit : Nat, receipt : Receipts \cup {None}]

ReceivablesTypeOK ==
    /\ invoice \in [Invoices -> InvoiceRecord]
    /\ receivable \in [Invoices -> ReceivableRecord]
    /\ receipt \in [Receipts -> ReceiptRecord]
    /\ cashJournal \in [Receipts -> JournalRecord]
    /\ posted \in Int
    /\ dispute \in [Disputes -> ClaimRecord]
    /\ dunning \in [Invoices -> {"none", "open", "paused", "resolved"}]
    /\ writeOff \in [WriteOffs -> ClaimRecord]
    /\ bankLine \in [BankLines -> LineRecord]
    /\ creditNotes \subseteq Invoices \X Nat
    /\ adjustments \in Nat

AllocatedTo(i) == MapThenSumSet(LAMBDA p : receipt[p].to[i], Receipts)

(* What is owed is explained three times over: by the receivable's own     *)
(* amounts, by the receipts allocated to it, and, for all receivables      *)
(* together, by accounts-receivable in the journals.  Six operations keep  *)
(* these copies, none reads the others (order-to-cash.ts, collections).    *)
BalancesAgree ==
    /\ \A i \in Issued :
         LET r == receivable[i] IN
         /\ r.outstanding = r.original + r.adjustment - r.paid - r.withheld - r.writtenOff
         /\ r.outstanding >= 0
         /\ r.paid = AllocatedTo(i)
    /\ MapThenSumSet(Owed, Invoices) =
         posted - MapThenSumSet(LAMBDA p : cashJournal[p].allocated, Receipts)

(* Cash that was reconciled is settled: neither its allocation nor what    *)
(* its journal posts moves again, and no other bank line pays it.          *)
ReconciledCashIsSettled ==
    [][\A p \in Receipts : receipt[p].status = "reconciled" =>
         /\ receipt'[p] = receipt[p]
         /\ cashJournal'[p].allocated = cashJournal[p].allocated
         /\ \A b \in BankLines : bankLine'[b].receipt = p => bankLine[b].receipt = p]_receivablesVars

(* A receivable is not left marked disputed when its disputes are over: a  *)
(* mark nothing lifts would keep cash from being applied for good.         *)
DisputedMeansInDispute ==
    \A i \in Invoices : receivable[i].status = "disputed" => ActiveDisputes(i) # {}

(* "Cash can only be applied to an open, undisputed receivable."           *)
OnlyUndisputedCash ==
    [][\A p \in Receipts, i \in Invoices :
         receipt[p].status # "none" /\ receipt'[p].to[i] > receipt[p].to[i]
            => ActiveDisputes(i) = {}]_receivablesVars
=============================================================================
