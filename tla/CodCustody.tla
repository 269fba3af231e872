----------------------------- MODULE CodCustody -----------------------------
(***************************************************************************)
(* Cash-on-delivery custody (src/domain/cod-custody.ts): one case follows  *)
(* the carrier's cash for one package from "expected" to bank evidence.    *)
(* The case reads records that other workflows change under it: the        *)
(* package and its delivery promise (fulfilment-control.ts), the customer  *)
(* receivable and its receipts (order-to-cash.ts) and bank statement lines *)
(* (collections-finance.ts); those workflows are actions here too.         *)
(*                                                                         *)
(* One company and branch, one sales order and customer: the scope, order  *)
(* and account equalities every handler checks then hold, which is the     *)
(* case in which evidence is easiest to confuse.  Money is in the smallest *)
(* unit.  A command names the version it read; one that reads an old       *)
(* version is refused and changes nothing, so only current ones appear.    *)
(*                                                                         *)
(* A receivable is its balance.  Disputes, dunning and pending write-offs  *)
(* relabel it and leave the balance alone; the label is left out, so that  *)
(* the commands that also want it open are refused less often here.  A     *)
(* receipt is allocated to one receivable: one that is split is evidence   *)
(* for no case, and lowers a balance as a deduction does.                  *)
(***************************************************************************)
EXTENDS Integers, Shared

CONSTANTS
    Cases, Shipments, Promises, Receivables, Carriers, Receipts, BankLines,
    Actors,
    PromiseOf,        \* the delivery promise each package was made for
    PromisedCarrier,  \* the carrier of those promises
    OrderValue,       \* each promise's order value, and each invoice's amount
    MaxCharged,       \* bound on what notes and taxes make of an invoice's amount
    MaxInstant        \* bound on the clock and on reported instants

ASSUME CodAssumption ==
    /\ OrderValue \in Nat \ {0}
    /\ MaxCharged \in Nat /\ OrderValue <= MaxCharged
    /\ MaxInstant \in Nat \ {0}
    /\ PromiseOf \in [Shipments -> Promises]
    /\ PromisedCarrier \in Carriers
    /\ None \notin Carriers \cup Receipts \cup BankLines \cup Actors
    /\ None \notin Shipments \cup Receivables

VARIABLES
    now,          \* the host clock
    package,      \* package status and carrier
    promise,      \* status of each delivery promise
    receivable,   \* what each was charged in all, and what of it is outstanding
    receipt,      \* customer receipts
    bankLine,     \* bank statement lines, each in a statement of its own
    cod           \* COD collection cases

vars == <<now, package, promise, receivable, receipt, bankLine, cod>>

Instants == 1..MaxInstant
Amounts == 1..OrderValue
Charges == 1..MaxCharged

PackageStatuses == {"planned", "packed", "ready-to-dispatch", "dispatched",
    "in-transit", "delivered", "return-in-progress", "returned", "cancelled"}

(* SHIPMENT_TRANSITIONS of fulfilment-control.ts. *)
ShipmentTransitions ==
    {<<"planned", "packed">>, <<"packed", "ready-to-dispatch">>,
     <<"planned", "cancelled">>, <<"packed", "cancelled">>,
     <<"ready-to-dispatch", "cancelled">>, <<"ready-to-dispatch", "dispatched">>,
     <<"dispatched", "in-transit">>, <<"dispatched", "delivered">>,
     <<"in-transit", "delivered">>, <<"delivered", "return-in-progress">>,
     <<"return-in-progress", "returned">>}

NoReceipt == [status |-> "none", amount |-> 0, receivable |-> None,
              allocated |-> 0, recordedBy |-> None]
NoLine == [status |-> "none", credit |-> 0, receipt |-> None,
           matchedBy |-> None, matchedAt |-> 0]
NoCase == [status |-> "none", package |-> None, receivable |-> None,
           handedAt |-> 0, collected |-> 0, collectedAt |-> 0,
           remitted |-> 0, remittedAt |-> 0, remittedBy |-> None,
           excepted |-> FALSE, receipt |-> None, line |-> None,
           closedBy |-> None]

(* originalAmount and adjustmentAmount together, and outstandingAmount. *)
Balance == {b \in [charged : 0..MaxCharged, outstanding : 0..MaxCharged] :
              b.outstanding <= b.charged}
Receipt == [status : {"none", "recorded", "reconciled"},
            amount : 0..MaxCharged, receivable : Receivables \cup {None},
            allocated : 0..MaxCharged, recordedBy : Actors \cup {None}]
Line == [status : {"none", "preview", "unmatched", "matched", "excluded"},
         credit : 0..MaxCharged, receipt : Receipts \cup {None},
         matchedBy : Actors \cup {None}, matchedAt : 0..MaxInstant]
CaseStatuses == {"none", "expected", "handed-to-carrier", "carrier-collected",
    "remitted", "shortfall", "bank-matched", "refused-rto", "cancelled"}
Case == [status : CaseStatuses,
         package : Shipments \cup {None}, receivable : Receivables \cup {None},
         handedAt : 0..MaxInstant,
         collected : 0..OrderValue, collectedAt : 0..MaxInstant,
         remitted : 0..OrderValue, remittedAt : 0..MaxInstant,
         remittedBy : Actors \cup {None}, excepted : BOOLEAN,
         receipt : Receipts \cup {None}, line : BankLines \cup {None},
         closedBy : Actors \cup {None}]

Init ==
    /\ now = 1
    /\ package = [s \in Shipments |-> [status |-> "planned", carrier |-> None]]
    /\ promise = [d \in Promises |-> "active"]
    /\ receivable = [r \in Receivables |->
         [charged |-> OrderValue, outstanding |-> OrderValue]]
    /\ receipt = [p \in Receipts |-> NoReceipt]
    /\ bankLine = [l \in BankLines |-> NoLine]
    /\ cod = [c \in Cases |-> NoCase]

-----------------------------------------------------------------------------
(* The package.                                                            *)

Tick ==
    /\ now < MaxInstant
    /\ now' = now + 1
    /\ UNCHANGED <<package, promise, receivable, receipt, bankLine, cod>>

(* transitionShipment: the operator may name the carrier at any step and   *)
(* must have by dispatch; delivery fulfils, and cancellation cancels, an   *)
(* active promise of the package.                                          *)
TransitionShipment(s, to, named) ==
    LET carrier == IF named = None THEN package[s].carrier ELSE named
    IN  /\ <<package[s].status, to>> \in ShipmentTransitions
        /\ to = "dispatched" => carrier # None
        /\ package' = [package EXCEPT ![s] = [status |-> to, carrier |-> carrier]]
        /\ promise' =
             IF promise[PromiseOf[s]] = "active" /\ to \in {"delivered", "cancelled"}
             THEN [promise EXCEPT ![PromiseOf[s]] =
                     IF to = "delivered" THEN "fulfilled" ELSE "cancelled"]
             ELSE promise
        /\ UNCHANGED <<now, receivable, receipt, bankLine, cod>>

-----------------------------------------------------------------------------
(* The receivable and its receipts.  Whatever a case has come to, notes    *)
(* and taxes go on raising and lowering its receivable.                    *)

Owed(r) == receivable[r].outstanding

(* A change of the amount charged is a change of what is outstanding. *)
Charge(r, change) ==
    receivable' = [receivable EXCEPT ![r] =
      [charged |-> @.charged + change, outstanding |-> @.outstanding + change]]

(* Cash, deducted tax and write-offs settle what was charged. *)
Settle(r, amount) ==
    /\ amount <= Owed(r)
    /\ receivable' = [receivable EXCEPT ![r] =
         [charged |-> @.charged, outstanding |-> @.outstanding - amount]]

CreateCreditDebitNote(r, kind, amount) ==
    /\ \/ kind = "debit" /\ receivable[r].charged + amount <= MaxCharged
                         /\ Charge(r, amount)
       \/ kind = "credit" /\ amount <= Owed(r) /\ Charge(r, -amount)
    /\ UNCHANGED <<now, package, promise, receipt, bankLine, cod>>

RecordWithholdingEntry(r, direction, tax) ==
    /\ \/ direction = "company-collected-tcs" /\ receivable[r].charged + tax <= MaxCharged
                                              /\ Charge(r, tax)
       \/ direction = "customer-deducted-tds" /\ Settle(r, tax)
    /\ UNCHANGED <<now, package, promise, receipt, bankLine, cod>>

(* decideWriteOff, once it approves: what was requested is still owed. *)
ApproveWriteOff(r, amount) ==
    /\ Settle(r, amount)
    /\ UNCHANGED <<now, package, promise, receipt, bankLine, cod>>

(* recordPayment: what is not allocated stays on the receipt, unapplied.   *)
RecordPayment(p, amount, r, allocated, a) ==
    /\ receipt[p].status = "none"
    /\ allocated <= amount
    /\ Settle(r, allocated)
    /\ receipt' = [receipt EXCEPT ![p] =
         [status |-> "recorded", amount |-> amount,
          receivable |-> IF allocated = 0 THEN None ELSE r,
          allocated |-> allocated, recordedBy |-> a]]
    /\ UNCHANGED <<now, package, promise, bankLine, cod>>

(* Unapplied cash goes to a receivable while the receipt is unreconciled.  *)
ApplyUnappliedReceipt(p, r, amount) ==
    /\ receipt[p].status = "recorded"
    /\ receipt[p].receivable \in {None, r}
    /\ receipt[p].allocated + amount <= receipt[p].amount
    /\ Settle(r, amount)
    /\ receipt' = [receipt EXCEPT ![p] = [@ EXCEPT
         !.receivable = r, !.allocated = receipt[p].allocated + amount]]
    /\ UNCHANGED <<now, package, promise, bankLine, cod>>

ReconcilePayment(p) ==
    /\ receipt[p].status = "recorded"
    /\ receipt' = [receipt EXCEPT ![p] = [@ EXCEPT !.status = "reconciled"]]
    /\ UNCHANGED <<now, package, promise, receivable, bankLine, cod>>

-----------------------------------------------------------------------------
(* The bank statement.                                                     *)

PreviewBankStatement(l, credit) ==
    /\ bankLine[l].status = "none"
    /\ bankLine' = [bankLine EXCEPT ![l] = [@ EXCEPT
         !.status = "preview", !.credit = credit]]
    /\ UNCHANGED <<now, package, promise, receivable, receipt, cod>>

CommitBankStatement(l) ==
    /\ bankLine[l].status = "preview"
    /\ bankLine' = [bankLine EXCEPT ![l] = [@ EXCEPT !.status = "unmatched"]]
    /\ UNCHANGED <<now, package, promise, receivable, receipt, cod>>

ConfirmBankMatch(l, p, a) ==
    /\ bankLine[l].status = "unmatched"
    /\ receipt[p].status = "recorded"
    /\ bankLine[l].credit = receipt[p].amount
    /\ receipt[p].recordedBy # a
    /\ \A k \in BankLines : bankLine[k].receipt # p
    /\ bankLine' = [bankLine EXCEPT ![l] = [@ EXCEPT
         !.status = "matched", !.receipt = p,
         !.matchedBy = a, !.matchedAt = now]]
    /\ receipt' = [receipt EXCEPT ![p] = [@ EXCEPT !.status = "reconciled"]]
    /\ UNCHANGED <<now, package, promise, receivable, cod>>

(* A line of a statement still in preview can be excluded as well. *)
ExcludeBankLine(l) ==
    /\ bankLine[l].status \in {"preview", "unmatched"}
    /\ bankLine' = [bankLine EXCEPT ![l] = [@ EXCEPT !.status = "excluded"]]
    /\ UNCHANGED <<now, package, promise, receivable, receipt, cod>>

-----------------------------------------------------------------------------
(* The custody case.                                                       *)

(* One case per package, per promise and per receivable. *)
Unclaimed(s, r) ==
    \A c \in Cases : cod[c].status # "none" =>
        /\ cod[c].package # s
        /\ PromiseOf[cod[c].package] # PromiseOf[s]
        /\ cod[c].receivable # r

CreateCodCollectionCase(c, s, r) ==
    /\ cod[c].status = "none"
    /\ promise[PromiseOf[s]] = "active"
    /\ package[s].carrier \in {None, PromisedCarrier}
    /\ Owed(r) = OrderValue
    /\ Unclaimed(s, r)
    /\ cod' = [cod EXCEPT ![c] = [NoCase EXCEPT
         !.status = "expected", !.package = s, !.receivable = r]]
    /\ UNCHANGED <<now, package, promise, receivable, receipt, bankLine>>

(* Mutant: the package's status not looked at. *)
AnyShipmentForCase(c, statuses) ==
    package[cod[c].package].carrier = PromisedCarrier

(* requireShipmentForCase: the package still rides with the case's carrier. *)
ShipmentForCase(c, statuses) ==
    /\ package[cod[c].package].carrier = PromisedCarrier
    /\ package[cod[c].package].status \in statuses

RecordCodHandover(c, t) ==
    /\ cod[c].status = "expected" /\ cod[c].handedAt = 0
    /\ ShipmentForCase(c, {"dispatched", "in-transit", "delivered"})
    /\ cod' = [cod EXCEPT ![c] = [@ EXCEPT
         !.status = "handed-to-carrier", !.handedAt = t]]
    /\ UNCHANGED <<now, package, promise, receivable, receipt, bankLine>>

RecordCodCarrierCollection(c, amount, t) ==
    /\ cod[c].status = "handed-to-carrier"
    /\ cod[c].handedAt > 0 /\ cod[c].collected = 0
    /\ ShipmentForCase(c, {"delivered"})
    /\ cod[c].handedAt <= t
    /\ amount <= OrderValue
    /\ cod' = [cod EXCEPT ![c] = [@ EXCEPT
         !.status = "carrier-collected",
         !.collected = amount, !.collectedAt = t]]
    /\ UNCHANGED <<now, package, promise, receivable, receipt, bankLine>>

RecordCodRemittance(c, amount, a, t) ==
    /\ cod[c].status = "carrier-collected"
    /\ cod[c].collected > 0 /\ cod[c].remitted = 0
    /\ cod[c].collectedAt <= t
    /\ amount <= cod[c].collected
    /\ amount <= Owed(cod[c].receivable)
    /\ cod' = [cod EXCEPT ![c] = [@ EXCEPT
         !.status = IF amount = OrderValue /\ cod[c].collected = OrderValue
                    THEN "remitted" ELSE "shortfall",
         !.remitted = amount, !.remittedAt = t, !.remittedBy = a]]
    /\ UNCHANGED <<now, package, promise, receivable, receipt, bankLine>>

(* Mutant: the receipt alone is looked at, whatever the bank says. *)
BankEvidenceByReceipt(c, p, l, amount) ==
    /\ receipt[p].status = "reconciled"
    /\ receipt[p].receivable = cod[c].receivable
    /\ receipt[p].allocated = amount
    /\ receipt[p].amount = amount
    /\ \A d \in Cases \ {c} : cod[d].receipt # p /\ cod[d].line # l

(* Mutant: any receipt of the order's customer will do, applied or not. *)
BankEvidenceOfCustomer(c, p, l, amount) ==
    /\ receipt[p].status = "reconciled"
    /\ receipt[p].amount = amount
    /\ bankLine[l].status = "matched"
    /\ bankLine[l].receipt = p
    /\ bankLine[l].credit = amount
    /\ cod[c].remittedAt <= bankLine[l].matchedAt
    /\ \A d \in Cases \ {c} : cod[d].receipt # p /\ cod[d].line # l

(* verifiedBankEvidence: a reconciled receipt of exactly the amount, all of *)
(* it allocated to the case's receivable, matched to a committed bank line  *)
(* of the same amount, after the remittance and not used by another case.   *)
VerifiedBankEvidence(c, p, l, amount) ==
    /\ receipt[p].status = "reconciled"
    /\ receipt[p].receivable = cod[c].receivable
    /\ receipt[p].allocated = amount
    /\ receipt[p].amount = amount
    /\ bankLine[l].status = "matched"
    /\ bankLine[l].receipt = p
    /\ bankLine[l].credit = amount
    /\ cod[c].remittedAt <= bankLine[l].matchedAt
    /\ \A d \in Cases \ {c} : cod[d].receipt # p /\ cod[d].line # l

MatchCodBank(c, p, l) ==
    /\ cod[c].status = "remitted"
    /\ cod[c].remitted = OrderValue /\ cod[c].line = None
    /\ VerifiedBankEvidence(c, p, l, OrderValue)
    /\ cod' = [cod EXCEPT ![c] = [@ EXCEPT
         !.status = "bank-matched",
         !.receipt = p, !.line = l]]
    /\ UNCHANGED <<now, package, promise, receivable, receipt, bankLine>>

(* The status stays "shortfall": only the closure evidence is added. *)
CloseCodShortfall(c, p, l, a) ==
    /\ cod[c].status = "shortfall"
    /\ cod[c].remitted > 0 /\ cod[c].remitted < OrderValue
    /\ cod[c].line = None /\ cod[c].closedBy = None
    /\ cod[c].remittedBy # a
    /\ VerifiedBankEvidence(c, p, l, cod[c].remitted)
    /\ cod' = [cod EXCEPT ![c] = [@ EXCEPT
         !.receipt = p, !.line = l, !.closedBy = a]]
    /\ UNCHANGED <<now, package, promise, receivable, receipt, bankLine>>

RecordCodException(c, outcome, t) ==
    /\ cod[c].status \in {"expected", "handed-to-carrier"}
    /\ ~cod[c].excepted /\ cod[c].remitted = 0 /\ cod[c].line = None
    /\ ShipmentForCase(c, IF outcome = "refused-rto"
                          THEN {"return-in-progress", "returned"}
                          ELSE {"cancelled"})
    /\ cod[c].handedAt <= t
    /\ cod' = [cod EXCEPT ![c] = [@ EXCEPT
         !.status = outcome, !.excepted = TRUE]]
    /\ UNCHANGED <<now, package, promise, receivable, receipt, bankLine>>

-----------------------------------------------------------------------------
PackageStep ==
    \E s \in Shipments, to \in PackageStatuses, k \in Carriers \cup {None} :
        TransitionShipment(s, to, k)

ReceivableStep ==
    \E r \in Receivables, amount \in Charges :
        \/ \E kind \in {"credit", "debit"} : CreateCreditDebitNote(r, kind, amount)
        \/ \E direction \in {"company-collected-tcs", "customer-deducted-tds"} :
             RecordWithholdingEntry(r, direction, amount)
        \/ ApproveWriteOff(r, amount)

ReceiptStep ==
    \E p \in Receipts :
        \/ \E r \in Receivables, a \in Actors, amount \in Charges :
             \E allocated \in 0..amount : RecordPayment(p, amount, r, allocated, a)
        \/ \E r \in Receivables, amount \in Charges : ApplyUnappliedReceipt(p, r, amount)
        \/ ReconcilePayment(p)

BankStep ==
    \E l \in BankLines :
        \/ \E credit \in Charges : PreviewBankStatement(l, credit)
        \/ CommitBankStatement(l)
        \/ ExcludeBankLine(l)
        \/ \E p \in Receipts, a \in Actors : ConfirmBankMatch(l, p, a)

CaseStep ==
    \E c \in Cases :
        \/ \E s \in Shipments, r \in Receivables : CreateCodCollectionCase(c, s, r)
        \/ \E t \in Instants : RecordCodHandover(c, t)
        \/ \E amount \in Amounts, t \in Instants :
             RecordCodCarrierCollection(c, amount, t)
        \/ \E amount \in Amounts, a \in Actors, t \in Instants :
             RecordCodRemittance(c, amount, a, t)
        \/ \E p \in Receipts, l \in BankLines : MatchCodBank(c, p, l)
        \/ \E p \in Receipts, l \in BankLines, a \in Actors :
             CloseCodShortfall(c, p, l, a)
        \/ \E outcome \in {"refused-rto", "cancelled"}, t \in Instants :
             RecordCodException(c, outcome, t)

Next == \/ Tick \/ PackageStep \/ ReceivableStep
        \/ ReceiptStep \/ BankStep \/ CaseStep

Spec == Init /\ [][Next]_vars

-----------------------------------------------------------------------------
(* Every record stays in the shape its handlers give it. *)
TypeOK ==
    /\ now \in Instants
    /\ package \in [Shipments -> [status : PackageStatuses,
                                  carrier : Carriers \cup {None}]]
    /\ promise \in [Promises -> {"active", "fulfilled", "cancelled"}]
    /\ receivable \in [Receivables -> Balance]
    /\ receipt \in [Receipts -> Receipt]
    /\ bankLine \in [BankLines -> Line]
    /\ cod \in [Cases -> Case]

Opened(c) == cod[c].status # "none"

(* A package, a promise and a receivable belong to at most one case, so the *)
(* same cash is never expected twice (createCodCollectionCase).             *)
OneCasePerParcel ==
    \A c, d \in Cases : c # d /\ Opened(c) /\ Opened(d) =>
        /\ cod[c].package # cod[d].package
        /\ PromiseOf[cod[c].package] # PromiseOf[cod[d].package]
        /\ cod[c].receivable # cod[d].receivable

(* Cash in custody rests on a delivered package: a case holding collection *)
(* evidence has a package that reached the customer, whatever the package  *)
(* and the return workflow did since; a cancelled case was never handed    *)
(* over, and its package is cancelled for good.                            *)
CustodyFollowsPackage ==
    \A c \in Cases : Opened(c) =>
        /\ cod[c].collected > 0 => package[cod[c].package].status
                \in {"delivered", "return-in-progress", "returned"}
        /\ cod[c].handedAt > 0 => package[cod[c].package].status # "cancelled"
        /\ cod[c].status = "refused-rto" => package[cod[c].package].status
                \in {"return-in-progress", "returned"}
        /\ cod[c].status = "cancelled" =>
                package[cod[c].package].status = "cancelled"

(* The chain of custody never creates cash, and what the carrier remitted  *)
(* comes off the customer's balance for good: with bank evidence, of all   *)
(* that was charged at least the remitted amount is settled, whatever      *)
(* notes, taxes and write-offs came before or come after.  What a customer *)
(* still owes on a bank-matched order was charged on top of it.            *)
CashIsDischarged ==
    \A c \in Cases :
        LET account == receivable[cod[c].receivable] IN
        /\ cod[c].remitted <= cod[c].collected
        /\ cod[c].line # None =>
             account.outstanding <= account.charged - cod[c].remitted
        /\ cod[c].status = "bank-matched" =>
             account.outstanding <= account.charged - OrderValue

(* Two cases never share a receipt or a bank line, and the evidence of a   *)
(* case stays what it was: reconciled, of the remitted amount, confirmed   *)
(* by someone other than who recorded the receipt.                         *)
BankEvidenceIsExclusive ==
    \A c \in Cases : cod[c].line # None =>
        /\ bankLine[cod[c].line].receipt = cod[c].receipt
        /\ bankLine[cod[c].line].credit = cod[c].remitted
        /\ receipt[cod[c].receipt].status = "reconciled"
        /\ receipt[cod[c].receipt].amount = cod[c].remitted
        /\ receipt[cod[c].receipt].recordedBy # bankLine[cod[c].line].matchedBy
        /\ \A d \in Cases \ {c} :
             cod[d].line # cod[c].line /\ cod[d].receipt # cod[c].receipt

=============================================================================
