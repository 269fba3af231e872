------------------------ MODULE CustodyAndWagesProofs ------------------------
(***************************************************************************)
(* Proofs about CodCustody, for any number of parcels, receipts and bank   *)
(* lines, any order value and any clock bound; about Payroll, for any      *)
(* employees, runs and closes; and about the hand-offs of ProviderHandoffs. *)
(***************************************************************************)
EXTENDS CodCustody, ProviderHandoffs, TLAPS

-----------------------------------------------------------------------------
(* Typing.                                                                 *)

LEMMA Ranges ==
    /\ Amounts \subseteq 0..OrderValue /\ Instants \subseteq 0..MaxInstant
    /\ 0 \in 0..OrderValue /\ 0 \in 0..MaxInstant /\ 0 \in 0..MaxCharged
    /\ Charges \subseteq 0..MaxCharged /\ OrderValue \in 0..MaxCharged
  BY CodAssumption DEF Amounts, Charges, Instants

LEMMA InitTypeOK == Init => TypeOK
<1> SUFFICES ASSUME Init PROVE TypeOK
  OBVIOUS
<1>1. receivable \in [Receivables -> Balance]
  BY Ranges DEF Init, Balance
<1>2. NoReceipt \in Receipt /\ NoLine \in Line /\ NoCase \in Case
  BY Ranges DEF NoReceipt, NoLine, NoCase, Receipt, Line, Case, CaseStatuses
<1> QED
  BY <1>1, <1>2, CodAssumption DEF Init, TypeOK, Instants, PackageStatuses

LEMMA PackageStepTypeOK == TypeOK /\ PackageStep => TypeOK'
<1> SUFFICES ASSUME TypeOK,
                    NEW s \in Shipments, NEW to \in PackageStatuses,
                    NEW k \in Carriers \cup {None},
                    TransitionShipment(s, to, k)
             PROVE  TypeOK'
  BY DEF PackageStep
<1>1. PromiseOf[s] \in Promises
  BY CodAssumption
<1>2. (IF k = None THEN package[s].carrier ELSE k) \in Carriers \cup {None}
  BY DEF TypeOK
<1>3. package' \in [Shipments -> [status : PackageStatuses,
                                  carrier : Carriers \cup {None}]]
  BY <1>2 DEF TypeOK, TransitionShipment
<1>4. promise' \in [Promises -> {"active", "fulfilled", "cancelled"}]
  BY <1>1 DEF TypeOK, TransitionShipment
<1> QED
  BY <1>3, <1>4 DEF TypeOK, TransitionShipment

(* The part of a balance that cash, tax or a write-off has settled. *)
SettledOn(r) == receivable[r].charged - receivable[r].outstanding

(* A note or a collected tax moves a balance and settles nothing.          *)
LEMMA Charging ==
    ASSUME TypeOK, NEW r \in Receivables, NEW change \in Int, Charge(r, change),
           0 <= Owed(r) + change, receivable[r].charged + change <= MaxCharged
    PROVE  /\ receivable' \in [Receivables -> Balance]
           /\ \A q \in Receivables : SettledOn(q)' = SettledOn(q)
<1> DEFINE x == [charged |-> receivable[r].charged + change,
                 outstanding |-> receivable[r].outstanding + change]
<1>1. /\ receivable[r] \in Balance
      /\ receivable[r].charged \in Int /\ receivable[r].outstanding \in Int
      /\ receivable[r].outstanding <= receivable[r].charged
  BY CodAssumption DEF TypeOK, Balance
<1>2. x \in Balance
  <2>1. receivable[r].charged + change \in 0..MaxCharged
    BY <1>1, CodAssumption DEF Owed
  <2>2. receivable[r].outstanding + change \in 0..MaxCharged
    BY <1>1, <2>1, CodAssumption DEF Owed
  <2> QED
    BY <1>1, <2>1, <2>2 DEF Balance
<1>3. receivable' = [receivable EXCEPT ![r] = x]
  BY DEF Charge
<1>4. x.charged - x.outstanding = SettledOn(r)
  BY <1>1 DEF SettledOn
<1> HIDE DEF x
<1> QED
  BY <1>2, <1>3, <1>4 DEF TypeOK, SettledOn

(* What is settled is settled once.                                        *)
LEMMA Settling ==
    ASSUME TypeOK, NEW r \in Receivables, NEW amount \in Nat, Settle(r, amount)
    PROVE  /\ receivable' \in [Receivables -> Balance]
           /\ SettledOn(r)' = SettledOn(r) + amount
           /\ \A q \in Receivables \ {r} : SettledOn(q)' = SettledOn(q)
<1> DEFINE x == [charged |-> receivable[r].charged,
                 outstanding |-> receivable[r].outstanding - amount]
<1>1. /\ receivable[r].charged \in 0..MaxCharged
      /\ receivable[r].outstanding \in 0..MaxCharged
      /\ receivable[r].outstanding <= receivable[r].charged
      /\ amount <= receivable[r].outstanding
  BY DEF TypeOK, Balance, Settle, Owed
<1>2. x \in Balance
  <2>1. receivable[r].outstanding - amount \in 0..MaxCharged
    BY <1>1, CodAssumption
  <2>2. receivable[r].outstanding - amount <= receivable[r].charged
    BY <1>1, CodAssumption
  <2> QED
    BY <1>1, <2>1, <2>2 DEF Balance
<1>3. receivable' = [receivable EXCEPT ![r] = x]
  BY DEF Settle
<1>4. x.charged - x.outstanding = SettledOn(r) + amount
  BY <1>1, CodAssumption DEF SettledOn
<1> HIDE DEF x
<1> QED
  BY <1>2, <1>3, <1>4 DEF TypeOK, SettledOn

(* Notes, taxes and write-offs: balances stay balances, and what was       *)
(* settled of them stays settled.                                          *)
LEMMA ReceivableMoves ==
    ASSUME TypeOK, ReceivableStep
    PROVE  /\ receivable' \in [Receivables -> Balance]
           /\ \A q \in Receivables : SettledOn(q) <= SettledOn(q)'
           /\ UNCHANGED <<now, package, promise, receipt, bankLine, cod>>
<1> SUFFICES ASSUME NEW r \in Receivables, NEW amount \in Charges,
                    \/ \E kind \in {"credit", "debit"} :
                         CreateCreditDebitNote(r, kind, amount)
                    \/ \E direction \in {"company-collected-tcs", "customer-deducted-tds"} :
                         RecordWithholdingEntry(r, direction, amount)
                    \/ ApproveWriteOff(r, amount)
             PROVE  /\ receivable' \in [Receivables -> Balance]
                    /\ \A q \in Receivables : SettledOn(q) <= SettledOn(q)'
                    /\ UNCHANGED <<now, package, promise, receipt, bankLine, cod>>
  BY DEF ReceivableStep
<1>a. amount \in Nat /\ amount \in Int /\ -amount \in Int
  BY CodAssumption DEF Charges
<1>b. /\ receivable[r].charged \in Int /\ Owed(r) \in Int
      /\ 0 <= Owed(r) /\ receivable[r].charged <= MaxCharged
  BY CodAssumption DEF TypeOK, Balance, Owed
<1>q. \A q \in Receivables : SettledOn(q) \in Int
  BY CodAssumption DEF TypeOK, Balance, SettledOn
<1>1. \/ Charge(r, amount) /\ receivable[r].charged + amount <= MaxCharged
      \/ Charge(r, -amount) /\ amount <= Owed(r)
      \/ Settle(r, amount)
  BY DEF CreateCreditDebitNote, RecordWithholdingEntry, ApproveWriteOff
<1>2. UNCHANGED <<now, package, promise, receipt, bankLine, cod>>
  BY DEF CreateCreditDebitNote, RecordWithholdingEntry, ApproveWriteOff
<1>3. CASE Charge(r, amount) /\ receivable[r].charged + amount <= MaxCharged
  <2>1. 0 <= Owed(r) + amount
    BY <1>a, <1>b
  <2> QED
    BY <1>2, <1>3, <1>a, <1>q, <2>1, Charging
<1>4. CASE Charge(r, -amount) /\ amount <= Owed(r)
  <2>1. 0 <= Owed(r) + (-amount) /\ receivable[r].charged + (-amount) <= MaxCharged
    BY <1>4, <1>a, <1>b, CodAssumption
  <2> QED
    BY <1>2, <1>4, <1>a, <1>q, <2>1, Charging
<1>5. CASE Settle(r, amount)
  <2>1. /\ receivable' \in [Receivables -> Balance]
        /\ SettledOn(r)' = SettledOn(r) + amount
        /\ \A q \in Receivables \ {r} : SettledOn(q)' = SettledOn(q)
    BY <1>5, <1>a, Settling
  <2> QED
    BY <1>2, <1>a, <1>q, <2>1
<1> QED
  BY <1>1, <1>3, <1>4, <1>5

LEMMA ReceivableStepTypeOK == TypeOK /\ ReceivableStep => TypeOK'
  BY ReceivableMoves DEF TypeOK

LEMMA ReceiptUpdate ==
    ASSUME TypeOK, NEW p \in Receipts, NEW x \in Receipt,
           receipt' = [receipt EXCEPT ![p] = x],
           receivable' \in [Receivables -> Balance],
           UNCHANGED <<now, package, promise, bankLine, cod>>
    PROVE  TypeOK'
  BY DEF TypeOK

LEMMA ReceiptStepTypeOK == TypeOK /\ ReceiptStep => TypeOK'
<1> SUFFICES ASSUME TypeOK, ReceiptStep PROVE TypeOK'
  OBVIOUS
<1>r. \A p \in Receipts : receipt[p] \in Receipt
  BY DEF TypeOK
<1>1. ASSUME NEW p \in Receipts, NEW r \in Receivables, NEW a \in Actors,
             NEW amount \in Charges, NEW allocated \in 0..amount,
             RecordPayment(p, amount, r, allocated, a)
      PROVE  TypeOK'
  <2> DEFINE account == IF allocated = 0 THEN None ELSE r
             x == [status |-> "recorded", amount |-> amount, receivable |-> account,
                   allocated |-> allocated, recordedBy |-> a]
  <2>1. allocated \in Nat /\ allocated \in 0..MaxCharged /\ amount \in 0..MaxCharged
    BY CodAssumption DEF Charges
  <2>2. x \in Receipt
    <3>1. account \in Receivables \cup {None}
      OBVIOUS
    <3> HIDE DEF account
    <3> QED
      BY <2>1, <3>1 DEF Receipt
  <2>3. receivable' \in [Receivables -> Balance]
    BY <1>1, <2>1, Settling DEF RecordPayment
  <2>4. /\ receipt' = [receipt EXCEPT ![p] = x]
        /\ UNCHANGED <<now, package, promise, bankLine, cod>>
    BY <1>1 DEF RecordPayment
  <2> HIDE DEF x
  <2> QED
    BY <2>2, <2>3, <2>4, ReceiptUpdate
<1>2. ASSUME NEW p \in Receipts, NEW r \in Receivables, NEW amount \in Charges,
             ApplyUnappliedReceipt(p, r, amount)
      PROVE  TypeOK'
  <2>1. amount \in Nat /\ receipt[p].allocated + amount \in 0..MaxCharged
    <3>1. /\ receipt[p].allocated \in 0..MaxCharged /\ receipt[p].amount \in 0..MaxCharged
          /\ receipt[p].allocated + amount <= receipt[p].amount
      BY <1>2, <1>r DEF ApplyUnappliedReceipt, Receipt
    <3> QED
      BY <3>1, CodAssumption DEF Charges
  <2> DEFINE x == [receipt[p] EXCEPT !.receivable = r,
                                     !.allocated = receipt[p].allocated + amount]
  <2>2. x \in Receipt
    BY <1>r, <2>1 DEF Receipt
  <2>3. receivable' \in [Receivables -> Balance]
    BY <1>2, <2>1, Settling DEF ApplyUnappliedReceipt
  <2>4. /\ receipt' = [receipt EXCEPT ![p] = x]
        /\ UNCHANGED <<now, package, promise, bankLine, cod>>
    BY <1>2 DEF ApplyUnappliedReceipt
  <2> HIDE DEF x
  <2> QED
    BY <2>2, <2>3, <2>4, ReceiptUpdate
<1>3. ASSUME NEW p \in Receipts, ReconcilePayment(p)
      PROVE  TypeOK'
  <2>1. [receipt[p] EXCEPT !.status = "reconciled"] \in Receipt
    BY <1>r DEF Receipt
  <2>2. receivable' \in [Receivables -> Balance]
    BY <1>3 DEF TypeOK, ReconcilePayment
  <2> QED
    BY <1>3, <2>1, <2>2, ReceiptUpdate DEF ReconcilePayment
<1> QED
  BY <1>1, <1>2, <1>3 DEF ReceiptStep

LEMMA LineUpdate ==
    ASSUME TypeOK, NEW l \in BankLines, NEW x \in Line,
           bankLine' = [bankLine EXCEPT ![l] = x],
           UNCHANGED <<now, package, promise, receivable, cod>>,
           receipt' \in [Receipts -> Receipt]
    PROVE  TypeOK'
  BY DEF TypeOK

LEMMA BankStepTypeOK == TypeOK /\ BankStep => TypeOK'
<1> SUFFICES ASSUME TypeOK, NEW l \in BankLines,
                    \/ \E credit \in Charges : PreviewBankStatement(l, credit)
                    \/ CommitBankStatement(l)
                    \/ ExcludeBankLine(l)
                    \/ \E p \in Receipts, a \in Actors : ConfirmBankMatch(l, p, a)
             PROVE  TypeOK'
  BY DEF BankStep
<1>l. bankLine[l] \in Line /\ now \in Instants /\ receipt \in [Receipts -> Receipt]
  BY DEF TypeOK
<1>1. ASSUME NEW credit \in Charges, PreviewBankStatement(l, credit)
      PROVE  TypeOK'
  <2>1. [bankLine[l] EXCEPT !.status = "preview", !.credit = credit] \in Line
    BY <1>l, Ranges DEF Line
  <2> QED
    BY <1>1, <1>l, <2>1, LineUpdate DEF PreviewBankStatement
<1>2. CASE CommitBankStatement(l)
  <2>1. [bankLine[l] EXCEPT !.status = "unmatched"] \in Line
    BY <1>l DEF Line
  <2> QED
    BY <1>2, <1>l, <2>1, LineUpdate DEF CommitBankStatement
<1>3. CASE ExcludeBankLine(l)
  <2>1. [bankLine[l] EXCEPT !.status = "excluded"] \in Line
    BY <1>l DEF Line
  <2> QED
    BY <1>3, <1>l, <2>1, LineUpdate DEF ExcludeBankLine
<1>4. ASSUME NEW p \in Receipts, NEW a \in Actors, ConfirmBankMatch(l, p, a)
      PROVE  TypeOK'
  <2>1. [bankLine[l] EXCEPT !.status = "matched", !.receipt = p,
                            !.matchedBy = a, !.matchedAt = now] \in Line
    BY <1>l, Ranges DEF Line
  <2>2. [receipt[p] EXCEPT !.status = "reconciled"] \in Receipt
    BY <1>l DEF Receipt
  <2>3. receipt' \in [Receipts -> Receipt]
    BY <1>4, <1>l, <2>2 DEF ConfirmBankMatch
  <2> QED
    BY <1>4, <2>1, <2>3, LineUpdate DEF ConfirmBankMatch
<1> QED
  BY <1>1, <1>2, <1>3, <1>4

LEMMA CaseUpdate ==
    ASSUME TypeOK, NEW c \in Cases, NEW x \in Case,
           cod' = [cod EXCEPT ![c] = x],
           UNCHANGED <<now, package, promise, receivable, receipt, bankLine>>
    PROVE  TypeOK'
  BY DEF TypeOK

LEMMA CaseStepTypeOK == TypeOK /\ CaseStep => TypeOK'
<1> SUFFICES ASSUME TypeOK, CaseStep PROVE TypeOK'
  OBVIOUS
<1>c. \A c \in Cases : cod[c] \in Case
  BY DEF TypeOK
<1>1. ASSUME NEW c \in Cases, NEW s \in Shipments, NEW r \in Receivables,
             CreateCodCollectionCase(c, s, r)
      PROVE  TypeOK'
  <2>1. [NoCase EXCEPT !.status = "expected", !.package = s, !.receivable = r] \in Case
    BY Ranges DEF Case, NoCase, CaseStatuses
  <2> QED
    BY <1>1, <2>1, CaseUpdate DEF CreateCodCollectionCase
<1>2. ASSUME NEW c \in Cases, NEW t \in Instants,
             RecordCodHandover(c, t)
      PROVE  TypeOK'
  <2>1. [cod[c] EXCEPT !.status = "handed-to-carrier", !.handedAt = t] \in Case
    BY <1>c, Ranges DEF Case, CaseStatuses
  <2> QED
    BY <1>2, <2>1, CaseUpdate DEF RecordCodHandover
<1>3. ASSUME NEW c \in Cases, NEW amount \in Amounts, NEW t \in Instants,
             RecordCodCarrierCollection(c, amount, t)
      PROVE  TypeOK'
  <2>1. [cod[c] EXCEPT !.status = "carrier-collected",
                     !.collected = amount, !.collectedAt = t] \in Case
    BY <1>c, Ranges DEF Case, CaseStatuses
  <2> QED
    BY <1>3, <2>1, CaseUpdate DEF RecordCodCarrierCollection
<1>4. ASSUME NEW c \in Cases, NEW amount \in Amounts, NEW a \in Actors,
             NEW t \in Instants,
             RecordCodRemittance(c, amount, a, t)
      PROVE  TypeOK'
  <2> DEFINE st == IF amount = OrderValue /\ cod[c].collected = OrderValue
                   THEN "remitted" ELSE "shortfall"
  <2>1. st \in CaseStatuses
    BY DEF CaseStatuses
  <2>2. [cod[c] EXCEPT !.status = st, !.remitted = amount,
                       !.remittedAt = t, !.remittedBy = a] \in Case
    <3> HIDE DEF st
    <3> QED
      BY <1>c, <2>1, Ranges DEF Case
  <2> QED
    BY <1>4, <2>2, CaseUpdate DEF RecordCodRemittance
<1>5. ASSUME NEW c \in Cases, NEW p \in Receipts, NEW l \in BankLines,
             MatchCodBank(c, p, l)
      PROVE  TypeOK'
  <2>1. [cod[c] EXCEPT !.status = "bank-matched", !.receipt = p, !.line = l] \in Case
    BY <1>c DEF Case, CaseStatuses
  <2> QED
    BY <1>5, <2>1, CaseUpdate DEF MatchCodBank
<1>6. ASSUME NEW c \in Cases, NEW p \in Receipts, NEW l \in BankLines,
             NEW a \in Actors,
             CloseCodShortfall(c, p, l, a)
      PROVE  TypeOK'
  <2>1. [cod[c] EXCEPT !.receipt = p, !.line = l, !.closedBy = a] \in Case
    BY <1>c DEF Case
  <2> QED
    BY <1>6, <2>1, CaseUpdate DEF CloseCodShortfall
<1>7. ASSUME NEW c \in Cases, NEW outcome \in {"refused-rto", "cancelled"},
             NEW t \in Instants,
             RecordCodException(c, outcome, t)
      PROVE  TypeOK'
  <2>1. [cod[c] EXCEPT !.status = outcome, !.excepted = TRUE] \in Case
    BY <1>c DEF Case, CaseStatuses
  <2> QED
    BY <1>7, <2>1, CaseUpdate DEF RecordCodException
<1> QED
  BY <1>1, <1>2, <1>3, <1>4, <1>5, <1>6, <1>7 DEF CaseStep

(* Every record keeps the shape its handlers give it, for every instance.  *)
THEOREM Typing == Spec => []TypeOK
<1>1. TypeOK /\ [Next]_vars => TypeOK'
  <2> SUFFICES ASSUME TypeOK, [Next]_vars PROVE TypeOK'
    OBVIOUS
  <2>1. CASE Tick
    BY <2>1, CodAssumption DEF TypeOK, Tick, Instants
  <2>2. CASE UNCHANGED vars
    BY <2>2 DEF TypeOK, vars
  <2> QED
    BY <2>1, <2>2, PackageStepTypeOK, ReceivableStepTypeOK, ReceiptStepTypeOK,
       BankStepTypeOK, CaseStepTypeOK DEF Next
<1> QED
  BY <1>1, InitTypeOK, PTL DEF Spec

-----------------------------------------------------------------------------
(* Exclusive bank evidence.  The invariant below adds to the property what *)
(* it rests on: a matched line keeps its receipt, which keeps its amount   *)
(* and stays reconciled, and only matched lines name a receipt.            *)

LineEvidence ==
    \A l \in BankLines : bankLine[l].status = "matched" =>
        /\ bankLine[l].receipt \in Receipts
        /\ receipt[bankLine[l].receipt].status = "reconciled"
        /\ receipt[bankLine[l].receipt].recordedBy # bankLine[l].matchedBy

CaseEvidence ==
    \A c \in Cases :
        /\ cod[c].line # None =>
             /\ bankLine[cod[c].line].status = "matched"
             /\ cod[c].status \in {"bank-matched", "shortfall"}
        /\ cod[c].line = None => cod[c].receipt = None

EvidenceInv == TypeOK /\ LineEvidence /\ CaseEvidence /\ BankEvidenceIsExclusive

(* What every step leaves alone: a reconciled receipt and a matched line   *)
(* never change again.                                                     *)
Settled ==
    /\ \A p \in Receipts :
         receipt[p].status = "reconciled" => receipt'[p] = receipt[p]
    /\ \A l \in BankLines :
         bankLine[l].status = "matched" => bankLine'[l] = bankLine[l]

LEMMA SettledStep == TypeOK /\ [Next]_vars => Settled
<1> SUFFICES ASSUME TypeOK, [Next]_vars PROVE Settled
  OBVIOUS
<1>1. CASE UNCHANGED <<receipt, bankLine>>
  BY <1>1 DEF Settled
<1>2. CASE ReceiptStep
  BY <1>2 DEF ReceiptStep, RecordPayment, ApplyUnappliedReceipt, ReconcilePayment,
     TypeOK, Settled
<1>3. CASE BankStep
  <2> SUFFICES ASSUME NEW l \in BankLines,
                      \/ \E credit \in Charges : PreviewBankStatement(l, credit)
                      \/ CommitBankStatement(l)
                      \/ ExcludeBankLine(l)
                      \/ \E p \in Receipts, a \in Actors : ConfirmBankMatch(l, p, a)
               PROVE  Settled
    BY <1>3 DEF BankStep
  <2>1. bankLine[l].status # "matched"
    BY DEF PreviewBankStatement, CommitBankStatement, ExcludeBankLine,
       ConfirmBankMatch
  <2>2. \A k \in BankLines \ {l} : bankLine'[k] = bankLine[k]
    BY DEF PreviewBankStatement, CommitBankStatement, ExcludeBankLine,
       ConfirmBankMatch, TypeOK
  <2>3. \A p \in Receipts :
          receipt[p].status = "reconciled" => receipt'[p] = receipt[p]
    BY DEF PreviewBankStatement, CommitBankStatement, ExcludeBankLine,
       ConfirmBankMatch, TypeOK
  <2> QED
    BY <2>1, <2>2, <2>3 DEF Settled
<1>4. CASE CaseStep
  BY <1>1, <1>4 DEF CaseStep, CreateCodCollectionCase, RecordCodHandover,
     RecordCodCarrierCollection, RecordCodRemittance, MatchCodBank,
     CloseCodShortfall, RecordCodException
<1>5. CASE PackageStep \/ Tick \/ UNCHANGED vars
  BY <1>1, <1>5 DEF PackageStep, TransitionShipment, Tick, vars
<1>6. CASE ReceivableStep
  BY <1>1, <1>6, ReceivableMoves
<1> QED
  BY <1>2, <1>3, <1>4, <1>5, <1>6 DEF Next

LEMMA LineEvidenceStep == TypeOK /\ LineEvidence /\ [Next]_vars => LineEvidence'
<1> SUFFICES ASSUME TypeOK, LineEvidence, [Next]_vars,
                    NEW l \in BankLines, bankLine'[l].status = "matched"
             PROVE  /\ bankLine'[l].receipt \in Receipts
                    /\ receipt'[bankLine'[l].receipt].status = "reconciled"
                    /\ receipt'[bankLine'[l].receipt].recordedBy
                         # bankLine'[l].matchedBy
  BY DEF LineEvidence
<1>1. Settled
  BY SettledStep
<1>2. CASE bankLine[l].status = "matched"
  BY <1>1, <1>2 DEF LineEvidence, Settled
<1>3. CASE bankLine[l].status # "matched"
  <2>1. BankStep
    BY <1>3, ReceivableMoves DEF Next, vars, Tick, PackageStep, TransitionShipment,
       ReceiptStep, RecordPayment, ApplyUnappliedReceipt, ReconcilePayment, CaseStep, CreateCodCollectionCase,
       RecordCodHandover, RecordCodCarrierCollection, RecordCodRemittance,
       MatchCodBank, CloseCodShortfall, RecordCodException
  <2>2. PICK k \in BankLines :
          \/ \E credit \in Charges : PreviewBankStatement(k, credit)
          \/ CommitBankStatement(k)
          \/ ExcludeBankLine(k)
          \/ \E p \in Receipts, a \in Actors : ConfirmBankMatch(k, p, a)
    BY <2>1 DEF BankStep
  <2>3. PICK p \in Receipts, a \in Actors : ConfirmBankMatch(l, p, a)
    <3>1. k = l
      BY <2>2, <1>3 DEF PreviewBankStatement, CommitBankStatement,
         ExcludeBankLine, ConfirmBankMatch, TypeOK
    <3>2. ~ \E credit \in Charges : PreviewBankStatement(l, credit)
      BY DEF PreviewBankStatement, TypeOK, Line
    <3>3. ~ CommitBankStatement(l) /\ ~ ExcludeBankLine(l)
      BY DEF CommitBankStatement, ExcludeBankLine, TypeOK, Line
    <3> QED
      BY <2>2, <3>1, <3>2, <3>3
  <2>4. /\ bankLine'[l].receipt = p /\ bankLine'[l].matchedBy = a
        /\ receipt'[p].status = "reconciled"
        /\ receipt'[p].recordedBy = receipt[p].recordedBy
    BY <2>3 DEF ConfirmBankMatch, TypeOK, Line, Receipt
  <2> QED
    BY <2>3, <2>4 DEF ConfirmBankMatch
<1> QED
  BY <1>2, <1>3

(* A step that gives case c no bank evidence keeps the evidence of others. *)
LEMMA WithoutEvidence ==
    ASSUME EvidenceInv, NEW c \in Cases, NEW x \in Case,
           x.line = None, x.receipt = None,
           cod' = [cod EXCEPT ![c] = x], UNCHANGED <<receipt, bankLine>>
    PROVE  CaseEvidence' /\ BankEvidenceIsExclusive'
<1>1. cod'[c] = x /\ \A d \in Cases \ {c} : cod'[d] = cod[d]
  BY DEF EvidenceInv, TypeOK
<1>2. CaseEvidence'
  BY <1>1 DEF EvidenceInv, CaseEvidence
<1>3. \A d \in Cases : cod[d].line # None => cod[d].receipt # None
  <2> TAKE d \in Cases
  <2> HAVE cod[d].line # None
  <2>1. cod[d].line \in BankLines
    BY DEF EvidenceInv, TypeOK, Case
  <2>2. bankLine[cod[d].line].receipt = cod[d].receipt
    BY DEF EvidenceInv, BankEvidenceIsExclusive
  <2>3. bankLine[cod[d].line].receipt \in Receipts
    BY <2>1 DEF EvidenceInv, CaseEvidence, LineEvidence
  <2> QED
    BY <2>2, <2>3, CodAssumption
<1>4. BankEvidenceIsExclusive'
  BY <1>1, <1>3 DEF EvidenceInv, BankEvidenceIsExclusive
<1> QED
  BY <1>2, <1>4

(* A step that attaches verified bank evidence to case c. *)
LEMMA WithEvidence ==
    ASSUME EvidenceInv, NEW c \in Cases, NEW x \in Case,
           NEW p \in Receipts, NEW l \in BankLines,
           x.line = l, x.receipt = p, x.status \in {"bank-matched", "shortfall"},
           VerifiedBankEvidence(c, p, l, x.remitted),
           cod' = [cod EXCEPT ![c] = x], UNCHANGED <<receipt, bankLine>>
    PROVE  CaseEvidence' /\ BankEvidenceIsExclusive'
<1>1. cod'[c] = x /\ \A d \in Cases \ {c} : cod'[d] = cod[d]
  BY DEF EvidenceInv, TypeOK
<1>2. l # None /\ p # None
  BY CodAssumption
<1>3. /\ bankLine[l].status = "matched" /\ bankLine[l].receipt = p
      /\ bankLine[l].credit = x.remitted
      /\ receipt[p].status = "reconciled" /\ receipt[p].amount = x.remitted
      /\ \A d \in Cases \ {c} : cod[d].receipt # p /\ cod[d].line # l
  BY DEF VerifiedBankEvidence
<1>4. receipt[p].recordedBy # bankLine[l].matchedBy
  BY <1>3 DEF EvidenceInv, LineEvidence
<1>5. CaseEvidence'
  BY <1>1, <1>2, <1>3 DEF EvidenceInv, CaseEvidence
<1>6. BankEvidenceIsExclusive'
  BY <1>1, <1>2, <1>3, <1>4 DEF EvidenceInv, BankEvidenceIsExclusive
<1> QED
  BY <1>5, <1>6

LEMMA CaseStepEvidence ==
    ASSUME EvidenceInv, CaseStep
    PROVE  CaseEvidence' /\ BankEvidenceIsExclusive'
<1>c. \A c \in Cases : cod[c] \in Case /\ cod'[c] \in Case
  BY CaseStepTypeOK DEF EvidenceInv, TypeOK
<1>n. \A c \in Cases : cod[c].status \notin {"bank-matched", "shortfall"} =>
        cod[c].line = None /\ cod[c].receipt = None
  BY DEF EvidenceInv, CaseEvidence
<1>r. \A c \in Cases : cod[c].line = None => cod[c].receipt = None
  BY DEF EvidenceInv, CaseEvidence
<1>f. DOMAIN cod = Cases
  BY DEF EvidenceInv, TypeOK
<1>1. ASSUME NEW c \in Cases, NEW s \in Shipments, NEW r \in Receivables,
             CreateCodCollectionCase(c, s, r)
      PROVE  CaseEvidence' /\ BankEvidenceIsExclusive'
  <2>1. cod'[c].line = None /\ cod'[c].receipt = None
    BY <1>1, <1>c, <1>n, <1>f DEF CreateCodCollectionCase, NoCase
  <2>2. cod' = [cod EXCEPT ![c] = cod'[c]] /\ UNCHANGED <<receipt, bankLine>>
    BY <1>1, <1>f DEF CreateCodCollectionCase, NoCase
  <2> QED
    BY <2>1, <2>2, <1>c, WithoutEvidence
<1>2. ASSUME NEW c \in Cases, NEW t \in Instants,
             RecordCodHandover(c, t)
      PROVE  CaseEvidence' /\ BankEvidenceIsExclusive'
  <2>1. cod'[c].line = None /\ cod'[c].receipt = None
    BY <1>2, <1>c, <1>n, <1>f DEF RecordCodHandover
  <2>2. cod' = [cod EXCEPT ![c] = cod'[c]] /\ UNCHANGED <<receipt, bankLine>>
    BY <1>2, <1>f DEF RecordCodHandover
  <2> QED
    BY <2>1, <2>2, <1>c, WithoutEvidence
<1>3. ASSUME NEW c \in Cases, NEW amount \in Amounts, NEW t \in Instants,
             RecordCodCarrierCollection(c, amount, t)
      PROVE  CaseEvidence' /\ BankEvidenceIsExclusive'
  <2>1. cod'[c].line = None /\ cod'[c].receipt = None
    BY <1>3, <1>c, <1>n, <1>f DEF RecordCodCarrierCollection
  <2>2. cod' = [cod EXCEPT ![c] = cod'[c]] /\ UNCHANGED <<receipt, bankLine>>
    BY <1>3, <1>f DEF RecordCodCarrierCollection
  <2> QED
    BY <2>1, <2>2, <1>c, WithoutEvidence
<1>4. ASSUME NEW c \in Cases, NEW amount \in Amounts, NEW a \in Actors,
             NEW t \in Instants,
             RecordCodRemittance(c, amount, a, t)
      PROVE  CaseEvidence' /\ BankEvidenceIsExclusive'
  <2>1. cod'[c].line = None /\ cod'[c].receipt = None
    BY <1>4, <1>c, <1>n, <1>f DEF RecordCodRemittance
  <2>2. cod' = [cod EXCEPT ![c] = cod'[c]] /\ UNCHANGED <<receipt, bankLine>>
    BY <1>4, <1>f DEF RecordCodRemittance
  <2> QED
    BY <2>1, <2>2, <1>c, WithoutEvidence
<1>5. ASSUME NEW c \in Cases, NEW outcome \in {"refused-rto", "cancelled"},
             NEW t \in Instants,
             RecordCodException(c, outcome, t)
      PROVE  CaseEvidence' /\ BankEvidenceIsExclusive'
  <2>1. cod'[c].line = None /\ cod'[c].receipt = None
    BY <1>5, <1>c, <1>n, <1>f DEF RecordCodException
  <2>2. cod' = [cod EXCEPT ![c] = cod'[c]] /\ UNCHANGED <<receipt, bankLine>>
    BY <1>5, <1>f DEF RecordCodException
  <2> QED
    BY <2>1, <2>2, <1>c, WithoutEvidence
<1>6. ASSUME NEW c \in Cases, NEW p \in Receipts, NEW l \in BankLines,
             MatchCodBank(c, p, l)
      PROVE  CaseEvidence' /\ BankEvidenceIsExclusive'
  <2>1. /\ cod'[c].line = l /\ cod'[c].receipt = p
        /\ cod'[c].status = "bank-matched" /\ cod'[c].remitted = cod[c].remitted
    BY <1>6, <1>c, <1>f DEF MatchCodBank, Case
  <2>2. cod' = [cod EXCEPT ![c] = cod'[c]] /\ UNCHANGED <<receipt, bankLine>>
    BY <1>6, <1>f DEF MatchCodBank
  <2>3. VerifiedBankEvidence(c, p, l, cod'[c].remitted)
    BY <1>6, <2>1 DEF MatchCodBank
  <2> QED
    BY <2>1, <2>2, <2>3, <1>c, WithEvidence
<1>7. ASSUME NEW c \in Cases, NEW p \in Receipts, NEW l \in BankLines,
             NEW a \in Actors,
             CloseCodShortfall(c, p, l, a)
      PROVE  CaseEvidence' /\ BankEvidenceIsExclusive'
  <2>1. /\ cod'[c].line = l /\ cod'[c].receipt = p
        /\ cod'[c].status = "shortfall" /\ cod'[c].remitted = cod[c].remitted
    BY <1>7, <1>c, <1>f DEF CloseCodShortfall, Case
  <2>2. cod' = [cod EXCEPT ![c] = cod'[c]] /\ UNCHANGED <<receipt, bankLine>>
    BY <1>7, <1>f DEF CloseCodShortfall
  <2>3. VerifiedBankEvidence(c, p, l, cod'[c].remitted)
    BY <1>7, <2>1 DEF CloseCodShortfall
  <2> QED
    BY <2>1, <2>2, <2>3, <1>c, WithEvidence
<1> QED
  BY <1>1, <1>2, <1>3, <1>4, <1>5, <1>6, <1>7 DEF CaseStep

LEMMA EvidenceInvariant == Spec => []EvidenceInv
<1>1. Init => EvidenceInv
  BY InitTypeOK DEF Init, EvidenceInv, LineEvidence, CaseEvidence,
     BankEvidenceIsExclusive, NoLine, NoCase
<1>2. EvidenceInv /\ [Next]_vars /\ TypeOK' => EvidenceInv'
  <2> SUFFICES ASSUME EvidenceInv, [Next]_vars, TypeOK' PROVE EvidenceInv'
    OBVIOUS
  <2>1. Settled
    BY SettledStep DEF EvidenceInv
  <2>2. LineEvidence'
    BY LineEvidenceStep DEF EvidenceInv
  <2>3. CASE CaseStep
    BY <2>2, <2>3, CaseStepEvidence DEF EvidenceInv
  <2>4. CASE UNCHANGED cod
    <3>1. \A c \in Cases : cod[c].line # None =>
            /\ cod[c].line \in BankLines
            /\ bankLine'[cod[c].line] = bankLine[cod[c].line]
            /\ receipt'[cod[c].receipt] = receipt[cod[c].receipt]
      <4> TAKE c \in Cases
      <4> HAVE cod[c].line # None
      <4>1. cod[c].line \in BankLines
        BY DEF EvidenceInv, TypeOK, Case
      <4>2. bankLine[cod[c].line].status = "matched"
        BY DEF EvidenceInv, CaseEvidence
      <4>3. /\ bankLine[cod[c].line].receipt = cod[c].receipt
            /\ bankLine[cod[c].line].receipt \in Receipts
            /\ receipt[bankLine[cod[c].line].receipt].status = "reconciled"
        BY <4>1, <4>2 DEF EvidenceInv, LineEvidence, BankEvidenceIsExclusive
      <4> QED
        BY <2>1, <4>1, <4>2, <4>3 DEF Settled
    <3>2. CaseEvidence'
      BY <2>4, <3>1 DEF EvidenceInv, CaseEvidence
    <3>3. BankEvidenceIsExclusive'
      BY <2>4, <3>1 DEF EvidenceInv, BankEvidenceIsExclusive
    <3> QED
      BY <2>2, <3>2, <3>3 DEF EvidenceInv
  <2>5. CaseStep \/ UNCHANGED cod
    BY ReceivableMoves DEF EvidenceInv, Next, vars, Tick, PackageStep, TransitionShipment,
       ReceiptStep, RecordPayment, ApplyUnappliedReceipt, ReconcilePayment, BankStep,
       PreviewBankStatement, CommitBankStatement, ExcludeBankLine, ConfirmBankMatch
  <2> QED
    BY <2>3, <2>4, <2>5
<1> QED
  BY <1>1, <1>2, Typing, PTL DEF Spec

(* Two parcels never lean on the same receipt or bank line, and the        *)
(* evidence a parcel was closed with never changes under it.               *)
THEOREM ExclusiveEvidence == Spec => []BankEvidenceIsExclusive
<1>1. EvidenceInv => BankEvidenceIsExclusive
  BY DEF EvidenceInv
<1> QED
  BY <1>1, EvidenceInvariant, PTL

-----------------------------------------------------------------------------
(* What a case is about.  Only its creation says which package and which   *)
(* receivable a case is of; every other step leaves that alone.            *)

SameSubject(c) ==
    /\ cod'[c].package = cod[c].package /\ cod'[c].receivable = cod[c].receivable
    /\ Opened(c)' <=> Opened(c)

LEMMA SubjectStep ==
    ASSUME TypeOK, [Next]_vars
    PROVE  \/ \A c \in Cases : SameSubject(c)
           \/ \E c \in Cases, s \in Shipments, r \in Receivables :
                CreateCodCollectionCase(c, s, r)
<1>1. CASE UNCHANGED cod
  BY <1>1 DEF SameSubject, Opened
<1>2. CASE CaseStep
  <2> SUFFICES ASSUME NEW c \in Cases,
                      ~ \E s \in Shipments, r \in Receivables : CreateCodCollectionCase(c, s, r),
                      \/ \E t \in Instants : RecordCodHandover(c, t)
                      \/ \E amount \in Amounts, t \in Instants :
                           RecordCodCarrierCollection(c, amount, t)
                      \/ \E amount \in Amounts, a \in Actors, t \in Instants :
                           RecordCodRemittance(c, amount, a, t)
                      \/ \E p \in Receipts, l \in BankLines : MatchCodBank(c, p, l)
                      \/ \E p \in Receipts, l \in BankLines, a \in Actors :
                           CloseCodShortfall(c, p, l, a)
                      \/ \E outcome \in {"refused-rto", "cancelled"}, t \in Instants :
                           RecordCodException(c, outcome, t)
               PROVE  \A d \in Cases : SameSubject(d)
    BY <1>2 DEF CaseStep
  <2> DEFINE Kept == /\ \A d \in Cases \ {c} : cod'[d] = cod[d]
                     /\ cod'[c].package = cod[c].package
                     /\ cod'[c].receivable = cod[c].receivable
                     /\ cod[c].status # "none" /\ cod'[c].status # "none"
  <2>f. DOMAIN cod = Cases /\ cod[c] \in Case
    BY DEF TypeOK
  <2>1. ASSUME NEW t \in Instants, RecordCodHandover(c, t) PROVE Kept
    BY <2>1, <2>f DEF RecordCodHandover, Case
  <2>2. ASSUME NEW amount \in Amounts, NEW t \in Instants,
               RecordCodCarrierCollection(c, amount, t)
        PROVE  Kept
    BY <2>2, <2>f DEF RecordCodCarrierCollection, Case
  <2>3. ASSUME NEW amount \in Amounts, NEW a \in Actors, NEW t \in Instants,
               RecordCodRemittance(c, amount, a, t)
        PROVE  Kept
    BY <2>3, <2>f DEF RecordCodRemittance, Case
  <2>4. ASSUME NEW q \in Receipts, NEW l \in BankLines, MatchCodBank(c, q, l) PROVE Kept
    BY <2>4, <2>f DEF MatchCodBank, Case
  <2>5. ASSUME NEW q \in Receipts, NEW l \in BankLines, NEW a \in Actors,
               CloseCodShortfall(c, q, l, a)
        PROVE  Kept
    BY <2>5, <2>f DEF CloseCodShortfall, Case
  <2>6. ASSUME NEW outcome \in {"refused-rto", "cancelled"}, NEW t \in Instants,
               RecordCodException(c, outcome, t)
        PROVE  Kept
    BY <2>6, <2>f DEF RecordCodException, Case
  <2>7. Kept
    BY <2>1, <2>2, <2>3, <2>4, <2>5, <2>6
  <2> QED
    BY <2>7 DEF SameSubject, Opened
<1> QED
  BY <1>1, <1>2, ReceivableMoves DEF Next, vars, Tick, PackageStep, TransitionShipment,
     ReceiptStep, RecordPayment, ApplyUnappliedReceipt, ReconcilePayment, BankStep,
     PreviewBankStatement, CommitBankStatement, ExcludeBankLine, ConfirmBankMatch

LEMMA CreatedCase ==
    ASSUME TypeOK, NEW c \in Cases, NEW s \in Shipments, NEW r \in Receivables,
           CreateCodCollectionCase(c, s, r)
    PROVE  /\ cod'[c].package = s /\ cod'[c].receivable = r /\ cod'[c].status = "expected"
           /\ cod'[c].handedAt = 0 /\ cod'[c].collected = 0 /\ cod'[c].remitted = 0
           /\ cod'[c].line = None
           /\ \A d \in Cases \ {c} : cod'[d] = cod[d]
           /\ UNCHANGED <<package, receivable, receipt>>
  BY DEF TypeOK, CreateCodCollectionCase, NoCase

(* No two custody cases ever expect the cash of one package, of one         *)
(* delivery promise or of one receivable.                                  *)
THEOREM OneCaseForAParcel == Spec => []OneCasePerParcel
<1>1. Init => OneCasePerParcel
  BY DEF Init, OneCasePerParcel, Opened, NoCase
<1>2. TypeOK /\ OneCasePerParcel /\ [Next]_vars => OneCasePerParcel'
  <2> SUFFICES ASSUME TypeOK, OneCasePerParcel, [Next]_vars PROVE OneCasePerParcel'
    OBVIOUS
  <2>1. CASE \A c \in Cases : SameSubject(c)
    BY <2>1 DEF SameSubject, OneCasePerParcel, Opened
  <2>2. ASSUME NEW c \in Cases, NEW s \in Shipments, NEW r \in Receivables,
               CreateCodCollectionCase(c, s, r)
        PROVE  OneCasePerParcel'
    <3>1. cod'[c].package = s /\ cod'[c].receivable = r
      BY <2>2, CreatedCase
    <3>2. \A d \in Cases \ {c} : Opened(d) =>
            /\ cod[d].package # s /\ cod[d].receivable # r
            /\ PromiseOf[cod[d].package] # PromiseOf[s]
      BY <2>2 DEF CreateCodCollectionCase, Unclaimed, Opened
    <3>3. \A d \in Cases \ {c} : cod'[d] = cod[d]
      BY <2>2, CreatedCase
    <3> QED
      BY <3>1, <3>2, <3>3 DEF OneCasePerParcel, Opened
  <2> QED
    BY <2>1, <2>2, SubjectStep
<1> QED
  BY <1>1, <1>2, Typing, PTL DEF Spec

-----------------------------------------------------------------------------
(* Custody and the package.  The invariant says of a case that was handed  *)
(* over where its package can be from then on: in the carrier's hands or   *)
(* beyond.  Each set of statuses below is one the package never leaves.    *)

Underway == {"dispatched", "in-transit", "delivered", "return-in-progress", "returned"}
Arrived == {"delivered", "return-in-progress", "returned"}
SentBack == {"return-in-progress", "returned"}

StatusOf(c) == package[cod[c].package].status

CustodyOf(c) ==
    /\ cod[c].package \in Shipments
    /\ cod[c].collected > 0 => StatusOf(c) \in Arrived
    /\ cod[c].handedAt > 0 => StatusOf(c) \in Underway
    /\ cod[c].status = "refused-rto" => StatusOf(c) \in SentBack
    /\ cod[c].status = "cancelled" => StatusOf(c) = "cancelled"

CustodyInv == \A c \in Cases : Opened(c) => CustodyOf(c)

(* SHIPMENT_TRANSITIONS leads out of none of the sets. *)
LEMMA NoWayBack ==
    ASSUME NEW from, NEW to, <<from, to>> \in ShipmentTransitions
    PROVE  /\ from \in Arrived => to \in Arrived
           /\ from \in Underway => to \in Underway
           /\ from \in SentBack => to \in SentBack
           /\ from # "cancelled"
  BY DEF ShipmentTransitions, Arrived, Underway, SentBack

LEMMA PackageMoves ==
    ASSUME TypeOK, [Next]_vars, NEW s \in Shipments
    PROVE  \/ package'[s] = package[s]
           \/ <<package[s].status, package'[s].status>> \in ShipmentTransitions
<1>1. CASE UNCHANGED package
  BY <1>1
<1>2. ASSUME NEW k \in Shipments, NEW to \in PackageStatuses, NEW named \in Carriers \cup {None},
             TransitionShipment(k, to, named)
      PROVE  \/ package'[s] = package[s]
             \/ <<package[s].status, package'[s].status>> \in ShipmentTransitions
  <2> DEFINE carrier == IF named = None THEN package[k].carrier ELSE named
  <2>1. /\ <<package[k].status, to>> \in ShipmentTransitions
        /\ package' = [package EXCEPT ![k] = [status |-> to, carrier |-> carrier]]
    BY <1>2 DEF TransitionShipment
  <2> QED
    BY <2>1 DEF TypeOK
<1> QED
  BY <1>1, <1>2, ReceivableMoves DEF Next, vars, Tick, PackageStep, ReceiptStep,
     RecordPayment, ApplyUnappliedReceipt, ReconcilePayment, BankStep, PreviewBankStatement, CommitBankStatement,
     ExcludeBankLine, ConfirmBankMatch, CaseStep, CreateCodCollectionCase,
     RecordCodHandover, RecordCodCarrierCollection, RecordCodRemittance,
     MatchCodBank, CloseCodShortfall, RecordCodException

(* The cases are as they were and packages move on.                        *)
LEMMA CustodyAfterPackages ==
    ASSUME TypeOK, CustodyInv, [Next]_vars, UNCHANGED cod
    PROVE  CustodyInv'
<1> SUFFICES ASSUME NEW c \in Cases, Opened(c)
             PROVE  CustodyOf(c)'
  BY DEF CustodyInv, Opened
<1>1. CustodyOf(c)
  BY DEF CustodyInv
<1>2. \/ package'[cod[c].package] = package[cod[c].package]
      \/ <<StatusOf(c), package'[cod[c].package].status>> \in ShipmentTransitions
  BY <1>1, PackageMoves DEF CustodyOf, StatusOf
<1>3. CASE package'[cod[c].package] = package[cod[c].package]
  BY <1>1, <1>3 DEF CustodyOf, StatusOf
<1>4. CASE <<StatusOf(c), package'[cod[c].package].status>> \in ShipmentTransitions
  BY <1>1, <1>4, NoWayBack DEF CustodyOf, StatusOf
<1> QED
  BY <1>2, <1>3, <1>4

(* One case changes, and what it becomes is backed by its package.         *)
LEMMA CustodyOfOne ==
    ASSUME TypeOK, CustodyInv, NEW c \in Cases, UNCHANGED package,
           \A d \in Cases \ {c} : cod'[d] = cod[d],
           Opened(c)' => CustodyOf(c)'
    PROVE  CustodyInv'
  BY DEF CustodyInv, CustodyOf, Opened, StatusOf

LEMMA CustodyAfterCases == ASSUME TypeOK, CustodyInv, CaseStep PROVE CustodyInv'
<1>f. DOMAIN cod = Cases /\ \A c \in Cases : cod[c] \in Case
  BY DEF TypeOK
<1>1. ASSUME NEW c \in Cases, NEW s \in Shipments, NEW r \in Receivables,
             CreateCodCollectionCase(c, s, r)
      PROVE  CustodyInv'
  <2>1. CustodyOf(c)'
    BY <1>1, CreatedCase DEF CustodyOf
  <2> QED
    BY <1>1, <2>1, CreatedCase, CustodyOfOne
<1>2. ASSUME NEW c \in Cases, NEW t \in Instants, RecordCodHandover(c, t)
      PROVE  CustodyInv'
  <2>1. /\ cod'[c] = [cod[c] EXCEPT !.status = "handed-to-carrier", !.handedAt = t]
        /\ \A d \in Cases \ {c} : cod'[d] = cod[d]
        /\ UNCHANGED package /\ CustodyOf(c)
        /\ StatusOf(c) \in {"dispatched", "in-transit", "delivered"}
    BY <1>2, <1>f DEF RecordCodHandover, ShipmentForCase, StatusOf, CustodyInv, Opened
  <2>2. CustodyOf(c)'
    BY <2>1, <1>f DEF CustodyOf, StatusOf, Underway, Case
  <2> QED
    BY <2>1, <2>2, CustodyOfOne
<1>3. ASSUME NEW c \in Cases, NEW amount \in Amounts, NEW t \in Instants,
             RecordCodCarrierCollection(c, amount, t)
      PROVE  CustodyInv'
  <2>1. /\ cod'[c] = [cod[c] EXCEPT !.status = "carrier-collected",
                                    !.collected = amount, !.collectedAt = t]
        /\ \A d \in Cases \ {c} : cod'[d] = cod[d]
        /\ UNCHANGED package /\ CustodyOf(c)
        /\ StatusOf(c) = "delivered"
    BY <1>3, <1>f DEF RecordCodCarrierCollection, ShipmentForCase, StatusOf, CustodyInv, Opened
  <2>2. CustodyOf(c)'
    BY <2>1, <1>f DEF CustodyOf, StatusOf, Underway, Arrived, Case
  <2> QED
    BY <2>1, <2>2, CustodyOfOne
<1>4. ASSUME NEW c \in Cases, NEW amount \in Amounts, NEW a \in Actors, NEW t \in Instants,
             RecordCodRemittance(c, amount, a, t)
      PROVE  CustodyInv'
  <2>1. /\ cod'[c].status \notin {"refused-rto", "cancelled"}
        /\ cod'[c].package = cod[c].package
        /\ cod'[c].collected = cod[c].collected /\ cod'[c].handedAt = cod[c].handedAt
        /\ \A d \in Cases \ {c} : cod'[d] = cod[d]
        /\ UNCHANGED package /\ CustodyOf(c)
    BY <1>4, <1>f DEF RecordCodRemittance, CustodyInv, Opened, Case
  <2>2. CustodyOf(c)'
    BY <2>1 DEF CustodyOf, StatusOf
  <2> QED
    BY <2>1, <2>2, CustodyOfOne
<1>5. ASSUME NEW c \in Cases, NEW p \in Receipts, NEW l \in BankLines,
             MatchCodBank(c, p, l) \/ \E a \in Actors : CloseCodShortfall(c, p, l, a)
      PROVE  CustodyInv'
  <2> DEFINE Kept == /\ cod'[c].status \notin {"refused-rto", "cancelled"}
                     /\ cod'[c].package = cod[c].package
                     /\ cod'[c].collected = cod[c].collected
                     /\ cod'[c].handedAt = cod[c].handedAt
                     /\ \A d \in Cases \ {c} : cod'[d] = cod[d]
                     /\ UNCHANGED package /\ CustodyOf(c)
  <2>1. Kept
    <3>1. CASE MatchCodBank(c, p, l)
      BY <3>1, <1>f DEF MatchCodBank, CustodyInv, Opened, Case
    <3>2. ASSUME NEW a \in Actors, CloseCodShortfall(c, p, l, a)
          PROVE  Kept
      BY <3>2, <1>f DEF CloseCodShortfall, CustodyInv, Opened, Case
    <3> QED
      BY <1>5, <3>1, <3>2
  <2>2. CustodyOf(c)'
    BY <2>1 DEF CustodyOf, StatusOf
  <2> QED
    BY <2>1, <2>2, CustodyOfOne
<1>6. ASSUME NEW c \in Cases, NEW outcome \in {"refused-rto", "cancelled"},
             NEW t \in Instants, RecordCodException(c, outcome, t)
      PROVE  CustodyInv'
  <2>1. /\ cod'[c] = [cod[c] EXCEPT !.status = outcome, !.excepted = TRUE]
        /\ \A d \in Cases \ {c} : cod'[d] = cod[d]
        /\ UNCHANGED package /\ CustodyOf(c)
        /\ outcome = "refused-rto" => StatusOf(c) \in SentBack
        /\ outcome = "cancelled" => StatusOf(c) = "cancelled"
    BY <1>6, <1>f DEF RecordCodException, ShipmentForCase, StatusOf, SentBack, CustodyInv, Opened
  <2>2. CustodyOf(c)'
    BY <2>1, <1>f DEF CustodyOf, StatusOf, Case
  <2> QED
    BY <2>1, <2>2, CustodyOfOne
<1> QED
  BY <1>1, <1>2, <1>3, <1>4, <1>5, <1>6 DEF CaseStep

LEMMA CaseStepOrNot == TypeOK /\ [Next]_vars => CaseStep \/ UNCHANGED cod
  BY ReceivableMoves DEF Next, vars, Tick, PackageStep, TransitionShipment, ReceiptStep,
     RecordPayment, ApplyUnappliedReceipt, ReconcilePayment, BankStep, PreviewBankStatement,
     CommitBankStatement, ExcludeBankLine, ConfirmBankMatch

(* Cash in custody is that of a parcel which reached its customer, and a    *)
(* parcel that was handed over is never one that was called off, wherever   *)
(* the package went since.                                                 *)
THEOREM CashFollowsParcel == Spec => []CustodyFollowsPackage
<1>1. Init => CustodyInv
  BY DEF Init, CustodyInv, Opened, NoCase
<1>2. TypeOK /\ CustodyInv /\ [Next]_vars => CustodyInv'
  BY CaseStepOrNot, CustodyAfterPackages, CustodyAfterCases
<1>3. CustodyInv => CustodyFollowsPackage
  BY DEF CustodyInv, CustodyOf, StatusOf, CustodyFollowsPackage, Arrived, Underway, SentBack
<1> QED
  BY <1>1, <1>2, <1>3, Typing, PTL DEF Spec

-----------------------------------------------------------------------------
(* Discharge.  What a receipt allocates to a receivable is settled there,   *)
(* what was settled stays settled whatever is charged or credited besides, *)
(* and a case is matched only for the whole order value.                   *)

AllocationOf(p) ==
    receipt[p].allocated > 0 =>
      /\ receipt[p].receivable \in Receivables
      /\ receipt[p].allocated <= SettledOn(receipt[p].receivable)

AllocationsSettle == \A p \in Receipts : AllocationOf(p)

CashOf(c) ==
    /\ cod[c].remitted <= cod[c].collected
    /\ cod[c].line # None => /\ cod[c].receivable \in Receivables
                             /\ cod[c].remitted <= SettledOn(cod[c].receivable)
    /\ cod[c].status = "bank-matched" => cod[c].line # None /\ cod[c].remitted = OrderValue

CashInv == AllocationsSettle /\ \A c \in Cases : CashOf(c)

LEMMA SettledIsAnAmount ==
    ASSUME TypeOK, NEW r \in Receivables
    PROVE  SettledOn(r) \in Int /\ SettledOn(r) >= 0
  BY CodAssumption DEF TypeOK, Balance, SettledOn

(* No step takes back what was settled. *)
LEMMA SettledNeverFalls ==
    ASSUME TypeOK, [Next]_vars, NEW r \in Receivables
    PROVE  SettledOn(r) <= SettledOn(r)'
<1>s. SettledOn(r) \in Int
  BY SettledIsAnAmount
<1>1. CASE UNCHANGED receivable
  BY <1>1, <1>s DEF SettledOn
<1>2. ASSUME NEW q \in Receivables, NEW amount \in Nat, Settle(q, amount)
      PROVE  SettledOn(r) <= SettledOn(r)'
  <2>1. SettledOn(r)' = SettledOn(r) \/ SettledOn(r)' = SettledOn(r) + amount
    BY <1>2, Settling
  <2> QED
    BY <2>1, <1>s
<1>3. ASSUME NEW p \in Receipts, NEW q \in Receivables, NEW a \in Actors,
             NEW amount \in Charges, NEW allocated \in 0..amount,
             RecordPayment(p, amount, q, allocated, a)
      PROVE  SettledOn(r) <= SettledOn(r)'
  BY <1>2, <1>3 DEF RecordPayment
<1>4. ASSUME NEW p \in Receipts, NEW q \in Receivables, NEW amount \in Charges,
             ApplyUnappliedReceipt(p, q, amount)
      PROVE  SettledOn(r) <= SettledOn(r)'
  BY <1>2, <1>4 DEF ApplyUnappliedReceipt, Charges
<1>5. CASE ReceiptStep
  BY <1>1, <1>3, <1>4, <1>5 DEF ReceiptStep, ReconcilePayment
<1>6. CASE ReceivableStep
  BY <1>6, ReceivableMoves
<1> QED
  BY <1>1, <1>5, <1>6 DEF Next, vars, Tick, PackageStep, TransitionShipment,
     BankStep, PreviewBankStatement, CommitBankStatement,
     ExcludeBankLine, ConfirmBankMatch, CaseStep, CreateCodCollectionCase,
     RecordCodHandover, RecordCodCarrierCollection, RecordCodRemittance,
     MatchCodBank, CloseCodShortfall, RecordCodException

(* A receipt that is allocated as before. *)
LEMMA AllocationKept ==
    ASSUME TypeOK, TypeOK', AllocationsSettle, [Next]_vars, NEW p \in Receipts,
           receipt'[p].receivable = receipt[p].receivable,
           receipt'[p].allocated = receipt[p].allocated
    PROVE  AllocationOf(p)'
<1> SUFFICES ASSUME receipt[p].allocated > 0
             PROVE  AllocationOf(p)'
  BY DEF AllocationOf
<1> DEFINE r == receipt[p].receivable
           settled == receivable'[r].charged - receivable'[r].outstanding
<1>1. r \in Receivables /\ receipt[p].allocated <= SettledOn(r)
  BY DEF AllocationsSettle, AllocationOf
<1>2. SettledOn(r) <= settled
  BY <1>1, SettledNeverFalls DEF SettledOn
<1>3. SettledOn(r) \in Int /\ receipt[p].allocated \in Int
  BY <1>1, SettledIsAnAmount, CodAssumption DEF TypeOK, Receipt
<1>4. settled \in Int
  BY <1>1, CodAssumption DEF TypeOK, Balance
<1>5. receipt[p].allocated <= settled
  <2> HIDE DEF settled
  <2> QED
    BY <1>1, <1>2, <1>3, <1>4
<1> QED
  BY <1>1, <1>5 DEF AllocationOf, SettledOn

(* A receipt whose allocation grows by what the step settles. *)
LEMMA AllocationGrows ==
    ASSUME TypeOK, TypeOK', AllocationsSettle, [Next]_vars,
           NEW p \in Receipts, NEW r \in Receivables, NEW amount \in Nat,
           Settle(r, amount), receipt'[p].receivable \in {r, None},
           receipt'[p].allocated > 0 => receipt'[p].receivable = r,
           \/ receipt'[p].allocated = amount
           \/ /\ receipt'[p].allocated = receipt[p].allocated + amount
              /\ receipt[p].receivable \in {None, r},
           \A q \in Receipts \ {p} : receipt'[q] = receipt[q]
    PROVE  AllocationsSettle'
<1>1. SettledOn(r)' = SettledOn(r) + amount /\ SettledOn(r) \in Int /\ SettledOn(r) >= 0
  BY Settling, SettledIsAnAmount
<1>2. receipt[p].allocated \in Nat
  BY CodAssumption DEF TypeOK, Receipt
<1>3. receipt'[p].allocated <= SettledOn(r)'
  <2>1. CASE receipt'[p].allocated = amount
    BY <1>1, <2>1
  <2>2. CASE /\ receipt'[p].allocated = receipt[p].allocated + amount
             /\ receipt[p].receivable \in {None, r}
    <3>1. receipt[p].allocated <= SettledOn(r)
      <4>1. CASE receipt[p].allocated = 0
        BY <1>1, <4>1
      <4>2. CASE receipt[p].allocated > 0
        <5>1. /\ receipt[p].receivable \in Receivables
              /\ receipt[p].allocated <= SettledOn(receipt[p].receivable)
          BY <4>2 DEF AllocationsSettle, AllocationOf
        <5>2. receipt[p].receivable = r
          BY <2>2, <5>1, CodAssumption
        <5> QED
          BY <5>1, <5>2
      <4> QED
        BY <1>2, <4>1, <4>2
    <3> QED
      BY <1>1, <1>2, <2>2, <3>1
  <2> QED
    BY <2>1, <2>2
<1>4. \A q \in Receipts \ {p} : AllocationOf(q)'
  BY AllocationKept
<1>5. SettledOn(r)' = receivable'[r].charged - receivable'[r].outstanding
  BY DEF SettledOn
<1>6. AllocationOf(p)'
  BY <1>3, <1>5 DEF AllocationOf, SettledOn
<1> QED
  BY <1>4, <1>6 DEF AllocationsSettle

LEMMA AllocationsStep ==
    ASSUME TypeOK, TypeOK', AllocationsSettle, [Next]_vars
    PROVE  AllocationsSettle'
<1>f. DOMAIN receipt = Receipts /\ \A p \in Receipts : receipt[p] \in Receipt
  BY DEF TypeOK
<1>1. CASE \A p \in Receipts :
             /\ receipt'[p].receivable = receipt[p].receivable
             /\ receipt'[p].allocated = receipt[p].allocated
  BY <1>1, AllocationKept DEF AllocationsSettle
<1>2. ASSUME NEW p \in Receipts, NEW r \in Receivables, NEW a \in Actors,
             NEW amount \in Charges, NEW allocated \in 0..amount,
             RecordPayment(p, amount, r, allocated, a)
      PROVE  AllocationsSettle'
  <2>1. /\ receipt'[p].receivable = IF allocated = 0 THEN None ELSE r
        /\ receipt'[p].allocated = allocated
        /\ \A q \in Receipts \ {p} : receipt'[q] = receipt[q]
        /\ Settle(r, allocated)
    BY <1>2, <1>f DEF RecordPayment
  <2>2. allocated \in Nat
    OBVIOUS
  <2>3. receipt'[p].allocated > 0 => receipt'[p].receivable = r
    BY <2>1, <2>2
  <2>4. receipt'[p].receivable \in {r, None}
    BY <2>1
  <2> QED
    BY <2>1, <2>2, <2>3, <2>4, AllocationGrows
<1>3. ASSUME NEW p \in Receipts, NEW r \in Receivables, NEW amount \in Charges,
             ApplyUnappliedReceipt(p, r, amount)
      PROVE  AllocationsSettle'
  <2>1. /\ receipt'[p].receivable = r
        /\ receipt'[p].allocated = receipt[p].allocated + amount
        /\ receipt[p].receivable \in {None, r}
        /\ \A q \in Receipts \ {p} : receipt'[q] = receipt[q]
        /\ Settle(r, amount)
    BY <1>3, <1>f DEF ApplyUnappliedReceipt, Receipt
  <2>2. amount \in Nat
    BY DEF Charges
  <2> QED
    BY <2>1, <2>2, AllocationGrows
<1>4. ASSUME NEW p \in Receipts,
             ReconcilePayment(p) \/ \E l \in BankLines, a \in Actors : ConfirmBankMatch(l, p, a)
      PROVE  AllocationsSettle'
  <2>1. receipt' = [receipt EXCEPT ![p] = [@ EXCEPT !.status = "reconciled"]]
    BY <1>4 DEF ReconcilePayment, ConfirmBankMatch
  <2> QED
    BY <1>1, <1>f, <2>1 DEF Receipt
<1>5. CASE UNCHANGED receipt
  BY <1>1, <1>5
<1> QED
  BY <1>2, <1>3, <1>4, <1>5, ReceivableMoves DEF Next, vars, Tick, PackageStep,
     TransitionShipment, ReceiptStep, BankStep, PreviewBankStatement,
     CommitBankStatement, ExcludeBankLine, CaseStep, CreateCodCollectionCase,
     RecordCodHandover, RecordCodCarrierCollection, RecordCodRemittance,
     MatchCodBank, CloseCodShortfall, RecordCodException

LEMMA CashAfterOthers ==
    ASSUME TypeOK, TypeOK', CashInv, [Next]_vars, NEW c \in Cases, cod'[c] = cod[c]
    PROVE  CashOf(c)'
<1>1. CashOf(c)
  BY DEF CashInv
<1>2. CASE cod[c].line = None
  BY <1>1, <1>2 DEF CashOf
<1>3. CASE cod[c].line # None
  <2> DEFINE r == cod[c].receivable
  <2>1. r \in Receivables /\ cod[c].remitted <= SettledOn(r)
    BY <1>1, <1>3 DEF CashOf
  <2>2. SettledOn(r) <= receivable'[r].charged - receivable'[r].outstanding
    BY <2>1, SettledNeverFalls DEF SettledOn
  <2>3. SettledOn(r) \in Int /\ cod[c].remitted \in Int
    BY <2>1, SettledIsAnAmount, CodAssumption DEF TypeOK, Case
  <2>4. receivable'[r].charged - receivable'[r].outstanding \in Int
    BY <2>1, CodAssumption DEF TypeOK, Balance
  <2>5. cod[c].remitted <= receivable'[r].charged - receivable'[r].outstanding
    BY <2>1, <2>2, <2>3, <2>4
  <2> QED
    BY <1>1, <2>1, <2>5 DEF CashOf, SettledOn
<1> QED
  BY <1>2, <1>3

LEMMA CashAfterCases ==
    ASSUME TypeOK, TypeOK', CashInv, EvidenceInv, CaseStep
    PROVE  \A c \in Cases : CashOf(c)'
<1>f. DOMAIN cod = Cases /\ \A c \in Cases : cod[c] \in Case /\ CashOf(c)
  BY DEF TypeOK, CashInv
<1>n. [Next]_vars
  BY DEF Next
<1>0. ASSUME NEW c \in Cases, CashOf(c)', \A d \in Cases \ {c} : cod'[d] = cod[d]
      PROVE  \A d \in Cases : CashOf(d)'
  BY <1>0, <1>n, CashAfterOthers
<1>e. \A c \in Cases : cod[c].status \notin {"bank-matched", "shortfall"} => cod[c].line = None
  BY DEF EvidenceInv, CaseEvidence
<1>1. ASSUME NEW c \in Cases, NEW s \in Shipments, NEW r \in Receivables,
             CreateCodCollectionCase(c, s, r)
      PROVE  \A d \in Cases : CashOf(d)'
  <2>1. CashOf(c)'
    BY <1>1, CreatedCase DEF CashOf
  <2> QED
    BY <1>1, <2>1, <1>0, CreatedCase
<1>2. ASSUME NEW c \in Cases,
             \/ \E t \in Instants : RecordCodHandover(c, t)
             \/ \E outcome \in {"refused-rto", "cancelled"}, t \in Instants :
                  RecordCodException(c, outcome, t)
      PROVE  \A d \in Cases : CashOf(d)'
  <2> DEFINE Kept == /\ cod'[c].status # "bank-matched" /\ cod'[c].line = None
                     /\ cod'[c].remitted = cod[c].remitted
                     /\ cod'[c].collected = cod[c].collected
                     /\ \A d \in Cases \ {c} : cod'[d] = cod[d]
  <2>1. Kept
    <3>1. ASSUME NEW t \in Instants, RecordCodHandover(c, t)
          PROVE  Kept
      BY <3>1, <1>f, <1>e DEF RecordCodHandover, Case
    <3>2. ASSUME NEW outcome \in {"refused-rto", "cancelled"}, NEW t \in Instants,
                 RecordCodException(c, outcome, t)
          PROVE  Kept
      BY <3>2, <1>f, <1>e DEF RecordCodException, Case
    <3> QED
      BY <1>2, <3>1, <3>2
  <2>2. CashOf(c)'
    BY <2>1, <1>f DEF CashOf
  <2> QED
    BY <2>1, <2>2, <1>0
<1>3. ASSUME NEW c \in Cases, NEW amount \in Amounts, NEW t \in Instants,
             RecordCodCarrierCollection(c, amount, t)
      PROVE  \A d \in Cases : CashOf(d)'
  <2>1. /\ cod'[c].status # "bank-matched" /\ cod'[c].line = None
        /\ cod'[c].remitted = cod[c].remitted /\ cod'[c].collected = amount
        /\ cod[c].collected = 0
        /\ \A d \in Cases \ {c} : cod'[d] = cod[d]
    BY <1>3, <1>f, <1>e DEF RecordCodCarrierCollection, Case
  <2>2. cod[c].remitted <= amount
    BY <2>1, <1>f, CodAssumption DEF CashOf, Case, Amounts
  <2>3. CashOf(c)'
    BY <2>1, <2>2 DEF CashOf
  <2> QED
    BY <2>1, <2>3, <1>0
<1>4. ASSUME NEW c \in Cases, NEW amount \in Amounts, NEW a \in Actors, NEW t \in Instants,
             RecordCodRemittance(c, amount, a, t)
      PROVE  \A d \in Cases : CashOf(d)'
  <2>1. /\ cod'[c].status # "bank-matched" /\ cod'[c].line = None
        /\ cod'[c].remitted = amount /\ cod'[c].collected = cod[c].collected
        /\ amount <= cod[c].collected
        /\ \A d \in Cases \ {c} : cod'[d] = cod[d]
    BY <1>4, <1>f, <1>e DEF RecordCodRemittance, Case
  <2>2. CashOf(c)'
    BY <2>1 DEF CashOf
  <2> QED
    BY <2>1, <2>2, <1>0
<1>5. ASSUME NEW c \in Cases, NEW p \in Receipts, NEW l \in BankLines,
             MatchCodBank(c, p, l) \/ \E a \in Actors : CloseCodShortfall(c, p, l, a)
      PROVE  \A d \in Cases : CashOf(d)'
  <2> DEFINE Closed == /\ VerifiedBankEvidence(c, p, l, cod[c].remitted)
                       /\ cod'[c].line = l /\ cod'[c].receivable = cod[c].receivable
                       /\ cod'[c].remitted = cod[c].remitted
                       /\ cod'[c].collected = cod[c].collected
                       /\ cod'[c].status = "bank-matched" => cod[c].remitted = OrderValue
                       /\ cod[c].remitted > 0 /\ UNCHANGED receivable
                       /\ \A d \in Cases \ {c} : cod'[d] = cod[d]
  <2>1. Closed
    <3>1. CASE MatchCodBank(c, p, l)
      BY <3>1, <1>f, CodAssumption DEF MatchCodBank, Case
    <3>2. ASSUME NEW a \in Actors, CloseCodShortfall(c, p, l, a)
          PROVE  Closed
      BY <3>2, <1>f DEF CloseCodShortfall, Case
    <3> QED
      BY <1>5, <3>1, <3>2
  <2>2. /\ cod[c].receivable \in Receivables
        /\ cod[c].remitted <= SettledOn(cod[c].receivable)
    BY <2>1 DEF VerifiedBankEvidence, CashInv, AllocationsSettle, AllocationOf
  <2>3. l # None
    BY CodAssumption
  <2>4. CashOf(c)'
    BY <2>1, <2>2, <2>3, <1>f DEF CashOf, SettledOn
  <2> QED
    BY <2>1, <2>4, <1>0
<1> QED
  BY <1>1, <1>2, <1>3, <1>4, <1>5 DEF CaseStep

(* Nobody remits more than the carrier collected, and what bank evidence   *)
(* closed a case with was settled on the customer's receivable for good:   *)
(* notes and taxes charged later are owed on top of it, never instead.     *)
THEOREM MatchedCashIsDischarged == Spec => []CashIsDischarged
<1>1. Init => CashInv
  BY DEF Init, CashInv, CashOf, AllocationsSettle, AllocationOf, NoReceipt, NoCase
<1>2. CashInv /\ EvidenceInv /\ TypeOK /\ TypeOK' /\ [Next]_vars => CashInv'
  <2> SUFFICES ASSUME CashInv, EvidenceInv, TypeOK, TypeOK', [Next]_vars PROVE CashInv'
    OBVIOUS
  <2>1. AllocationsSettle'
    BY AllocationsStep DEF CashInv
  <2>2. CASE CaseStep
    BY <2>1, <2>2, CashAfterCases DEF CashInv
  <2>3. CASE UNCHANGED cod
    BY <2>1, <2>3, CashAfterOthers DEF CashInv
  <2> QED
    BY <2>2, <2>3, CaseStepOrNot
<1>3. CashInv /\ TypeOK => CashIsDischarged
  <2> SUFFICES ASSUME CashInv, TypeOK, NEW c \in Cases, cod[c].line # None
               PROVE  receivable[cod[c].receivable].outstanding <=
                        receivable[cod[c].receivable].charged - cod[c].remitted
    BY DEF CashInv, CashOf, CashIsDischarged
  <2>1. cod[c].receivable \in Receivables /\ cod[c].remitted <= SettledOn(cod[c].receivable)
    BY DEF CashInv, CashOf
  <2>2. /\ receivable[cod[c].receivable].outstanding \in Int
        /\ receivable[cod[c].receivable].charged \in Int /\ cod[c].remitted \in Int
    BY <2>1, CodAssumption DEF TypeOK, Balance, Case
  <2> QED
    BY <2>1, <2>2 DEF SettledOn
<1> QED
  BY <1>1, <1>2, <1>3, Typing, EvidenceInvariant, PTL DEF Spec

-----------------------------------------------------------------------------
(* Payroll.  What each step leaves, once and for all.                       *)

LEMMA PayrollTypeInit == PayrollInit => PayrollTypeOK
  BY DEF PayrollInit, PayrollTypeOK, NoPaper, NoAdjustment, NoRun, NoPeriod,
     PaperRecord, AdjustmentRecord, RunRecord, PeriodRecord, Maybe

LEMMA PaperStepTypeOK ==
    ASSUME PayrollTypeOK, NEW x \in Papers, NEW o \in Officers,
           SubmitPaper(x, o) \/ \E v \in {"active", "rejected"} : DecidePaper(x, o, v)
    PROVE  PayrollTypeOK'
<1>1. CASE SubmitPaper(x, o)
  BY <1>1 DEF PayrollTypeOK, SubmitPaper, PaperRecord, Maybe
<1>2. ASSUME NEW v \in {"active", "rejected"}, DecidePaper(x, o, v)
      PROVE  PayrollTypeOK'
  BY <1>2 DEF PayrollTypeOK, DecidePaper, PaperRecord
<1> QED
  BY <1>1, <1>2

LEMMA AdjustmentStepTypeOK ==
    ASSUME PayrollTypeOK, NEW j \in Adjustments, NEW o \in Officers,
           \/ \E e \in Employees, d \in Days : CreatePayrollAdjustment(j, e, d, o)
           \/ \E v \in {"approved", "rejected"} : DecidePayrollAdjustment(j, o, v)
    PROVE  PayrollTypeOK'
<1>1. ASSUME NEW e \in Employees, NEW d \in Days, CreatePayrollAdjustment(j, e, d, o)
      PROVE  PayrollTypeOK'
  BY <1>1 DEF PayrollTypeOK, CreatePayrollAdjustment, AdjustmentRecord, Maybe
<1>2. ASSUME NEW v \in {"approved", "rejected"}, DecidePayrollAdjustment(j, o, v)
      PROVE  PayrollTypeOK'
  BY <1>2 DEF PayrollTypeOK, DecidePayrollAdjustment, AdjustmentRecord, Maybe
<1> QED
  BY <1>1, <1>2

LEMMA RunStepTypeOK ==
    ASSUME PayrollTypeOK, NEW r \in Runs, NEW o \in Officers,
           \/ \E from, to, pay \in Days, who \in SUBSET Employees :
                CreatePayrollRun(r, from, to, pay, who, o)
           \/ \E v \in {"approved", "rejected"} : DecidePayrollRun(r, o, v)
           \/ FinalizePayrollRun(r, o)
    PROVE  PayrollTypeOK'
<1>1. ASSUME NEW from \in Days, NEW to \in Days, NEW pay \in Days, NEW who \in SUBSET Employees,
             CreatePayrollRun(r, from, to, pay, who, o)
      PROVE  PayrollTypeOK'
  <2>1. AdjustmentsDue(to, who) \in SUBSET Adjustments /\ ActivePolicies \in SUBSET Policies
    BY DEF AdjustmentsDue, ActivePolicies
  <2>2. run' \in [Runs -> RunRecord]
    BY <1>1, <2>1 DEF PayrollTypeOK, CreatePayrollRun, RunRecord, Maybe
  <2>3. adjustment' \in [Adjustments -> AdjustmentRecord]
    <3>1. \A j \in Adjustments : [adjustment[j] EXCEPT !.status = "applied"] \in AdjustmentRecord
      BY DEF PayrollTypeOK, AdjustmentRecord
    <3> QED
      BY <1>1, <3>1 DEF PayrollTypeOK, CreatePayrollRun
  <2> QED
    BY <1>1, <2>2, <2>3 DEF PayrollTypeOK, CreatePayrollRun
<1>2. ASSUME NEW v \in {"approved", "rejected"}, DecidePayrollRun(r, o, v)
      PROVE  PayrollTypeOK'
  <2>1. [run[r] EXCEPT !.status = v, !.decider = o] \in RunRecord
    <3>1. run[r] \in RunRecord /\ o \in Maybe(Officers)
      BY DEF PayrollTypeOK, Maybe
    <3>2. [run[r] EXCEPT !.status = v] \in RunRecord
      BY <3>1 DEF RunRecord
    <3> QED
      BY <3>1, <3>2 DEF RunRecord
  <2>2. run' = [run EXCEPT ![r] = [run[r] EXCEPT !.status = v, !.decider = o]]
    BY <1>2 DEF DecidePayrollRun, PayrollTypeOK
  <2> QED
    BY <1>2, <2>1, <2>2 DEF PayrollTypeOK, DecidePayrollRun
<1>3. CASE FinalizePayrollRun(r, o)
  <2>1. run' \in [Runs -> RunRecord]
    <3>1. [run[r] EXCEPT !.status = "finalized"] \in RunRecord
      BY DEF PayrollTypeOK, RunRecord
    <3> QED
      BY <1>3, <3>1 DEF PayrollTypeOK, FinalizePayrollRun
  <2>2. obligation' \in [Runs -> [Policies ->
           {"none", "calculated", "reported", "paid", "reconciled"}]]
    BY <1>3 DEF PayrollTypeOK, FinalizePayrollRun
  <2> QED
    BY <1>3, <2>1, <2>2 DEF PayrollTypeOK, FinalizePayrollRun
<1> QED
  BY <1>1, <1>2, <1>3

LEMMA ObligationStepTypeOK ==
    ASSUME PayrollTypeOK, NEW r \in Runs, NEW p \in Policies,
           NEW to \in {"reported", "paid", "reconciled"}, UpdatePayrollObligation(r, p, to)
    PROVE  PayrollTypeOK'
  BY DEF PayrollTypeOK, UpdatePayrollObligation

LEMMA CloseStepTypeOK ==
    ASSUME PayrollTypeOK, NEW c \in Closes, NEW o \in Officers,
           \/ \E from, to \in Days : CreateClosePeriod(c, from, to, o)
           \/ \E v \in {"closed", "rejected"} : DecideClosePeriod(c, o, v)
           \/ ReopenClosePeriod(c, o)
    PROVE  PayrollTypeOK'
<1>1. ASSUME NEW from \in Days, NEW to \in Days, CreateClosePeriod(c, from, to, o)
      PROVE  PayrollTypeOK'
  BY <1>1 DEF PayrollTypeOK, CreateClosePeriod, PeriodRecord, Maybe
<1>2. ASSUME NEW v \in {"closed", "rejected"}, DecideClosePeriod(c, o, v)
      PROVE  PayrollTypeOK'
  <2>1. [period[c] EXCEPT !.status = v, !.decider = o] \in PeriodRecord
    BY DEF PayrollTypeOK, PeriodRecord, Maybe
  <2>2. period' = [period EXCEPT ![c] = [period[c] EXCEPT !.status = v, !.decider = o]]
    BY <1>2 DEF DecideClosePeriod, PayrollTypeOK
  <2> QED
    BY <1>2, <2>1, <2>2 DEF PayrollTypeOK, DecideClosePeriod
<1>3. CASE ReopenClosePeriod(c, o)
  BY <1>3 DEF PayrollTypeOK, ReopenClosePeriod, PeriodRecord
<1> QED
  BY <1>1, <1>2, <1>3

LEMMA PayrollTypeStep == PayrollTypeOK /\ [PayrollNext]_payrollVars => PayrollTypeOK'
<1>1. PayrollTypeOK /\ UNCHANGED payrollVars => PayrollTypeOK'
  BY DEF PayrollTypeOK, payrollVars
<1> QED
  BY <1>1, PaperStepTypeOK, AdjustmentStepTypeOK, RunStepTypeOK, ObligationStepTypeOK,
     CloseStepTypeOK DEF PayrollNext

(* Every payroll record keeps the shape its handlers give it.               *)
THEOREM PayrollTyping == PayrollSpec => []PayrollTypeOK
  BY PayrollTypeInit, PayrollTypeStep, PTL DEF PayrollSpec

-----------------------------------------------------------------------------
(* Wages.  The property is of finalised runs; the invariant is of all that  *)
(* may still become one, and of the adjustments of every run, those of      *)
(* rejected ones too: what a run took in is never taken by another.         *)

RunsApart ==
    \A r, q \in CurrentRuns :
      r # q /\ DatesOverlap(run[r].from, run[r].to, run[q].from, run[q].to) =>
        run[r].employees \cap run[q].employees = {}
AdjustmentsApart ==
    \A r, q \in Runs : r # q => run[r].adjustments \cap run[q].adjustments = {}
AdjustmentsTaken ==
    \A r \in Runs : \A j \in run[r].adjustments :
      adjustment[j].status = "applied" /\ adjustment[j].employee \in run[r].employees
AdjustmentsDecided ==
    \A j \in Adjustments : adjustment[j].status \in {"approved", "applied"} =>
      adjustment[j].decider \notin {None, adjustment[j].maker}

WagesInv == RunsApart /\ AdjustmentsApart /\ AdjustmentsTaken /\ AdjustmentsDecided

(* A run is decided or finalised: what it is about stays, and it stands in  *)
(* nobody's way who was not already there.                                  *)
LEMMA RunsMoveOn ==
    ASSUME WagesInv, UNCHANGED adjustment, CurrentRuns' \subseteq CurrentRuns,
           \A r \in Runs : /\ run'[r].from = run[r].from /\ run'[r].to = run[r].to
                           /\ run'[r].employees = run[r].employees
                           /\ run'[r].adjustments = run[r].adjustments
    PROVE  WagesInv'
<1>1. CurrentRuns \subseteq Runs
  BY DEF CurrentRuns
<1>2. RunsApart'
  BY <1>1 DEF WagesInv, RunsApart, DatesOverlap
<1> QED
  BY <1>2 DEF WagesInv, AdjustmentsApart, AdjustmentsTaken, AdjustmentsDecided

LEMMA WagesAfterAdjustment ==
    ASSUME PayrollTypeOK, WagesInv, NEW j \in Adjustments, NEW o \in Officers,
           \/ \E e \in Employees, d \in Days : CreatePayrollAdjustment(j, e, d, o)
           \/ \E v \in {"approved", "rejected"} : DecidePayrollAdjustment(j, o, v)
    PROVE  WagesInv'
<1>1. /\ UNCHANGED run
      /\ adjustment[j].status \in {"none", "submitted"}
      /\ \A k \in Adjustments \ {j} : adjustment'[k] = adjustment[k]
  BY DEF CreatePayrollAdjustment, DecidePayrollAdjustment, PayrollTypeOK
<1>2. adjustment'[j].status \in {"approved", "applied"} =>
        adjustment'[j].decider \notin {None, adjustment'[j].maker}
  <2>1. ASSUME NEW e \in Employees, NEW d \in Days, CreatePayrollAdjustment(j, e, d, o)
        PROVE  adjustment'[j].status = "submitted"
    BY <2>1 DEF CreatePayrollAdjustment, PayrollTypeOK
  <2>2. ASSUME NEW v \in {"approved", "rejected"}, DecidePayrollAdjustment(j, o, v)
        PROVE  /\ adjustment'[j].decider = o /\ adjustment'[j].maker = adjustment[j].maker
               /\ adjustment[j].maker # o
    BY <2>2 DEF DecidePayrollAdjustment, PayrollTypeOK, AdjustmentRecord
  <2>3. o # None
    BY PayrollAssumption
  <2> QED
    BY <2>1, <2>2, <2>3
<1>3. \A r \in Runs : j \notin run[r].adjustments /\ run[r].adjustments \subseteq Adjustments
  BY <1>1 DEF WagesInv, AdjustmentsTaken, PayrollTypeOK, RunRecord
<1>4. AdjustmentsTaken'
  BY <1>1, <1>3 DEF WagesInv, AdjustmentsTaken
<1>5. AdjustmentsDecided'
  BY <1>1, <1>2 DEF WagesInv, AdjustmentsDecided
<1> QED
  BY <1>1, <1>4, <1>5 DEF WagesInv, RunsApart, AdjustmentsApart, CurrentRuns

LEMMA WagesAfterNewRun ==
    ASSUME PayrollTypeOK, WagesInv, NEW r \in Runs, NEW o \in Officers,
           NEW from \in Days, NEW to \in Days, NEW pay \in Days, NEW who \in SUBSET Employees,
           CreatePayrollRun(r, from, to, pay, who, o)
    PROVE  WagesInv'
<1> DEFINE due == AdjustmentsDue(to, who)
<1>1. /\ run'[r].from = from /\ run'[r].to = to /\ run'[r].employees = who
      /\ run'[r].adjustments = due /\ run'[r].status = "submitted"
      /\ \A q \in Runs \ {r} : run'[q] = run[q]
  BY DEF CreatePayrollRun, PayrollTypeOK
<1>2. \A j \in Adjustments : adjustment'[j] =
        IF j \in due THEN [adjustment[j] EXCEPT !.status = "applied"] ELSE adjustment[j]
  BY DEF CreatePayrollRun
<1>3. \A j \in due : /\ j \in Adjustments /\ adjustment[j].status = "approved"
                     /\ adjustment[j].employee \in who
  BY DEF AdjustmentsDue
<1>4. \A j \in Adjustments : /\ adjustment'[j].employee = adjustment[j].employee
                             /\ adjustment'[j].maker = adjustment[j].maker
                             /\ adjustment'[j].decider = adjustment[j].decider
                             /\ j \in due => adjustment'[j].status = "applied"
                             /\ j \notin due => adjustment'[j].status = adjustment[j].status
  BY <1>2 DEF PayrollTypeOK, AdjustmentRecord
<1>5. \A q \in Runs : run[q].adjustments \cap due = {} /\ run[q].adjustments \subseteq Adjustments
  BY <1>3 DEF WagesInv, AdjustmentsTaken, PayrollTypeOK, RunRecord
<1>6. RunsApart'
  <2>1. \A q \in CurrentRuns :
          DatesOverlap(run[q].from, run[q].to, from, to) => run[q].employees \cap who = {}
    BY DEF CreatePayrollRun
  <2>2. \A q \in CurrentRuns' \ {r} : q \in CurrentRuns /\ q \in Runs \ {r}
    BY <1>1 DEF CurrentRuns
  <2>3. \A q \in CurrentRuns' \ {r} :
          /\ run'[q] = run[q]
          /\ DatesOverlap(run[q].from, run[q].to, from, to) =>
               run[q].employees \cap run'[r].employees = {}
    BY <1>1, <2>1, <2>2
  <2> QED
    BY <1>1, <2>2, <2>3 DEF WagesInv, RunsApart, DatesOverlap
<1> HIDE DEF due
<1>7. AdjustmentsApart'
  BY <1>1, <1>5 DEF WagesInv, AdjustmentsApart
<1>8. AdjustmentsTaken'
  BY <1>1, <1>3, <1>4, <1>5 DEF WagesInv, AdjustmentsTaken
<1>9. AdjustmentsDecided'
  BY <1>3, <1>4 DEF WagesInv, AdjustmentsDecided
<1> QED
  BY <1>6, <1>7, <1>8, <1>9 DEF WagesInv

LEMMA WagesAfterDecision ==
    ASSUME PayrollTypeOK, WagesInv, NEW r \in Runs, NEW o \in Officers,
           FinalizePayrollRun(r, o) \/ \E v \in {"approved", "rejected"} : DecidePayrollRun(r, o, v)
    PROVE  WagesInv'
<1>1. /\ UNCHANGED adjustment
      /\ run[r].status \in {"submitted", "approved"}
      /\ \A q \in Runs \ {r} : run'[q] = run[q]
  BY DEF FinalizePayrollRun, DecidePayrollRun, PayrollTypeOK
<1>2. /\ run'[r].from = run[r].from /\ run'[r].to = run[r].to
      /\ run'[r].employees = run[r].employees /\ run'[r].adjustments = run[r].adjustments
  <2>1. CASE FinalizePayrollRun(r, o)
    BY <2>1 DEF FinalizePayrollRun, PayrollTypeOK, RunRecord
  <2>2. ASSUME NEW v \in {"approved", "rejected"}, DecidePayrollRun(r, o, v)
        PROVE  /\ run'[r].from = run[r].from /\ run'[r].to = run[r].to
               /\ run'[r].employees = run[r].employees
               /\ run'[r].adjustments = run[r].adjustments
    BY <2>2 DEF DecidePayrollRun, PayrollTypeOK, RunRecord
  <2> QED
    BY <2>1, <2>2
<1>3. CurrentRuns' \subseteq CurrentRuns
  BY <1>1 DEF CurrentRuns
<1> QED
  BY <1>1, <1>2, <1>3, RunsMoveOn

LEMMA WagesStep == PayrollTypeOK /\ WagesInv /\ [PayrollNext]_payrollVars => WagesInv'
<1> SUFFICES ASSUME PayrollTypeOK, WagesInv, [PayrollNext]_payrollVars PROVE WagesInv'
  OBVIOUS
<1>1. CASE UNCHANGED <<run, adjustment>>
  BY <1>1 DEF WagesInv, RunsApart, AdjustmentsApart, AdjustmentsTaken, AdjustmentsDecided,
     CurrentRuns
<1> QED
  BY <1>1, WagesAfterAdjustment, WagesAfterNewRun, WagesAfterDecision
     DEF PayrollNext, payrollVars, SubmitPaper, DecidePaper, UpdatePayrollObligation,
         CreateClosePeriod, DecideClosePeriod, ReopenClosePeriod

(* Nobody is paid twice for a day and no adjustment twice, however many     *)
(* runs are submitted, rejected and followed by others.                     *)
THEOREM NobodyPaidTwice == PayrollSpec => []WagesPaidOnce
<1>1. PayrollInit => WagesInv
  BY DEF PayrollInit, WagesInv, RunsApart, AdjustmentsApart, AdjustmentsTaken,
     AdjustmentsDecided, CurrentRuns, NoRun, NoAdjustment
<1>2. PayrollTypeOK /\ WagesInv => WagesPaidOnce
  BY DEF WagesInv, RunsApart, AdjustmentsApart, AdjustmentsTaken, AdjustmentsDecided,
     CurrentRuns, WagesPaidOnce, PayrollTypeOK, RunRecord
<1> QED
  BY <1>1, <1>2, WagesStep, PayrollTyping, PTL DEF PayrollSpec

-----------------------------------------------------------------------------
(* Closed periods.  The property is inductive: what a close found settled   *)
(* stays settled, and no run is finalised into a closed period.             *)

LEMMA SettlementStep ==
    PayrollTypeOK /\ ClosedMonthIsSettled /\ [PayrollNext]_payrollVars => ClosedMonthIsSettled'
<1> SUFFICES ASSUME PayrollTypeOK, ClosedMonthIsSettled, [PayrollNext]_payrollVars
             PROVE  ClosedMonthIsSettled'
  OBVIOUS
<1> DEFINE Discharged == {"none", "reconciled"}
<1>1. CASE UNCHANGED <<run, obligation, period>>
  BY <1>1 DEF ClosedMonthIsSettled, InPeriod
<1>2. ASSUME NEW r \in Runs, NEW o \in Officers, NEW from \in Days, NEW to \in Days,
             NEW pay \in Days, NEW who \in SUBSET Employees,
             CreatePayrollRun(r, from, to, pay, who, o)
      PROVE  ClosedMonthIsSettled'
  <2>1. /\ run'[r].status = "submitted" /\ \A q \in Runs \ {r} : run'[q] = run[q]
        /\ UNCHANGED <<obligation, period>>
    BY <1>2 DEF CreatePayrollRun, PayrollTypeOK
  <2> QED
    BY <2>1 DEF ClosedMonthIsSettled, InPeriod
<1>3. ASSUME NEW r \in Runs, NEW o \in Officers, NEW v \in {"approved", "rejected"},
             DecidePayrollRun(r, o, v)
      PROVE  ClosedMonthIsSettled'
  <2>1. /\ run'[r].status # "finalized" /\ \A q \in Runs \ {r} : run'[q] = run[q]
        /\ UNCHANGED <<obligation, period>>
    BY <1>3 DEF DecidePayrollRun, PayrollTypeOK, RunRecord
  <2> QED
    BY <2>1 DEF ClosedMonthIsSettled, InPeriod
<1>4. ASSUME NEW r \in Runs, NEW o \in Officers, FinalizePayrollRun(r, o)
      PROVE  ClosedMonthIsSettled'
  <2>1. /\ ~ ClosedOn(run[r].pay) /\ run'[r].pay = run[r].pay
        /\ \A q \in Runs \ {r} : run'[q] = run[q] /\ obligation'[q] = obligation[q]
        /\ UNCHANGED period
    BY <1>4 DEF FinalizePayrollRun, PayrollTypeOK, RunRecord
  <2> QED
    BY <2>1 DEF ClosedMonthIsSettled, InPeriod, ClosedOn
<1>5. ASSUME NEW r \in Runs, NEW p \in Policies, NEW to \in {"reported", "paid", "reconciled"},
             UpdatePayrollObligation(r, p, to)
      PROVE  ClosedMonthIsSettled'
  <2>1. /\ obligation[r][p] \notin Discharged
        /\ \A q \in Runs, x \in Policies : <<q, x>> # <<r, p>> => obligation'[q][x] = obligation[q][x]
        /\ UNCHANGED <<run, period>>
    BY <1>5 DEF UpdatePayrollObligation, ObligationTransitions, PayrollTypeOK
  <2> QED
    BY <2>1 DEF ClosedMonthIsSettled, InPeriod
<1>6. ASSUME NEW c \in Closes, NEW o \in Officers,
             \/ \E from, to \in Days : CreateClosePeriod(c, from, to, o)
             \/ \E v \in {"closed", "rejected"} : DecideClosePeriod(c, o, v)
             \/ ReopenClosePeriod(c, o)
      PROVE  ClosedMonthIsSettled'
  <2>1. UNCHANGED <<run, obligation>> /\ \A d \in Closes \ {c} : period'[d] = period[d]
    BY <1>6 DEF CreateClosePeriod, DecideClosePeriod, ReopenClosePeriod, PayrollTypeOK
  <2>2. ASSUME period'[c].status = "closed"
        PROVE  /\ PayrollSettled(c)
               /\ period'[c].from = period[c].from /\ period'[c].to = period[c].to
    <3>1. ASSUME NEW from \in Days, NEW to \in Days, CreateClosePeriod(c, from, to, o)
          PROVE  FALSE
      BY <2>2, <3>1 DEF CreateClosePeriod, PayrollTypeOK
    <3>2. CASE ReopenClosePeriod(c, o)
      BY <2>2, <3>2 DEF ReopenClosePeriod, PayrollTypeOK, PeriodRecord
    <3>3. ASSUME NEW v \in {"closed", "rejected"}, DecideClosePeriod(c, o, v)
          PROVE  /\ PayrollSettled(c)
                 /\ period'[c].from = period[c].from /\ period'[c].to = period[c].to
      BY <2>2, <3>3 DEF DecideClosePeriod, PayrollTypeOK, PeriodRecord
    <3> QED
      BY <1>6, <3>1, <3>2, <3>3
  <2> QED
    BY <2>1, <2>2 DEF ClosedMonthIsSettled, PayrollSettled, InPeriod
<1> QED
  BY <1>1, <1>2, <1>3, <1>4, <1>5, <1>6
     DEF PayrollNext, payrollVars, SubmitPaper, DecidePaper, CreatePayrollAdjustment,
         DecidePayrollAdjustment

(* While a period is closed nothing is owed for the wages paid in it,       *)
(* whichever of the close and the finalisation came first.                  *)
THEOREM ClosedMonthsStaySettled == PayrollSpec => []ClosedMonthIsSettled
<1>1. PayrollInit => ClosedMonthIsSettled
  BY DEF PayrollInit, ClosedMonthIsSettled, NoPeriod
<1> QED
  BY <1>1, SettlementStep, PayrollTyping, PTL DEF PayrollSpec

-----------------------------------------------------------------------------
(* The provider.  Its packets are of payroll runs, which go on beside them: *)
(* what holds of payroll by itself holds here too, and a run that is        *)
(* finalised stays as it is.                                                *)

LEMMA PayrollGoesOn == ProviderSpec => PayrollSpec
<1>1. [ProviderNext]_<<payrollVars, providerVars>> => [PayrollNext]_payrollVars
  BY DEF ProviderNext
<1> QED
  BY <1>1, PTL DEF ProviderSpec, PayrollSpec

LEMMA FinalizedForGood ==
    ASSUME PayrollTypeOK, [PayrollNext]_payrollVars,
           NEW r \in Runs, run[r].status = "finalized"
    PROVE  run'[r] = run[r]
<1>1. CASE UNCHANGED run
  BY <1>1
<1>2. ASSUME NEW q \in Runs, NEW o \in Officers,
             \/ \E from, to, pay \in Days, who \in SUBSET Employees :
                  CreatePayrollRun(q, from, to, pay, who, o)
             \/ \E v \in {"approved", "rejected"} : DecidePayrollRun(q, o, v)
             \/ FinalizePayrollRun(q, o)
      PROVE  run'[r] = run[r]
  BY <1>2 DEF CreatePayrollRun, DecidePayrollRun, FinalizePayrollRun, PayrollTypeOK
<1> QED
  BY <1>1, <1>2 DEF PayrollNext, payrollVars, SubmitPaper, DecidePaper, CreatePayrollAdjustment,
     DecidePayrollAdjustment, UpdatePayrollObligation, CreateClosePeriod, DecideClosePeriod,
     ReopenClosePeriod

LEMMA SecretStepTypeOK ==
    ASSUME ProviderTypeOK, NEW f \in Fingerprints, ConfigureCredentials(f) \/ StopAfterVault(f)
    PROVE  ProviderTypeOK'
  BY DEF ProviderTypeOK, ConfigureCredentials, StopAfterVault, Resealed, Maybe

LEMMA ConformanceStepTypeOK ==
    ASSUME ProviderTypeOK, NEW o \in Officers,
           \/ \E c \in Capabilities : CreateConformanceCase(c, o)
           \/ PlanConformancePack(o)
           \/ \E k \in cases, v \in {"passed", "failed"} : RecordConformanceResult(k, o, v)
           \/ ApproveConnector(o)
    PROVE  ProviderTypeOK'
<1>p. \A c \in Capabilities : PlannedCase(c, o) \in ConformanceRecord
  BY DEF ProviderTypeOK, PlannedCase, ConformanceRecord, Maybe
<1>1. ASSUME NEW c \in Capabilities, CreateConformanceCase(c, o)
      PROVE  ProviderTypeOK'
  BY <1>1, <1>p DEF ProviderTypeOK, CreateConformanceCase
<1>2. CASE PlanConformancePack(o)
  <2>1. cases' \subseteq ConformanceRecord
    BY <1>2, <1>p DEF PlanConformancePack, ProviderTypeOK
  <2> QED
    BY <1>2, <2>1 DEF PlanConformancePack, ProviderTypeOK
<1>3. ASSUME NEW k \in cases, NEW v \in {"passed", "failed"}, RecordConformanceResult(k, o, v)
      PROVE  ProviderTypeOK'
  <2>1. [k EXCEPT !.result = v, !.assessor = o] \in ConformanceRecord
    BY DEF ProviderTypeOK, ConformanceRecord, Maybe
  <2> QED
    BY <1>3, <2>1 DEF ProviderTypeOK, RecordConformanceResult
<1>4. CASE ApproveConnector(o)
  BY <1>4 DEF ProviderTypeOK, ApproveConnector, Maybe
<1> QED
  BY <1>1, <1>2, <1>3, <1>4

LEMMA PacketStepTypeOK ==
    ASSUME ProviderTypeOK,
           \/ \E s \in Packets, o \in Officers :
                \/ \E r \in Runs : PrepareSubmission(s, r, o)
                \/ HandOffSubmission(s, o)
                \/ \E v \in {"acknowledged", "failed"} : RecordSubmissionResponse(s, o, v)
           \/ \E asked \in SUBSET Packets :
                \E outcome \in [asked -> {"acknowledged", "failed"}] : Reconcile(asked, outcome)
    PROVE  ProviderTypeOK'
<1>1. ASSUME NEW s \in Packets, NEW o \in Officers, NEW r \in Runs, PrepareSubmission(s, r, o)
      PROVE  ProviderTypeOK'
  BY <1>1 DEF ProviderTypeOK, PrepareSubmission, PacketRecord, Maybe
<1>2. ASSUME NEW s \in Packets, NEW o \in Officers, HandOffSubmission(s, o)
      PROVE  ProviderTypeOK'
  <2>1. [packet[s] EXCEPT !.status = "handed-off", !.handler = o] \in PacketRecord
    <3>1. packet[s] \in PacketRecord /\ o \in Maybe(Officers)
      BY DEF ProviderTypeOK, Maybe
    <3>2. [packet[s] EXCEPT !.status = "handed-off"] \in PacketRecord
      BY <3>1 DEF PacketRecord
    <3> QED
      BY <3>1, <3>2 DEF PacketRecord
  <2>2. packet' = [packet EXCEPT ![s] = [packet[s] EXCEPT !.status = "handed-off", !.handler = o]]
    BY <1>2 DEF HandOffSubmission, ProviderTypeOK
  <2> QED
    BY <1>2, <2>1, <2>2 DEF ProviderTypeOK, HandOffSubmission
<1>3. ASSUME NEW s \in Packets, NEW o \in Officers, NEW v \in {"acknowledged", "failed"},
             RecordSubmissionResponse(s, o, v)
      PROVE  ProviderTypeOK'
  <2>1. [packet[s] EXCEPT !.status = v] \in PacketRecord
    BY DEF ProviderTypeOK, PacketRecord
  <2> QED
    BY <1>3, <2>1 DEF ProviderTypeOK, RecordSubmissionResponse
<1>4. ASSUME NEW asked \in SUBSET Packets, NEW outcome \in [asked -> {"acknowledged", "failed"}],
             Reconcile(asked, outcome)
      PROVE  ProviderTypeOK'
  <2>1. \A s \in asked : [packet[s] EXCEPT !.status = outcome[s]] \in PacketRecord
    BY DEF ProviderTypeOK, PacketRecord
  <2> QED
    BY <1>4, <2>1 DEF ProviderTypeOK, Reconcile
<1> QED
  BY <1>1, <1>2, <1>3, <1>4

LEMMA ProviderTypeStep ==
    ProviderTypeOK /\ [ProviderNext]_<<payrollVars, providerVars>> => ProviderTypeOK'
<1>1. ProviderTypeOK /\ UNCHANGED providerVars => ProviderTypeOK'
  BY DEF ProviderTypeOK, providerVars
<1>2. ProviderTypeOK /\ ProviderStep => ProviderTypeOK'
  <2> SUFFICES ASSUME ProviderTypeOK, ProviderStep PROVE ProviderTypeOK'
    OBVIOUS
  <2>1. CASE \E f \in Fingerprints : ConfigureCredentials(f) \/ StopAfterVault(f)
    BY <2>1, SecretStepTypeOK
  <2>2. CASE \/ \E c \in Capabilities, o \in Officers : CreateConformanceCase(c, o)
             \/ \E o \in Officers : PlanConformancePack(o) \/ ApproveConnector(o)
             \/ \E k \in cases, o \in Officers, v \in {"passed", "failed"} :
                  RecordConformanceResult(k, o, v)
    BY <2>2, ConformanceStepTypeOK
  <2> QED
    BY <2>1, <2>2, PacketStepTypeOK DEF ProviderStep
<1> QED
  BY <1>1, <1>2 DEF ProviderNext

(* Secrets, conformance cases and packets keep their shape.                 *)
THEOREM ProviderTyping == ProviderSpec => []ProviderTypeOK
<1>1. ProviderInit => ProviderTypeOK
  BY DEF ProviderInit, ProviderTypeOK, NoPacket, PacketRecord, Maybe
<1> QED
  BY <1>1, ProviderTypeStep, PTL DEF ProviderSpec

-----------------------------------------------------------------------------
(* Certification.  A packet that is prepared under the secret of today is    *)
(* one the connector was approved under, and what it was approved on is      *)
(* still there: evidence of a revision is never taken back, and a new secret *)
(* withdraws the approval and outdates every packet at once.                 *)

ApprovalIsBacked == connector.approver # None => Covered({connector.approver})
PacketIsBacked(s) ==
    packet[s].status = "prepared" =>
      /\ packet[s].run \in Runs /\ run[packet[s].run].status = "finalized"
      /\ packet[s].revision <= connector.revision
      /\ packet[s].revision = connector.revision => connector.approver # None

CertificationInv == ApprovalIsBacked /\ \A s \in Packets : PacketIsBacked(s)

Passed == {k \in Current : k.result = "passed"}

(* More evidence for the same secret covers no less. *)
LEMMA CoverageStays ==
    ASSUME Passed \subseteq Passed', NEW without, Covered(without)
    PROVE  \A c \in Capabilities : \E k \in Current' :
             k.capability = c /\ k.result = "passed" /\ k.assessor \notin without
  BY DEF Passed, Covered

LEMMA CertificationAfterSecret ==
    ASSUME ProviderTypeOK, CertificationInv, UNCHANGED run,
           NEW f \in Fingerprints, ConfigureCredentials(f) \/ StopAfterVault(f)
    PROVE  CertificationInv'
<1>1. UNCHANGED <<cases, packet>>
  BY DEF ConfigureCredentials, StopAfterVault
<1>2. CASE UNCHANGED connector
  BY <1>1, <1>2 DEF CertificationInv, ApprovalIsBacked, PacketIsBacked, Covered, Current
<1>3. CASE connector' = [fingerprint |-> f, revision |-> connector.revision + 1, approver |-> None]
  <2>1. connector'.approver = None /\ connector'.revision = connector.revision + 1
    BY <1>3
  <2>2. connector.revision \in Nat /\ \A s \in Packets : packet[s].revision \in Nat
    BY DEF ProviderTypeOK, PacketRecord
  <2>3. \A s \in Packets : PacketIsBacked(s)'
    BY <1>1, <2>1, <2>2 DEF CertificationInv, PacketIsBacked
  <2> QED
    BY <2>1, <2>3 DEF CertificationInv, ApprovalIsBacked
<1> QED
  BY <1>2, <1>3 DEF ConfigureCredentials, StopAfterVault, Resealed

LEMMA CertificationAfterCases ==
    ASSUME ProviderTypeOK, CertificationInv, UNCHANGED run, NEW o \in Officers,
           \/ \E c \in Capabilities : CreateConformanceCase(c, o)
           \/ PlanConformancePack(o)
           \/ \E k \in cases, v \in {"passed", "failed"} : RecordConformanceResult(k, o, v)
    PROVE  CertificationInv'
<1>1. UNCHANGED <<connector, packet>>
  BY DEF CreateConformanceCase, PlanConformancePack, RecordConformanceResult
<1>2. Passed \subseteq Passed'
  BY <1>1 DEF CreateConformanceCase, PlanConformancePack, RecordConformanceResult, Passed, Current
<1>3. ApprovalIsBacked'
  BY <1>1, <1>2, CoverageStays DEF CertificationInv, ApprovalIsBacked, Covered
<1> QED
  BY <1>1, <1>3 DEF CertificationInv, PacketIsBacked

LEMMA CertificationAfterApproval ==
    ASSUME ProviderTypeOK, CertificationInv, UNCHANGED run, NEW o \in Officers,
           ApproveConnector(o)
    PROVE  CertificationInv'
<1>1. /\ connector'.approver = o /\ connector'.revision = connector.revision
      /\ UNCHANGED <<cases, packet>> /\ Covered({o})
  BY DEF ApproveConnector, ProviderTypeOK
<1>2. o # None
  BY PayrollAssumption
<1>3. ApprovalIsBacked'
  BY <1>1 DEF ApprovalIsBacked, Covered, Current
<1> QED
  BY <1>1, <1>2, <1>3 DEF CertificationInv, PacketIsBacked

LEMMA CertificationAfterPacket ==
    ASSUME ProviderTypeOK, CertificationInv, UNCHANGED run,
           \/ \E s \in Packets, o \in Officers :
                \/ \E r \in Runs : PrepareSubmission(s, r, o)
                \/ HandOffSubmission(s, o)
                \/ \E v \in {"acknowledged", "failed"} : RecordSubmissionResponse(s, o, v)
           \/ \E asked \in SUBSET Packets :
                \E outcome \in [asked -> {"acknowledged", "failed"}] : Reconcile(asked, outcome)
    PROVE  CertificationInv'
<1>1. UNCHANGED <<connector, cases>>
  BY DEF PrepareSubmission, HandOffSubmission, RecordSubmissionResponse, Reconcile
<1>2. ApprovalIsBacked'
  BY <1>1 DEF CertificationInv, ApprovalIsBacked, Covered, Current
<1>3. \A s \in Packets : packet'[s] = packet[s] \/ packet'[s].status # "prepared" =>
        PacketIsBacked(s)'
  BY <1>1 DEF CertificationInv, PacketIsBacked
<1>4. ASSUME NEW s \in Packets, NEW o \in Officers, NEW r \in Runs, PrepareSubmission(s, r, o)
      PROVE  \A x \in Packets : PacketIsBacked(x)'
  <2>1. /\ packet'[s].run = r /\ packet'[s].revision = connector.revision
        /\ connector.approver # None /\ run[r].status = "finalized"
        /\ \A x \in Packets \ {s} : packet'[x] = packet[x]
    BY <1>4 DEF PrepareSubmission, ProviderTypeOK
  <2>2. connector.revision \in Nat
    BY DEF ProviderTypeOK
  <2>3. PacketIsBacked(s)'
    BY <1>1, <2>1, <2>2 DEF PacketIsBacked
  <2> QED
    BY <1>3, <2>1, <2>3
<1>5. ASSUME NEW s \in Packets, NEW o \in Officers,
             \/ HandOffSubmission(s, o)
             \/ \E v \in {"acknowledged", "failed"} : RecordSubmissionResponse(s, o, v)
      PROVE  \A x \in Packets : PacketIsBacked(x)'
  <2>1. /\ packet'[s].status # "prepared"
        /\ \A x \in Packets \ {s} : packet'[x] = packet[x]
    BY <1>5 DEF HandOffSubmission, RecordSubmissionResponse, ProviderTypeOK, PacketRecord
  <2> QED
    BY <1>3, <2>1
<1>6. ASSUME NEW asked \in SUBSET Packets, NEW outcome \in [asked -> {"acknowledged", "failed"}],
             Reconcile(asked, outcome)
      PROVE  \A x \in Packets : PacketIsBacked(x)'
  <2>1. \A x \in Packets : packet'[x] = packet[x] \/ packet'[x].status # "prepared"
    BY <1>6 DEF Reconcile, ProviderTypeOK, PacketRecord
  <2> QED
    BY <1>3, <2>1
<1> QED
  BY <1>2, <1>4, <1>5, <1>6 DEF CertificationInv

LEMMA CertificationStep ==
    PayrollTypeOK /\ ProviderTypeOK /\ CertificationInv
      /\ [ProviderNext]_<<payrollVars, providerVars>> => CertificationInv'
<1> SUFFICES ASSUME PayrollTypeOK, ProviderTypeOK, CertificationInv,
                    [ProviderNext]_<<payrollVars, providerVars>>
             PROVE  CertificationInv'
  OBVIOUS
<1>1. CASE ProviderStep /\ UNCHANGED payrollVars
  <2>1. UNCHANGED run
    BY <1>1 DEF payrollVars
  <2>2. CASE \E f \in Fingerprints : ConfigureCredentials(f) \/ StopAfterVault(f)
    BY <2>1, <2>2, CertificationAfterSecret
  <2>3. CASE \/ \E c \in Capabilities, o \in Officers : CreateConformanceCase(c, o)
             \/ \E o \in Officers : PlanConformancePack(o) \/ ApproveConnector(o)
             \/ \E k \in cases, o \in Officers, v \in {"passed", "failed"} :
                  RecordConformanceResult(k, o, v)
    BY <2>1, <2>3, CertificationAfterCases, CertificationAfterApproval
  <2> QED
    BY <1>1, <2>1, <2>2, <2>3, CertificationAfterPacket DEF ProviderStep
<1>2. CASE [PayrollNext]_payrollVars /\ UNCHANGED providerVars
  <2>1. \A s \in Packets : PacketIsBacked(s)'
    BY <1>2, FinalizedForGood DEF CertificationInv, PacketIsBacked, providerVars
  <2>2. ApprovalIsBacked'
    BY <1>2 DEF CertificationInv, ApprovalIsBacked, Covered, Current, providerVars
  <2> QED
    BY <2>1, <2>2 DEF CertificationInv
<1> QED
  BY <1>1, <1>2 DEF ProviderNext

(* A packet of wages goes out only under a secret that was approved and     *)
(* assessed, each capability by somebody other than the approver, and for a *)
(* run that is finalised, although the hand-off looks at none of these.     *)
THEOREM WagesGoOutCertified == ProviderSpec => HandoffIsCertified
<1>1. PayrollInit /\ ProviderInit => CertificationInv
  BY DEF ProviderInit, CertificationInv, ApprovalIsBacked, PacketIsBacked, NoPacket
<1>2. CertificationInv /\ ProviderTypeOK /\ [ProviderNext]_<<payrollVars, providerVars>> =>
        [\A s \in Packets :
           packet[s].status = "prepared" /\ packet'[s].status = "handed-off" =>
             /\ connector.approver # None
             /\ Covered({connector.approver})
             /\ run[packet[s].run].status = "finalized"]_<<payrollVars, providerVars>>
  <2> SUFFICES ASSUME CertificationInv, ProviderTypeOK, ProviderNext, NEW s \in Packets,
                      packet[s].status = "prepared", packet'[s].status = "handed-off"
               PROVE  /\ connector.approver # None
                      /\ Covered({connector.approver})
                      /\ run[packet[s].run].status = "finalized"
    OBVIOUS
  <2>1. ASSUME NEW t \in Packets, NEW o \in Officers, NEW r \in Runs, PrepareSubmission(t, r, o)
        PROVE  FALSE
    BY <2>1 DEF PrepareSubmission, ProviderTypeOK
  <2>2. ASSUME NEW t \in Packets, NEW o \in Officers, NEW v \in {"acknowledged", "failed"},
               RecordSubmissionResponse(t, o, v)
        PROVE  FALSE
    BY <2>2 DEF RecordSubmissionResponse, ProviderTypeOK, PacketRecord
  <2>3. ASSUME NEW asked \in SUBSET Packets,
               NEW outcome \in [asked -> {"acknowledged", "failed"}], Reconcile(asked, outcome)
        PROVE  FALSE
    BY <2>3 DEF Reconcile, ProviderTypeOK, PacketRecord
  <2>4. packet' # packet
    OBVIOUS
  <2>5. PICK t \in Packets, o \in Officers : HandOffSubmission(t, o)
    BY <2>1, <2>2, <2>3, <2>4 DEF ProviderNext, ProviderStep, providerVars, ConfigureCredentials,
       StopAfterVault, CreateConformanceCase, PlanConformancePack, ApproveConnector,
       RecordConformanceResult
  <2>6. t = s
    BY <2>5 DEF HandOffSubmission, ProviderTypeOK
  <2> QED
    BY <2>5, <2>6 DEF HandOffSubmission, PreparedNow, CertificationInv, ApprovalIsBacked,
       PacketIsBacked
<1> QED
  BY <1>1, <1>2, CertificationStep, ProviderTyping, PayrollGoesOn, PayrollTyping, PTL
     DEF ProviderSpec, HandoffIsCertified

=============================================================================
