-------------------------- MODULE MCCustodyAndWages --------------------------
(* Money that passes through the hands of others.  Small instances of      *)
(* CodCustody: one parcel in depth, with two carriers, partial amounts and *)
(* a clock; two parcels delivered and paid in full whose evidence may be   *)
(* confused; and one parcel at the door while notes, taxes and write-offs  *)
(* move its receivable.  Of Payroll: what runs rest on and how they        *)
(* overlap, and their settlement against two closes.  And of               *)
(* ProviderHandoffs, for one run that is finalised.                        *)
EXTENDS CodCustody, ProviderHandoffs, TLC

CONSTANTS d1, d2, s1, s2, k2, tax, welfare, office

VARIABLE desk   \* what a behaviour is about

MCPromiseOf == [s \in Shipments |-> IF s = s1 THEN d1 ELSE d2]
MCAuthorityOf == [p \in Policies |-> IF p = tax THEN office ELSE None]
MCMonthOf == <<1, 1, 2>>

others == <<payrollVars, providerVars>>

-----------------------------------------------------------------------------
(* Parcels. *)

Paying ==
    ({receipt'[p].receivable : p \in Receipts} \cup {cod'[c].receivable : c \in Cases}) \ {None}
BeforeDelivery == {"planned", "packed", "ready-to-dispatch", "dispatched"}
AllOrNothing == {0, OrderValue}
UpToTheOrder == 0..OrderValue
OneParcel ==
    /\ Tick \/ PackageStep \/ ReceiptStep \/ BankStep \/ CaseStep
    /\ package'[s2] = package[s2]
    /\ Cardinality(Paying) <= 1
    /\ \A p \in Receipts : receipt'[p].amount \in UpToTheOrder
    /\ \A l \in BankLines : bankLine'[l].credit \in UpToTheOrder
TwoParcels ==
    /\ PackageStep \/ ReceiptStep \/ BankStep \/ CaseStep
    /\ package[s2] # package'[s2] => package[s1].status \notin BeforeDelivery
    /\ \A s \in Shipments : /\ package'[s].carrier # k2
                            /\ package'[s].status \notin
                                 {"in-transit", "cancelled", "return-in-progress"}
    /\ \A p \in Receipts :
         receipt'[p].amount \in AllOrNothing /\ receipt'[p].allocated \in AllOrNothing
    /\ \A l \in BankLines : bankLine'[l].credit \in AllOrNothing
    /\ \A c \in Cases :
         /\ cod'[c].collected \in AllOrNothing /\ cod'[c].remitted \in AllOrNothing
         /\ {cod'[c].handedAt, cod'[c].collectedAt, cod'[c].remittedAt} \subseteq {0, 1}

(* One parcel at its customer's door, whose receivable notes, taxes and    *)
(* write-offs change while the cash comes in.                              *)
AtTheDoor ==
    /\ now = 1
    /\ package = [s \in Shipments |-> IF s = s1 THEN [status |-> "delivered", carrier |-> PromisedCarrier]
                                      ELSE [status |-> "planned", carrier |-> None]]
    /\ promise = [d \in Promises |-> IF d = d1 THEN "fulfilled" ELSE "active"]
    /\ receivable = [r \in Receivables |-> [charged |-> OrderValue, outstanding |-> OrderValue]]
    /\ receipt = [p \in Receipts |-> NoReceipt]
    /\ bankLine = [l \in BankLines |-> NoLine]
    /\ \E c \in Cases, r \in Receivables :
         cod = [[x \in Cases |-> NoCase] EXCEPT ![c] = [NoCase EXCEPT
           !.status = "handed-to-carrier", !.package = s1, !.receivable = r, !.handedAt = 1]]
OneBalance ==
    /\ ReceivableStep \/ ReceiptStep \/ BankStep \/ CaseStep
    /\ \A r \in Receivables :
         r \notin {cod[c].receivable : c \in Cases} => receivable'[r] = receivable[r]
    /\ Cardinality(Paying) <= 1
    /\ \A c \in Cases : {cod'[c].collectedAt, cod'[c].remittedAt} \subseteq {0, 1}

Parcels ==
    /\ UNCHANGED others
    /\ \/ desk = "one parcel" /\ OneParcel
       \/ desk = "two parcels" /\ TwoParcels
       \/ desk = "one balance" /\ OneBalance

-----------------------------------------------------------------------------
(* Wages.  But at the desk for papers a behaviour starts where all of them *)
(* are in force.                                                           *)

PapersOf(officer) == [x \in Papers |-> [status |-> "active", maker |-> officer]]

WithoutRuns ==
    /\ \E o \in Officers : paper = PapersOf(o)
    /\ adjustment = [j \in Adjustments |-> NoAdjustment]
    /\ run = [r \in Runs |-> NoRun]
    /\ obligation = [r \in Runs |-> [p \in Policies |-> "none"]]
    /\ period = [c \in Closes |-> NoPeriod]

(* One run of a day is finalised. *)
WithOneRun ==
    /\ \E o, q \in Officers, e \in Employees, r \in Runs :
         /\ o # q
         /\ paper = PapersOf(o)
         /\ run = [[x \in Runs |-> NoRun] EXCEPT ![r] =
              [status |-> "finalized", from |-> 1, to |-> 1, pay |-> 1, employees |-> {e},
               adjustments |-> {}, policies |-> Policies, maker |-> o, decider |-> q]]
         /\ obligation = [[x \in Runs |-> [p \in Policies |-> "none"]] EXCEPT ![r] =
              [p \in Policies |-> IF AuthorityOf[p] # None THEN "calculated" ELSE "none"]]
    /\ adjustment = [j \in Adjustments |-> NoAdjustment]
    /\ period = [c \in Closes |-> NoPeriod]

InUse(f) == {x \in DOMAIN f : f[x].status # "none"}

(* Runs over the days of one month, paid on their last; no close, and what *)
(* a run owes is the subject of the next desk.                             *)
Wages ==
    /\ desk = "runs" /\ PayrollNext
    /\ UNCHANGED <<paper, period>>
    /\ \A r \in InUse(run') : run'[r].pay = run'[r].to /\ MonthOf[run'[r].to] = 1
    /\ \A r \in Runs, p \in Policies : obligation'[r][p] \in {"none", "calculated"}

OfOneDay(f) == \A x \in DOMAIN f : f[x].from = f[x].to

(* One employee and no adjustments; a run and a close, or three of them    *)
(* that are of a day each; runs one after the other.                       *)
Settlement ==
    /\ desk = "closes" /\ PayrollNext
    /\ UNCHANGED <<paper, adjustment>>
    /\ Cardinality(UNION {run'[r].employees : r \in Runs}) <= 1
    /\ Cardinality({r \in Runs : run'[r].status \in {"submitted", "approved"}}) <= 1
    /\ Cardinality(InUse(run')) + Cardinality(InUse(period')) <=
         IF OfOneDay(run') /\ OfOneDay(period') THEN 3 ELSE 2

(* The papers of one employee, and a run that rests on them. *)
Filing ==
    /\ desk = "papers" /\ PayrollNext
    /\ UNCHANGED <<adjustment, period>>
    /\ \A r \in InUse(run') : run'[r].pay = 1
    /\ Cardinality(InUse(run')) <= 1
    /\ Cardinality(InUse(paper') \cap Employees) <= 1 /\ paper'[welfare] = paper[welfare]

(* A case fails, or is one too many, and the vault is ahead of the document *)
(* before there are packets; a second packet is under the first secret, and *)
(* a second secret comes after the first was approved.                     *)
Provider ==
    /\ desk = "provider" /\ ProviderStep /\ UNCHANGED payrollVars
    /\ InUse(packet') # {} => /\ vault' = connector'.fingerprint
                              /\ \A k \in cases' : k.result # "failed"
    /\ connector'.revision > 1 => Cardinality(InUse(packet')) <= 1
    /\ connector'.revision > 1 /\ connector.revision = 1 => connector.approver # None
    /\ Cardinality(cases') > Cardinality(Capabilities) =>
         connector'.revision > 1 \/ InUse(packet') = {}

-----------------------------------------------------------------------------
MCInit ==
    /\ ProviderInit
    /\ \/ desk \in {"one parcel", "two parcels"} /\ Init /\ PayrollInit
       \/ desk = "one balance" /\ AtTheDoor /\ PayrollInit
       \/ desk = "papers" /\ Init /\ PayrollInit
       \/ desk \in {"runs", "closes"} /\ Init /\ WithoutRuns
       \/ desk = "provider" /\ Init /\ WithOneRun
MCNext ==
    /\ desk' = desk
    /\ \/ Parcels
       \/ (Filing \/ Wages \/ Settlement) /\ UNCHANGED <<vars, providerVars>>
       \/ Provider /\ UNCHANGED vars
MCSpec == MCInit /\ [][MCNext]_<<vars, payrollVars, providerVars, desk>>

(* Records of workflows that never meet share their names, so that few     *)
(* permutations serve them all: Cases and Runs, Receipts and Employees,    *)
(* Receivables, Closes and Packets, Actors and Officers.                   *)
Symmetry == Permutations(Cases) \cup Permutations(Receivables)
              \cup Permutations(Receipts) \cup Permutations(BankLines)
              \cup Permutations(Actors)
=============================================================================
