------------------------------- MODULE Payroll -------------------------------
(***************************************************************************)
(* Payroll (src/domain/payroll.ts): runs over days and employees, what they *)
(* rest on (policies, employer registrations and compensations, each       *)
(* approved by another), adjustments (workforce-ledger.ts), the statutory  *)
(* obligations a finalised run leaves, and the close of accounting periods *)
(* that waits for them (financial-close.ts).                               *)
(*                                                                         *)
(* Amounts are left out: a policy with an authority leaves an obligation.  *)
(* A paper is in force for every day, and one candidate for a subject is   *)
(* reviewed at a time.  Officers hold every permission; what a rule asks   *)
(* for is another of them.  Not here: benefits, expenses, attendance and   *)
(* leave, of which a run takes no notice but for the contributions on its  *)
(* slips; and the other conditions of a close, which are in GeneralLedger. *)
(***************************************************************************)
EXTENDS Integers, Shared

CONSTANTS
    Employees, Officers, Policies, Authorities, Adjustments, Runs, Closes,
    Required,      \* the policies no run is finalised without
    AuthorityOf,   \* the authority a policy is paid to, or None
    Days,          \* a range of naturals
    MonthOf        \* the month of each day

ASSUME PayrollAssumption ==
    /\ Days \subseteq Nat
    /\ Required \subseteq Policies
    /\ AuthorityOf \in [Policies -> Authorities \cup {None}]
    /\ \A p \in Required : AuthorityOf[p] # None
    /\ None \notin Officers \cup Authorities

VARIABLES
    paper,        \* policies, registrations by authority, compensations by employee
    adjustment,   \* arrears and recoveries
    run,          \* payroll runs
    obligation,   \* of each run, what it owes under each policy
    period        \* accounting close periods

payrollVars == <<paper, adjustment, run, obligation, period>>

Papers == Policies \cup Authorities \cup Employees

NoPaper == [status |-> "none", maker |-> None]
NoAdjustment == [status |-> "none", employee |-> None, day |-> 0, maker |-> None, decider |-> None]
NoRun == [status |-> "none", from |-> 0, to |-> 0, pay |-> 0, employees |-> {},
          adjustments |-> {}, policies |-> {}, maker |-> None, decider |-> None]
NoPeriod == [status |-> "none", from |-> 0, to |-> 0, maker |-> None, decider |-> None]

PayrollInit ==
    /\ paper = [x \in Papers |-> NoPaper]
    /\ adjustment = [j \in Adjustments |-> NoAdjustment]
    /\ run = [r \in Runs |-> NoRun]
    /\ obligation = [r \in Runs |-> [p \in Policies |-> "none"]]
    /\ period = [c \in Closes |-> NoPeriod]

DatesOverlap(from1, to1, from2, to2) == from1 <= to2 /\ from2 <= to1

-----------------------------------------------------------------------------
(* What a run rests on. *)

SubmitPaper(x, officer) ==
    /\ paper[x].status \in {"none", "rejected"}
    /\ paper' = [paper EXCEPT ![x] = [status |-> "submitted", maker |-> officer]]
    /\ UNCHANGED <<adjustment, run, obligation, period>>

DecidePaper(x, officer, verdict) ==
    /\ paper[x].status = "submitted" /\ paper[x].maker # officer
    /\ paper' = [paper EXCEPT ![x].status = verdict]
    /\ UNCHANGED <<adjustment, run, obligation, period>>

ActivePolicies == {p \in Policies : paper[p].status = "active"}

CreatePayrollAdjustment(j, employee, day, officer) ==
    /\ adjustment[j].status = "none"
    /\ adjustment' = [adjustment EXCEPT ![j] =
         [status |-> "submitted", employee |-> employee, day |-> day,
          maker |-> officer, decider |-> None]]
    /\ UNCHANGED <<paper, run, obligation, period>>

DecidePayrollAdjustment(j, officer, verdict) ==
    /\ adjustment[j].status = "submitted" /\ adjustment[j].maker # officer
    /\ adjustment' = [adjustment EXCEPT ![j].status = verdict, ![j].decider = officer]
    /\ UNCHANGED <<paper, run, obligation, period>>

-----------------------------------------------------------------------------
(* Runs. *)

(* Mutant: a run that is finalised no longer stands in the way. *)
UnfinishedRuns == {r \in Runs : run[r].status \in {"submitted", "approved"}}

(* The runs a new one must not overlap. *)
CurrentRuns == {r \in Runs : run[r].status \notin {"none", "rejected"}}

(* The adjustments a run up to that day takes in. *)
AdjustmentsDue(to, employees) ==
    {j \in Adjustments : /\ adjustment[j].status = "approved"
                         /\ adjustment[j].day = to
                         /\ adjustment[j].employee \in employees}

CreatePayrollRun(r, from, to, pay, employees, officer) ==
    LET due == AdjustmentsDue(to, employees) IN
    /\ run[r].status = "none"
    /\ from <= to /\ MonthOf[from] = MonthOf[to] /\ to <= pay
    /\ employees # {}
    /\ \A q \in CurrentRuns :
         DatesOverlap(run[q].from, run[q].to, from, to) => run[q].employees \cap employees = {}
    /\ ActivePolicies \cap Required # {}
    /\ \A e \in employees : paper[e].status = "active"
    /\ run' = [run EXCEPT ![r] =
         [status |-> "submitted", from |-> from, to |-> to, pay |-> pay, employees |-> employees,
          adjustments |-> due, policies |-> ActivePolicies, maker |-> officer, decider |-> None]]
    /\ adjustment' = [j \in Adjustments |->
         IF j \in due THEN [adjustment[j] EXCEPT !.status = "applied"] ELSE adjustment[j]]
    /\ UNCHANGED <<paper, obligation, period>>

(* A rejected run keeps the adjustments it took in. *)
DecidePayrollRun(r, officer, verdict) ==
    /\ run[r].status = "submitted" /\ run[r].maker # officer
    /\ run' = [run EXCEPT ![r].status = verdict, ![r].decider = officer]
    /\ UNCHANGED <<paper, adjustment, obligation, period>>

InPeriod(c, day) == period[c].from <= day /\ day <= period[c].to
ClosedOn(day) == \E c \in Closes : period[c].status = "closed" /\ InPeriod(c, day)

FinalizePayrollRun(r, officer) ==
    LET owed == {p \in run[r].policies : AuthorityOf[p] # None} IN
    /\ run[r].status = "approved" /\ run[r].decider # officer
    /\ ~ ClosedOn(run[r].pay)
    /\ run[r].policies \subseteq ActivePolicies
    /\ \A p \in owed : paper[AuthorityOf[p]].status = "active"
    /\ run' = [run EXCEPT ![r].status = "finalized"]
    /\ obligation' = [obligation EXCEPT ![r] =
         [p \in Policies |-> IF p \in owed THEN "calculated" ELSE "none"]]
    /\ UNCHANGED <<paper, adjustment, period>>

ObligationTransitions ==
    {<<"calculated", "reported">>, <<"calculated", "paid">>, <<"reported", "paid">>,
     <<"paid", "reconciled">>}

UpdatePayrollObligation(r, p, to) ==
    /\ <<obligation[r][p], to>> \in ObligationTransitions
    /\ obligation' = [obligation EXCEPT ![r][p] = to]
    /\ UNCHANGED <<paper, adjustment, run, period>>

-----------------------------------------------------------------------------
(* The close of a period. *)

CreateClosePeriod(c, from, to, officer) ==
    /\ period[c].status = "none" /\ from <= to
    /\ \A d \in Closes : period[d].status \notin {"none", "rejected"} =>
         ~ DatesOverlap(period[d].from, period[d].to, from, to)
    /\ period' = [period EXCEPT ![c] =
         [status |-> "submitted", from |-> from, to |-> to, maker |-> officer, decider |-> None]]
    /\ UNCHANGED <<paper, adjustment, run, obligation>>

(* Mutant: the obligations of the runs over these days, whenever they are paid. *)
SettledByRunDays(c) ==
    \A r \in Runs : DatesOverlap(run[r].from, run[r].to, period[c].from, period[c].to) =>
      /\ run[r].status \notin {"submitted", "approved"}
      /\ \A p \in Policies : obligation[r][p] \in {"none", "reconciled"}

(* No run over these days waits, and nothing is owed for a run paid in them. *)
PayrollSettled(c) ==
    /\ \A r \in Runs : run[r].status \in {"submitted", "approved"} =>
         ~ DatesOverlap(run[r].from, run[r].to, period[c].from, period[c].to)
    /\ \A r \in Runs, p \in Policies :
         InPeriod(c, run[r].pay) => obligation[r][p] \in {"none", "reconciled"}

DecideClosePeriod(c, officer, verdict) ==
    /\ period[c].status = "submitted" /\ period[c].maker # officer
    /\ verdict = "closed" => PayrollSettled(c)
    /\ period' = [period EXCEPT ![c].status = verdict, ![c].decider = officer]
    /\ UNCHANGED <<paper, adjustment, run, obligation>>

ReopenClosePeriod(c, officer) ==
    /\ period[c].status = "closed" /\ period[c].decider # officer
    /\ period' = [period EXCEPT ![c].status = "reopened"]
    /\ UNCHANGED <<paper, adjustment, run, obligation>>

-----------------------------------------------------------------------------
PayrollNext ==
    \/ \E x \in Papers, o \in Officers :
         SubmitPaper(x, o) \/ \E v \in {"active", "rejected"} : DecidePaper(x, o, v)
    \/ \E j \in Adjustments, o \in Officers :
         \/ \E e \in Employees, d \in Days : CreatePayrollAdjustment(j, e, d, o)
         \/ \E v \in {"approved", "rejected"} : DecidePayrollAdjustment(j, o, v)
    \/ \E r \in Runs, o \in Officers :
         \/ \E from, to, pay \in Days, who \in SUBSET Employees :
              CreatePayrollRun(r, from, to, pay, who, o)
         \/ \E v \in {"approved", "rejected"} : DecidePayrollRun(r, o, v)
         \/ FinalizePayrollRun(r, o)
    \/ \E r \in Runs, p \in Policies, to \in {"reported", "paid", "reconciled"} :
         UpdatePayrollObligation(r, p, to)
    \/ \E c \in Closes, o \in Officers :
         \/ \E from, to \in Days : CreateClosePeriod(c, from, to, o)
         \/ \E v \in {"closed", "rejected"} : DecideClosePeriod(c, o, v)
         \/ ReopenClosePeriod(c, o)

PayrollSpec == PayrollInit /\ [][PayrollNext]_payrollVars

-----------------------------------------------------------------------------
Maybe(people) == people \cup {None}
PaperRecord ==
    [status : {"none", "submitted", "active", "rejected"}, maker : Maybe(Officers)]
AdjustmentRecord ==
    [status : {"none", "submitted", "approved", "rejected", "applied"},
     employee : Maybe(Employees), day : Days \cup {0},
     maker : Maybe(Officers), decider : Maybe(Officers)]
RunRecord ==
    [status : {"none", "submitted", "approved", "rejected", "finalized"},
     from : Days \cup {0}, to : Days \cup {0}, pay : Days \cup {0},
     employees : SUBSET Employees, adjustments : SUBSET Adjustments,
     policies : SUBSET Policies, maker : Maybe(Officers), decider : Maybe(Officers)]
PeriodRecord ==
    [status : {"none", "submitted", "closed", "rejected", "reopened"},
     from : Days \cup {0}, to : Days \cup {0},
     maker : Maybe(Officers), decider : Maybe(Officers)]

(* Every record keeps the shape its handlers give it. *)
PayrollTypeOK ==
    /\ paper \in [Papers -> PaperRecord]
    /\ adjustment \in [Adjustments -> AdjustmentRecord]
    /\ run \in [Runs -> RunRecord]
    /\ obligation \in [Runs -> [Policies ->
         {"none", "calculated", "reported", "paid", "reconciled"}]]
    /\ period \in [Closes -> PeriodRecord]

(* Nobody is paid twice for a day: no two finalised runs share both a day  *)
(* and an employee.  And no adjustment is in two of them, each is of an    *)
(* employee of its run and was approved by another than who asked for it,  *)
(* although a run takes its adjustments when it is submitted and may wait, *)
(* be rejected and be followed by others (payroll.ts:194, :197 and :201).  *)
WagesPaidOnce ==
    LET Finalized == {r \in Runs : run[r].status = "finalized"} IN
    /\ \A r, q \in Finalized : r # q =>
         /\ DatesOverlap(run[r].from, run[r].to, run[q].from, run[q].to) =>
              run[r].employees \cap run[q].employees = {}
         /\ run[r].adjustments \cap run[q].adjustments = {}
    /\ \A r \in Finalized : \A j \in run[r].adjustments :
         /\ adjustment[j].status = "applied"
         /\ adjustment[j].employee \in run[r].employees
         /\ adjustment[j].decider \notin {None, adjustment[j].maker}

(* While a period is closed, nothing is owed for a run paid in it: not by  *)
(* runs finalised before the close, nor by one that was approved before it *)
(* and would be finalised after (financial-close.ts:159, payroll.ts:213).  *)
ClosedMonthIsSettled ==
    \A c \in Closes : period[c].status = "closed" =>
      \A r \in Runs, p \in Policies :
        run[r].status = "finalized" /\ InPeriod(c, run[r].pay) =>
          obligation[r][p] \in {"none", "reconciled"}
=============================================================================
