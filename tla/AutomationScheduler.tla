------------------------ MODULE AutomationScheduler -------------------------
(***************************************************************************)
(* A workflow schedule and the automation runs it proposes: the tick       *)
(* (src/main/automation-scheduler-service.ts), the repair of failed ticks  *)
(* (automation-scheduler-recovery.ts), the two stores and the life of a    *)
(* run (src/domain/workflow-execution.ts).                                 *)
(*                                                                         *)
(* These handlers are synchronous, so nothing else runs between their      *)
(* writes; but each write is a statement of its own, so the process may    *)
(* stop between two, or a statement may throw.  todo holds the writes that *)
(* the running handler has yet to make.                                    *)
(*                                                                         *)
(* One schedule is modelled; a Slot stands for its slot key, and for the   *)
(* idempotency key made from it.  The caller may pass the time of a tick,  *)
(* so any slot may come up.                                                *)
(***************************************************************************)
EXTENDS Shared, Naturals, Sequences

CONSTANTS
    Operators, Slots,
    ManualKeys,    \* idempotency keys of runs proposed by hand
    Gated,         \* the keys whose transition has an approval policy
    MaxAttempts,   \* bound on the attempts of a run
    MaxFailures,   \* bound on the attempts a failure counts
    MaxFaults      \* bound on stops of the process and on statements that throw

Keys == Slots \cup ManualKeys

ASSUME SchedulerAssumption ==
    None \notin Operators /\ None # "retry" /\ Gated \subseteq Keys

VARIABLES
    run,         \* automation_runs
    consumed,    \* automation_trigger_history: slots that produced a trigger
    failure,     \* automation_scheduler_failures
    ledger,      \* automation_scheduler_action_ledger: <<slot, action>>
    enabled,     \* the schedule's flag
    available,   \* the workflow instance is in the state the transition leaves
    todo,        \* the writes the running handler has yet to make
    evaluated,   \* history: slots consumed by an evaluation, without a proposal
    approvals,   \* history: approvals of a run since it was last proposed
    faults       \* history: stops and statements that threw

evidenceVars == <<consumed, failure, ledger>>
historyVars == <<evaluated, approvals, faults>>
schedulerVars == <<run, evidenceVars, enabled, available, todo, historyVars>>

NoRun == [status |-> "none", requester |-> None, approver |-> None, starter |-> None,
          attempt |-> 0, version |-> 0]
NoFailure == [status |-> "none", attempts |-> 0, by |-> None]

SchedulerInit ==
    /\ run = [k \in Keys |-> NoRun]
    /\ consumed = {} /\ ledger = {}
    /\ failure = [s \in Slots |-> NoFailure]
    /\ enabled = TRUE /\ available = TRUE
    /\ todo = << >>
    /\ evaluated = {} /\ approvals = [k \in Keys |-> 0] /\ faults = 0

Quiet == todo = << >>   \* no handler is in the middle of its writes

-----------------------------------------------------------------------------
(* A transition without a policy is approved as it is proposed.            *)
ProposedRun(k, user) ==
    [NoRun EXCEPT !.status = IF k \in Gated THEN "proposed" ELSE "approved",
                  !.requester = user,
                  !.approver = IF k \in Gated THEN None ELSE user,
                  !.version = 1]

(* AutomationRunStore.save of a proposal: the row of the same key is       *)
(* replaced, whatever became of it.                                        *)
Saved(k, new) ==
    /\ run' = [run EXCEPT ![k] = new]
    /\ approvals' = [approvals EXCEPT ![k] = 0]

ProposeRun(k, user) ==
    /\ Quiet /\ available
    /\ Saved(k, ProposedRun(k, user))
    /\ UNCHANGED <<evidenceVars, enabled, available, todo, evaluated, faults>>

Write(kind, s, user) == [kind |-> kind, slot |-> s, user |-> user]

(* Mutant: the slot is consumed before the run is saved. *)
TickConsumingFirst(s, user) == <<Write("trigger", s, user), Write("run", s, user)>>

TickWrites(s, user) == <<Write("run", s, user), Write("trigger", s, user)>>

RetryWrites(s, user) ==
    <<Write("run", s, user), Write("trigger", s, user),
      Write("resolve", s, user), Write("action", s, user)>>

(* runAutomationSchedulerTick for a slot that is due. *)
Tick(s, user) ==
    /\ Quiet /\ enabled /\ s \notin consumed
    /\ todo' = IF available THEN TickWrites(s, user) ELSE <<Write("failure", s, user)>>
    /\ UNCHANGED <<run, evidenceVars, enabled, available, historyVars>>

(* executeSchedulerRetry: three attempts escalate; the age of the failure  *)
(* is left open.  Nothing asks whether the slot was consumed since.        *)
RetryFailure(s, user) ==
    /\ Quiet /\ enabled /\ available
    /\ failure[s].status = "open" /\ failure[s].attempts < 3
    /\ todo' = RetryWrites(s, user)
    /\ UNCHANGED <<run, evidenceVars, enabled, available, historyVars>>

(* One statement of the handler that is running. *)
WriteNext ==
    LET w == Head(todo)
        s == w.slot
    IN  /\ ~ Quiet
        /\ todo' = Tail(todo)
        /\ \/ /\ w.kind = "run"
              /\ Saved(s, ProposedRun(s, w.user))
              /\ UNCHANGED evidenceVars
           \/ /\ w.kind = "trigger"     \* INSERT OR IGNORE
              /\ consumed' = consumed \cup {s}
              /\ UNCHANGED <<run, approvals, failure, ledger>>
           \/ /\ w.kind = "failure"
              /\ failure' = [failure EXCEPT ![s] =
                   [status |-> "open", by |-> None,
                    attempts |-> IF @.attempts < MaxFailures THEN @.attempts + 1
                                 ELSE @.attempts]]
              /\ UNCHANGED <<run, approvals, consumed, ledger>>
           \/ /\ w.kind = "resolve"
              /\ failure' = [failure EXCEPT ![s].status = "resolved", ![s].by = "retry"]
              /\ UNCHANGED <<run, approvals, consumed, ledger>>
           \/ /\ w.kind = "action"
              /\ ledger' = ledger \cup {<<s, "retry">>}
              /\ UNCHANGED <<run, approvals, consumed, failure>>
        /\ UNCHANGED <<enabled, available, evaluated, faults>>

(* A statement throws: a tick records the failure, a retry gives up.       *)
WriteThrows ==
    /\ ~ Quiet /\ faults < MaxFaults
    /\ faults' = faults + 1
    /\ todo' = IF Head(todo).kind \in {"run", "trigger"} /\ Len(todo) <= 2
               THEN <<[Head(todo) EXCEPT !.kind = "failure"]>> ELSE << >>
    /\ UNCHANGED <<run, evidenceVars, enabled, available, evaluated, approvals>>

(* The process stops; everything but todo is in the database.              *)
Stop ==
    /\ faults < MaxFaults
    /\ faults' = faults + 1 /\ todo' = << >>
    /\ UNCHANGED <<run, evidenceVars, enabled, available, evaluated, approvals>>

(* AutomationScheduleStore.evaluate persists the trigger it finds due.     *)
Evaluate(s) ==
    /\ Quiet /\ enabled /\ s \notin consumed
    /\ consumed' = consumed \cup {s} /\ evaluated' = evaluated \cup {s}
    /\ UNCHANGED <<run, failure, ledger, enabled, available, todo, approvals, faults>>

ResolveFailure(s) ==
    /\ Quiet /\ failure[s].status = "open"
    /\ failure' = [failure EXCEPT ![s].status = "resolved", ![s].by = "operator"]
    /\ UNCHANGED <<run, consumed, ledger, enabled, available, todo, historyVars>>

(* acknowledgeSchedulerEscalation leaves the failure open. *)
AcknowledgeEscalation(s) ==
    /\ Quiet /\ enabled /\ failure[s].status = "open"
    /\ ledger' = ledger \cup {<<s, "escalate">>}
    /\ UNCHANGED <<run, consumed, failure, enabled, available, todo, historyVars>>

(* automationScheduleSave; a move of the workflow instance.                *)
SaveSchedule ==
    /\ Quiet /\ enabled' = ~ enabled
    /\ UNCHANGED <<run, evidenceVars, available, todo, historyVars>>
MoveInstance ==
    /\ Quiet /\ available' = ~ available
    /\ UNCHANGED <<run, evidenceVars, enabled, todo, historyVars>>

-----------------------------------------------------------------------------
Moved(k, new) ==
    /\ Quiet
    /\ run' = [run EXCEPT ![k] = [new EXCEPT !.version = @ + 1]]
    /\ UNCHANGED <<evidenceVars, enabled, available, todo, evaluated, faults>>

ApproveRun(k, user) ==
    /\ run[k].status = "proposed" /\ user # run[k].requester
    /\ Moved(k, [run[k] EXCEPT !.status = "approved", !.approver = user])
    /\ approvals' = [approvals EXCEPT ![k] = @ + 1]

StartRun(k, user) ==
    /\ run[k].status = "approved" /\ run[k].attempt < MaxAttempts
    /\ k \in Gated => user # run[k].requester
    /\ Moved(k, [run[k] EXCEPT !.status = "running", !.attempt = @ + 1, !.starter = user])
    /\ UNCHANGED approvals

(* completeAutomationRun, for the version the operator read. *)
CompleteRun(k, outcome, version) ==
    /\ run[k].status = "running" /\ run[k].version = version
    /\ Moved(k, [run[k] EXCEPT !.status = outcome])
    /\ UNCHANGED approvals

(* Mutant: a retried run is approved by the operator who retries it. *)
RetriedStraightAway(k, user) ==
    [run[k] EXCEPT !.status = "approved", !.starter = None, !.approver = user]

(* retryAutomationRun: a run under a policy goes back to be approved.      *)
Retried(k, user) ==
    [run[k] EXCEPT !.status = IF k \in Gated THEN "proposed" ELSE "approved",
                   !.starter = None,
                   !.approver = IF k \in Gated THEN None ELSE user]

RetryRun(k, user) ==
    /\ run[k].status = "failed" /\ user # run[k].requester
    /\ Moved(k, Retried(k, user))
    /\ UNCHANGED approvals

SchedulerNext ==
    \/ \E s \in Slots, user \in Operators : Tick(s, user) \/ RetryFailure(s, user)
    \/ WriteNext \/ WriteThrows \/ Stop
    \/ \E s \in Slots : Evaluate(s) \/ ResolveFailure(s) \/ AcknowledgeEscalation(s)
    \/ SaveSchedule \/ MoveInstance
    \/ \E k \in Keys, user \in Operators :
         ProposeRun(k, user) \/ ApproveRun(k, user) \/ StartRun(k, user) \/ RetryRun(k, user)
    \/ \E k \in Keys, outcome \in {"succeeded", "failed", "cancelled"} :
         CompleteRun(k, outcome, run[k].version)

(* A handler that has begun goes on by itself.                             *)
SchedulerSpec ==
    SchedulerInit /\ [][SchedulerNext]_schedulerVars /\ WF_schedulerVars(WriteNext)

-----------------------------------------------------------------------------
RunRecord ==
    [status : {"none", "proposed", "approved", "running", "succeeded", "failed", "cancelled"},
     requester : Operators \cup {None}, approver : Operators \cup {None},
     starter : Operators \cup {None}, attempt : Nat, version : Nat]
FailureRecord ==
    [status : {"none", "open", "resolved"}, attempts : Nat, by : {None, "retry", "operator"}]
WriteRecord ==
    [kind : {"run", "trigger", "failure", "resolve", "action"}, slot : Slots, user : Operators]

SchedulerTypeOK ==
    /\ run \in [Keys -> RunRecord]
    /\ consumed \subseteq Slots /\ evaluated \subseteq Slots
    /\ ledger \subseteq Slots \X {"retry", "escalate"}
    /\ failure \in [Slots -> FailureRecord]
    /\ enabled \in BOOLEAN /\ available \in BOOLEAN
    /\ todo \in Seq(WriteRecord)
    /\ approvals \in [Keys -> Nat] /\ faults \in Nat

(* No slot is lost: one that is consumed has its run, unless somebody only *)
(* asked for its evaluation; a failure that a retry resolved has its run   *)
(* and its slot consumed; and only what was resolved is in the ledger as   *)
(* retried.  Wherever the process stops and whichever statement throws.    *)
NoSlotIsLost ==
    /\ \A s \in consumed \ evaluated : run[s].status # "none"
    /\ \A s \in Slots : failure[s].by = "retry" =>
         s \in consumed /\ run[s].status # "none"
    /\ \A s \in Slots : <<s, "retry">> \in ledger => failure[s].by = "retry"

(* Every attempt of a run under a policy was approved by itself, by        *)
(* somebody other than the requester, and started by somebody other than   *)
(* the requester: a retry never goes straight to execution.                *)
EveryAttemptIsApproved ==
    \A k \in Gated : run[k].status # "none" =>
      /\ run[k].attempt <= approvals[k]
      /\ run[k].status \in {"approved", "running"} =>
           run[k].approver \notin {None, run[k].requester}
      /\ run[k].starter # None => run[k].starter # run[k].requester

=============================================================================
