---------------------- MODULE AutomationSchedulerProofs ----------------------
(***************************************************************************)
(* Theorems about AutomationScheduler for every set of operators, slots    *)
(* and keys, wherever the process stops and whichever statement throws:    *)
(* no slot is lost, and every attempt of a run under a policy is approved. *)
(***************************************************************************)
EXTENDS AutomationScheduler, SequenceTheorems, TLAPS

(* What a handler may have yet to write.                                   *)
TickLeft(s, user) ==
    {<<Write("run", s, user), Write("trigger", s, user)>>, <<Write("trigger", s, user)>>,
     <<Write("failure", s, user)>>}
RetryLeft(s, user) ==
    {<<Write("run", s, user), Write("trigger", s, user),
       Write("resolve", s, user), Write("action", s, user)>>,
     <<Write("trigger", s, user), Write("resolve", s, user), Write("action", s, user)>>,
     <<Write("resolve", s, user), Write("action", s, user)>>,
     <<Write("action", s, user)>>}

IsHandler(left) ==
    \E s \in Slots, user \in Operators : left \in TickLeft(s, user) \cup RetryLeft(s, user)

(* The writes before those that are left were made; and a tick only works  *)
(* on a slot that is not consumed, so a failure it records is of no slot   *)
(* that a retry has dealt with.                                            *)
OfTick(left) ==
    Head(left).kind = "failure" \/ (Head(left).kind \in {"run", "trigger"} /\ Len(left) <= 2)

WritesInOrder ==
    todo # << >> =>
      LET w == Head(todo)  s == w.slot IN
      /\ OfTick(todo) => s \notin consumed
      /\ w.kind = "trigger" => run[s].status # "none"
      /\ w.kind = "resolve" => run[s].status # "none" /\ s \in consumed
      /\ w.kind = "action" => failure[s].by = "retry"

(* An approval is ahead of the attempts until the run is started.          *)
ApprovedAhead ==
    \A k \in Gated : run[k].status = "approved" => run[k].attempt < approvals[k]

IInv ==
    /\ SchedulerTypeOK
    /\ todo = << >> \/ IsHandler(todo)
    /\ WritesInOrder
    /\ \A s \in Slots : failure[s].status = "open" => failure[s].by # "retry"
    /\ NoSlotIsLost
    /\ ApprovedAhead
    /\ EveryAttemptIsApproved

-----------------------------------------------------------------------------
(* What a write is made of. *)
LEMMA WriteFields ==
    ASSUME NEW kind \in {"run", "trigger", "failure", "resolve", "action"},
           NEW s \in Slots, NEW user \in Operators
    PROVE  /\ Write(kind, s, user) \in WriteRecord
           /\ Write(kind, s, user).kind = kind
           /\ Write(kind, s, user).slot = s
           /\ Write(kind, s, user).user = user
           /\ [Write(kind, s, user) EXCEPT !.kind = "failure"] = Write("failure", s, user)
BY DEF Write, WriteRecord

(* The first of the writes that are left, and what is left after it.       *)
LEMMA HandlerCases ==
    ASSUME NEW left, IsHandler(left)
    PROVE  /\ left \in Seq(WriteRecord) /\ left # << >>
           /\ \E s \in Slots, user \in Operators :
                \/ /\ Head(left) = Write("run", s, user)
                   /\ OfTick(left) /\ Tail(left) = <<Write("trigger", s, user)>>
                \/ /\ Head(left) = Write("run", s, user) /\ ~ OfTick(left) /\ Len(left) = 4
                   /\ Tail(left) = <<Write("trigger", s, user), Write("resolve", s, user),
                                     Write("action", s, user)>>
                \/ Head(left) = Write("trigger", s, user) /\ OfTick(left) /\ Tail(left) = << >>
                \/ /\ Head(left) = Write("trigger", s, user) /\ ~ OfTick(left) /\ Len(left) = 3
                   /\ Tail(left) = <<Write("resolve", s, user), Write("action", s, user)>>
                \/ /\ Head(left) = Write("resolve", s, user)
                   /\ Tail(left) = <<Write("action", s, user)>>
                \/ Head(left) = Write("action", s, user) /\ Tail(left) = << >>
                \/ Head(left) = Write("failure", s, user) /\ Tail(left) = << >>
<1>1. PICK s \in Slots, user \in Operators : left \in TickLeft(s, user) \cup RetryLeft(s, user)
  BY DEF IsHandler
<1> DEFINE R == Write("run", s, user)      T == Write("trigger", s, user)
           F == Write("failure", s, user)  S == Write("resolve", s, user)
           A == Write("action", s, user)
<1>2. /\ {R, T, F, S, A} \subseteq WriteRecord
      /\ R.kind = "run" /\ T.kind = "trigger" /\ F.kind = "failure" /\ S.kind = "resolve"
      /\ A.kind = "action"
  BY WriteFields
<1>3. left \in {<<R, T>>, <<T>>, <<F>>, <<R, T, S, A>>, <<T, S, A>>, <<S, A>>, <<A>>}
  BY <1>1 DEF TickLeft, RetryLeft
<1> SUFFICES /\ left \in Seq(WriteRecord) /\ left # << >>
             /\ \/ Head(left) = R /\ OfTick(left) /\ Tail(left) = <<T>>
                \/ Head(left) = R /\ ~ OfTick(left) /\ Len(left) = 4 /\ Tail(left) = <<T, S, A>>
                \/ Head(left) = T /\ OfTick(left) /\ Tail(left) = << >>
                \/ Head(left) = T /\ ~ OfTick(left) /\ Len(left) = 3 /\ Tail(left) = <<S, A>>
                \/ Head(left) = S /\ Tail(left) = <<A>>
                \/ Head(left) = A /\ Tail(left) = << >>
                \/ Head(left) = F /\ Tail(left) = << >>
  OBVIOUS
<1> HIDE DEF R, T, F, S, A
<1>4. CASE left = <<R, T>>
  BY <1>2, <1>4 DEF OfTick
<1>5. CASE left = <<T>>
  BY <1>2, <1>5 DEF OfTick
<1>6. CASE left = <<F>>
  BY <1>2, <1>6
<1>7. CASE left = <<R, T, S, A>>
  BY <1>2, <1>7 DEF OfTick
<1>8. CASE left = <<T, S, A>>
  BY <1>2, <1>8 DEF OfTick
<1>9. CASE left = <<S, A>>
  BY <1>2, <1>9
<1>10. CASE left = <<A>>
  BY <1>2, <1>10
<1> QED
  BY <1>3, <1>4, <1>5, <1>6, <1>7, <1>8, <1>9, <1>10

(* What begins, and what is left, is a handler's. *)
LEMMA Handlers ==
    ASSUME NEW s \in Slots, NEW user \in Operators
    PROVE  /\ \A left \in TickLeft(s, user) : IsHandler(left)
           /\ \A left \in RetryLeft(s, user) : IsHandler(left)
BY DEF IsHandler

(* A step between handlers: slots are consumed and failures settled, but   *)
(* no run disappears.                                                      *)
LEMMA BetweenHandlers ==
    ASSUME IInv, todo = << >>, SchedulerTypeOK',
           todo' = << >> \/ IsHandler(todo'),
           NoSlotIsLost', WritesInOrder',
           \A s \in Slots : failure'[s].status = "open" => failure'[s].by # "retry",
           UNCHANGED <<run, approvals>>
    PROVE  IInv'
BY DEF IInv, ApprovedAhead, EveryAttemptIsApproved

(* What a tick or a retry sets out to write. *)
LEMMA BeginPreserves ==
    ASSUME IInv, NEW s \in Slots, NEW user \in Operators, Tick(s, user) \/ RetryFailure(s, user)
    PROVE  IInv'
<1>1. /\ SchedulerTypeOK /\ NoSlotIsLost /\ todo = << >>
      /\ UNCHANGED <<run, evidenceVars, enabled, available, historyVars>>
  BY DEF IInv, Tick, RetryFailure, Quiet
<1>2. \/ todo' = TickWrites(s, user) /\ s \notin consumed
      \/ todo' = <<Write("failure", s, user)>> /\ s \notin consumed
      \/ todo' = RetryWrites(s, user)
  BY DEF Tick, RetryFailure
<1>3. IsHandler(todo') /\ todo' \in Seq(WriteRecord)
  <2>1. IsHandler(todo')
    BY <1>2, Handlers DEF TickLeft, RetryLeft, TickWrites, RetryWrites
  <2> QED
    BY <2>1, HandlerCases
<1>4. SchedulerTypeOK'
  BY <1>1, <1>3 DEF SchedulerTypeOK, evidenceVars, historyVars
<1>5. WritesInOrder'
  <2> DEFINE R == Write("run", s, user)      T == Write("trigger", s, user)
             F == Write("failure", s, user)  S == Write("resolve", s, user)
             A == Write("action", s, user)
  <2>1. R.kind = "run" /\ R.slot = s /\ F.kind = "failure" /\ F.slot = s
    BY WriteFields
  <2>2. \/ todo' = <<R, T>> /\ s \notin consumed
        \/ todo' = <<F>> /\ s \notin consumed
        \/ todo' = <<R, T, S, A>>
    BY <1>2 DEF TickWrites, RetryWrites
  <2> HIDE DEF R, T, F, S, A
  <2>3. \/ Head(todo') = R /\ s \notin consumed
        \/ Head(todo') = F /\ s \notin consumed
        \/ Head(todo') = R /\ Len(todo') = 4
    BY <2>2
  <2>4. CASE Head(todo') \in {R, F} /\ s \notin consumed
    BY <1>1, <2>1, <2>4 DEF WritesInOrder, evidenceVars
  <2>5. CASE Head(todo') = R /\ Len(todo') = 4
    <3>1. ~ OfTick(todo')
      BY <2>1, <2>5 DEF OfTick
    <3> QED
      BY <2>1, <2>5, <3>1 DEF WritesInOrder
  <2> QED
    BY <2>3, <2>4, <2>5
<1>6. NoSlotIsLost'
  BY <1>1 DEF NoSlotIsLost, evidenceVars, historyVars
<1> QED
  BY <1>1, <1>3, <1>4, <1>5, <1>6, BetweenHandlers DEF IInv, evidenceVars, historyVars

(* A proposal: the run of its key starts anew. *)
LEMMA SavedPreserves ==
    ASSUME IInv, NEW k \in Keys, NEW user \in Operators, Saved(k, ProposedRun(k, user))
    PROVE  /\ run' \in [Keys -> RunRecord] /\ approvals' \in [Keys -> Nat]
           /\ \A j \in Keys : run[j].status # "none" => run'[j].status # "none"
           /\ run'[k].status # "none"
           /\ ApprovedAhead' /\ EveryAttemptIsApproved'
<1> DEFINE new == ProposedRun(k, user)
<1>1. /\ new \in RunRecord /\ new.status \in {"proposed", "approved"}
      /\ new.attempt = 0 /\ new.starter = None
      /\ k \in Gated => new.status = "proposed"
  BY DEF ProposedRun, NoRun, RunRecord
<1>2. /\ run' = [run EXCEPT ![k] = new] /\ approvals' = [approvals EXCEPT ![k] = 0]
      /\ run \in [Keys -> RunRecord] /\ approvals \in [Keys -> Nat]
  BY DEF Saved, IInv, SchedulerTypeOK
<1> HIDE DEF new
<1>3. /\ run' \in [Keys -> RunRecord] /\ approvals' \in [Keys -> Nat]
      /\ run'[k] = new /\ approvals'[k] = 0
      /\ \A j \in Keys : j # k => run'[j] = run[j] /\ approvals'[j] = approvals[j]
  BY <1>1, <1>2
<1>4. ApprovedAhead'
  BY <1>1, <1>3, SchedulerAssumption DEF IInv, ApprovedAhead
<1>5. EveryAttemptIsApproved'
  BY <1>1, <1>3, SchedulerAssumption DEF IInv, EveryAttemptIsApproved
<1> QED
  BY <1>1, <1>3, <1>4, <1>5

(* One write.  What it makes true is what the writes after it rely on.     *)
LEMMA WriteNextPreserves ==
    ASSUME IInv, WriteNext
    PROVE  IInv'
<1>1. /\ SchedulerTypeOK /\ WritesInOrder /\ NoSlotIsLost
      /\ ApprovedAhead /\ EveryAttemptIsApproved
      /\ \A t \in Slots : failure[t].status = "open" => failure[t].by # "retry"
      /\ todo # << >> /\ IsHandler(todo) /\ todo' = Tail(todo)
      /\ UNCHANGED <<enabled, available, evaluated, faults>>
  BY DEF IInv, WriteNext, Quiet
<1>2. PICK s \in Slots, user \in Operators :
        \/ /\ Head(todo) = Write("run", s, user)
           /\ OfTick(todo) /\ Tail(todo) = <<Write("trigger", s, user)>>
        \/ /\ Head(todo) = Write("run", s, user) /\ ~ OfTick(todo) /\ Len(todo) = 4
           /\ Tail(todo) = <<Write("trigger", s, user), Write("resolve", s, user),
                             Write("action", s, user)>>
        \/ Head(todo) = Write("trigger", s, user) /\ OfTick(todo) /\ Tail(todo) = << >>
        \/ /\ Head(todo) = Write("trigger", s, user) /\ ~ OfTick(todo) /\ Len(todo) = 3
           /\ Tail(todo) = <<Write("resolve", s, user), Write("action", s, user)>>
        \/ Head(todo) = Write("resolve", s, user) /\ Tail(todo) = <<Write("action", s, user)>>
        \/ Head(todo) = Write("action", s, user) /\ Tail(todo) = << >>
        \/ Head(todo) = Write("failure", s, user) /\ Tail(todo) = << >>
  BY <1>1, HandlerCases
<1> DEFINE R == Write("run", s, user)      T == Write("trigger", s, user)
           F == Write("failure", s, user)  S == Write("resolve", s, user)
           A == Write("action", s, user)
<1>3. /\ {R, T, F, S, A} \subseteq WriteRecord
      /\ R.kind = "run" /\ R.slot = s /\ R.user = user
      /\ T.kind = "trigger" /\ T.slot = s /\ F.kind = "failure" /\ F.slot = s
      /\ S.kind = "resolve" /\ S.slot = s /\ A.kind = "action" /\ A.slot = s
  BY WriteFields
<1>4. todo' \in Seq(WriteRecord)
  BY <1>1, HandlerCases, HeadTailProperties
<1>5. todo' = << >> \/ IsHandler(todo')
  BY <1>1, <1>2, Handlers DEF TickLeft, RetryLeft
<1>6. CASE Head(todo) = R
  <2>1. /\ Saved(s, ProposedRun(s, user)) /\ UNCHANGED evidenceVars
    BY <1>3, <1>6 DEF WriteNext
  <2>2. s \in Keys
    BY DEF Keys
  <2>3. /\ run' \in [Keys -> RunRecord] /\ approvals' \in [Keys -> Nat]
        /\ \A j \in Keys : run[j].status # "none" => run'[j].status # "none"
        /\ run'[s].status # "none"
        /\ ApprovedAhead' /\ EveryAttemptIsApproved'
    BY <2>1, <2>2, SavedPreserves
  <2>4. SchedulerTypeOK'
    BY <1>1, <1>4, <2>1, <2>3 DEF SchedulerTypeOK, evidenceVars
  <2>5. NoSlotIsLost'
    BY <1>1, <2>1, <2>3 DEF NoSlotIsLost, SchedulerTypeOK, evidenceVars, Keys
  <2>6. Head(todo') = T /\ (OfTick(todo') => s \notin consumed)
    <3>1. OfTick(todo) => s \notin consumed
      BY <1>1, <1>3, <1>6 DEF WritesInOrder
    <3>2. CASE OfTick(todo) /\ todo' = <<T>>
      BY <3>1, <3>2
    <3>3. CASE todo' = <<T, S, A>>
      <4> HIDE DEF T, S, A
      <4>1. Head(todo') = T /\ Len(todo') = 3
        BY <3>3
      <4> QED
        BY <1>3, <4>1 DEF OfTick
    <3>4. R # T /\ R # S /\ R # A /\ R # F
      BY <1>3
    <3> QED
      BY <1>1, <1>2, <1>6, <3>2, <3>3, <3>4
  <2>7. WritesInOrder'
    BY <1>3, <2>1, <2>3, <2>6 DEF WritesInOrder, evidenceVars
  <2> QED
    BY <1>1, <1>5, <2>1, <2>3, <2>4, <2>5, <2>7 DEF IInv, evidenceVars
<1>7. CASE Head(todo) = T
  <2>1. /\ consumed' = consumed \cup {s}
        /\ UNCHANGED <<run, approvals, failure, ledger>>
    BY <1>3, <1>7 DEF WriteNext
  <2>2. run[s].status # "none"
    BY <1>1, <1>3, <1>7 DEF WritesInOrder
  <2>3. SchedulerTypeOK'
    BY <1>1, <1>4, <2>1 DEF SchedulerTypeOK
  <2>4. NoSlotIsLost'
    BY <1>1, <2>1, <2>2 DEF NoSlotIsLost
  <2>5. todo' = << >> \/ Head(todo') = S
    <3>1. T # R /\ T # S /\ T # A /\ T # F
      BY <1>3
    <3> HIDE DEF R, T, F, S, A
    <3>2. todo' = << >> \/ todo' = <<S, A>>
      BY <1>1, <1>2, <1>7, <3>1 DEF R, T, F, S, A
    <3> QED
      BY <3>2
  <2>6. WritesInOrder'
    BY <1>3, <2>1, <2>2, <2>5 DEF WritesInOrder, OfTick
  <2> QED
    BY <1>1, <1>5, <2>1, <2>3, <2>4, <2>6 DEF IInv, ApprovedAhead, EveryAttemptIsApproved
<1>8. CASE Head(todo) = F
  <2>1. /\ failure' = [failure EXCEPT ![s] = [status |-> "open", by |-> None,
               attempts |-> IF @.attempts < MaxFailures THEN @.attempts + 1 ELSE @.attempts]]
        /\ UNCHANGED <<run, approvals, consumed, ledger>>
    BY <1>3, <1>8 DEF WriteNext
  <2>2. s \notin consumed /\ todo' = << >>
    <3>1. F # R /\ F # S /\ F # A /\ F # T
      BY <1>3
    <3> QED
      BY <1>1, <1>2, <1>3, <1>8, <3>1 DEF WritesInOrder, OfTick
  <2>3. /\ failure' \in [Slots -> FailureRecord]
        /\ failure'[s].by = None
        /\ \A t \in Slots : t # s => failure'[t] = failure[t]
    <3>1. failure \in [Slots -> FailureRecord]
      BY <1>1 DEF SchedulerTypeOK
    <3> QED
      BY <2>1, <3>1 DEF FailureRecord
  <2>4. SchedulerTypeOK'
    BY <1>1, <1>4, <2>1, <2>3 DEF SchedulerTypeOK
  <2>5. NoSlotIsLost'
    BY <1>1, <2>1, <2>2, <2>3, SchedulerAssumption DEF NoSlotIsLost, SchedulerTypeOK
  <2>6. WritesInOrder'
    BY <2>2 DEF WritesInOrder
  <2>7. \A t \in Slots : failure'[t].status = "open" => failure'[t].by # "retry"
    BY <1>1, <2>3, SchedulerAssumption
  <2> QED
    BY <1>1, <1>5, <2>1, <2>4, <2>5, <2>6, <2>7 DEF IInv, ApprovedAhead, EveryAttemptIsApproved
<1>9. CASE Head(todo) = S
  <2>1. /\ failure' = [failure EXCEPT ![s].status = "resolved", ![s].by = "retry"]
        /\ UNCHANGED <<run, approvals, consumed, ledger>>
    BY <1>3, <1>9 DEF WriteNext
  <2>2. run[s].status # "none" /\ s \in consumed
    BY <1>1, <1>3, <1>9 DEF WritesInOrder
  <2>3. /\ failure' \in [Slots -> FailureRecord]
        /\ failure'[s].by = "retry" /\ failure'[s].status = "resolved"
        /\ \A t \in Slots : t # s => failure'[t] = failure[t]
    BY <1>1, <2>1 DEF SchedulerTypeOK, FailureRecord
  <2>4. SchedulerTypeOK'
    BY <1>1, <1>4, <2>1, <2>3 DEF SchedulerTypeOK
  <2>5. NoSlotIsLost'
    BY <1>1, <2>1, <2>2, <2>3 DEF NoSlotIsLost
  <2>6. Head(todo') = A
    <3>1. S # R /\ S # F /\ S # A /\ S # T
      BY <1>3
    <3> HIDE DEF R, T, F, S, A
    <3>2. todo' = <<A>>
      BY <1>1, <1>2, <1>9, <3>1 DEF R, T, F, S, A
    <3> QED
      BY <3>2
  <2>7. WritesInOrder'
    BY <1>3, <2>3, <2>6 DEF WritesInOrder, OfTick
  <2>8. \A t \in Slots : failure'[t].status = "open" => failure'[t].by # "retry"
    BY <1>1, <2>3
  <2> QED
    BY <1>1, <1>5, <2>1, <2>4, <2>5, <2>7, <2>8 DEF IInv, ApprovedAhead, EveryAttemptIsApproved
<1>10. CASE Head(todo) = A
  <2>1. /\ ledger' = ledger \cup {<<s, "retry">>}
        /\ UNCHANGED <<run, approvals, consumed, failure>>
    BY <1>3, <1>10 DEF WriteNext
  <2>2. failure[s].by = "retry"
    BY <1>1, <1>3, <1>10 DEF WritesInOrder
  <2>3. SchedulerTypeOK'
    BY <1>1, <1>4, <2>1 DEF SchedulerTypeOK
  <2>4. NoSlotIsLost'
    BY <1>1, <2>1, <2>2 DEF NoSlotIsLost
  <2>5. todo' = << >>
    <3>1. A # R /\ A # F /\ A # S /\ A # T
      BY <1>3
    <3> QED
      BY <1>1, <1>2, <1>10, <3>1
  <2>6. WritesInOrder'
    BY <2>5 DEF WritesInOrder
  <2> QED
    BY <1>1, <1>5, <2>1, <2>3, <2>4, <2>6 DEF IInv, ApprovedAhead, EveryAttemptIsApproved
<1> QED
  BY <1>2, <1>6, <1>7, <1>8, <1>9, <1>10

(* A statement throws, or the process stops: nothing is written, and only  *)
(* a tick leaves a failure to record.                                      *)
LEMMA FaultPreserves ==
    ASSUME IInv, WriteThrows \/ Stop
    PROVE  IInv'
<1>1. /\ SchedulerTypeOK /\ WritesInOrder /\ NoSlotIsLost
      /\ faults' = faults + 1
      /\ UNCHANGED <<run, evidenceVars, enabled, available, evaluated, approvals>>
  BY DEF IInv, WriteThrows, Stop
<1>2. /\ todo' = << >> \/ IsHandler(todo')
      /\ todo' \in Seq(WriteRecord)
      /\ WritesInOrder'
  <2>1. CASE todo' = << >>
    BY <2>1 DEF WritesInOrder
  <2>2. CASE todo' # << >>
    <3>1. /\ WriteThrows /\ todo # << >> /\ IsHandler(todo)
          /\ Head(todo).kind \in {"run", "trigger"} /\ Len(todo) <= 2
          /\ todo' = <<[Head(todo) EXCEPT !.kind = "failure"]>>
      BY <2>2 DEF WriteThrows, Stop, IInv, Quiet
    <3>2. OfTick(todo)
      BY <3>1 DEF OfTick
    <3>3. PICK s \in Slots, user \in Operators, kind \in {"run", "trigger"} :
            Head(todo) = Write(kind, s, user)
      <4>1. PICK s \in Slots, user \in Operators,
                 kind \in {"run", "trigger", "failure", "resolve", "action"} :
                   Head(todo) = Write(kind, s, user)
        BY <3>1, HandlerCases
      <4> QED
        BY <3>1, <4>1, WriteFields
    <3> DEFINE F == Write("failure", s, user)
    <3>4. todo' = <<F>> /\ Head(todo).slot = s
      BY <3>1, <3>3, WriteFields
    <3>5. F.kind = "failure" /\ F.slot = s /\ F \in WriteRecord
      BY WriteFields
    <3>6. s \notin consumed
      BY <1>1, <3>1, <3>2, <3>4 DEF WritesInOrder
    <3>7. IsHandler(todo')
      BY <3>4, Handlers DEF TickLeft
    <3> HIDE DEF F
    <3>8. Head(todo') = F /\ todo' \in Seq(WriteRecord)
      BY <3>4, <3>5
    <3>9. WritesInOrder'
      BY <1>1, <3>5, <3>6, <3>8 DEF WritesInOrder, evidenceVars
    <3> QED
      BY <3>7, <3>8, <3>9
  <2> QED
    BY <2>1, <2>2
<1>3. SchedulerTypeOK'
  BY <1>1, <1>2 DEF SchedulerTypeOK, evidenceVars
<1>4. NoSlotIsLost'
  BY <1>1 DEF NoSlotIsLost, evidenceVars
<1> QED
  BY <1>1, <1>2, <1>3, <1>4 DEF IInv, ApprovedAhead, EveryAttemptIsApproved, evidenceVars

(* Failures are settled and the schedule changes between handlers.         *)
LEMMA OperatorPreserves ==
    ASSUME IInv, NEW s \in Slots,
           \/ Evaluate(s) \/ ResolveFailure(s) \/ AcknowledgeEscalation(s)
           \/ SaveSchedule \/ MoveInstance
    PROVE  IInv'
<1> USE DEF evidenceVars, historyVars, Quiet
<1>1. /\ SchedulerTypeOK /\ NoSlotIsLost /\ todo = << >> /\ todo' = << >>
      /\ UNCHANGED <<run, approvals, faults>>
      /\ \A t \in Slots : failure[t].status = "open" => failure[t].by # "retry"
  BY DEF IInv, Evaluate, ResolveFailure, AcknowledgeEscalation, SaveSchedule, MoveInstance
<1>2. WritesInOrder'
  BY <1>1 DEF WritesInOrder
<1>3. /\ SchedulerTypeOK' /\ NoSlotIsLost'
      /\ \A t \in Slots : failure'[t].status = "open" => failure'[t].by # "retry"
  <2>1. CASE Evaluate(s)
    BY <1>1, <2>1 DEF Evaluate, SchedulerTypeOK, NoSlotIsLost
  <2>2. CASE ResolveFailure(s)
    <3>1. /\ failure' = [failure EXCEPT ![s].status = "resolved", ![s].by = "operator"]
          /\ failure[s].status = "open"
          /\ UNCHANGED <<consumed, ledger, enabled, available, evaluated>>
      BY <2>2 DEF ResolveFailure
    <3>2. /\ failure' \in [Slots -> FailureRecord]
          /\ failure'[s].by = "operator" /\ failure'[s].status = "resolved"
          /\ \A t \in Slots : t # s => failure'[t] = failure[t]
      BY <1>1, <3>1 DEF SchedulerTypeOK, FailureRecord
    <3>3. SchedulerTypeOK'
      BY <1>1, <3>1, <3>2 DEF SchedulerTypeOK
    <3>4. <<s, "retry">> \notin ledger
      BY <1>1, <3>1 DEF NoSlotIsLost
    <3>5. NoSlotIsLost'
      BY <1>1, <3>1, <3>2, <3>4 DEF NoSlotIsLost
    <3> QED
      BY <1>1, <3>2, <3>3, <3>5
  <2>3. CASE AcknowledgeEscalation(s)
    BY <1>1, <2>3 DEF AcknowledgeEscalation, SchedulerTypeOK, NoSlotIsLost
  <2>4. CASE SaveSchedule \/ MoveInstance
    BY <1>1, <2>4 DEF SaveSchedule, MoveInstance, SchedulerTypeOK, NoSlotIsLost
  <2> QED
    BY <2>1, <2>2, <2>3, <2>4
<1> QED
  BY <1>1, <1>2, <1>3, BetweenHandlers

(* The life of a run: an attempt is started once for each approval.        *)
LEMMA RunPreserves ==
    ASSUME IInv, NEW k \in Keys,
           \/ \E user \in Operators :
                ApproveRun(k, user) \/ StartRun(k, user) \/ RetryRun(k, user)
           \/ \E outcome \in {"succeeded", "failed", "cancelled"} :
                CompleteRun(k, outcome, run[k].version)
    PROVE  IInv'
<1>1. /\ SchedulerTypeOK /\ NoSlotIsLost /\ ApprovedAhead /\ EveryAttemptIsApproved
      /\ run[k] \in RunRecord /\ approvals[k] \in Nat /\ None \notin Operators
  BY SchedulerAssumption DEF IInv, SchedulerTypeOK
<1> DEFINE Changes(new) ==
              /\ new.status # "none" /\ Moved(k, new)
              /\ new.requester = run[k].requester
              /\ \/ /\ run[k].status = "proposed" /\ new.status = "approved"
                    /\ new.approver \notin {None, run[k].requester}
                    /\ new.attempt = run[k].attempt /\ new.starter = run[k].starter
                    /\ approvals' = [approvals EXCEPT ![k] = @ + 1]
                 \/ /\ run[k].status = "approved" /\ new.status = "running"
                    /\ new.approver = run[k].approver
                    /\ new.attempt = run[k].attempt + 1
                    /\ k \in Gated => new.starter # run[k].requester
                    /\ UNCHANGED approvals
                 \/ /\ run[k].status # "none" /\ new.status \notin {"approved", "running"}
                    /\ new.attempt = run[k].attempt
                    /\ new.starter \in {None, run[k].starter}
                    /\ UNCHANGED approvals
                 \/ k \notin Gated /\ UNCHANGED approvals
<1>2. PICK new \in RunRecord : Changes(new)
  <2>1. ASSUME NEW user \in Operators, ApproveRun(k, user)
        PROVE  \E new \in RunRecord : Changes(new)
    <3> DEFINE new == [run[k] EXCEPT !.status = "approved", !.approver = user]
    <3>1. new \in RunRecord
      BY <1>1 DEF RunRecord
    <3> QED
      BY <1>1, <2>1, <3>1 DEF ApproveRun, RunRecord
  <2>2. ASSUME NEW user \in Operators, StartRun(k, user)
        PROVE  \E new \in RunRecord : Changes(new)
    <3> DEFINE new == [run[k] EXCEPT !.status = "running", !.attempt = @ + 1, !.starter = user]
    <3>1. new \in RunRecord
      <4>1. run[k].attempt + 1 \in Nat
        BY <1>1 DEF RunRecord
      <4> HIDE DEF Changes
      <4> QED
        BY <1>1, <4>1 DEF RunRecord
    <3> QED
      BY <1>1, <2>2, <3>1 DEF StartRun, RunRecord
  <2>3. ASSUME NEW user \in Operators, RetryRun(k, user)
        PROVE  \E new \in RunRecord : Changes(new)
    <3>1. Retried(k, user) \in RunRecord
      BY <1>1 DEF RunRecord, Retried
    <3> QED
      BY <1>1, <2>3, <3>1 DEF RetryRun, Retried, RunRecord
  <2>4. ASSUME NEW outcome \in {"succeeded", "failed", "cancelled"},
               CompleteRun(k, outcome, run[k].version)
        PROVE  \E new \in RunRecord : Changes(new)
    <3> DEFINE new == [run[k] EXCEPT !.status = outcome]
    <3>1. new \in RunRecord
      <4>1. outcome \in {"none", "proposed", "approved", "running", "succeeded", "failed",
                         "cancelled"}
        BY <2>4
      <4> HIDE DEF Changes
      <4> QED
        BY <1>1, <4>1 DEF RunRecord
    <3> QED
      BY <1>1, <2>4, <3>1 DEF CompleteRun, RunRecord
  <2> QED
    BY <2>1, <2>2, <2>3, <2>4
<1> DEFINE stored == [new EXCEPT !.version = @ + 1]
<1>3. /\ stored \in RunRecord /\ stored.status = new.status
      /\ stored.requester = new.requester /\ stored.approver = new.approver
      /\ stored.starter = new.starter /\ stored.attempt = new.attempt
  BY DEF RunRecord
<1>4. /\ run' = [run EXCEPT ![k] = stored] /\ todo = << >>
      /\ UNCHANGED <<evidenceVars, enabled, available, todo, evaluated, faults>>
  BY <1>2 DEF Moved, Quiet
<1> HIDE DEF stored
<1>5. /\ run' \in [Keys -> RunRecord] /\ run'[k] = stored
      /\ \A j \in Keys : j # k => run'[j] = run[j]
  BY <1>1, <1>3, <1>4 DEF SchedulerTypeOK
<1>6. /\ approvals' \in [Keys -> Nat]
      /\ \A j \in Keys : j # k => approvals'[j] = approvals[j]
  BY <1>1, <1>2 DEF SchedulerTypeOK
<1>7. SchedulerTypeOK'
  BY <1>1, <1>4, <1>5, <1>6 DEF SchedulerTypeOK, evidenceVars
<1>8. NoSlotIsLost' /\ WritesInOrder'
  BY <1>1, <1>2, <1>3, <1>4, <1>5 DEF NoSlotIsLost, WritesInOrder, evidenceVars, SchedulerTypeOK, Keys
<1>9. CASE k \in Gated
  <2>1. \/ approvals'[k] = approvals[k] + 1 /\ run[k].status = "proposed"
        \/ approvals'[k] = approvals[k]
    BY <1>1, <1>2 DEF SchedulerTypeOK
  <2>2. /\ run[k].status # "none" /\ run[k].attempt <= approvals[k]
        /\ run[k].attempt \in Nat
    BY <1>1, <1>2, <1>9 DEF EveryAttemptIsApproved, RunRecord
  <2>3. ApprovedAhead'
    <3>1. stored.status = "approved" => stored.attempt < approvals'[k]
      BY <1>2, <1>3, <1>9, <2>1, <2>2, <1>1 DEF SchedulerTypeOK
    <3> QED
      BY <1>1, <1>5, <1>6, <3>1, SchedulerAssumption DEF ApprovedAhead
  <2>4. EveryAttemptIsApproved'
    <3>1. run[k].status = "approved" => run[k].attempt < approvals[k]
      BY <1>1, <1>9 DEF ApprovedAhead
    <3>2. stored.attempt <= approvals'[k]
      BY <1>1, <1>2, <1>3, <1>9, <2>1, <2>2, <3>1
    <3>3. stored.status \in {"approved", "running"} =>
            stored.approver \notin {None, stored.requester}
      BY <1>1, <1>2, <1>3, <1>9 DEF EveryAttemptIsApproved
    <3>4. stored.starter # None => stored.starter # stored.requester
      BY <1>1, <1>2, <1>3, <1>9, <2>2 DEF EveryAttemptIsApproved
    <3> QED
      BY <1>1, <1>5, <1>6, <3>2, <3>3, <3>4, SchedulerAssumption DEF EveryAttemptIsApproved
  <2> QED
    BY <1>4, <1>7, <1>8, <2>3, <2>4 DEF IInv, evidenceVars
<1>10. CASE k \notin Gated
  <2>1. ApprovedAhead' /\ EveryAttemptIsApproved'
    BY <1>1, <1>5, <1>6, <1>10, SchedulerAssumption DEF ApprovedAhead, EveryAttemptIsApproved
  <2> QED
    BY <1>4, <1>7, <1>8, <2>1 DEF IInv, evidenceVars
<1> QED
  BY <1>9, <1>10

-----------------------------------------------------------------------------
(* Nothing is scheduled at first. *)
LEMMA SchedulerInitially == SchedulerInit => IInv
<1> SUFFICES ASSUME SchedulerInit PROVE IInv
  OBVIOUS
<1>1. NoRun \in RunRecord /\ NoRun.status = "none"
      /\ NoFailure \in FailureRecord /\ NoFailure.by = None /\ NoFailure.status = "none"
  BY DEF NoRun, RunRecord, NoFailure, FailureRecord
<1>2. SchedulerTypeOK
  BY <1>1 DEF SchedulerInit, SchedulerTypeOK
<1>3. NoSlotIsLost /\ WritesInOrder
  BY <1>1, SchedulerAssumption DEF SchedulerInit, NoSlotIsLost, WritesInOrder
<1>4. ApprovedAhead /\ EveryAttemptIsApproved
  BY <1>1, SchedulerAssumption DEF SchedulerInit, ApprovedAhead, EveryAttemptIsApproved
<1> QED
  BY <1>1, <1>2, <1>3, <1>4 DEF IInv, SchedulerInit

(* A run proposed by hand. *)
LEMMA ProposePreserves ==
    ASSUME IInv, NEW k \in Keys, NEW user \in Operators, ProposeRun(k, user)
    PROVE  IInv'
<1>1. /\ Saved(k, ProposedRun(k, user)) /\ todo = << >> /\ SchedulerTypeOK /\ NoSlotIsLost
      /\ UNCHANGED <<evidenceVars, enabled, available, todo, evaluated, faults>>
  BY DEF ProposeRun, Quiet, IInv
<1>2. /\ run' \in [Keys -> RunRecord] /\ approvals' \in [Keys -> Nat]
      /\ \A j \in Keys : run[j].status # "none" => run'[j].status # "none"
      /\ ApprovedAhead' /\ EveryAttemptIsApproved'
  BY <1>1, SavedPreserves
<1>3. SchedulerTypeOK'
  BY <1>1, <1>2 DEF SchedulerTypeOK, evidenceVars
<1>4. NoSlotIsLost' /\ WritesInOrder'
  BY <1>1, <1>2 DEF NoSlotIsLost, WritesInOrder, SchedulerTypeOK, Keys, evidenceVars
<1> QED
  BY <1>1, <1>2, <1>3, <1>4 DEF IInv, evidenceVars

(* Every step preserves the inductive invariant. *)
LEMMA SchedulerStepPreserves ==
    ASSUME IInv, [SchedulerNext]_schedulerVars
    PROVE  IInv'
<1>1. ASSUME NEW s \in Slots, NEW user \in Operators, Tick(s, user) \/ RetryFailure(s, user)
      PROVE  IInv'
  BY <1>1, BeginPreserves
<1>2. CASE WriteNext
  BY <1>2, WriteNextPreserves
<1>3. CASE WriteThrows \/ Stop
  BY <1>3, FaultPreserves
<1>4. ASSUME NEW s \in Slots, Evaluate(s) \/ ResolveFailure(s) \/ AcknowledgeEscalation(s)
      PROVE  IInv'
  BY <1>4, OperatorPreserves
<1>5. CASE SaveSchedule \/ MoveInstance
  <2>1. UNCHANGED <<run, approvals, evidenceVars, todo, evaluated, faults>>
        /\ enabled' \in BOOLEAN /\ available' \in BOOLEAN
    BY <1>5 DEF SaveSchedule, MoveInstance, historyVars, IInv, SchedulerTypeOK
  <2> QED
    BY <2>1 DEF IInv, SchedulerTypeOK, NoSlotIsLost, WritesInOrder, ApprovedAhead,
                EveryAttemptIsApproved, evidenceVars
<1>6. ASSUME NEW k \in Keys, NEW user \in Operators,
             ProposeRun(k, user) \/ ApproveRun(k, user) \/ StartRun(k, user) \/ RetryRun(k, user)
      PROVE  IInv'
  BY <1>6, ProposePreserves, RunPreserves
<1>7. ASSUME NEW k \in Keys, NEW outcome \in {"succeeded", "failed", "cancelled"},
             CompleteRun(k, outcome, run[k].version)
      PROVE  IInv'
  BY <1>7, RunPreserves
<1>8. CASE UNCHANGED schedulerVars
  BY <1>8 DEF IInv, SchedulerTypeOK, NoSlotIsLost, WritesInOrder, ApprovedAhead,
              EveryAttemptIsApproved, schedulerVars, evidenceVars, historyVars
<1> QED
  BY <1>1, <1>2, <1>3, <1>4, <1>5, <1>6, <1>7, <1>8 DEF SchedulerNext

(* The inductive invariant holds throughout. *)
LEMMA SchedulerInvariant == SchedulerSpec => []IInv
BY SchedulerInitially, SchedulerStepPreserves, PTL DEF SchedulerSpec

(* Type correctness of the schedule's tables. *)
THEOREM SchedulerTypeCorrect == SchedulerSpec => []SchedulerTypeOK
BY SchedulerInvariant, PTL DEF IInv

(* runAutomationSchedulerTick and executeSchedulerRetry save the run       *)
(* before the slot is consumed, and settle the failure last: no slot is    *)
(* lost wherever they stop.                                                *)
THEOREM SlotsAreNotLost == SchedulerSpec => []NoSlotIsLost
BY SchedulerInvariant, PTL DEF IInv

(* approveAutomationRun, startAutomationRun, retryAutomationRun: an        *)
(* attempt of a run under a policy has an approval of its own.             *)
THEOREM AttemptsAreApproved == SchedulerSpec => []EveryAttemptIsApproved
BY SchedulerInvariant, PTL DEF IInv

=============================================================================
