---------------------------- MODULE UnifiedOrder ----------------------------
(***************************************************************************)
(* An order of an outside channel, from the first event about it to its    *)
(* delivery or return (src/domain/retail-unified-order-ingestion.ts).      *)
(*                                                                         *)
(* One external order.  What the channel says of it is a series of events, *)
(* and an event stands for the digest of its content: whatever is approved *)
(* or executed is filed under the digest of the moment.  Replays of an     *)
(* event change nothing and are left out.  The order has one line, and so  *)
(* has every sales order it can be mapped to.  Where the code asks for a   *)
(* second person, one is there; stock suffices; provider callbacks, which  *)
(* are evidence only, are left out.                                        *)
(***************************************************************************)
EXTENDS Shared, Integers, TLC

CONSTANTS
    Digests,      \* the events of the channel
    SalesOrders,  \* the local orders of the same goods
    MaxAttempts   \* bound on the attempts of one hub handoff

VARIABLES
    external,   \* the RetailUnifiedOrderRecord
    seen,       \* its sourceEvents
    conflict,   \* is a conflict of the order open; nothing closes one
    intent,     \* reservationIntents, by digest
    hub,        \* hubHandoffs
    mapping,    \* fulfilmentHandoffs
    stage,      \* how far the executions of a digest have come
    parcel,     \* the reservation, then the package, those executions made
    closed,     \* rtoReconciliationExecutions, returnReconciliationExecutions
    approvals   \* history: the digests a governed handoff was approved for

evidenceVars == <<external, seen, conflict, intent, approvals>>
executionVars == <<stage, parcel, closed>>
unifiedVars == <<evidenceVars, hub, mapping, executionVars>>

UnifiedInit ==
    /\ external = [status |-> "none", digest |-> None, mapped |-> FALSE, handoff |-> None]
    /\ seen = {} /\ conflict = FALSE /\ approvals = {}
    /\ intent = [d \in Digests |-> "none"]
    /\ hub = [d \in Digests |-> [status |-> "none", attempt |-> 0]]
    /\ mapping = [d \in Digests |-> [status |-> "none", salesOrder |-> None]]
    /\ stage = [d \in Digests |-> "none"]
    /\ parcel = [d \in Digests |-> "none"]
    /\ closed = [d \in Digests |-> {}]

-----------------------------------------------------------------------------
NextStatuses == [
    received |-> {"accepted", "cancelled"},
    accepted |-> {"picking", "packed", "cancelled", "return-requested"},
    picking |-> {"packed", "cancelled", "return-requested"},
    packed |-> {"fulfilled", "cancelled", "return-requested"},
    fulfilled |-> {"return-requested"},
    cancelled |-> {},
    returned |-> {}, rto |-> {}]
      @@ ("return-requested" :> {"returned", "rto"})
Statuses == DOMAIN NextStatuses

CanTransition(from, to) == from \in {"none", to} \/ to \in NextStatuses[from]

(* The intents and conflicts that follow from what the order has become.   *)
Boundaries(order, governed) ==
    LET reservable == governed /\ order.status \in {"accepted", "picking", "packed"} IN
    /\ intent' = [d \in Digests |->
         IF d = order.digest
         THEN IF reservable /\ order.mapped /\ intent[d] = "none" THEN "pending" ELSE intent[d]
         ELSE IF intent[d] = "pending" THEN "superseded" ELSE intent[d]]
    /\ conflict' = (conflict \/ (reservable /\ ~ order.mapped))

(* Mutant: evidence may change under an order that was handed off. *)
AcceptsAny(d, status, governed) == CanTransition(external.status, status)

Accepts(d, status, governed) ==
    /\ CanTransition(external.status, status)
    /\ governed => external.handoff \in {None, d}

(* A new event is recorded, or refused and filed as a conflict.            *)
IngestSourceEvent(d, status, mapped, governed) ==
    LET order == [external EXCEPT !.status = status, !.digest = d, !.mapped = mapped] IN
    /\ d \notin seen
    /\ IF Accepts(d, status, governed)
       THEN external' = order /\ seen' = seen \cup {d} /\ Boundaries(order, governed)
       ELSE conflict' = TRUE /\ UNCHANGED <<external, seen, intent>>
    /\ UNCHANGED <<approvals, hub, mapping, executionVars>>

(* An event identifier comes again with another content.                   *)
IngestChangedEvent(d) ==
    /\ d \in seen
    /\ conflict' = TRUE
    /\ UNCHANGED <<external, seen, intent, approvals, hub, mapping, executionVars>>

PrepareForGovernedHandoff(d) ==
    LET promoted == [external EXCEPT !.handoff = d] IN
    /\ d \in seen
    /\ IF d = external.digest
       THEN /\ external' = promoted /\ approvals' = approvals \cup {d}
            /\ Boundaries(promoted, TRUE)
       ELSE conflict' = TRUE /\ UNCHANGED <<external, intent, approvals>>
    /\ UNCHANGED <<seen, hub, mapping, executionVars>>

-----------------------------------------------------------------------------
PrepareHubHandoff ==
    LET d == external.digest IN
    /\ external.handoff # None
    /\ hub[d].status # "acknowledged"
    /\ hub[d].attempt < MaxAttempts
    /\ hub' = [hub EXCEPT ![d] = [status |-> "prepared", attempt |-> @.attempt + 1]]
    /\ UNCHANGED <<evidenceVars, mapping, executionVars>>

RecordHubHandoffResult(d, outcome) ==
    /\ hub[d].status \in {"prepared", "retryable"}
    /\ hub' = [hub EXCEPT ![d].status = outcome]
    /\ UNCHANGED <<evidenceVars, mapping, executionVars>>

PrepareFulfilmentHandoff(so) ==
    LET d == external.digest IN
    /\ external.handoff # None /\ ~ conflict
    /\ mapping[d].status \in {"none", "rejected"}
    /\ mapping' = [mapping EXCEPT ![d] = [status |-> "prepared", salesOrder |-> so]]
    /\ UNCHANGED <<evidenceVars, hub, executionVars>>

DecideFulfilmentHandoff(d, decision) ==
    /\ mapping[d].status = "prepared"
    /\ mapping' = [mapping EXCEPT ![d].status = decision]
    /\ UNCHANGED <<evidenceVars, hub, executionVars>>

-----------------------------------------------------------------------------
Holds(d, so) == mapping[d].salesOrder = so /\ parcel[d] \notin {"none", "released"}
Mapped(d) == d \in Digests /\ mapping[d].status = "approved"

ReserveUnifiedOrderStock ==
    LET d == external.digest IN
    /\ external.handoff # None /\ ~ conflict
    /\ Mapped(d) /\ intent[d] = "pending"
    /\ ~ \E e \in Digests : Holds(e, mapping[d].salesOrder)
    /\ stage' = [stage EXCEPT ![d] = "reserved"]
    /\ parcel' = [parcel EXCEPT ![d] = "reserved"]
    /\ intent' = [intent EXCEPT ![d] = "executed"]
    /\ UNCHANGED <<external, seen, conflict, approvals, hub, mapping, closed>>

(* A step of the executions moves the stage and, but for the picking, the  *)
(* package with it; it refuses when the package is elsewhere.              *)
Advance(from, to, parcelFrom, parcelTo) ==
    LET d == external.digest IN
    /\ external.status # "none" /\ ~ conflict
    /\ stage[d] = from /\ parcel[d] \in parcelFrom
    /\ stage' = [stage EXCEPT ![d] = to]
    /\ parcel' = [parcel EXCEPT ![d] = IF parcelTo = None THEN @ ELSE parcelTo]
    /\ UNCHANGED <<evidenceVars, hub, mapping, closed>>
AnyParcel == {parcel[d] : d \in Digests}

CreatePickTasks == Advance("reserved", "picking", {"reserved"}, None)
CompletePickTasks == Advance("picking", "picked", AnyParcel, None)
CreateUnifiedOrderPackage ==
    Mapped(external.digest) /\ Advance("picked", "packaged", {"reserved"}, "planned")
CompleteShipmentPackage == Advance("packaged", "packed", {"planned"}, "packed")
PrepareDispatch ==
    Mapped(external.digest) /\ Advance("packed", "ready", {"packed"}, "ready-to-dispatch")
Dispatch ==
    /\ Mapped(external.digest)
    /\ Advance("ready", "dispatched", {"ready-to-dispatch"}, "dispatched")
ConfirmDelivery ==
    /\ Mapped(external.digest)
    /\ Advance("dispatched", "delivered", {"dispatched", "in-transit"}, "delivered")

(* The fulfilment desk moves reservations and packages on its own.         *)
DeskMoves == {
    <<"reserved", "released">>, <<"reserved", "planned">>,
    <<"planned", "packed">>, <<"packed", "ready-to-dispatch">>,
    <<"ready-to-dispatch", "dispatched">>, <<"dispatched", "in-transit">>,
    <<"dispatched", "delivered">>, <<"in-transit", "delivered">>,
    <<"planned", "released">>, <<"packed", "released">>, <<"ready-to-dispatch", "released">>}
DeskMove(d, move) ==
    /\ parcel[d] = move[1]
    /\ parcel' = [parcel EXCEPT ![d] = move[2]]
    /\ UNCHANGED <<evidenceVars, hub, mapping, stage, closed>>

-----------------------------------------------------------------------------
(* A requirement to reconcile exists under the digest of every such event. *)
Reconcile(kind) ==
    LET d == external.digest IN
    /\ ~ conflict /\ kind \notin closed[d]
    /\ closed' = [closed EXCEPT ![d] = @ \cup {kind}]
    /\ UNCHANGED <<evidenceVars, hub, mapping, stage, parcel>>

ReconcileRto ==
    /\ external.status = "rto"
    /\ Mapped(external.digest)
    /\ stage[external.digest] \in {"dispatched", "delivered"}
    /\ Reconcile("rto")

(* There is a settled return of the goods with its credit note matched.    *)
ReconcileReturn ==
    /\ external.status \in {"returned", "rto"}
    /\ external.status = "rto" => "rto" \in closed[external.digest]
    /\ Reconcile("return")

-----------------------------------------------------------------------------
Executing ==
    \/ ReserveUnifiedOrderStock \/ CreatePickTasks \/ CompletePickTasks
    \/ CreateUnifiedOrderPackage \/ CompleteShipmentPackage
    \/ PrepareDispatch \/ Dispatch \/ ConfirmDelivery

UnifiedNext ==
    \/ \E d \in Digests :
         \/ \E status \in Statuses, mapped, governed \in BOOLEAN :
                IngestSourceEvent(d, status, mapped, governed)
         \/ IngestChangedEvent(d) \/ PrepareForGovernedHandoff(d)
         \/ \E outcome \in {"acknowledged", "retryable", "rejected"} :
                RecordHubHandoffResult(d, outcome)
         \/ \E decision \in {"approved", "rejected"} : DecideFulfilmentHandoff(d, decision)
         \/ \E move \in DeskMoves : DeskMove(d, move)
    \/ PrepareHubHandoff
    \/ \E so \in SalesOrders : PrepareFulfilmentHandoff(so)
    \/ Executing \/ ReconcileRto \/ ReconcileReturn

UnifiedSpec == UnifiedInit /\ [][UnifiedNext]_unifiedVars

(* Operators leave nothing undone that the program lets them do.           *)
ApproveCurrent == external.digest \in Digests /\ PrepareForGovernedHandoff(external.digest)
Diligence ==
    /\ WF_unifiedVars(ApproveCurrent)
    /\ WF_unifiedVars(\E so \in SalesOrders : PrepareFulfilmentHandoff(so))
    /\ WF_unifiedVars(\E d \in Digests : DecideFulfilmentHandoff(d, "approved"))
    /\ WF_unifiedVars(Executing)
    /\ WF_unifiedVars(ReconcileRto) /\ WF_unifiedVars(ReconcileReturn)

DiligentSpec == UnifiedSpec /\ Diligence

-----------------------------------------------------------------------------
IntentStatuses == {"none", "pending", "superseded", "executed"}
ExternalRecord ==
    [status : Statuses \cup {"none"}, digest : Digests \cup {None}, mapped : BOOLEAN,
     handoff : Digests \cup {None}]
HubRecord ==
    [status : {"none", "prepared", "acknowledged", "retryable", "rejected"}, attempt : Nat]
MappingRecord ==
    [status : {"none", "prepared", "approved", "rejected"},
     salesOrder : SalesOrders \cup {None}]

ExecutionStages == {"none", "reserved", "picking", "picked", "packaged", "packed",
           "ready", "dispatched", "delivered"}
ParcelStatuses == {"none", "reserved", "released", "planned", "packed",
                   "ready-to-dispatch", "dispatched", "in-transit", "delivered"}

UnifiedTypeOK ==
    /\ external \in ExternalRecord
    /\ seen \subseteq Digests /\ approvals \subseteq Digests /\ conflict \in BOOLEAN
    /\ intent \in [Digests -> IntentStatuses]
    /\ hub \in [Digests -> HubRecord]
    /\ mapping \in [Digests -> MappingRecord]
    /\ stage \in [Digests -> ExecutionStages]
    /\ parcel \in [Digests -> ParcelStatuses]
    /\ closed \in [Digests -> SUBSET {"rto", "return"}]

(* Stock moves only for evidence that was approved itself, not an earlier  *)
(* or a later state of the order, and mapped; and one local order is never *)
(* reserved for twice.  Reserving looks at the last approval whatever it   *)
(* was for: that it was for this digest is the work of the intents.        *)
ReservedAsApproved ==
    /\ \A d \in Digests : parcel[d] # "none" => d \in approvals /\ Mapped(d)
    /\ \A so \in SalesOrders : \A d, e \in Digests :
         Holds(d, so) /\ Holds(e, so) => d = e

(* "An authoritative external rto status can now be closed locally only    *)
(* after an approved fulfilment mapping, carrier-dispatch evidence, ..."   *)
(* (RETAIL_EXECUTION_LEDGER.md): so an order that was dispatched and comes *)
(* back is closed, unless a conflict stops it.                             *)
DispatchedRto ==
    external.status = "rto" /\ \E d \in Digests : stage[d] \in {"dispatched", "delivered"}
RtoIsReconciled == DispatchedRto ~> (conflict \/ \E d \in Digests : "rto" \in closed[d])
=============================================================================
