---------------------------- MODULE OrderProofs -----------------------------
(***************************************************************************)
(* Theorems about UnifiedOrder for every set of events and of local        *)
(* orders: stock moves only for evidence that was approved itself.  And    *)
(* about OrderFulfilment over WarehouseStock for all warehouses, bins,     *)
(* papers and quantities: what lies in the bins is costed, what is held    *)
(* there has an owner, what is promised is there, and no more comes back   *)
(* than went out.                                                          *)
(***************************************************************************)
EXTENDS UnifiedOrder, OrderFulfilment, TotalsProofs

(* Why the last approval is the one that counts: an intent is pending only *)
(* under the digest of the moment, and while it is, whatever was approved  *)
(* last was approved for that digest.                                      *)
IntentsFollowOrder ==
    /\ external.digest \in seen \cup {None}
    /\ external.status # "none" => external.digest \in seen
    /\ \A d \in Digests \ seen : intent[d] = "none"
    /\ \A d \in Digests : intent[d] = "pending" =>
         external.digest = d /\ external.handoff \in {None, d}
    /\ external.handoff # None => external.handoff \in approvals

IInv == UnifiedTypeOK /\ IntentsFollowOrder /\ ReservedAsApproved

-----------------------------------------------------------------------------
(* The initial state is empty. *)
LEMMA UnifiedInitially == UnifiedInit => IInv
<1> SUFFICES ASSUME UnifiedInit PROVE IInv
  OBVIOUS
<1>1. external \in ExternalRecord /\ external.digest = None
      /\ external.handoff = None /\ external.status = "none"
  BY DEF UnifiedInit, ExternalRecord
<1>2. [status |-> "none", attempt |-> 0] \in HubRecord
  BY DEF HubRecord
<1>3. [status |-> "none", salesOrder |-> None] \in MappingRecord
  BY DEF MappingRecord
<1>4. UnifiedTypeOK
  BY <1>1, <1>2, <1>3 DEF UnifiedInit, UnifiedTypeOK, IntentStatuses, ExecutionStages, ParcelStatuses
<1>5. IntentsFollowOrder
  BY <1>1 DEF UnifiedInit, IntentsFollowOrder
<1>6. ReservedAsApproved
  BY DEF UnifiedInit, ReservedAsApproved, Holds
<1> QED
  BY <1>4, <1>5, <1>6 DEF IInv

(* What Boundaries does to the intents: those of other digests are no      *)
(* longer pending, and one becomes pending only for a governed order.      *)
LEMMA BoundariesOfIntents ==
    ASSUME UnifiedTypeOK, NEW record, NEW governed \in BOOLEAN, Boundaries(record, governed)
    PROVE  /\ intent' \in [Digests -> IntentStatuses] /\ conflict' \in BOOLEAN
           /\ \A d \in Digests : d # record.digest =>
                intent'[d] # "pending" /\ (intent[d] = "none" => intent'[d] = "none")
           /\ \A d \in Digests : intent'[d] = "pending" => governed \/ intent[d] = "pending"
<1>1. conflict \in BOOLEAN /\ intent \in [Digests -> IntentStatuses]
  BY DEF UnifiedTypeOK
<1>2. conflict' \in BOOLEAN
  BY <1>1 DEF Boundaries
<1>3. \A d \in Digests : intent'[d] =
        IF d = record.digest
        THEN IF /\ governed /\ record.status \in {"accepted", "picking", "packed"}
                /\ record.mapped /\ intent[d] = "none"
             THEN "pending" ELSE intent[d]
        ELSE IF intent[d] = "pending" THEN "superseded" ELSE intent[d]
  BY DEF Boundaries
<1>4. intent' \in [Digests -> IntentStatuses]
  BY <1>1 DEF Boundaries, IntentStatuses
<1> QED
  BY <1>2, <1>3, <1>4

(* A step that leaves the evidence, the mappings and the parcels alone. *)
LEMMA UntouchedEvidence ==
    ASSUME IInv, UNCHANGED <<evidenceVars, mapping, parcel>>
    PROVE  IntentsFollowOrder' /\ ReservedAsApproved'
BY DEF IInv, IntentsFollowOrder, ReservedAsApproved, Holds, Mapped, evidenceVars

(* A step that leaves mappings and parcels alone and forgets no approval.  *)
LEMMA UntouchedParcels ==
    ASSUME IInv, UNCHANGED <<mapping, parcel>>, approvals \subseteq approvals'
    PROVE  ReservedAsApproved'
BY DEF IInv, ReservedAsApproved, Holds, Mapped

-----------------------------------------------------------------------------
(* An event that is recorded becomes the state of the order: intents of    *)
(* earlier digests are set aside, and an approval that there is was for    *)
(* this digest, or the event is not governed and makes no intent.          *)
LEMMA IngestPreserves ==
    ASSUME IInv, NEW d \in Digests, NEW status \in Statuses,
           NEW mapped \in BOOLEAN, NEW governed \in BOOLEAN,
           IngestSourceEvent(d, status, mapped, governed)
    PROVE  IInv'
<1>1. UnifiedTypeOK /\ IntentsFollowOrder
  BY DEF IInv
<1>2. UNCHANGED <<approvals, hub, mapping, stage, parcel, closed>> /\ d \notin seen
  BY DEF IngestSourceEvent, executionVars
<1>3. ReservedAsApproved'
  BY <1>2, UntouchedParcels
<1>4. CASE Accepts(d, status, governed)
  <2> DEFINE record == [external EXCEPT !.status = status, !.digest = d, !.mapped = mapped]
  <2>1. external' = record /\ seen' = seen \cup {d} /\ Boundaries(record, governed)
    BY <1>4 DEF IngestSourceEvent
  <2>2. /\ record \in ExternalRecord /\ record.digest = d
        /\ record.handoff = external.handoff
    BY <1>1 DEF UnifiedTypeOK, ExternalRecord
  <2>3. governed => external.handoff \in {None, d}
    BY <1>4 DEF Accepts
  <2> HIDE DEF record
  <2>4. /\ intent' \in [Digests -> IntentStatuses] /\ conflict' \in BOOLEAN
        /\ \A e \in Digests : e # d =>
             intent'[e] # "pending" /\ (intent[e] = "none" => intent'[e] = "none")
        /\ \A e \in Digests : intent'[e] = "pending" => governed \/ intent[e] = "pending"
    BY <1>1, <2>1, <2>2, BoundariesOfIntents
  <2>5. UnifiedTypeOK'
    BY <1>1, <1>2, <2>1, <2>2, <2>4 DEF UnifiedTypeOK
  <2>6. IntentsFollowOrder'
    BY <1>1, <1>2, <2>1, <2>2, <2>3, <2>4 DEF IntentsFollowOrder, UnifiedTypeOK
  <2> QED
    BY <1>3, <2>5, <2>6 DEF IInv
<1>5. CASE ~ Accepts(d, status, governed)
  <2>1. conflict' = TRUE /\ UNCHANGED <<external, seen, intent>>
    BY <1>5 DEF IngestSourceEvent
  <2>2. UnifiedTypeOK' /\ IntentsFollowOrder'
    BY <1>1, <1>2, <2>1 DEF UnifiedTypeOK, IntentsFollowOrder
  <2> QED
    BY <1>3, <2>2 DEF IInv
<1> QED
  BY <1>4, <1>5

(* An approval is for the digest of the moment or only files a conflict.   *)
LEMMA ApprovalPreserves ==
    ASSUME IInv, NEW d \in Digests, PrepareForGovernedHandoff(d)
    PROVE  IInv'
<1>1. UnifiedTypeOK /\ IntentsFollowOrder
  BY DEF IInv
<1>2. UNCHANGED <<seen, hub, mapping, stage, parcel, closed>> /\ d \in seen
  BY DEF PrepareForGovernedHandoff, executionVars
<1>3. CASE d = external.digest
  <2> DEFINE promoted == [external EXCEPT !.handoff = d]
  <2>1. /\ external' = promoted /\ approvals' = approvals \cup {d}
        /\ Boundaries(promoted, TRUE)
    BY <1>3 DEF PrepareForGovernedHandoff
  <2>2. promoted \in ExternalRecord /\ promoted.digest = d /\ promoted.handoff = d
    BY <1>1, <1>3 DEF UnifiedTypeOK, ExternalRecord
  <2> HIDE DEF promoted
  <2>3. /\ intent' \in [Digests -> IntentStatuses] /\ conflict' \in BOOLEAN
        /\ \A e \in Digests : e # d =>
             intent'[e] # "pending" /\ (intent[e] = "none" => intent'[e] = "none")
    BY <1>1, <2>1, <2>2, BoundariesOfIntents
  <2>4. UnifiedTypeOK'
    BY <1>1, <1>2, <2>1, <2>2, <2>3 DEF UnifiedTypeOK
  <2>5. IntentsFollowOrder'
    BY <1>1, <1>2, <1>3, <2>1, <2>2, <2>3 DEF IntentsFollowOrder, UnifiedTypeOK
  <2>6. ReservedAsApproved'
    BY <1>2, <2>1, UntouchedParcels
  <2> QED
    BY <2>4, <2>5, <2>6 DEF IInv
<1>4. CASE d # external.digest
  <2>1. conflict' = TRUE /\ UNCHANGED <<external, intent, approvals>>
    BY <1>4 DEF PrepareForGovernedHandoff
  <2>2. UnifiedTypeOK' /\ IntentsFollowOrder'
    BY <1>1, <1>2, <2>1 DEF UnifiedTypeOK, IntentsFollowOrder
  <2> QED
    BY <1>2, <2>1, <2>2, UntouchedParcels DEF IInv
<1> QED
  BY <1>3, <1>4

(* A mapping is decided once: what is approved stays approved, for the     *)
(* same local order, and nothing is reserved under one that is not.        *)
LEMMA MappingPreserves ==
    ASSUME IInv, NEW d \in Digests, UNCHANGED <<evidenceVars, hub, executionVars>>,
           mapping[d].status # "approved", NEW m \in MappingRecord,
           mapping' = [mapping EXCEPT ![d] = m]
    PROVE  IInv'
<1>1. UnifiedTypeOK'
  BY DEF IInv, UnifiedTypeOK, evidenceVars, executionVars
<1>2. IntentsFollowOrder'
  BY DEF IInv, IntentsFollowOrder, evidenceVars
<1>3. \A e \in Digests : e # d => mapping'[e] = mapping[e]
  BY DEF IInv, UnifiedTypeOK
<1>4. parcel[d] = "none"
  BY DEF IInv, ReservedAsApproved, Mapped
<1>5. ReservedAsApproved'
  BY <1>3, <1>4 DEF IInv, ReservedAsApproved, Holds, Mapped, evidenceVars, executionVars
<1> QED
  BY <1>1, <1>2, <1>5 DEF IInv

(* Stock is reserved under the digest of the moment while its intent is    *)
(* pending, so the approval there is was for it.                           *)
LEMMA ReservingPreserves ==
    ASSUME IInv, ReserveUnifiedOrderStock
    PROVE  IInv'
<1> DEFINE d == external.digest
<1>1. UnifiedTypeOK /\ IntentsFollowOrder /\ ReservedAsApproved
  BY DEF IInv
<1>2. /\ external.handoff # None /\ Mapped(d) /\ d \in Digests /\ intent[d] = "pending"
      /\ ~ \E e \in Digests : Holds(e, mapping[d].salesOrder)
      /\ stage' = [stage EXCEPT ![d] = "reserved"]
      /\ parcel' = [parcel EXCEPT ![d] = "reserved"]
      /\ intent' = [intent EXCEPT ![d] = "executed"]
      /\ UNCHANGED <<external, seen, conflict, approvals, hub, mapping, closed>>
  BY DEF ReserveUnifiedOrderStock, Mapped
<1>3. d \in approvals /\ d \in seen
  BY <1>1, <1>2 DEF IntentsFollowOrder
<1>4. UnifiedTypeOK'
  BY <1>1, <1>2 DEF UnifiedTypeOK, IntentStatuses, ExecutionStages, ParcelStatuses
<1>5. IntentsFollowOrder'
  BY <1>1, <1>2, <1>3 DEF IntentsFollowOrder, UnifiedTypeOK
<1>6. \A e \in Digests : e # d => parcel'[e] = parcel[e]
  BY <1>1, <1>2 DEF UnifiedTypeOK
<1>7. ReservedAsApproved'
  BY <1>1, <1>2, <1>3, <1>6 DEF ReservedAsApproved, Holds, Mapped
<1> QED
  BY <1>4, <1>5, <1>7 DEF IInv

(* A parcel that is moved on was there before, and did not stop holding.   *)
LEMMA MovingPreserves ==
    ASSUME IInv, NEW d \in Digests, UNCHANGED <<evidenceVars, mapping>>,
           NEW to, parcel' = [parcel EXCEPT ![d] = to],
           to = parcel[d] \/ parcel[d] \notin {"none", "released"}
    PROVE  IntentsFollowOrder' /\ ReservedAsApproved'
<1>1. IntentsFollowOrder'
  BY DEF IInv, IntentsFollowOrder, evidenceVars
<1>2. \A e \in Digests : parcel'[e] = parcel[e] \/ parcel[e] \notin {"none", "released"}
  BY DEF IInv, UnifiedTypeOK
<1>3. ReservedAsApproved'
  BY <1>2 DEF IInv, ReservedAsApproved, Holds, Mapped, evidenceVars
<1> QED
  BY <1>1, <1>3

(* An order that is known is filed under one of its events. *)
LEMMA StagedIsKnown ==
    ASSUME IInv, NEW from, NEW to, NEW parcelFrom, NEW parcelTo,
           Advance(from, to, parcelFrom, parcelTo)
    PROVE  external.digest \in Digests
BY DEF IInv, UnifiedTypeOK, IntentsFollowOrder, Advance

(* A step of the executions types what it changes. *)
LEMMA AdvancePreserves ==
    ASSUME IInv, NEW from, NEW to \in ExecutionStages, NEW parcelFrom,
           NEW parcelTo \in ParcelStatuses \cup {None},
           Advance(from, to, parcelFrom, parcelTo),
           parcelTo = None \/ parcelFrom \cap {"none", "released"} = {},
           external.digest \in Digests
    PROVE  IInv'
<1> DEFINE d == external.digest
           new == IF parcelTo = None THEN parcel[d] ELSE parcelTo
<1>1. /\ parcel[d] \in parcelFrom
      /\ stage' = [stage EXCEPT ![d] = to]
      /\ parcel' = [parcel EXCEPT ![d] = new]
      /\ UNCHANGED <<evidenceVars, hub, mapping, closed>>
  BY DEF Advance
<1>2. parcel[d] \in ParcelStatuses /\ new \in ParcelStatuses
  BY DEF IInv, UnifiedTypeOK
<1>3. new = parcel[d] \/ parcel[d] \notin {"none", "released"}
  BY <1>1
<1> HIDE DEF new
<1>4. UnifiedTypeOK'
  BY <1>1, <1>2 DEF IInv, UnifiedTypeOK, evidenceVars
<1>5. IntentsFollowOrder' /\ ReservedAsApproved'
  BY <1>1, <1>3, MovingPreserves
<1> QED
  BY <1>4, <1>5 DEF IInv

(* Every execution is under the digest of an event.                        *)
LEMMA ExecutingPreserves ==
    ASSUME IInv, Executing
    PROVE  IInv'
<1> USE DEF ExecutionStages, ParcelStatuses
<1>1. CASE ReserveUnifiedOrderStock
  BY <1>1, ReservingPreserves
<1>2. CASE CreatePickTasks
  BY <1>2, StagedIsKnown, AdvancePreserves DEF CreatePickTasks
<1>3. CASE CompletePickTasks
  BY <1>3, StagedIsKnown, AdvancePreserves DEF CompletePickTasks
<1>4. CASE CreateUnifiedOrderPackage
  BY <1>4, AdvancePreserves DEF CreateUnifiedOrderPackage, Mapped
<1>5. CASE CompleteShipmentPackage
  BY <1>5, StagedIsKnown, AdvancePreserves DEF CompleteShipmentPackage
<1>6. CASE PrepareDispatch
  BY <1>6, AdvancePreserves DEF PrepareDispatch, Mapped
<1>7. CASE Dispatch
  BY <1>7, AdvancePreserves DEF Dispatch, Mapped
<1>8. CASE ConfirmDelivery
  BY <1>8, AdvancePreserves DEF ConfirmDelivery, Mapped
<1> QED
  BY <1>1, <1>2, <1>3, <1>4, <1>5, <1>6, <1>7, <1>8 DEF Executing

(* The desk moves only what is reserved or packed, and nothing comes back  *)
(* from being released.                                                    *)
LEMMA DeskPreserves ==
    ASSUME IInv, NEW d \in Digests, NEW move \in DeskMoves, DeskMove(d, move)
    PROVE  IInv'
<1>1. /\ parcel[d] = move[1] /\ parcel' = [parcel EXCEPT ![d] = move[2]]
      /\ UNCHANGED <<evidenceVars, hub, mapping, stage, closed>>
  BY DEF DeskMove
<1>2. move[1] \notin {"none", "released"} /\ move[2] \in ParcelStatuses
  BY DEF DeskMoves, ParcelStatuses
<1>3. UnifiedTypeOK'
  BY <1>1, <1>2 DEF IInv, UnifiedTypeOK, evidenceVars
<1>4. IntentsFollowOrder' /\ ReservedAsApproved'
  BY <1>1, <1>2, MovingPreserves
<1> QED
  BY <1>3, <1>4 DEF IInv

(* A reconciliation is a record of its own.                                *)
LEMMA ReconcilingPreserves ==
    ASSUME IInv, NEW kind \in {"rto", "return"}, Reconcile(kind)
    PROVE  IInv'
<1>1. UNCHANGED <<evidenceVars, hub, mapping, stage, parcel>>
      /\ closed' = [closed EXCEPT ![external.digest] = @ \cup {kind}]
  BY DEF Reconcile
<1>2. UnifiedTypeOK'
  BY <1>1 DEF IInv, UnifiedTypeOK, evidenceVars
<1> QED
  BY <1>1, <1>2, UntouchedEvidence DEF IInv

-----------------------------------------------------------------------------
(* Every step preserves the inductive invariant. *)
LEMMA UnifiedStepPreserves ==
    ASSUME IInv, [UnifiedNext]_unifiedVars
    PROVE  IInv'
<1>1. ASSUME NEW d \in Digests, NEW status \in Statuses, NEW mapped \in BOOLEAN,
             NEW governed \in BOOLEAN, IngestSourceEvent(d, status, mapped, governed)
      PROVE  IInv'
  BY <1>1, IngestPreserves
<1>2. ASSUME NEW d \in Digests, IngestChangedEvent(d)
      PROVE  IInv'
  <2>1. UNCHANGED <<external, seen, intent, approvals, hub, mapping, executionVars>>
        /\ conflict' = TRUE
    BY <1>2 DEF IngestChangedEvent
  <2>2. UnifiedTypeOK' /\ IntentsFollowOrder'
    BY <2>1 DEF IInv, UnifiedTypeOK, IntentsFollowOrder, executionVars
  <2> QED
    BY <2>1, <2>2, UntouchedParcels DEF IInv, executionVars
<1>3. ASSUME NEW d \in Digests, PrepareForGovernedHandoff(d)
      PROVE  IInv'
  BY <1>3, ApprovalPreserves
<1>4. CASE PrepareHubHandoff
  <2> DEFINE d == external.digest
             h == [status |-> "prepared", attempt |-> hub[d].attempt + 1]
  <2>1. hub' = [hub EXCEPT ![d] = h] /\ UNCHANGED <<evidenceVars, mapping, executionVars>>
    BY <1>4 DEF PrepareHubHandoff
  <2>2. hub' \in [Digests -> HubRecord]
    <3>1. CASE d \in Digests
      <4>1. h \in HubRecord
        BY <3>1 DEF IInv, UnifiedTypeOK, HubRecord
      <4> QED
        BY <2>1, <4>1 DEF IInv, UnifiedTypeOK
    <3>2. CASE d \notin Digests
      BY <2>1, <3>2 DEF IInv, UnifiedTypeOK
    <3> QED
      BY <3>1, <3>2
  <2>3. UnifiedTypeOK'
    BY <2>1, <2>2 DEF IInv, UnifiedTypeOK, evidenceVars, executionVars
  <2> QED
    BY <2>1, <2>3, UntouchedEvidence DEF IInv, executionVars
<1>5. ASSUME NEW d \in Digests, NEW outcome \in {"acknowledged", "retryable", "rejected"},
             RecordHubHandoffResult(d, outcome)
      PROVE  IInv'
  <2>1. /\ hub' = [hub EXCEPT ![d].status = outcome]
        /\ UNCHANGED <<evidenceVars, mapping, executionVars>>
    BY <1>5 DEF RecordHubHandoffResult
  <2>2. UnifiedTypeOK'
    BY <2>1 DEF IInv, UnifiedTypeOK, HubRecord, evidenceVars, executionVars
  <2> QED
    BY <2>1, <2>2, UntouchedEvidence DEF IInv, executionVars
<1>6. ASSUME NEW so \in SalesOrders, PrepareFulfilmentHandoff(so)
      PROVE  IInv'
  <2> DEFINE d == external.digest
             m == [status |-> "prepared", salesOrder |-> so]
  <2>1. /\ mapping' = [mapping EXCEPT ![d] = m] /\ mapping[d].status # "approved"
        /\ UNCHANGED <<evidenceVars, hub, executionVars>> /\ external.handoff # None
    BY <1>6 DEF PrepareFulfilmentHandoff
  <2>2. m \in MappingRecord
    BY DEF MappingRecord
  <2>3. CASE d \in Digests
    BY <2>1, <2>2, <2>3, MappingPreserves
  <2>4. CASE d \notin Digests
    <3>1. mapping' = mapping
      BY <2>1, <2>4 DEF IInv, UnifiedTypeOK
    <3>2. UnifiedTypeOK'
      BY <2>1, <3>1 DEF IInv, UnifiedTypeOK, evidenceVars, executionVars
    <3> QED
      BY <2>1, <3>1, <3>2, UntouchedEvidence DEF IInv, executionVars
  <2> QED
    BY <2>3, <2>4
<1>7. ASSUME NEW d \in Digests, NEW decision \in {"approved", "rejected"},
             DecideFulfilmentHandoff(d, decision)
      PROVE  IInv'
  <2> DEFINE m == [mapping[d] EXCEPT !.status = decision]
  <2>1. /\ mapping' = [mapping EXCEPT ![d] = m] /\ mapping[d].status # "approved"
        /\ UNCHANGED <<evidenceVars, hub, executionVars>>
    BY <1>7 DEF DecideFulfilmentHandoff
  <2>2. m \in MappingRecord
    BY DEF IInv, UnifiedTypeOK, MappingRecord
  <2> QED
    BY <2>1, <2>2, MappingPreserves
<1>8. ASSUME NEW d \in Digests, NEW move \in DeskMoves, DeskMove(d, move)
      PROVE  IInv'
  BY <1>8, DeskPreserves
<1>9. CASE Executing
  BY <1>9, ExecutingPreserves
<1>10. CASE ReconcileRto \/ ReconcileReturn
  BY <1>10, ReconcilingPreserves DEF ReconcileRto, ReconcileReturn
<1>11. CASE UNCHANGED unifiedVars
  <2>1. UnifiedTypeOK'
    BY <1>11 DEF IInv, UnifiedTypeOK, unifiedVars, evidenceVars, executionVars
  <2> QED
    BY <1>11, <2>1, UntouchedEvidence DEF IInv, unifiedVars, executionVars
<1> QED
  BY <1>1, <1>2, <1>3, <1>4, <1>5, <1>6, <1>7, <1>8, <1>9, <1>10, <1>11 DEF UnifiedNext

(* The inductive invariant holds throughout. *)
LEMMA UnifiedInvariant == UnifiedSpec => []IInv
BY UnifiedInitially, UnifiedStepPreserves, PTL DEF UnifiedSpec

(* Type correctness of an order of an outside channel. *)
THEOREM UnifiedTypeCorrect == UnifiedSpec => []UnifiedTypeOK
BY UnifiedInvariant, PTL DEF IInv

(* reserveRetailUnifiedOrderStock and the executions after it: stock is    *)
(* held only under evidence that was approved itself and mapped, and never *)
(* twice for one local order.                                              *)
THEOREM StockIsReservedAsApproved == UnifiedSpec => []ReservedAsApproved
BY UnifiedInvariant, PTL DEF IInv

-----------------------------------------------------------------------------
(* What lies in the warehouses.                                            *)

(* Bins, cost layers and positions, which the books keep apart: what a     *)
(* warehouse's bins hold its layers value, no bin holds back more than it  *)
(* has, and no position promises more than is on hand.                     *)
LedgerInv ==
    /\ bin \in [Bins -> BinRecord] /\ layers \in [Warehouses -> Nat]
    /\ position \in [Warehouses -> [onHand : Nat, reserved : Nat]]
    /\ \A b \in Bins : Controlled(bin[b])
    /\ \A w \in Warehouses : QuantityOf(bin, BinsOf(w)) = layers[w]
    /\ \A w \in Warehouses : position[w].reserved <= position[w].onHand

LEMMA QuantitiesCount == \A q \in Quantities \cup {0} : q \in Nat /\ q \in Int
BY StockAssumption

LEMMA BinChange ==
    ASSUME LedgerInv, NEW b \in Bins, NEW q \in Int, NEW r \in Int, NEW k \in Int,
           BinBecomes(b, q, r, k)
    PROVE  /\ bin' \in [Bins -> BinRecord]
           /\ bin'[b] = [quantity |-> bin[b].quantity + q, reserved |-> bin[b].reserved + r,
                         picked |-> bin[b].picked + k]
           /\ \A x \in Bins : x # b => bin'[x] = bin[x]
           /\ \A x \in Bins : Controlled(bin'[x])
           /\ \A w \in Warehouses :
                QuantityOf(bin', BinsOf(w)) =
                    QuantityOf(bin, BinsOf(w)) + (IF WarehouseOf[b] = w THEN q ELSE 0)
<1> DEFINE new == [quantity |-> bin[b].quantity + q, reserved |-> bin[b].reserved + r,
                   picked |-> bin[b].picked + k]
<1>1. /\ bin' = [bin EXCEPT ![b] = new] /\ Controlled(new)
      /\ bin \in [Bins -> BinRecord] /\ bin[b] \in BinRecord
      /\ \A x \in Bins : Controlled(bin[x])
  BY DEF BinBecomes, Changed, LedgerInv
<1>2. new \in BinRecord
  BY <1>1 DEF BinRecord, Controlled
<1> HIDE DEF new
<1>3. /\ bin' \in [Bins -> BinRecord] /\ bin'[b] = new
      /\ \A x \in Bins : x # b => bin'[x] = bin[x]
  BY <1>1, <1>2
<1>4. \A x \in Bins : Controlled(bin'[x])
  BY <1>1, <1>3
<1>5. ASSUME NEW w \in Warehouses
      PROVE  QuantityOf(bin', BinsOf(w)) =
                 QuantityOf(bin, BinsOf(w)) + (IF WarehouseOf[b] = w THEN q ELSE 0)
  <2> DEFINE S == BinsOf(w)
  <2>1. /\ IsFiniteSet(Bins) /\ S \in SUBSET Bins
        /\ \A x \in Bins : bin[x].quantity \in Int /\ bin'[x].quantity \in Int
        /\ b \in S <=> WarehouseOf[b] = w
    BY <1>3, <1>1, StockAssumption DEF BinsOf, BinRecord
  <2>2. bin'[b].quantity = bin[b].quantity + q
    BY <1>3 DEF new
  <2>3. \A x \in Bins : x # b => bin'[x].quantity = bin[x].quantity
    BY <1>3
  <2> HIDE DEF S
  <2>4. /\ QuantityOf(bin', S) = QuantityOf(bin, S) +
             (IF b \in S THEN bin'[b].quantity - bin[b].quantity ELSE 0)
        /\ QuantityOf(bin, S) \in Int
    BY <2>1, <2>3, QuantityChangeIn
  <2> QED
    BY <1>1, <2>1, <2>2, <2>4 DEF S
<1> QED
  BY <1>3, <1>4, <1>5 DEF new

(* Quantities that move with their cost layers and, or not, the position.  *)
LEMMA GoodsMove ==
    ASSUME LedgerInv, NEW b \in Bins, NEW q \in Int, NEW r \in Int, NEW k \in Int,
           BinBecomes(b, q, r, k), LayersBecome(WarehouseOf[b], q),
           Synced(WarehouseOf[b], q) \/ position' = position
    PROVE  /\ LedgerInv'
           /\ \A w \in Warehouses : position'[w].reserved = position[w].reserved
<1> DEFINE w == WarehouseOf[b]
<1>1. /\ w \in Warehouses /\ layers \in [Warehouses -> Nat]
      /\ position \in [Warehouses -> [onHand : Nat, reserved : Nat]]
      /\ \A v \in Warehouses : position[v].reserved <= position[v].onHand
      /\ \A v \in Warehouses : QuantityOf(bin, BinsOf(v)) = layers[v]
  BY StockAssumption DEF LedgerInv
<1>2. /\ bin' \in [Bins -> BinRecord] /\ \A x \in Bins : Controlled(bin'[x])
      /\ \A v \in Warehouses : QuantityOf(bin', BinsOf(v)) =
           QuantityOf(bin, BinsOf(v)) + (IF WarehouseOf[b] = v THEN q ELSE 0)
  BY BinChange
<1>3. layers' = [layers EXCEPT ![w] = @ + q] /\ layers[w] + q \in Nat
  BY <1>1 DEF LayersBecome
<1>4. /\ position' \in [Warehouses -> [onHand : Nat, reserved : Nat]]
      /\ \A v \in Warehouses : position'[v].reserved = position[v].reserved
      /\ \A v \in Warehouses : position'[v].reserved <= position'[v].onHand
  <2>1. CASE Synced(w, q)
    <3> DEFINE onHand == position[w].onHand + q
    <3>1. /\ onHand \in Nat /\ position[w].reserved <= onHand
          /\ position' = [position EXCEPT ![w].onHand = onHand]
      BY <1>1, <2>1 DEF Synced
    <3> HIDE DEF onHand, w
    <3> QED
      BY <1>1, <3>1
  <2>2. CASE position' = position
    BY <1>1, <2>2
  <2> QED
    BY <2>1, <2>2
<1>5. \A v \in Warehouses : QuantityOf(bin', BinsOf(v)) = layers'[v]
  <2> HIDE DEF w
  <2>1. \A v \in Warehouses : layers'[v] = layers[v] + (IF w = v THEN q ELSE 0)
    BY <1>1, <1>3
  <2> QED
    BY <1>1, <1>2, <2>1 DEF w
<1>6. layers' \in [Warehouses -> Nat]
  BY <1>1, <1>3
<1>7. \A v \in Warehouses : QuantityOf(bin', BinsOf(v)') = layers'[v]
  BY <1>5 DEF BinsOf
<1> QED
  BY <1>2, <1>4, <1>6, <1>7 DEF LedgerInv

(* Quantities that are only held back or given free.                       *)
LEMMA HoldsMove ==
    ASSUME LedgerInv, NEW b \in Bins, NEW r \in Int, NEW k \in Int,
           BinBecomes(b, 0, r, k), layers' = layers,
           position' \in [Warehouses -> [onHand : Nat, reserved : Nat]],
           \A w \in Warehouses : position'[w].reserved <= position'[w].onHand
    PROVE  LedgerInv'
<1>0. PICK q \in Int : q = 0
  OBVIOUS
<1>1. /\ bin' \in [Bins -> BinRecord] /\ \A x \in Bins : Controlled(bin'[x])
      /\ \A v \in Warehouses : QuantityOf(bin', BinsOf(v)) =
           QuantityOf(bin, BinsOf(v)) + (IF WarehouseOf[b] = v THEN q ELSE 0)
  <2>1. BinBecomes(b, q, r, k)
    BY <1>0
  <2> QED
    BY <2>1, BinChange
<1>2. \A v \in Warehouses : layers[v] \in Nat /\ QuantityOf(bin, BinsOf(v)) = layers[v]
  BY DEF LedgerInv
<1>3. \A v \in Warehouses : QuantityOf(bin', BinsOf(v)') = layers'[v]
  BY <1>0, <1>1, <1>2 DEF BinsOf
<1> QED
  BY <1>1, <1>3 DEF LedgerInv

(* Only the positions change. *)
LEMMA PositionsMove ==
    ASSUME LedgerInv, bin' = bin, layers' = layers,
           position' \in [Warehouses -> [onHand : Nat, reserved : Nat]],
           \A w \in Warehouses : position'[w].reserved <= position'[w].onHand
    PROVE  LedgerInv'
BY DEF LedgerInv, BinsOf

(* The papers name bins, and a putaway stays in its warehouse.             *)
PapersInv ==
    /\ putaway \in [Putaways -> TaskRecord({"open", "completed", "cancelled"})]
    /\ transfer \in [Transfers ->
         TaskRecord({"draft", "released", "in-transit", "received", "cancelled"})]
    /\ cycleCount \in [Counts -> CountRecord]
    /\ disposition \in [Dispositions -> DispositionRecord]
    /\ \A t \in Putaways : putaway[t].status # "none" =>
         /\ putaway[t].from # putaway[t].to
         /\ WarehouseOf[putaway[t].from] = WarehouseOf[putaway[t].to]

StockInv == LedgerInv /\ PapersInv

(* What a bin holds back for others than transfers. *)
Released(b) == {t \in Transfers : transfer[t].from = b /\ transfer[t].status = "released"}
HeldOtherwise(b) == bin[b].reserved - QuantityOf(transfer, Released(b))

(* No work of the warehouse touches what orders hold. *)
HoldsKept ==
    /\ \A b \in Bins : bin'[b].picked = bin[b].picked /\ HeldOtherwise(b)' = HeldOtherwise(b)
    /\ \A w \in Warehouses : position'[w].reserved = position[w].reserved

LEMMA GoodsArrive ==
    ASSUME LedgerInv, NEW b \in Bins, NEW q \in Int,
           BinBecomes(b, q, 0, 0), LayersBecome(WarehouseOf[b], q),
           Synced(WarehouseOf[b], q) \/ position' = position
    PROVE  /\ LedgerInv' /\ \A w \in Warehouses : position'[w].reserved = position[w].reserved
           /\ \A x \in Bins : bin'[x].reserved = bin[x].reserved /\ bin'[x].picked = bin[x].picked
<1>1. PICK r \in Int : r = 0
  OBVIOUS
<1>2. BinBecomes(b, q, r, r)
  BY <1>1
<1>3. /\ LedgerInv' /\ \A w \in Warehouses : position'[w].reserved = position[w].reserved
  BY <1>2, GoodsMove
<1>4. /\ bin'[b].reserved = bin[b].reserved + r /\ bin'[b].picked = bin[b].picked + r
      /\ \A x \in Bins : x # b => bin'[x] = bin[x]
  <2>1. /\ bin'[b] = [quantity |-> bin[b].quantity + q, reserved |-> bin[b].reserved + r,
                      picked |-> bin[b].picked + r]
        /\ \A x \in Bins : x # b => bin'[x] = bin[x]
    BY <1>2, BinChange
  <2> QED
    BY <2>1
<1>5. bin[b].reserved \in Int /\ bin[b].picked \in Int
  BY DEF LedgerInv, BinRecord
<1>6. \A x \in Bins : bin'[x].reserved = bin[x].reserved /\ bin'[x].picked = bin[x].picked
  BY <1>1, <1>4, <1>5
<1> QED
  BY <1>3, <1>6

LEMMA GoodsEnter ==
    ASSUME LedgerInv, NEW b \in Bins, NEW q \in Int,
           BinBecomes(b, q, 0, 0), LayersBecome(WarehouseOf[b], q),
           Synced(WarehouseOf[b], q) \/ position' = position, transfer' = transfer
    PROVE  LedgerInv' /\ HoldsKept
<1>1. /\ LedgerInv' /\ \A w \in Warehouses : position'[w].reserved = position[w].reserved
      /\ \A x \in Bins : bin'[x].reserved = bin[x].reserved /\ bin'[x].picked = bin[x].picked
  BY GoodsArrive
<1> QED
  BY <1>1 DEF HoldsKept, HeldOtherwise, Released

LEMMA NothingMoves ==
    ASSUME LedgerInv, UNCHANGED stockLedger, transfer' = transfer
    PROVE  LedgerInv' /\ HoldsKept
BY DEF stockLedger, LedgerInv, BinsOf, HoldsKept, HeldOtherwise, Released

LEMMA GoodsStepKeeps ==
    ASSUME StockInv, GoodsStep
    PROVE  StockInv' /\ HoldsKept
<1>1. PICK b \in Bins, q \in Quantities :
        ReceiveInventory(b, q) \/ IssueInventory(b, q) \/ ReturnRetailInventory(b, q)
  BY DEF GoodsStep
<1>2. UNCHANGED documents
  BY <1>1 DEF ReceiveInventory, IssueInventory, ReturnRetailInventory
<1>3. PICK d \in Int : /\ BinBecomes(b, d, 0, 0) /\ LayersBecome(WarehouseOf[b], d)
                       /\ Synced(WarehouseOf[b], d) \/ position' = position
  <2>1. q \in Int /\ -q \in Int
    BY StockAssumption
  <2> QED
    BY <1>1, <2>1 DEF ReceiveInventory, IssueInventory, ReturnRetailInventory, Enters
<1>4. LedgerInv' /\ HoldsKept
  BY <1>2, <1>3, GoodsEnter DEF StockInv, documents
<1> QED
  BY <1>2, <1>4 DEF StockInv, PapersInv, documents

LEMMA CountStepKeeps ==
    ASSUME StockInv, CountStep
    PROVE  StockInv' /\ HoldsKept
<1> USE DEF stockLedger
<1>0. cycleCount \in [Counts -> CountRecord] /\ bin \in [Bins -> BinRecord] /\ LedgerInv
  BY DEF StockInv, PapersInv, LedgerInv
<1>1. ASSUME NEW c \in Counts, NEW b \in Bins, CreateCycleCount(c, b)
      PROVE  StockInv' /\ HoldsKept
  <2>1. bin[b].quantity \in Nat
    BY <1>0 DEF BinRecord
  <2>2. cycleCount' \in [Counts -> CountRecord]
    BY <1>0, <1>1, <2>1 DEF CreateCycleCount, CountRecord
  <2> QED
    BY <1>0, <1>1, <2>2, NothingMoves DEF CreateCycleCount, StockInv, PapersInv
<1>2. ASSUME NEW c \in Counts, NEW counted \in 0 .. MaxStock, RecordCycleCount(c, counted)
      PROVE  StockInv' /\ HoldsKept
  <2>1. /\ cycleCount[c] \in CountRecord /\ cycleCount[c].status = "planned"
        /\ counted \in Int
    BY <1>0, <1>2, StockAssumption DEF RecordCycleCount
  <2>2. /\ cycleCount[c] \in [status : {"planned", "review", "posted", "cancelled"}, bin : Bins,
                              expected : Nat, variance : Int]
    BY <2>1 DEF CountRecord, NoCount
  <2>3. counted - cycleCount[c].expected \in Int
    BY <2>1, <2>2
  <2>4. cycleCount' \in [Counts -> CountRecord]
    <3> DEFINE v == counted - cycleCount[c].expected
    <3>1. cycleCount' = [cycleCount EXCEPT ![c].status = "review", ![c].variance = v]
      BY <1>2 DEF RecordCycleCount
    <3> HIDE DEF v
    <3>2. [cycleCount[c] EXCEPT !.status = "review", !.variance = v] \in CountRecord
      BY <2>2, <2>3 DEF CountRecord, v
    <3> QED
      BY <1>0, <3>1, <3>2
  <2> QED
    BY <1>0, <1>2, <2>4, NothingMoves DEF RecordCycleCount, StockInv, PapersInv
<1>3. ASSUME NEW c \in Counts, NEW decision \in Decisions, DecideCycleCount(c, decision)
      PROVE  StockInv' /\ HoldsKept
  <2>1. /\ cycleCount[c] \in CountRecord /\ cycleCount[c].status = "review"
        /\ UNCHANGED <<putaway, transfer, disposition>>
    BY <1>0, <1>3 DEF DecideCycleCount
  <2>2. /\ cycleCount[c] \in [status : {"planned", "review", "posted", "cancelled"}, bin : Bins,
                              expected : Nat, variance : Int]
    BY <2>1 DEF CountRecord, NoCount
  <2>3. cycleCount' \in [Counts -> CountRecord]
    <3>1. \A s \in {"posted", "cancelled"} : [cycleCount[c] EXCEPT !.status = s] \in CountRecord
      BY <2>2 DEF CountRecord
    <3> QED
      BY <1>0, <1>3, <3>1 DEF DecideCycleCount
  <2>4. LedgerInv' /\ HoldsKept
    <3>1. CASE UNCHANGED stockLedger
      BY <1>0, <2>1, <3>1, NothingMoves
    <3>2. CASE Enters(cycleCount[c].bin, cycleCount[c].variance)
      BY <1>0, <2>1, <2>2, <3>2, GoodsEnter DEF Enters
    <3> QED
      BY <1>3, <3>1, <3>2 DEF DecideCycleCount
  <2> QED
    BY <2>1, <2>3, <2>4 DEF StockInv, PapersInv
<1> QED
  BY <1>1, <1>2, <1>3 DEF CountStep

LEMMA DispositionStepKeeps ==
    ASSUME StockInv, DispositionStep
    PROVE  StockInv' /\ HoldsKept
<1> USE DEF stockLedger
<1> DEFINE Filed == [status : {"submitted", "approved", "rejected", "posted"},
                     kind : {"opening-balance", "loss"}, bin : Bins, quantity : Quantities]
<1>0. disposition \in [Dispositions -> DispositionRecord] /\ LedgerInv
  BY DEF StockInv, PapersInv
<1>1. ASSUME NEW d \in Dispositions, NEW kind \in {"opening-balance", "loss"}, NEW b \in Bins,
             NEW q \in Quantities, CreateInventoryDisposition(d, kind, b, q)
      PROVE  StockInv' /\ HoldsKept
  <2>1. disposition' \in [Dispositions -> DispositionRecord]
    BY <1>0, <1>1 DEF CreateInventoryDisposition, DispositionRecord
  <2> QED
    BY <1>0, <1>1, <2>1, NothingMoves DEF CreateInventoryDisposition, StockInv, PapersInv
<1>2. ASSUME NEW d \in Dispositions, NEW decision \in Decisions,
             DecideInventoryDisposition(d, decision)
      PROVE  StockInv' /\ HoldsKept
  <2>1. disposition[d] \in Filed
    BY <1>0, <1>2 DEF DecideInventoryDisposition, DispositionRecord, NoDisposition
  <2>2. [disposition[d] EXCEPT !.status = decision] \in DispositionRecord
    BY <2>1 DEF DispositionRecord, Decisions
  <2>3. disposition' \in [Dispositions -> DispositionRecord]
    BY <1>0, <1>2, <2>2 DEF DecideInventoryDisposition
  <2> QED
    BY <1>0, <1>2, <2>3, NothingMoves DEF DecideInventoryDisposition, StockInv, PapersInv
<1>3. ASSUME NEW d \in Dispositions, PostInventoryDisposition(d)
      PROVE  StockInv' /\ HoldsKept
  <2>1. disposition[d] \in Filed /\ UNCHANGED <<putaway, transfer, cycleCount>>
    BY <1>0, <1>3 DEF PostInventoryDisposition, DispositionRecord, NoDisposition
  <2>2. [disposition[d] EXCEPT !.status = "posted"] \in DispositionRecord
    BY <2>1 DEF DispositionRecord
  <2>3. disposition' \in [Dispositions -> DispositionRecord]
    BY <1>0, <1>3, <2>2 DEF PostInventoryDisposition
  <2>4. LedgerInv' /\ HoldsKept
    <3>1. PICK q \in Quantities, b \in Bins :
            q = disposition[d].quantity /\ b = disposition[d].bin
      BY <2>1
    <3>2. q \in Int /\ -q \in Int
      BY StockAssumption
    <3>3. PICK x \in Int : Enters(b, x)
      BY <1>3, <3>1, <3>2 DEF PostInventoryDisposition
    <3> QED
      BY <1>0, <2>1, <3>3, GoodsEnter DEF Enters
  <2> QED
    BY <2>1, <2>3, <2>4 DEF StockInv, PapersInv
<1> QED
  BY <1>1, <1>2, <1>3 DEF DispositionStep

(* A transfer that goes from one status to another is counted anew in the  *)
(* bin it is taken from.                                                   *)
Holding(status, quantity) == IF status = "released" THEN quantity ELSE 0
TransferStatuses == {"draft", "released", "in-transit", "received", "cancelled"}

LEMMA TransferMoves ==
    ASSUME PapersInv, NEW t \in Transfers, transfer[t].status # "none",
           NEW status \in TransferStatuses, TransferBecomes(t, status)
    PROVE  /\ PapersInv' /\ transfer[t].from \in Bins /\ transfer[t].to \in Bins
           /\ transfer[t].quantity \in Nat
           /\ \A b \in Bins :
                /\ QuantityOf(transfer', Released(b)') = QuantityOf(transfer, Released(b)) +
                     (IF b = transfer[t].from
                      THEN Holding(status, transfer[t].quantity)
                             - Holding(transfer[t].status, transfer[t].quantity)
                      ELSE 0)
                /\ QuantityOf(transfer, Released(b)) \in Int
<1> DEFINE Filed == [status : TransferStatuses, from : Bins, to : Bins, quantity : Quantities]
<1>1. /\ transfer \in [Transfers -> TaskRecord(TransferStatuses)]
      /\ transfer' = [transfer EXCEPT ![t].status = status]
  BY DEF PapersInv, TransferBecomes, TransferStatuses
<1>2. transfer[t] \in Filed
  BY <1>1 DEF TaskRecord, NoTask
<1>3. PICK a \in Bins, q \in Nat : /\ a = transfer[t].from /\ q = transfer[t].quantity
                                   /\ transfer[t].to \in Bins
  BY <1>2, StockAssumption
<1>4. [transfer[t] EXCEPT !.status = status] \in TaskRecord(TransferStatuses)
  BY <1>2 DEF TaskRecord
<1>5. transfer' \in [Transfers -> TaskRecord(TransferStatuses)]
  BY <1>1, <1>4
<1>6. PapersInv'
  BY <1>5 DEF PapersInv, TransferBecomes, TransferStatuses
<1>7. /\ transfer'[t].status = status /\ transfer'[t].from = a
      /\ \A u \in Transfers : transfer'[u].quantity = transfer[u].quantity
      /\ \A u \in Transfers : u # t => transfer'[u] = transfer[u]
  BY <1>1, <1>2, <1>3
<1>8. \A u \in Transfers : transfer[u].quantity \in Int
  <2>1. ASSUME NEW u \in Transfers PROVE transfer[u].quantity \in Nat
    <3>1. transfer[u].quantity \in Quantities \cup {0}
      BY <1>1 DEF TaskRecord, NoTask
    <3> QED
      BY <3>1, QuantitiesCount
  <2> QED
    BY <2>1
<1>9. ASSUME NEW b \in Bins
      PROVE  /\ QuantityOf(transfer', Released(b)') = QuantityOf(transfer, Released(b)) +
                  (IF b = a THEN Holding(status, q) - Holding(transfer[t].status, q) ELSE 0)
             /\ QuantityOf(transfer, Released(b)) \in Int
  <2>1. PICK R \in SUBSET Transfers, T \in SUBSET Transfers :
          R = Released(b) /\ T = Released(b)'
    BY DEF Released
  <2>2. /\ t \in R <=> a = b /\ transfer[t].status = "released"
        /\ t \in T <=> a = b /\ status = "released"
        /\ \A u \in Transfers : u # t => (u \in T <=> u \in R)
    BY <1>3, <1>7, <2>1 DEF Released
  <2>3. /\ IsFiniteSet(R) /\ \A u \in R : transfer[u].quantity \in Int
        /\ \A u \in R : transfer'[u].quantity = transfer[u].quantity
        /\ transfer'[t].quantity = q /\ transfer[t].quantity = q
    BY <1>3, <1>7, <1>8, StockAssumption, FS_Subset
  <2>4. \A u : u # t => (u \in T <=> u \in R)
    BY <2>2
  <2>5. /\ QuantityOf(transfer', T) = QuantityOf(transfer, R)
             + (IF t \in T THEN transfer'[t].quantity ELSE 0)
             - (IF t \in R THEN transfer[t].quantity ELSE 0)
        /\ QuantityOf(transfer, R) \in Int
    BY <2>3, <2>4, QuantityMoves
  <2> QED
    BY <2>1, <2>2, <2>3, <2>5 DEF Holding
<1> QED
  BY <1>3, <1>6, <1>9

(* A bin that takes up or gives back what a transfer holds in it.          *)
LEMMA TransferHolds ==
    ASSUME StockInv, NEW t \in Transfers, transfer[t].status # "none",
           NEW status \in TransferStatuses, TransferBecomes(t, status),
           NEW r \in Int,
           r = Holding(status, transfer[t].quantity)
                 - Holding(transfer[t].status, transfer[t].quantity),
           NEW q \in Int,
           BinBecomes(transfer[t].from, q, r, 0),
           \A w \in Warehouses : position'[w].reserved = position[w].reserved
    PROVE  HoldsKept
<1>1. PICK a \in Bins : a = transfer[t].from
  BY TransferMoves DEF StockInv
<1>2. PICK k \in Int : k = 0
  OBVIOUS
<1>3. BinBecomes(a, q, r, k) /\ LedgerInv
  BY <1>1, <1>2 DEF StockInv
<1>4. /\ bin'[a].reserved = bin[a].reserved + r /\ bin'[a].picked = bin[a].picked + k
      /\ \A x \in Bins : x # a => bin'[x] = bin[x]
  <2>1. /\ bin'[a] = [quantity |-> bin[a].quantity + q, reserved |-> bin[a].reserved + r,
                      picked |-> bin[a].picked + k]
        /\ \A x \in Bins : x # a => bin'[x] = bin[x]
    BY <1>3, BinChange
  <2> QED
    BY <2>1
<1>5. \A b \in Bins : /\ QuantityOf(transfer', Released(b)') =
                           QuantityOf(transfer, Released(b)) + (IF b = a THEN r ELSE 0)
                      /\ QuantityOf(transfer, Released(b)) \in Int
  BY <1>1, TransferMoves DEF StockInv
<1>6. \A b \in Bins : bin[b].reserved \in Int /\ bin[b].picked \in Int
  BY <1>3 DEF LedgerInv, BinRecord
<1>7. ASSUME NEW b \in Bins
      PROVE  bin'[b].picked = bin[b].picked /\ HeldOtherwise(b)' = HeldOtherwise(b)
  <2>1. CASE b = a
    BY <1>2, <1>4, <1>5, <1>6, <2>1 DEF HeldOtherwise
  <2>2. CASE b # a
    BY <1>4, <1>5, <1>6, <2>2 DEF HeldOtherwise
  <2> QED
    BY <2>1, <2>2
<1> QED
  BY <1>7 DEF HoldsKept

(* A transfer that holds nothing before or after.                          *)
LEMMA TransferFree ==
    ASSUME PapersInv, NEW t \in Transfers, transfer[t].status \notin {"none", "released"},
           NEW status \in TransferStatuses \ {"released"}, TransferBecomes(t, status),
           \A x \in Bins : bin'[x].reserved = bin[x].reserved /\ bin'[x].picked = bin[x].picked,
           \A w \in Warehouses : position'[w].reserved = position[w].reserved
    PROVE  HoldsKept
<1>1. ASSUME NEW b \in Bins
      PROVE  QuantityOf(transfer', Released(b)') = QuantityOf(transfer, Released(b))
  <2>1. /\ QuantityOf(transfer', Released(b)') = QuantityOf(transfer, Released(b)) +
             (IF b = transfer[t].from
              THEN Holding(status, transfer[t].quantity)
                     - Holding(transfer[t].status, transfer[t].quantity)
              ELSE 0)
        /\ QuantityOf(transfer, Released(b)) \in Int
    BY TransferMoves
  <2>2. /\ Holding(status, transfer[t].quantity) = 0
        /\ Holding(transfer[t].status, transfer[t].quantity) = 0
    BY DEF Holding
  <2> QED
    BY <2>1, <2>2
<1> QED
  BY <1>1 DEF HoldsKept, HeldOtherwise

LEMMA TransferStepKeeps ==
    ASSUME StockInv, TransferStep
    PROVE  StockInv' /\ HoldsKept
<1>0. LedgerInv /\ PapersInv /\ transfer \in [Transfers -> TaskRecord(TransferStatuses)]
  BY DEF StockInv, PapersInv, TransferStatuses
<1>1. ASSUME NEW t \in Transfers, NEW a \in Bins, NEW b \in Bins, NEW q \in Quantities,
             CreateInventoryTransfer(t, a, b, q)
      PROVE  StockInv' /\ HoldsKept
  <2> DEFINE new == [status |-> "draft", from |-> a, to |-> b, quantity |-> q]
  <2>1. /\ transfer' = [transfer EXCEPT ![t] = new] /\ transfer[t].status = "none"
        /\ new \in TaskRecord(TransferStatuses) /\ new.status = "draft"
        /\ UNCHANGED <<stockLedger, putaway, cycleCount, disposition>>
    BY <1>1 DEF CreateInventoryTransfer, TaskRecord, TransferStatuses
  <2> HIDE DEF new
  <2>2. /\ transfer' \in [Transfers -> TaskRecord(TransferStatuses)]
        /\ transfer'[t].status = "draft" /\ \A u \in Transfers : u # t => transfer'[u] = transfer[u]
    BY <1>0, <2>1
  <2>3. PapersInv'
    BY <1>0, <2>1, <2>2 DEF PapersInv, TransferStatuses
  <2>4. ASSUME NEW x \in Bins
        PROVE  QuantityOf(transfer', Released(x)') = QuantityOf(transfer, Released(x))
    <3>1. Released(x) \subseteq Transfers /\ t \notin Released(x) /\ Released(x)' = Released(x)
      BY <2>1, <2>2 DEF Released
    <3>2. \A u \in Released(x) : transfer[u].quantity \in Int
      <4>1. \A u \in Transfers : transfer[u].quantity \in Quantities \cup {0}
        BY <1>0 DEF TaskRecord, NoTask
      <4> QED
        BY <3>1, <4>1, QuantitiesCount
    <3>3. IsFiniteSet(Released(x)) /\ \A u \in Released(x) : transfer'[u].quantity = transfer[u].quantity
      BY <2>2, <3>1, StockAssumption, FS_Subset
    <3>4. QuantityOf(transfer', Released(x)) = QuantityOf(transfer, Released(x))
      BY <3>2, <3>3, QuantitySame
    <3> QED
      BY <3>1, <3>4
  <2> QED
    BY <1>0, <2>1, <2>3, <2>4 DEF StockInv, stockLedger, LedgerInv, BinsOf, HoldsKept, HeldOtherwise
<1>2. ASSUME NEW t \in Transfers, ReleaseTransfer(t)
      PROVE  StockInv' /\ HoldsKept
  <2>1. /\ transfer[t].status = "draft" /\ BinBecomes(transfer[t].from, 0, transfer[t].quantity, 0)
        /\ TransferBecomes(t, "released") /\ layers' = layers /\ position' = position
        /\ "released" \in TransferStatuses
    BY <1>2 DEF ReleaseTransfer, TransferStatuses
  <2>2. /\ PapersInv' /\ transfer[t].from \in Bins /\ transfer[t].quantity \in Int
    BY <1>0, <2>1, TransferMoves
  <2>3. transfer[t].quantity = Holding("released", transfer[t].quantity)
                                 - Holding(transfer[t].status, transfer[t].quantity)
    BY <2>1, <2>2 DEF Holding
  <2>4. HoldsKept
    BY <2>1, <2>2, <2>3, TransferHolds
  <2>5. LedgerInv'
    BY <1>0, <2>1, <2>2, HoldsMove DEF LedgerInv
  <2> QED
    BY <2>2, <2>4, <2>5 DEF StockInv
<1>3. ASSUME NEW t \in Transfers, CancelTransfer(t)
      PROVE  StockInv' /\ HoldsKept
  <2>1. /\ transfer[t].status \in {"draft", "released"}
        /\ TransferBecomes(t, "cancelled") /\ layers' = layers /\ position' = position
        /\ "cancelled" \in TransferStatuses
    BY <1>3 DEF CancelTransfer, TransferStatuses
  <2>2. /\ PapersInv' /\ transfer[t].from \in Bins /\ transfer[t].quantity \in Nat
    BY <1>0, <2>1, TransferMoves
  <2>3. CASE transfer[t].status = "draft"
    <3>1. bin' = bin
      BY <1>3, <2>3 DEF CancelTransfer
    <3>2. LedgerInv' 
      BY <1>0, <2>1, <3>1 DEF LedgerInv, BinsOf
    <3>3. HoldsKept
      BY <1>0, <2>1, <2>3, <3>1, TransferFree
    <3> QED
      BY <2>2, <3>2, <3>3 DEF StockInv
  <2>4. CASE transfer[t].status = "released"
    <3>1. PICK r \in Int : r = -transfer[t].quantity
      <4>1. PICK q \in Nat : q = transfer[t].quantity
        BY <2>2
      <4> QED
        BY <4>1
    <3>2. BinBecomes(transfer[t].from, 0, r, 0)
      BY <1>3, <2>4, <3>1 DEF CancelTransfer
    <3>3. r = Holding("cancelled", transfer[t].quantity)
                - Holding(transfer[t].status, transfer[t].quantity)
      BY <2>2, <2>4, <3>1 DEF Holding
    <3>4. HoldsKept
      BY <2>1, <2>2, <3>2, <3>3, TransferHolds
    <3>5. LedgerInv'
      BY <1>0, <2>1, <2>2, <3>2, HoldsMove DEF LedgerInv
    <3> QED
      BY <2>2, <3>4, <3>5 DEF StockInv
  <2> QED
    BY <2>1, <2>3, <2>4
<1>4. ASSUME NEW t \in Transfers, DispatchTransfer(t)
      PROVE  StockInv' /\ HoldsKept
  <2>1. /\ transfer[t].status = "released" /\ TransferBecomes(t, "in-transit")
        /\ "in-transit" \in TransferStatuses
    BY <1>4 DEF DispatchTransfer, TransferStatuses
  <2>2. /\ PapersInv' /\ transfer[t].from \in Bins /\ transfer[t].quantity \in Nat
    BY <1>0, <2>1, TransferMoves
  <2>3. PICK r \in Int : r = -transfer[t].quantity
    <3>1. PICK q \in Nat : q = transfer[t].quantity
      BY <2>2
    <3> QED
      BY <3>1
  <2>4. /\ BinBecomes(transfer[t].from, r, r, 0)
        /\ LayersBecome(WarehouseOf[transfer[t].from], r)
        /\ Synced(WarehouseOf[transfer[t].from], r)
    BY <1>4, <2>3 DEF DispatchTransfer, Leaves
  <2>5. LedgerInv' /\ \A w \in Warehouses : position'[w].reserved = position[w].reserved
    <3>1. PICK k \in Int : k = 0
      OBVIOUS
    <3>2. BinBecomes(transfer[t].from, r, r, k)
      BY <2>4, <3>1
    <3> QED
      BY <1>0, <2>2, <2>4, <3>2, GoodsMove
  <2>6. r = Holding("in-transit", transfer[t].quantity)
              - Holding(transfer[t].status, transfer[t].quantity)
    BY <2>1, <2>2, <2>3 DEF Holding
  <2>7. HoldsKept
    BY <2>1, <2>4, <2>5, <2>6, TransferHolds
  <2> QED
    BY <2>2, <2>5, <2>7 DEF StockInv
<1>5. ASSUME NEW t \in Transfers, ReceiveTransfer(t)
      PROVE  StockInv' /\ HoldsKept
  <2>1. /\ transfer[t].status = "in-transit" /\ TransferBecomes(t, "received")
        /\ "received" \in TransferStatuses \ {"released"}
    BY <1>5 DEF ReceiveTransfer, TransferStatuses
  <2>2. /\ PapersInv' /\ transfer[t].to \in Bins /\ transfer[t].quantity \in Int
    BY <1>0, <2>1, TransferMoves
  <2>3. /\ LedgerInv' /\ \A w \in Warehouses : position'[w].reserved = position[w].reserved
        /\ \A x \in Bins : bin'[x].reserved = bin[x].reserved /\ bin'[x].picked = bin[x].picked
    BY <1>0, <1>5, <2>2, GoodsArrive DEF ReceiveTransfer, Enters
  <2>4. HoldsKept
    BY <1>0, <2>1, <2>3, TransferFree
  <2> QED
    BY <2>2, <2>3, <2>4 DEF StockInv
<1> QED
  BY <1>1, <1>2, <1>3, <1>4, <1>5 DEF TransferStep

LEMMA PutawayStepKeeps ==
    ASSUME StockInv, PutawayStep
    PROVE  StockInv' /\ HoldsKept
<1> DEFINE Statuses3 == {"open", "completed", "cancelled"}
           Filed == [status : Statuses3, from : Bins, to : Bins, quantity : Quantities]
<1>0. /\ LedgerInv /\ PapersInv /\ putaway \in [Putaways -> TaskRecord(Statuses3)]
  BY DEF StockInv, PapersInv
<1>1. ASSUME NEW t \in Putaways, NEW a \in Bins, NEW b \in Bins, NEW q \in Quantities,
             CreatePutawayTask(t, a, b, q)
      PROVE  StockInv' /\ HoldsKept
  <2> DEFINE new == [status |-> "open", from |-> a, to |-> b, quantity |-> q]
  <2>1. /\ putaway' = [putaway EXCEPT ![t] = new] /\ new \in TaskRecord(Statuses3)
        /\ new.from # new.to /\ WarehouseOf[new.from] = WarehouseOf[new.to]
        /\ UNCHANGED <<stockLedger, transfer, cycleCount, disposition>>
    BY <1>1 DEF CreatePutawayTask, TaskRecord
  <2> HIDE DEF new
  <2>2. PapersInv'
    BY <1>0, <2>1 DEF PapersInv
  <2> QED
    BY <1>0, <2>1, <2>2, NothingMoves DEF StockInv
<1>2. ASSUME NEW t \in Putaways, NEW outcome \in {"completed", "cancelled"},
             EndPutawayTask(t, outcome)
      PROVE  StockInv' /\ HoldsKept
  <2>1. /\ putaway[t].status = "open" /\ putaway' = [putaway EXCEPT ![t].status = outcome]
        /\ UNCHANGED <<layers, position, transfer, cycleCount, disposition>>
    BY <1>2 DEF EndPutawayTask
  <2>2. putaway[t] \in Filed
    BY <1>0, <2>1 DEF TaskRecord, NoTask
  <2>3. PICK a \in Bins, b \in Bins, q \in Nat :
          /\ a = putaway[t].from /\ b = putaway[t].to /\ q = putaway[t].quantity
          /\ a # b /\ WarehouseOf[a] = WarehouseOf[b]
    BY <1>0, <2>1, <2>2, QuantitiesCount DEF PapersInv
  <2>4. PapersInv'
    <3>1. /\ [putaway[t] EXCEPT !.status = outcome] \in TaskRecord(Statuses3)
          /\ [putaway[t] EXCEPT !.status = outcome].from = a
          /\ [putaway[t] EXCEPT !.status = outcome].to = b
      BY <2>2, <2>3 DEF TaskRecord
    <3>2. /\ putaway' \in [Putaways -> TaskRecord(Statuses3)]
          /\ putaway'[t].from = a /\ putaway'[t].to = b
          /\ \A u \in Putaways : u # t => putaway'[u] = putaway[u]
      BY <1>0, <2>1, <3>1
    <3> QED
      BY <1>0, <2>1, <2>3, <3>2 DEF PapersInv
  <2>5. CASE UNCHANGED bin
    BY <1>0, <2>1, <2>4, <2>5, NothingMoves DEF StockInv, stockLedger
  <2>6. CASE outcome = "completed"
    <3> DEFINE source == [quantity |-> bin[a].quantity - q, reserved |-> bin[a].reserved,
                          picked |-> bin[a].picked]
               target == [quantity |-> bin[b].quantity + q, reserved |-> bin[b].reserved,
                          picked |-> bin[b].picked]
               mid == [bin EXCEPT ![a] = source]
    <3>1. /\ bin \in [Bins -> BinRecord] /\ bin[a] \in BinRecord /\ bin[b] \in BinRecord
          /\ bin[a].quantity \in Nat /\ bin[a].reserved \in Nat /\ bin[a].picked \in Nat
          /\ bin[b].quantity \in Nat /\ bin[b].reserved \in Nat /\ bin[b].picked \in Nat
          /\ \A x \in Bins : Controlled(bin[x])
      BY <1>0 DEF LedgerInv, BinRecord
    <3>2. /\ Controlled(source) /\ bin' = [bin EXCEPT ![a] = source, ![b] = target]
      <4>1. /\ Changed(bin[a], -q, 0, 0) = source /\ Changed(bin[b], q, 0, 0) = target
        BY <3>1 DEF Changed
      <4>2. /\ Controlled(Changed(bin[a], -q, 0, 0))
            /\ bin' = [bin EXCEPT ![a] = Changed(bin[a], -q, 0, 0), ![b] = Changed(@, q, 0, 0)]
        BY <1>2, <2>3, <2>6 DEF EndPutawayTask
      <4>3. bin' = [bin EXCEPT ![a] = source, ![b] = Changed(bin[b], q, 0, 0)]
        BY <2>3, <4>1, <4>2
      <4> QED
        BY <4>1, <4>2, <4>3
    <3>3. source \in BinRecord /\ target \in BinRecord /\ Controlled(target)
      BY <3>1, <3>2 DEF BinRecord, Controlled
    <3>4. /\ source.quantity = bin[a].quantity - q /\ target.quantity = bin[b].quantity + q
          /\ source.reserved = bin[a].reserved /\ target.reserved = bin[b].reserved
          /\ source.picked = bin[a].picked /\ target.picked = bin[b].picked
      OBVIOUS
    <3> HIDE DEF source, target
    <3>5. /\ mid \in [Bins -> BinRecord] /\ bin' \in [Bins -> BinRecord]
          /\ mid[a] = source /\ mid[b] = bin[b] /\ bin'[a] = source /\ bin'[b] = target
          /\ \A x \in Bins : x # a => mid[x] = bin[x]
          /\ \A x \in Bins : x # b => bin'[x] = mid[x]
      BY <2>3, <3>1, <3>2, <3>3
    <3> HIDE DEF mid
    <3>6. ASSUME NEW w \in Warehouses
          PROVE  QuantityOf(bin', BinsOf(w)) = QuantityOf(bin, BinsOf(w))
      <4> DEFINE S == BinsOf(w)
      <4>1. /\ IsFiniteSet(Bins) /\ S \in SUBSET Bins /\ (a \in S <=> b \in S)
            /\ \A x \in Bins : bin[x].quantity \in Int /\ mid[x].quantity \in Int
            /\ \A x \in Bins : mid[x].quantity \in Int /\ bin'[x].quantity \in Int
            /\ \A x \in Bins : x # a => mid[x].quantity = bin[x].quantity
            /\ \A x \in Bins : x # b => bin'[x].quantity = mid[x].quantity
        BY <2>3, <3>1, <3>5, StockAssumption DEF BinsOf, BinRecord
      <4> HIDE DEF S
      <4>2. /\ QuantityOf(mid, S) = QuantityOf(bin, S) +
                 (IF a \in S THEN mid[a].quantity - bin[a].quantity ELSE 0)
            /\ QuantityOf(bin, S) \in Int /\ QuantityOf(mid, S) \in Int
        BY <4>1, QuantityChangeIn
      <4>3. /\ QuantityOf(bin', S) = QuantityOf(mid, S) +
                 (IF b \in S THEN bin'[b].quantity - mid[b].quantity ELSE 0)
        BY <4>1, QuantityChangeIn
      <4>4. /\ mid[a].quantity - bin[a].quantity = -q /\ bin'[b].quantity - mid[b].quantity = q
        BY <3>1, <3>4, <3>5
      <4>5. QuantityOf(bin', S) = QuantityOf(bin, S)
        BY <4>1, <4>2, <4>3, <4>4
      <4> QED
        BY <4>5 DEF S
    <3>7. /\ \A x \in Bins : Controlled(bin'[x])
          /\ \A x \in Bins : bin'[x].reserved = bin[x].reserved /\ bin'[x].picked = bin[x].picked
      BY <3>1, <3>2, <3>3, <3>4, <3>5
    <3>8. \A w \in Warehouses : QuantityOf(bin', BinsOf(w)') = layers[w]
      BY <1>0, <3>6 DEF LedgerInv, BinsOf
    <3>9. LedgerInv'
      BY <1>0, <2>1, <3>5, <3>7, <3>8 DEF LedgerInv
    <3>10. HoldsKept
      BY <2>1, <3>7 DEF HoldsKept, HeldOtherwise, Released
    <3> QED
      BY <2>4, <3>9, <3>10 DEF StockInv
  <2> QED
    BY <1>2, <2>5, <2>6 DEF EndPutawayTask
<1> QED
  BY <1>1, <1>2 DEF PutawayStep

LEMMA StockStepKeeps ==
    ASSUME StockInv, StockNext
    PROVE  StockInv' /\ HoldsKept
BY GoodsStepKeeps, TransferStepKeeps, PutawayStepKeeps, CountStepKeeps, DispositionStepKeeps
   DEF StockNext

-----------------------------------------------------------------------------
(* What is promised, packed, picked and returned.                          *)

Promised == {r \in Reservations : reservation[r].status \notin {"none", "released"}}
OpenIn(b) == {t \in Picks : pick[t].bin = b /\ pick[t].status = "open"}
PickedIn(b) == {t \in Picks : pick[t].bin = b /\ pick[t].status = "completed"}

OrderTyped ==
    /\ order \in {"open", "closed"} /\ movements \in Nat
    /\ reservation \in [Reservations -> ReservationRecord]
    /\ package \in [Packages -> PackageRecord]
    /\ pick \in [Picks -> PickRecord]
    /\ rma \in [Returns -> ReturnRecord]

PromisesHold ==
    /\ \A w \in Warehouses : position[w].reserved = QuantityOf(reservation, Live(w))
    /\ QuantityOf(reservation, Promised) <= Ordered

(* What transfers do not hold in a bin, open picks do. *)
PicksHold ==
    \A b \in Bins : /\ HeldOtherwise(b) = QuantityOf(pick, OpenIn(b))
                    /\ bin[b].picked = QuantityOf(pick, PickedIn(b))

(* A package goes out of one warehouse, and until it does nothing else     *)
(* packs or frees what is in it.                                           *)
PackagesHold ==
    /\ \A p \in Packages : package[p].status # "none" =>
         /\ package[p].first \in package[p].items
         /\ \A r \in package[p].items :
              /\ reservation[r].status # "none"
              /\ reservation[r].warehouse = WarehouseOfPackage(p)
    /\ \A p \in Packages : package[p].status = "packed" =>
         \A r \in package[p].items : reservation[r].status = "packed"
    /\ \A p, s \in Packages : p # s /\ package[p].status = "packed" /\ package[s].status = "packed"
         => package[p].items \cap package[s].items = {}

(* Goods are picked in the warehouse they are reserved in. *)
PicksPlaced ==
    \A t \in Picks : pick[t].status # "none" =>
        /\ reservation[pick[t].of].status # "none"
        /\ reservation[pick[t].of].warehouse = WarehouseOf[pick[t].bin]

ReturnsHold ==
    /\ \A a \in Returns : rma[a].status # "none" => package[rma[a].package].status # "none"
    /\ \A p \in Packages :
         QuantityOf(rma, OnFile(p)) <= QuantityOf(reservation, package[p].items)

OrderInv ==
    /\ StockInv /\ OrderTyped
    /\ PromisesHold /\ PicksHold /\ PackagesHold /\ PicksPlaced /\ ReturnsHold

(* What the shapes of the records say about their fields. *)
LEMMA ReservationFields ==
    ASSUME NEW z \in [Reservations -> ReservationRecord]
    PROVE  /\ \A r \in Reservations : z[r].quantity \in Nat /\ z[r].quantity \in Int
           /\ \A r \in Reservations : z[r].status # "none" =>
                /\ z[r].warehouse \in Warehouses /\ z[r].quantity \in Quantities
                /\ \A s \in {"reserved", "packed", "released", "consumed"} :
                     [z[r] EXCEPT !.status = s] \in ReservationRecord
           /\ \A r \in Reservations : z[r].status = "none" => z[r] = NoReservation
<1>1. \A r \in Reservations : z[r].quantity \in Quantities \cup {0}
  BY DEF ReservationRecord, NoReservation
<1>2. \A r \in Reservations : z[r].status # "none" =>
        z[r] \in [status : {"reserved", "packed", "released", "consumed"},
                  warehouse : Warehouses, quantity : Quantities]
  BY DEF ReservationRecord, NoReservation
<1>3. \A r \in Reservations : z[r].status = "none" => z[r] = NoReservation
  BY DEF ReservationRecord
<1> QED
  BY <1>1, <1>2, <1>3, QuantitiesCount DEF ReservationRecord

LEMMA PackageFields ==
    ASSUME NEW z \in [Packages -> PackageRecord]
    PROVE  /\ \A p \in Packages : z[p].items \subseteq Reservations
           /\ \A p \in Packages : z[p].status # "none" =>
                /\ z[p].first \in Reservations
                /\ \A s \in {"packed", "cancelled", "dispatched", "delivered",
                             "return-in-progress", "returned"} :
                     [z[p] EXCEPT !.status = s] \in PackageRecord
           /\ \A p \in Packages : z[p].status = "none" => z[p].items = {}
BY DEF PackageRecord, NoPackage

LEMMA PickFields ==
    ASSUME NEW z \in [Picks -> PickRecord]
    PROVE  /\ \A t \in Picks : z[t].quantity \in Nat /\ z[t].quantity \in Int
           /\ \A t \in Picks : z[t].status # "none" =>
                /\ z[t].of \in Reservations /\ z[t].bin \in Bins
                /\ \A s \in {"open", "completed", "cancelled", "issued"} :
                     [z[t] EXCEPT !.status = s] \in PickRecord
<1>1. \A t \in Picks : z[t].quantity \in Quantities \cup {0}
  BY DEF PickRecord, NoPick
<1> QED
  BY <1>1, QuantitiesCount DEF PickRecord, NoPick

LEMMA ReturnFields ==
    ASSUME NEW z \in [Returns -> ReturnRecord]
    PROVE  /\ \A a \in Returns : z[a].quantity \in Nat /\ z[a].quantity \in Int
           /\ \A a \in Returns : z[a].status # "none" =>
                /\ z[a].package \in Packages
                /\ \A s \in {"requested", "approved", "rejected", "received", "closed"} :
                     [z[a] EXCEPT !.status = s] \in ReturnRecord
           /\ \A a \in Returns : z[a].status = "none" => z[a].package \notin Packages
<1>1. \A a \in Returns : z[a].quantity \in Quantities \cup {0}
  BY DEF ReturnRecord, NoReturn
<1> QED
  BY <1>1, QuantitiesCount, FulfilmentAssumption DEF ReturnRecord, NoReturn

LEMMA OrderInitially == FulfilmentInit => OrderInv
<1> SUFFICES ASSUME FulfilmentInit PROVE OrderInv
  OBVIOUS
<1> USE DEF FulfilmentInit, StockInit
<1>1. LedgerInv
  <2>1. /\ bin \in [Bins -> BinRecord] /\ \A b \in Bins : Controlled(bin[b])
        /\ \A b \in Bins : bin[b].quantity = 0
    BY DEF EmptyBin, BinRecord, Controlled
  <2>2. ASSUME NEW w \in Warehouses PROVE QuantityOf(bin, BinsOf(w)) = 0
    <3>1. /\ IsFiniteSet(BinsOf(w)) /\ \A b \in BinsOf(w) : bin[b].quantity = 0
          /\ \A b \in BinsOf(w) : bin[b].quantity \in Int
      BY <2>1, StockAssumption, FS_Subset DEF BinsOf
    <3>2. QuantityOf(bin, BinsOf(w)) = Total(QuantityTerms(bin, BinsOf(w)), BinsOf(w))
      BY <3>1, QuantityIsTotal
    <3>3. \A b \in BinsOf(w) : QuantityTerms(bin, BinsOf(w))[b] = 0
      BY <3>1 DEF QuantityTerms
    <3> QED
      BY <3>1, <3>2, <3>3, TotalZero
  <2> QED
    BY <2>1, <2>2 DEF LedgerInv
<1>2. PapersInv
  BY DEF PapersInv, TaskRecord, CountRecord, DispositionRecord, NoTask, NoCount, NoDisposition
<1>3. OrderTyped
  BY DEF OrderTyped, ReservationRecord, PackageRecord, PickRecord, ReturnRecord
<1>4. PromisesHold
  <2>1. Promised = {} /\ \A w \in Warehouses : Live(w) = {} /\ position[w].reserved = 0
    BY DEF Promised, Live, NoReservation
  <2>2. /\ \A w \in Warehouses : QuantityOf(reservation, Live(w)) = 0
        /\ QuantityOf(reservation, Promised) = 0
    BY <2>1, QuantityOfNone
  <2> QED
    BY <2>1, <2>2, FulfilmentAssumption DEF PromisesHold
<1>5. PicksHold
  <2>1. \A b \in Bins : Released(b) = {} /\ OpenIn(b) = {} /\ PickedIn(b) = {}
    BY DEF Released, OpenIn, PickedIn, NoTask, NoPick
  <2>2. \A b \in Bins : bin[b].reserved = 0 /\ bin[b].picked = 0
    BY DEF EmptyBin
  <2>3. /\ \A b \in Bins : QuantityOf(transfer, Released(b)) = 0
        /\ \A b \in Bins : QuantityOf(pick, OpenIn(b)) = 0
        /\ \A b \in Bins : QuantityOf(pick, PickedIn(b)) = 0
    BY <2>1, QuantityOfNone
  <2> QED
    BY <2>2, <2>3 DEF PicksHold, HeldOtherwise
<1>6. PackagesHold /\ PicksPlaced
  BY DEF PackagesHold, PicksPlaced, NoPackage, NoPick
<1>7. ReturnsHold
  <2>1. \A p \in Packages : OnFile(p) = {} /\ package[p].items = {}
    BY FulfilmentAssumption DEF OnFile, NoReturn, NoPackage
  <2>2. \A p \in Packages : QuantityOf(rma, OnFile(p)) = 0
                            /\ QuantityOf(reservation, package[p].items) = 0
    BY <2>1, QuantityOfNone
  <2> QED
    BY <2>2 DEF ReturnsHold, NoReturn
<1> QED
  BY <1>1, <1>2, <1>3, <1>4, <1>5, <1>6, <1>7 DEF OrderInv, StockInv

(* What was promised, packed or filed stays so: its warehouse, its         *)
(* contents and its quantity are set once.                                 *)
ReservationsStay ==
    \A r \in Reservations : reservation[r].status # "none" =>
        /\ reservation'[r].status # "none"
        /\ reservation'[r].warehouse = reservation[r].warehouse
        /\ reservation'[r].quantity = reservation[r].quantity
PackagesStay ==
    \A p \in Packages : package[p].status # "none" =>
        /\ package'[p].status # "none"
        /\ package'[p].items = package[p].items /\ package'[p].first = package[p].first
ReturnsStay ==
    /\ \A a \in Returns : rma[a].status = "none" => rma'[a] = rma[a]
    /\ \A a \in Returns : rma[a].status # "none" =>
        /\ rma'[a].status # "none"
        /\ rma[a].status = "rejected" => rma'[a].status = "rejected"
        /\ rma'[a].package = rma[a].package /\ rma'[a].quantity = rma[a].quantity

LEMMA KeptPicks ==
    ASSUME OrderInv, ReservationsStay, pick' = pick
    PROVE  PicksPlaced'
<1>1. \A t \in Picks : pick[t].status # "none" => pick[t].of \in Reservations
  BY PickFields DEF OrderInv, OrderTyped
<1> QED
  BY <1>1 DEF OrderInv, PicksPlaced, ReservationsStay

LEMMA KeptReturns ==
    ASSUME OrderInv, OrderTyped', ReservationsStay, PackagesStay, ReturnsStay
    PROVE  ReturnsHold'
<1>0. /\ reservation \in [Reservations -> ReservationRecord]
      /\ reservation' \in [Reservations -> ReservationRecord]
      /\ package \in [Packages -> PackageRecord] /\ package' \in [Packages -> PackageRecord]
      /\ rma \in [Returns -> ReturnRecord] /\ rma' \in [Returns -> ReturnRecord]
      /\ IsFiniteSet(Reservations) /\ IsFiniteSet(Returns)
  BY FulfilmentAssumption DEF OrderInv, OrderTyped
<1>1. \A a \in Returns : rma'[a].status # "none" => package'[rma'[a].package].status # "none"
  <2>1. \A a \in Returns : rma[a].status # "none" => rma[a].package \in Packages
    BY <1>0, ReturnFields
  <2> QED
    BY <2>1 DEF OrderInv, ReturnsHold, ReturnsStay, PackagesStay
<1>2. ASSUME NEW p \in Packages
      PROVE  QuantityOf(rma', OnFile(p)') <= QuantityOf(reservation', package'[p].items)
  <2>1. PICK A \in SUBSET Returns, B \in SUBSET Returns : A = OnFile(p) /\ B = OnFile(p)'
    BY DEF OnFile
  <2>2. /\ \A a \in Returns : rma[a].quantity \in Nat
        /\ \A a \in Returns : rma[a].status = "none" => rma[a].package \notin Packages
    BY <1>0, ReturnFields
  <2>3. B \in SUBSET A /\ \A a \in A : rma'[a].quantity = rma[a].quantity
    BY <2>1, <2>2 DEF OnFile, ReturnsStay
  <2>4. /\ IsFiniteSet(A) /\ IsFiniteSet(B) /\ \A a \in A : rma[a].quantity \in Nat
        /\ \A a \in B : rma[a].quantity \in Int /\ rma'[a].quantity = rma[a].quantity
    BY <1>0, <2>2, <2>3, FS_Subset
  <2>5. /\ QuantityOf(rma', B) = QuantityOf(rma, B)
        /\ QuantityOf(rma, B) <= QuantityOf(rma, A)
        /\ QuantityOf(rma, A) \in Nat /\ QuantityOf(rma, B) \in Nat
    <3>1. QuantityOf(rma', B) = QuantityOf(rma, B)
      BY <2>4, QuantitySame
    <3>2. /\ QuantityOf(rma, B) <= QuantityOf(rma, A) /\ QuantityOf(rma, B) \in Nat
          /\ QuantityOf(rma, A) \in Nat
      BY <2>3, <2>4, QuantityWithin
    <3> QED
      BY <3>1, <3>2
  <2>6. QuantityOf(rma, A) <= QuantityOf(reservation, package[p].items)
    BY <2>1 DEF OrderInv, ReturnsHold
  <2>7. PICK S \in SUBSET Reservations, T \in SUBSET Reservations :
          S = package[p].items /\ T = package'[p].items
    BY <1>0, PackageFields
  <2>8. /\ IsFiniteSet(S) /\ IsFiniteSet(T)
        /\ \A r \in Reservations : reservation[r].quantity \in Nat
        /\ \A r \in Reservations : reservation'[r].quantity \in Nat
    BY <1>0, FS_Subset, ReservationFields
  <2>9. QuantityOf(reservation, S) \in Nat /\ QuantityOf(reservation', T) \in Nat
    <3>1. /\ S \in SUBSET S /\ T \in SUBSET T
          /\ \A r \in S : reservation[r].quantity \in Nat
          /\ \A r \in T : reservation'[r].quantity \in Nat
      BY <2>8
    <3>2. QuantityOf(reservation, S) \in Nat
      BY <2>8, <3>1, QuantityWithin
    <3>3. QuantityOf(reservation', T) \in Nat
      BY <2>8, <3>1, QuantityWithin
    <3> QED
      BY <3>2, <3>3
  <2>10. QuantityOf(reservation, S) <= QuantityOf(reservation', T)
    <3>1. CASE package[p].status = "none"
      <4>1. S = {}
        BY <1>0, <2>7, <3>1, PackageFields
      <4>2. QuantityOf(reservation, S) = 0
        BY <4>1, QuantityOfNone
      <4> QED
        BY <2>9, <4>2
    <3>2. CASE package[p].status # "none"
      <4>1. T = S /\ \A r \in S : reservation[r].status # "none"
        BY <2>7, <3>2 DEF PackagesStay, OrderInv, PackagesHold
      <4>2. \A r \in S : reservation'[r].quantity = reservation[r].quantity
        BY <4>1 DEF ReservationsStay
      <4>3. \A r \in S : reservation[r].quantity \in Int
        BY <2>8
      <4>4. QuantityOf(reservation', S) = QuantityOf(reservation, S)
        BY <2>8, <4>2, <4>3, QuantitySame
      <4> QED
        BY <2>9, <4>1, <4>4
    <3> QED
      BY <3>1, <3>2
  <2>11. \A i, j, k, l \in Nat : i <= j /\ j <= k /\ k <= l => i <= l
    OBVIOUS
  <2> QED
    BY <2>1, <2>5, <2>6, <2>7, <2>9, <2>10, <2>11
<1> QED
  BY <1>1, <1>2 DEF ReturnsHold

(* Nothing but the papers of the warehouse moves. *)
LEMMA WarehouseWork ==
    ASSUME OrderInv, StockNext, UNCHANGED <<order, reservation, package, pick, rma, movements>>
    PROVE  OrderInv'
<1>1. StockInv' /\ HoldsKept
  BY StockStepKeeps DEF OrderInv
<1>2. OrderTyped' /\ PackagesHold' /\ PicksPlaced' /\ ReturnsHold'
  BY DEF OrderInv, OrderTyped, PackagesHold, PicksPlaced, ReturnsHold, WarehouseOfPackage, OnFile
<1>3. PromisesHold'
  BY <1>1 DEF OrderInv, PromisesHold, HoldsKept, Live, Promised
<1>4. PicksHold'
  BY <1>1 DEF OrderInv, PicksHold, HoldsKept, OpenIn, PickedIn
<1> QED
  BY <1>1, <1>2, <1>3, <1>4 DEF OrderInv

(* What a position becomes. *)
LEMMA PositionChange ==
    ASSUME LedgerInv, NEW w \in Warehouses, NEW n \in Int, NEW r \in Int,
           PositionBecomes(w, n, r)
    PROVE  /\ position' \in [Warehouses -> [onHand : Nat, reserved : Nat]]
           /\ \A v \in Warehouses : position'[v].reserved <= position'[v].onHand
           /\ \A v \in Warehouses :
                /\ position'[v].reserved = position[v].reserved + (IF v = w THEN r ELSE 0)
                /\ position[v].reserved \in Nat
<1> DEFINE new == [onHand |-> position[w].onHand + n, reserved |-> position[w].reserved + r]
<1>1. /\ position \in [Warehouses -> [onHand : Nat, reserved : Nat]]
      /\ \A v \in Warehouses : position[v].reserved <= position[v].onHand
      /\ position[w].onHand \in Nat /\ position[w].reserved \in Nat
  BY DEF LedgerInv
<1>2. /\ position' = [position EXCEPT ![w] = new]
      /\ new.onHand >= 0 /\ new.reserved >= 0 /\ new.reserved <= new.onHand
  BY DEF PositionBecomes
<1>3. /\ new \in [onHand : Nat, reserved : Nat] /\ new.reserved = position[w].reserved + r
  BY <1>1, <1>2
<1> HIDE DEF new
<1>4. position'[w] = new /\ \A v \in Warehouses : v # w => position'[v] = position[v]
  BY <1>1, <1>2
<1>5. \A v \in Warehouses : position[v].reserved \in Nat
  BY <1>1
<1> QED
  BY <1>1, <1>2, <1>3, <1>4, <1>5

(* What a reservation holds of a warehouse, and of what was ordered.       *)
HeldIn(x, w) == IF x.warehouse = w /\ x.status \in {"reserved", "packed"} THEN x.quantity ELSE 0
PromisedBy(x) == IF x.status \notin {"none", "released"} THEN x.quantity ELSE 0

(* One reservation is made or ends: the promises follow it.                *)
LEMMA PromiseChange ==
    ASSUME OrderInv, NEW r \in Reservations,
           reservation' \in [Reservations -> ReservationRecord],
           \A x \in Reservations : x # r => reservation'[x] = reservation[x]
    PROVE  /\ \A w \in Warehouses :
                /\ QuantityOf(reservation', Live(w)') = QuantityOf(reservation, Live(w))
                     + HeldIn(reservation'[r], w) - HeldIn(reservation[r], w)
                /\ QuantityOf(reservation, Live(w)) \in Int
           /\ QuantityOf(reservation', Promised') = QuantityOf(reservation, Promised)
                + PromisedBy(reservation'[r]) - PromisedBy(reservation[r])
           /\ QuantityOf(reservation, Promised) \in Int
<1>1. /\ reservation \in [Reservations -> ReservationRecord]
      /\ \A x \in Reservations : reservation[x].quantity \in Int
      /\ reservation'[r].quantity \in Int /\ IsFiniteSet(Reservations)
  BY ReservationFields, FulfilmentAssumption DEF OrderInv, OrderTyped
<1>2. ASSUME NEW S \in SUBSET Reservations, NEW T \in SUBSET Reservations,
             \A x : x # r => (x \in T <=> x \in S)
      PROVE  /\ QuantityOf(reservation', T) = QuantityOf(reservation, S)
                  + (IF r \in T THEN reservation'[r].quantity ELSE 0)
                  - (IF r \in S THEN reservation[r].quantity ELSE 0)
             /\ QuantityOf(reservation, S) \in Int
  <2>1. /\ IsFiniteSet(S) /\ \A x \in S : reservation[x].quantity \in Int
        /\ \A x \in S : x # r => reservation'[x].quantity = reservation[x].quantity
    BY <1>1, FS_Subset
  <2> QED
    BY <1>1, <1>2, <2>1, QuantityMoves
<1>3. ASSUME NEW w \in Warehouses
      PROVE  /\ QuantityOf(reservation', Live(w)') = QuantityOf(reservation, Live(w))
                  + (IF r \in Live(w)' THEN reservation'[r].quantity ELSE 0)
                  - (IF r \in Live(w) THEN reservation[r].quantity ELSE 0)
             /\ QuantityOf(reservation, Live(w)) \in Int
  <2>1. PICK S \in SUBSET Reservations, T \in SUBSET Reservations : S = Live(w) /\ T = Live(w)'
    BY DEF Live
  <2>2. \A x : x # r => (x \in T <=> x \in S)
    BY <2>1 DEF Live
  <2> QED
    BY <1>2, <2>1, <2>2
<1>4. /\ QuantityOf(reservation', Promised') = QuantityOf(reservation, Promised)
           + (IF r \in Promised' THEN reservation'[r].quantity ELSE 0)
           - (IF r \in Promised THEN reservation[r].quantity ELSE 0)
      /\ QuantityOf(reservation, Promised) \in Int
  <2>1. PICK S \in SUBSET Reservations, T \in SUBSET Reservations : S = Promised /\ T = Promised'
    BY DEF Promised
  <2>2. \A x : x # r => (x \in T <=> x \in S)
    BY <2>1 DEF Promised
  <2> QED
    BY <1>2, <2>1, <2>2
<1> QED
  BY <1>3, <1>4 DEF Live, Promised, HeldIn, PromisedBy

(* What else holds when one reservation that is not packed changes.        *)
LEMMA ReservationFrame ==
    ASSUME OrderInv, NEW r \in Reservations, reservation[r].status \in {"none", "reserved"},
           reservation' \in [Reservations -> ReservationRecord],
           \A x \in Reservations : x # r => reservation'[x] = reservation[x],
           reservation[r].status # "none" =>
             /\ reservation'[r].status # "none"
             /\ reservation'[r].warehouse = reservation[r].warehouse
             /\ reservation'[r].quantity = reservation[r].quantity,
           UNCHANGED <<bin, layers, stockPapers, order, package, pick, rma, movements>>,
           position' \in [Warehouses -> [onHand : Nat, reserved : Nat]],
           \A w \in Warehouses : position'[w].reserved <= position'[w].onHand,
           PromisesHold'
    PROVE  OrderInv'
<1>1. OrderTyped' /\ ReservationsStay /\ PackagesStay /\ ReturnsStay
  BY DEF OrderInv, OrderTyped, ReservationsStay, PackagesStay, ReturnsStay
<1>2. StockInv'
  BY PositionsMove DEF OrderInv, StockInv, PapersInv, stockPapers
<1>3. PicksHold'
  BY DEF OrderInv, PicksHold, HeldOtherwise, Released, OpenIn, PickedIn, stockPapers
<1>4. PackagesHold'
  <2>1. \A p \in Packages : /\ package[p].items \subseteq Reservations
                            /\ package[p].status # "none" => package[p].first \in Reservations
    BY PackageFields DEF OrderInv, OrderTyped
  <2>2. \A p \in Packages : package[p].status = "packed" => r \notin package[p].items
    BY DEF OrderInv, PackagesHold
  <2>3. ASSUME NEW p \in Packages, package[p].status # "none"
        PROVE  /\ package[p].first \in package[p].items
               /\ \A x \in package[p].items :
                    /\ reservation'[x].status # "none"
                    /\ reservation'[x].warehouse = reservation'[package[p].first].warehouse
    <3>1. /\ package[p].first \in package[p].items
          /\ \A x \in package[p].items :
               /\ reservation[x].status # "none"
               /\ reservation[x].warehouse = reservation[package[p].first].warehouse
      BY <2>3 DEF OrderInv, PackagesHold, WarehouseOfPackage
    <3> QED
      BY <1>1, <2>1, <2>3, <3>1 DEF ReservationsStay
  <2>4. \A p \in Packages : package[p].status = "packed" =>
          \A x \in package[p].items : reservation'[x].status = "packed"
    BY <2>1, <2>2 DEF OrderInv, PackagesHold
  <2> QED
    BY <2>3, <2>4 DEF OrderInv, PackagesHold, WarehouseOfPackage
<1>5. PicksPlaced'
  BY <1>1, KeptPicks
<1>6. ReturnsHold'
  BY <1>1, KeptReturns
<1> QED
  BY <1>1, <1>2, <1>3, <1>4, <1>5, <1>6 DEF OrderInv

LEMMA Reserved ==
    ASSUME OrderInv, NEW r \in Reservations, NEW w \in Warehouses, NEW q \in Quantities,
           ReserveStock(r, w, q)
    PROVE  OrderInv'
<1> DEFINE new == [status |-> "reserved", warehouse |-> w, quantity |-> q]
<1>1. /\ reservation' = [reservation EXCEPT ![r] = new] /\ new \in ReservationRecord
      /\ new.status = "reserved" /\ new.warehouse = w /\ new.quantity = q
      /\ reservation[r].status = "none" /\ q \in Int /\ LedgerInv
      /\ reservation \in [Reservations -> ReservationRecord]
      /\ UNCHANGED <<bin, layers, stockPapers, order, package, pick, rma, movements>>
      /\ QuantityOf(reservation, Promised) + q <= Ordered
  BY QuantitiesCount DEF ReserveStock, ReservationRecord, OrderInv, StockInv, OrderTyped,
     WithinOrder, InReservations, QuantityOf, Promised
<1> HIDE DEF new
<1>2. /\ reservation' \in [Reservations -> ReservationRecord] /\ reservation'[r] = new
      /\ \A x \in Reservations : x # r => reservation'[x] = reservation[x]
  BY <1>1
<1>3. PICK n \in Int : n = 0 /\ PositionBecomes(w, n, q)
  BY DEF ReserveStock
<1>4. /\ position' \in [Warehouses -> [onHand : Nat, reserved : Nat]]
      /\ \A v \in Warehouses : position'[v].reserved <= position'[v].onHand
      /\ \A v \in Warehouses :
           /\ position'[v].reserved = position[v].reserved + (IF v = w THEN q ELSE 0)
           /\ position[v].reserved \in Nat
  BY <1>1, <1>3, PositionChange
<1>5. /\ \A v \in Warehouses :
           /\ QuantityOf(reservation', Live(v)') = QuantityOf(reservation, Live(v))
                + (IF v = w THEN q ELSE 0)
           /\ QuantityOf(reservation, Live(v)) \in Int
      /\ QuantityOf(reservation', Promised') = QuantityOf(reservation, Promised) + q
      /\ QuantityOf(reservation, Promised) \in Int
  <2>1. /\ \A v \in Warehouses :
             /\ QuantityOf(reservation', Live(v)') = QuantityOf(reservation, Live(v))
                  + HeldIn(reservation'[r], v) - HeldIn(reservation[r], v)
             /\ QuantityOf(reservation, Live(v)) \in Int
        /\ QuantityOf(reservation', Promised') = QuantityOf(reservation, Promised)
             + PromisedBy(reservation'[r]) - PromisedBy(reservation[r])
        /\ QuantityOf(reservation, Promised) \in Int
    BY <1>2, PromiseChange
  <2>2. /\ \A v \in Warehouses : HeldIn(reservation'[r], v) = (IF v = w THEN q ELSE 0)
        /\ \A v \in Warehouses : HeldIn(reservation[r], v) = 0
        /\ PromisedBy(reservation'[r]) = q /\ PromisedBy(reservation[r]) = 0
    <3>1. /\ reservation'[r].status = "reserved" /\ reservation'[r].warehouse = w
          /\ reservation'[r].quantity = q /\ reservation[r].status = "none"
      BY <1>1, <1>2
    <3> QED
      BY <3>1 DEF HeldIn, PromisedBy
  <2>3. q \in Int
    BY <1>1
  <2> QED
    BY <2>1, <2>2, <2>3
<1>6. PromisesHold'
  <2>1. \A v \in Warehouses : position'[v].reserved = QuantityOf(reservation', Live(v)')
    BY <1>4, <1>5 DEF OrderInv, PromisesHold
  <2>2. QuantityOf(reservation', Promised') <= Ordered
    BY <1>1, <1>5
  <2> QED
    BY <2>1, <2>2 DEF PromisesHold
<1> QED
  BY <1>1, <1>2, <1>4, <1>6, ReservationFrame

LEMMA Unreserved ==
    ASSUME OrderInv, NEW r \in Reservations, ReleaseStockReservation(r)
    PROVE  OrderInv'
<1>0. /\ reservation \in [Reservations -> ReservationRecord] /\ LedgerInv
      /\ reservation[r].status = "reserved"
      /\ reservation' = [reservation EXCEPT ![r].status = "released"]
      /\ UNCHANGED <<bin, layers, stockPapers, order, package, pick, rma, movements>>
  BY DEF ReleaseStockReservation, OrderInv, StockInv, OrderTyped
<1>1. /\ [reservation[r] EXCEPT !.status = "released"] \in ReservationRecord
      /\ reservation[r].warehouse \in Warehouses /\ reservation[r].quantity \in Nat
  BY <1>0, ReservationFields
<1>2. /\ reservation' \in [Reservations -> ReservationRecord]
      /\ reservation'[r].status = "released"
      /\ reservation'[r].warehouse = reservation[r].warehouse
      /\ reservation'[r].quantity = reservation[r].quantity
      /\ \A x \in Reservations : x # r => reservation'[x] = reservation[x]
  <2>1. reservation'[r] = [reservation[r] EXCEPT !.status = "released"]
    BY <1>0
  <2>2. reservation[r].warehouse = reservation'[r].warehouse
        /\ reservation[r].quantity = reservation'[r].quantity /\ reservation'[r].status = "released"
    <3>1. reservation[r] \in [status : {"reserved", "packed", "released", "consumed"},
                              warehouse : Warehouses, quantity : Quantities]
      BY <1>0 DEF ReservationRecord, NoReservation
    <3> QED
      BY <2>1, <3>1
  <2> QED
    BY <1>0, <1>1, <2>1, <2>2
<1>3. PICK w \in Warehouses, q \in Nat, n \in Int, k \in Int :
        /\ w = reservation[r].warehouse /\ q = reservation[r].quantity /\ n = 0 /\ k = -q
        /\ PositionBecomes(w, n, k)
  <2>1. PICK q \in Nat : q = reservation[r].quantity
    BY <1>1
  <2>2. -q \in Int
    OBVIOUS
  <2> QED
    BY <1>1, <2>1, <2>2 DEF ReleaseStockReservation
<1>4. /\ position' \in [Warehouses -> [onHand : Nat, reserved : Nat]]
      /\ \A v \in Warehouses : position'[v].reserved <= position'[v].onHand
      /\ \A v \in Warehouses :
           /\ position'[v].reserved = position[v].reserved + (IF v = w THEN k ELSE 0)
           /\ position[v].reserved \in Nat
  <2>1. LedgerInv /\ PositionBecomes(w, n, k)
    BY <1>0, <1>3
  <2> QED
    BY <2>1, PositionChange
<1>5. /\ \A v \in Warehouses :
           /\ QuantityOf(reservation', Live(v)') = QuantityOf(reservation, Live(v))
                + HeldIn(reservation'[r], v) - HeldIn(reservation[r], v)
           /\ QuantityOf(reservation, Live(v)) \in Int
      /\ QuantityOf(reservation', Promised') = QuantityOf(reservation, Promised)
           + PromisedBy(reservation'[r]) - PromisedBy(reservation[r])
      /\ QuantityOf(reservation, Promised) \in Int
  BY <1>2, PromiseChange
<1>6. /\ \A v \in Warehouses : HeldIn(reservation[r], v) = (IF v = w THEN q ELSE 0)
      /\ \A v \in Warehouses : HeldIn(reservation'[r], v) = 0
      /\ PromisedBy(reservation'[r]) = 0 /\ PromisedBy(reservation[r]) = q
  BY <1>0, <1>2, <1>3 DEF HeldIn, PromisedBy
<1>7. PromisesHold'
  <2>1. \A v \in Warehouses : position'[v].reserved = QuantityOf(reservation', Live(v)')
    BY <1>3, <1>4, <1>5, <1>6 DEF OrderInv, PromisesHold
  <2>2. QuantityOf(reservation', Promised') <= Ordered
    BY <1>3, <1>5, <1>6, FulfilmentAssumption DEF OrderInv, PromisesHold
  <2> QED
    BY <2>1, <2>2 DEF PromisesHold
<1> QED
  BY <1>0, <1>2, <1>4, <1>7, ReservationFrame

(* A movement by hand, and what only closes or returns, promise nothing.   *)
LEMMA PositionFrame ==
    ASSUME OrderInv, OrderTyped', PackagesStay, ReturnsStay,
           \A p \in Packages : package[p].status = "none" => package'[p] = package[p],
           \A p \in Packages : package'[p].status = "packed" => package[p].status = "packed",
           UNCHANGED <<bin, layers, stockPapers, reservation, pick>>,
           position' \in [Warehouses -> [onHand : Nat, reserved : Nat]],
           \A w \in Warehouses : position'[w].reserved <= position'[w].onHand,
           \A w \in Warehouses : position'[w].reserved = position[w].reserved
    PROVE  OrderInv'
<1>1. ReservationsStay
  BY DEF ReservationsStay
<1>2. StockInv'
  BY PositionsMove DEF OrderInv, StockInv, PapersInv, stockPapers
<1>3. PicksHold'
  BY DEF OrderInv, PicksHold, HeldOtherwise, Released, OpenIn, PickedIn, stockPapers
<1>4. PromisesHold'
  BY DEF OrderInv, PromisesHold, Live, Promised
<1>5. PackagesHold'
  <2>1. \A p \in Packages : package'[p].status # "none" =>
          /\ package[p].status # "none" /\ package'[p].items = package[p].items
          /\ package'[p].first = package[p].first
    BY DEF PackagesStay
  <2>2. \A p \in Packages : package'[p].status = "packed" =>
          package[p].status = "packed" /\ package'[p].items = package[p].items
    BY <2>1
  <2> QED
    BY <2>1, <2>2 DEF OrderInv, PackagesHold, WarehouseOfPackage
<1>6. PicksPlaced'
  BY <1>1, KeptPicks
<1>7. ReturnsHold'
  BY <1>1, KeptReturns
<1> QED
  BY <1>2, <1>3, <1>4, <1>5, <1>6, <1>7 DEF OrderInv

LEMMA PositionWork ==
    ASSUME OrderInv, CloseSalesOrder \/ \E w \in Warehouses, q \in Quantities :
                         RecordStockMovement(w, q) \/ RecordStockMovement(w, -q)
    PROVE  OrderInv'
<1>0. /\ UNCHANGED <<bin, layers, stockPapers, reservation, package, pick, rma>>
      /\ OrderTyped' /\ LedgerInv
  <2>1. /\ UNCHANGED <<bin, layers, stockPapers, reservation, package, pick, rma>>
        /\ order' \in {"open", "closed"} /\ movements' \in Nat
    BY DEF CloseSalesOrder, RecordStockMovement, OrderInv, OrderTyped, stockVars, stockPapers
  <2> QED
    BY <2>1 DEF OrderInv, OrderTyped, StockInv
<1>1. /\ position' \in [Warehouses -> [onHand : Nat, reserved : Nat]]
      /\ \A v \in Warehouses : position'[v].reserved <= position'[v].onHand
      /\ \A v \in Warehouses : position'[v].reserved = position[v].reserved
  <2>1. CASE CloseSalesOrder
    BY <1>0, <2>1 DEF CloseSalesOrder, stockVars, LedgerInv
  <2>2. ASSUME NEW w \in Warehouses, NEW q \in Int, NEW z \in Int, z = 0, PositionBecomes(w, q, z)
        PROVE  /\ position' \in [Warehouses -> [onHand : Nat, reserved : Nat]]
               /\ \A v \in Warehouses : position'[v].reserved <= position'[v].onHand
               /\ \A v \in Warehouses : position'[v].reserved = position[v].reserved
    <3>1. /\ position' \in [Warehouses -> [onHand : Nat, reserved : Nat]]
          /\ \A v \in Warehouses : position'[v].reserved <= position'[v].onHand
          /\ \A v \in Warehouses :
               /\ position'[v].reserved = position[v].reserved + (IF v = w THEN z ELSE 0)
               /\ position[v].reserved \in Nat
      BY <1>0, <2>2, PositionChange
    <3> QED
      BY <2>2, <3>1
  <2>3. ASSUME NEW w \in Warehouses, NEW q \in Quantities,
               RecordStockMovement(w, q) \/ RecordStockMovement(w, -q)
        PROVE  \E x \in Int : PositionBecomes(w, x, 0)
    <3>1. q \in Int /\ -q \in Int
      BY QuantitiesCount
    <3> QED
      BY <2>3, <3>1 DEF RecordStockMovement
  <2> QED
    BY <2>1, <2>2, <2>3
<1>2. PackagesStay /\ ReturnsStay
  BY <1>0 DEF PackagesStay, ReturnsStay
<1> QED
  BY <1>0, <1>1, <1>2, PositionFrame

LEMMA PackagePlaced ==
    ASSUME OrderInv, NEW p \in Packages, package[p].status # "none"
    PROVE  /\ package[p].items \subseteq Reservations /\ package[p].first \in package[p].items
           /\ \A r \in package[p].items : reservation[r].status # "none"
           /\ \A r \in package[p].items : reservation[r].warehouse = WarehouseOfPackage(p)
           /\ WarehouseOfPackage(p) \in Warehouses
<1>1. package[p].items \subseteq Reservations
  BY PackageFields DEF OrderInv, OrderTyped
<1>2. /\ package[p].first \in package[p].items
      /\ \A r \in package[p].items : reservation[r].status # "none"
      /\ \A r \in package[p].items : reservation[r].warehouse = WarehouseOfPackage(p)
  BY DEF OrderInv, PackagesHold
<1>3. /\ package[p].first \in Reservations
      /\ reservation \in [Reservations -> ReservationRecord]
      /\ reservation[package[p].first].status # "none"
  BY <1>1, <1>2 DEF OrderInv, OrderTyped
<1>4. WarehouseOfPackage(p) \in Warehouses
  BY <1>3, ReservationFields DEF WarehouseOfPackage
<1> QED
  BY <1>1, <1>2, <1>4

LEMMA PackageRestated ==
    ASSUME OrderInv, NEW p \in Packages, package[p].status # "none",
           NEW s \in {"packed", "cancelled", "dispatched", "delivered",
                      "return-in-progress", "returned"},
           package' = [package EXCEPT ![p].status = s]
    PROVE  /\ package' \in [Packages -> PackageRecord]
           /\ package'[p].status = s /\ package'[p].items = package[p].items
           /\ package'[p].first = package[p].first
           /\ \A x \in Packages : x # p => package'[x] = package[x]
           /\ PackagesStay
<1>1. package \in [Packages -> PackageRecord]
  BY DEF OrderInv, OrderTyped
<1>2. /\ [package[p] EXCEPT !.status = s] \in PackageRecord
      /\ package[p] \in [status : {"packed", "cancelled", "dispatched", "delivered",
                                   "return-in-progress", "returned"},
                         items : SUBSET Reservations, first : Reservations]
  <2>1. [package[p] EXCEPT !.status = s] \in PackageRecord
    BY <1>1, PackageFields
  <2> QED
    BY <1>1, <2>1 DEF PackageRecord, NoPackage
<1>3. /\ package' \in [Packages -> PackageRecord]
      /\ package'[p].status = s /\ package'[p].items = package[p].items
      /\ package'[p].first = package[p].first
      /\ \A x \in Packages : x # p => package'[x] = package[x]
  BY <1>1, <1>2
<1>4. PackagesStay
  <2>1. s # "none"
    OBVIOUS
  <2> QED
    BY <1>3, <2>1 DEF PackagesStay
<1> QED
  BY <1>3, <1>4

LEMMA ReturnRestated ==
    ASSUME OrderInv, NEW a \in Returns, rma[a].status \notin {"none", "rejected"},
           NEW s \in {"requested", "approved", "rejected", "received", "closed"},
           rma' = [rma EXCEPT ![a].status = s]
    PROVE  rma' \in [Returns -> ReturnRecord] /\ ReturnsStay
<1>1. rma \in [Returns -> ReturnRecord]
  BY DEF OrderInv, OrderTyped
<1>2. /\ [rma[a] EXCEPT !.status = s] \in ReturnRecord
      /\ rma[a] \in [status : {"requested", "approved", "rejected", "received", "closed"},
                     package : Packages, quantity : Quantities]
  <2>1. [rma[a] EXCEPT !.status = s] \in ReturnRecord
    BY <1>1, ReturnFields
  <2> QED
    BY <1>1, <2>1 DEF ReturnRecord, NoReturn
<1>3. /\ rma' \in [Returns -> ReturnRecord]
      /\ rma'[a].status = s /\ rma'[a].package = rma[a].package
      /\ rma'[a].quantity = rma[a].quantity
      /\ \A x \in Returns : x # a => rma'[x] = rma[x]
  BY <1>1, <1>2
<1> QED
  BY <1>3 DEF ReturnsStay

(* A package on its way, and a return of it. *)
LEMMA PackageMoved ==
    ASSUME OrderInv, NEW p \in Packages, NEW move \in Stages, MoveShipment(p, move[1], move[2])
    PROVE  OrderInv'
<1>1. /\ UNCHANGED <<stockVars, order, reservation, pick, rma, movements>>
      /\ package' = [package EXCEPT ![p].status = move[2]]
      /\ package[p].status \notin {"none", "packed"}
      /\ move[2] \in {"delivered", "return-in-progress", "returned"}
  BY DEF MoveShipment, Stages
<1>2. /\ package' \in [Packages -> PackageRecord]
      /\ package'[p].status = move[2]
      /\ \A x \in Packages : x # p => package'[x] = package[x]
      /\ PackagesStay
  <2>1. move[2] \in {"packed", "cancelled", "dispatched", "delivered",
                     "return-in-progress", "returned"}
    BY <1>1
  <2> QED
    BY <1>1, <2>1, PackageRestated
<1>3. OrderTyped' /\ ReturnsStay
  BY <1>1, <1>2 DEF OrderInv, OrderTyped, ReturnsStay
<1>4. /\ position' \in [Warehouses -> [onHand : Nat, reserved : Nat]]
      /\ \A v \in Warehouses : position'[v].reserved <= position'[v].onHand
      /\ \A v \in Warehouses : position'[v].reserved = position[v].reserved
  BY <1>1 DEF OrderInv, StockInv, LedgerInv, stockVars
<1>5. /\ \A x \in Packages : package[x].status = "none" => package'[x] = package[x]
      /\ \A x \in Packages : package'[x].status = "packed" => package[x].status = "packed"
      /\ UNCHANGED <<bin, layers, stockPapers, reservation, pick>>
  BY <1>1, <1>2 DEF stockVars, stockPapers
<1> QED
  BY <1>2, <1>3, <1>4, <1>5, PositionFrame

LEMMA ReturnDecided ==
    ASSUME OrderInv, NEW a \in Returns, NEW decision \in Decisions,
           DecideReturnAuthorization(a, decision)
    PROVE  OrderInv'
<1> DEFINE p == rma[a].package
<1>1. /\ UNCHANGED <<stockVars, order, reservation, pick, movements>>
      /\ rma[a].status = "requested" /\ rma' = [rma EXCEPT ![a].status = decision]
      /\ package' = IF decision = "approved"
                    THEN [package EXCEPT ![p].status = "return-in-progress"] ELSE package
      /\ rma \in [Returns -> ReturnRecord] /\ package \in [Packages -> PackageRecord]
  BY DEF DecideReturnAuthorization, OrderInv, OrderTyped
<1>2. rma' \in [Returns -> ReturnRecord] /\ ReturnsStay
  <2>1. decision \in {"requested", "approved", "rejected", "received", "closed"}
    BY DEF Decisions
  <2> QED
    BY <1>1, <2>1, ReturnRestated
<1>3. p \in Packages /\ package[p].status # "none"
  BY <1>1, ReturnFields DEF OrderInv, ReturnsHold
<1>4. /\ package' \in [Packages -> PackageRecord] /\ PackagesStay
      /\ \A x \in Packages : package[x].status = "none" => package'[x] = package[x]
      /\ \A x \in Packages : package'[x].status = "packed" => package[x].status = "packed"
  <2> HIDE DEF p
  <2>1. CASE package' = package
    BY <1>1, <2>1 DEF PackagesStay
  <2>2. CASE package' = [package EXCEPT ![p].status = "return-in-progress"]
    <3>1. /\ package' \in [Packages -> PackageRecord] /\ PackagesStay
          /\ package'[p].status = "return-in-progress"
          /\ \A x \in Packages : x # p => package'[x] = package[x]
      BY <1>3, <2>2, PackageRestated
    <3> QED
      BY <1>3, <3>1
  <2> QED
    BY <1>1, <2>1, <2>2
<1>5. OrderTyped'
  BY <1>1, <1>2, <1>4 DEF OrderInv, OrderTyped
<1>6. /\ position' \in [Warehouses -> [onHand : Nat, reserved : Nat]]
      /\ \A v \in Warehouses : position'[v].reserved <= position'[v].onHand
      /\ \A v \in Warehouses : position'[v].reserved = position[v].reserved
      /\ UNCHANGED <<bin, layers, stockPapers, reservation, pick>>
  BY <1>1 DEF OrderInv, StockInv, LedgerInv, stockVars, stockPapers
<1> QED
  BY <1>2, <1>4, <1>5, <1>6, PositionFrame

LEMMA ReturnReceived ==
    ASSUME OrderInv, NEW a \in Returns, ReceiveReturn(a)
    PROVE  OrderInv'
<1> DEFINE p == rma[a].package
           w == WarehouseOfPackage(p)
<1>1. /\ UNCHANGED <<bin, layers, stockPapers, order, reservation, pick, movements>>
      /\ rma[a].status = "approved" /\ rma' = [rma EXCEPT ![a].status = "received"]
      /\ package' = [package EXCEPT ![p].status = "returned"]
      /\ rma \in [Returns -> ReturnRecord] /\ package \in [Packages -> PackageRecord]
      /\ reservation \in [Reservations -> ReservationRecord] /\ LedgerInv
  BY DEF ReceiveReturn, OrderInv, OrderTyped, StockInv
<1>2. rma' \in [Returns -> ReturnRecord] /\ ReturnsStay
  BY <1>1, ReturnRestated
<1>3. p \in Packages /\ package[p].status # "none"
  BY <1>1, ReturnFields DEF OrderInv, ReturnsHold
<1>4. w \in Warehouses
  <2> HIDE DEF p
  <2> QED
    BY <1>3, PackagePlaced
<1>5. /\ package' \in [Packages -> PackageRecord] /\ PackagesStay
      /\ \A x \in Packages : package[x].status = "none" => package'[x] = package[x]
      /\ \A x \in Packages : package'[x].status = "packed" => package[x].status = "packed"
  <2> HIDE DEF p, w
  <2>1. /\ package' \in [Packages -> PackageRecord] /\ PackagesStay
        /\ package'[p].status = "returned"
        /\ \A x \in Packages : x # p => package'[x] = package[x]
    BY <1>1, <1>3, PackageRestated
  <2> QED
    BY <1>3, <2>1
<1>6. OrderTyped'
  BY <1>1, <1>2, <1>5 DEF OrderInv, OrderTyped
<1>7. PICK q \in Int, r \in Int : r = 0 /\ PositionBecomes(w, q, r)
  <2>1. rma[a].quantity \in Int
    BY <1>1, ReturnFields
  <2>2. PositionBecomes(w, rma[a].quantity, 0)
    BY DEF ReceiveReturn
  <2> HIDE DEF w
  <2> QED
    BY <2>1, <2>2
<1>8. /\ position' \in [Warehouses -> [onHand : Nat, reserved : Nat]]
      /\ \A v \in Warehouses : position'[v].reserved <= position'[v].onHand
      /\ \A v \in Warehouses : position'[v].reserved = position[v].reserved
  <2> HIDE DEF w
  <2>1. /\ position' \in [Warehouses -> [onHand : Nat, reserved : Nat]]
        /\ \A v \in Warehouses : position'[v].reserved <= position'[v].onHand
        /\ \A v \in Warehouses :
             /\ position'[v].reserved = position[v].reserved + (IF v = w THEN r ELSE 0)
             /\ position[v].reserved \in Nat
    BY <1>1, <1>4, <1>7, PositionChange
  <2> QED
    BY <1>7, <2>1
<1> QED
  BY <1>1, <1>2, <1>5, <1>6, <1>8, PositionFrame

LEMMA ReturnInspected ==
    ASSUME OrderInv, NEW a \in Returns, NEW disposed, InspectReturn(a, disposed)
    PROVE  OrderInv'
<1> DEFINE p == rma[a].package
           w == WarehouseOfPackage(p)
<1>1. /\ UNCHANGED <<bin, layers, stockPapers, order, reservation, package, pick, movements>>
      /\ rma[a].status = "received" /\ rma' = [rma EXCEPT ![a].status = "closed"]
      /\ rma \in [Returns -> ReturnRecord] /\ package \in [Packages -> PackageRecord]
      /\ reservation \in [Reservations -> ReservationRecord] /\ LedgerInv
      /\ UNCHANGED position \/ PositionBecomes(w, -rma[a].quantity, 0)
  BY DEF InspectReturn, OrderInv, OrderTyped, StockInv
<1>2. rma' \in [Returns -> ReturnRecord] /\ ReturnsStay
  BY <1>1, ReturnRestated
<1>3. p \in Packages /\ package[p].status # "none"
  BY <1>1, ReturnFields DEF OrderInv, ReturnsHold
<1>4. w \in Warehouses
  <2> HIDE DEF p
  <2> QED
    BY <1>3, PackagePlaced
<1>5. OrderTyped' /\ PackagesStay
  BY <1>1, <1>2 DEF OrderInv, OrderTyped, PackagesStay
<1>6. /\ position' \in [Warehouses -> [onHand : Nat, reserved : Nat]]
      /\ \A v \in Warehouses : position'[v].reserved <= position'[v].onHand
      /\ \A v \in Warehouses : position'[v].reserved = position[v].reserved
  <2>1. CASE UNCHANGED position
    BY <2>1 DEF OrderInv, StockInv, LedgerInv
  <2>2. CASE PositionBecomes(w, -rma[a].quantity, 0)
    <3>1. PICK n \in Nat : n = rma[a].quantity
      BY <1>1, ReturnFields
    <3>2. -n \in Int
      OBVIOUS
    <3>3. PICK q \in Int, r \in Int : r = 0 /\ PositionBecomes(w, q, r)
      BY <2>2, <3>1, <3>2
    <3> HIDE DEF w
    <3>4. /\ position' \in [Warehouses -> [onHand : Nat, reserved : Nat]]
          /\ \A v \in Warehouses : position'[v].reserved <= position'[v].onHand
          /\ \A v \in Warehouses :
               /\ position'[v].reserved = position[v].reserved + (IF v = w THEN r ELSE 0)
               /\ position[v].reserved \in Nat
      BY <1>1, <1>4, <3>3, PositionChange
    <3> QED
      BY <3>3, <3>4
  <2> QED
    BY <1>1, <2>1, <2>2
<1> QED
  BY <1>1, <1>2, <1>5, <1>6, PositionFrame

LEMMA ReturnRequested ==
    ASSUME OrderInv, NEW a \in Returns, NEW p \in Packages, NEW q \in Quantities,
           CreateReturnAuthorization(a, p, q)
    PROVE  OrderInv'
<1> DEFINE new == [status |-> "requested", package |-> p, quantity |-> q]
           i == package[p].first
<1>1. /\ UNCHANGED <<stockVars, order, reservation, package, pick, movements>>
      /\ rma[a].status = "none" /\ package[p].status = "delivered"
      /\ rma' = [rma EXCEPT ![a] = new] /\ new \in ReturnRecord
      /\ new.status = "requested" /\ new.package = p /\ new.quantity = q
      /\ rma \in [Returns -> ReturnRecord] /\ q \in Int
      /\ QuantityOf(rma, OnFile(p)) + q <= reservation[i].quantity
  BY QuantitiesCount DEF CreateReturnAuthorization, ReturnRecord, OrderInv, OrderTyped,
     WithinDelivered, Returning, QuantityOf
<1> HIDE DEF new
<1>2. /\ rma' \in [Returns -> ReturnRecord] /\ rma'[a] = new
      /\ \A x \in Returns : x # a => rma'[x] = rma[x]
  BY <1>1
<1>3. /\ IsFiniteSet(package[p].items) /\ i \in package[p].items
      /\ \A r \in package[p].items : reservation[r].quantity \in Nat
      /\ package[p].items \in SUBSET package[p].items
  <2>1. package[p].items \subseteq Reservations /\ i \in package[p].items
    BY <1>1, PackagePlaced
  <2>2. \A r \in Reservations : reservation[r].quantity \in Nat
    BY ReservationFields DEF OrderInv, OrderTyped
  <2>3. IsFiniteSet(package[p].items)
    BY <2>1, FulfilmentAssumption, FS_Subset
  <2> QED
    BY <2>1, <2>2, <2>3
<1>4. /\ QuantityOf(reservation, package[p].items) \in Nat
      /\ \A r \in package[p].items :
           reservation[r].quantity <= QuantityOf(reservation, package[p].items)
  <2> HIDE DEF i
  <2> QED
    BY <1>3, QuantityWithin
<1>5. \A x \in Returns : rma'[x].status # "none" => package[rma'[x].package].status # "none"
  BY <1>1, <1>2 DEF OrderInv, ReturnsHold
<1>6. ASSUME NEW s \in Packages
      PROVE  QuantityOf(rma', OnFile(s)') <= QuantityOf(reservation, package[s].items)
  <2>1. PICK S \in SUBSET Returns, T \in SUBSET Returns : S = OnFile(s) /\ T = OnFile(s)'
    BY DEF OnFile
  <2>2. /\ \A x \in Returns : rma[x].quantity \in Int
        /\ rma[a].package \notin Packages
    BY <1>1, ReturnFields
  <2>3. a \notin S /\ (a \in T <=> s = p)
    BY <1>1, <1>2, <2>1, <2>2 DEF OnFile
  <2>4. /\ IsFiniteSet(S) /\ \A y \in S : rma[y].quantity \in Int
        /\ rma'[a].quantity \in Int /\ rma'[a].quantity = q
    BY <1>1, <1>2, <2>2, FulfilmentAssumption, FS_Subset
  <2>5. \A y : y # a => (y \in T <=> y \in S)
    BY <1>2, <2>1 DEF OnFile
  <2>6. \A y \in S : y # a => rma'[y].quantity = rma[y].quantity
    BY <1>2
  <2>7. /\ QuantityOf(rma', T) = QuantityOf(rma, S) + (IF a \in T THEN rma'[a].quantity ELSE 0)
                                   - (IF a \in S THEN rma[a].quantity ELSE 0)
        /\ QuantityOf(rma, S) \in Int
    BY <2>2, <2>4, <2>5, <2>6, QuantityMoves
  <2>8. QuantityOf(rma, S) <= QuantityOf(reservation, package[s].items)
    BY <2>1 DEF OrderInv, ReturnsHold
  <2>9. CASE s = p
    <3>1. QuantityOf(rma', T) = QuantityOf(rma, S) + q
      BY <1>1, <2>3, <2>4, <2>7, <2>9
    <3>2. reservation[i].quantity <= QuantityOf(reservation, package[p].items)
      BY <1>3, <1>4
    <3>3. QuantityOf(rma, S) + q <= reservation[i].quantity
      BY <1>1, <2>1, <2>9
    <3>4. reservation[i].quantity \in Nat
      BY <1>3
    <3> HIDE DEF i
    <3> QED
      BY <1>1, <1>4, <2>1, <2>7, <2>9, <3>1, <3>2, <3>3, <3>4
  <2>10. CASE s # p
    <3>1. QuantityOf(rma', T) = QuantityOf(rma, S)
      BY <2>3, <2>7, <2>10
    <3> QED
      BY <2>1, <2>8, <3>1
  <2> QED
    BY <2>9, <2>10
<1>7. ReturnsHold'
  BY <1>1, <1>5, <1>6 DEF ReturnsHold
<1>8. OrderTyped'
  BY <1>1, <1>2 DEF OrderInv, OrderTyped
<1>9. StockInv'
  BY <1>1 DEF OrderInv, StockInv, LedgerInv, PapersInv, BinsOf, stockVars
<1>10. PromisesHold' /\ PackagesHold' /\ PicksPlaced'
  BY <1>1 DEF OrderInv, PromisesHold, Live, Promised, PackagesHold, WarehouseOfPackage,
     PicksPlaced, stockVars
<1>11. PicksHold'
  BY <1>1 DEF OrderInv, PicksHold, HeldOtherwise, Released, OpenIn, PickedIn, stockVars
<1> QED
  BY <1>7, <1>8, <1>9, <1>10, <1>11 DEF OrderInv

-----------------------------------------------------------------------------
(* What open and finished picks hold in a bin, by one pick.                *)
HoldsOpen(x, b) == IF x.bin = b /\ x.status = "open" THEN x.quantity ELSE 0
HoldsPicked(x, b) == IF x.bin = b /\ x.status = "completed" THEN x.quantity ELSE 0

LEMMA PickChange ==
    ASSUME pick \in [Picks -> PickRecord], pick' \in [Picks -> PickRecord], NEW t \in Picks,
           \A x \in Picks : x # t => pick'[x] = pick[x]
    PROVE  \A b \in Bins :
             /\ QuantityOf(pick', OpenIn(b)') = QuantityOf(pick, OpenIn(b))
                  + HoldsOpen(pick'[t], b) - HoldsOpen(pick[t], b)
             /\ QuantityOf(pick', PickedIn(b)') = QuantityOf(pick, PickedIn(b))
                  + HoldsPicked(pick'[t], b) - HoldsPicked(pick[t], b)
             /\ QuantityOf(pick, OpenIn(b)) \in Int /\ QuantityOf(pick, PickedIn(b)) \in Int
<1>1. /\ \A x \in Picks : pick[x].quantity \in Int /\ pick'[x].quantity \in Int
      /\ IsFiniteSet(Picks)
  BY PickFields, FulfilmentAssumption
<1>2. ASSUME NEW S \in SUBSET Picks, NEW T \in SUBSET Picks,
             \A y : y # t => (y \in T <=> y \in S)
      PROVE  /\ QuantityOf(pick', T) = QuantityOf(pick, S)
                  + (IF t \in T THEN pick'[t].quantity ELSE 0)
                  - (IF t \in S THEN pick[t].quantity ELSE 0)
             /\ QuantityOf(pick, S) \in Int
  <2>1. /\ IsFiniteSet(S) /\ \A y \in S : pick[y].quantity \in Int
        /\ pick'[t].quantity \in Int
        /\ \A y \in S : y # t => pick'[y].quantity = pick[y].quantity
    BY <1>1, FS_Subset
  <2> QED
    BY <1>1, <1>2, <2>1, QuantityMoves
<1>3. ASSUME NEW b \in Bins
      PROVE  /\ QuantityOf(pick', OpenIn(b)') = QuantityOf(pick, OpenIn(b))
                  + HoldsOpen(pick'[t], b) - HoldsOpen(pick[t], b)
             /\ QuantityOf(pick, OpenIn(b)) \in Int
  <2>1. PICK S \in SUBSET Picks, T \in SUBSET Picks : S = OpenIn(b) /\ T = OpenIn(b)'
    BY DEF OpenIn
  <2>2. \A y : y # t => (y \in T <=> y \in S)
    BY <2>1 DEF OpenIn
  <2>3. /\ QuantityOf(pick', T) = QuantityOf(pick, S)
             + (IF t \in T THEN pick'[t].quantity ELSE 0)
             - (IF t \in S THEN pick[t].quantity ELSE 0)
        /\ QuantityOf(pick, S) \in Int
    BY <1>2, <2>2
  <2>4. /\ HoldsOpen(pick'[t], b) = IF t \in T THEN pick'[t].quantity ELSE 0
        /\ HoldsOpen(pick[t], b) = IF t \in S THEN pick[t].quantity ELSE 0
    BY <2>1 DEF OpenIn, HoldsOpen
  <2> QED
    BY <2>1, <2>3, <2>4
<1>4. ASSUME NEW b \in Bins
      PROVE  /\ QuantityOf(pick', PickedIn(b)') = QuantityOf(pick, PickedIn(b))
                  + HoldsPicked(pick'[t], b) - HoldsPicked(pick[t], b)
             /\ QuantityOf(pick, PickedIn(b)) \in Int
  <2>1. PICK S \in SUBSET Picks, T \in SUBSET Picks : S = PickedIn(b) /\ T = PickedIn(b)'
    BY DEF PickedIn
  <2>2. \A y : y # t => (y \in T <=> y \in S)
    BY <2>1 DEF PickedIn
  <2>3. /\ QuantityOf(pick', T) = QuantityOf(pick, S)
             + (IF t \in T THEN pick'[t].quantity ELSE 0)
             - (IF t \in S THEN pick[t].quantity ELSE 0)
        /\ QuantityOf(pick, S) \in Int
    BY <1>2, <2>2
  <2>4. /\ HoldsPicked(pick'[t], b) = IF t \in T THEN pick'[t].quantity ELSE 0
        /\ HoldsPicked(pick[t], b) = IF t \in S THEN pick[t].quantity ELSE 0
    BY <2>1 DEF PickedIn, HoldsPicked
  <2> QED
    BY <2>1, <2>3, <2>4
<1> QED
  BY <1>3, <1>4

(* What else holds when a bin's holds follow one pick.                     *)
LEMMA PickFrame ==
    ASSUME OrderInv, NEW t \in Picks, NEW b \in Bins, NEW r \in Int, NEW k \in Int,
           BinBecomes(b, 0, r, k),
           pick' \in [Picks -> PickRecord], \A x \in Picks : x # t => pick'[x] = pick[x],
           \A x \in Bins : HoldsOpen(pick'[t], x) - HoldsOpen(pick[t], x) = (IF x = b THEN r ELSE 0),
           \A x \in Bins : HoldsPicked(pick'[t], x) - HoldsPicked(pick[t], x)
                             = (IF x = b THEN k ELSE 0),
           \A x \in Bins : HoldsOpen(pick'[t], x) \in Int /\ HoldsOpen(pick[t], x) \in Int,
           \A x \in Bins : HoldsPicked(pick'[t], x) \in Int /\ HoldsPicked(pick[t], x) \in Int,
           pick'[t].status # "none" =>
             /\ reservation[pick'[t].of].status # "none"
             /\ reservation[pick'[t].of].warehouse = WarehouseOf[pick'[t].bin],
           UNCHANGED <<layers, position, stockPapers, order, reservation, package, rma, movements>>
    PROVE  OrderInv'
<1>1. LedgerInv'
  BY HoldsMove DEF OrderInv, StockInv, LedgerInv
<1>2. PapersInv'
  BY DEF OrderInv, StockInv, PapersInv, stockPapers
<1>3. OrderTyped'
  BY DEF OrderInv, OrderTyped
<1>4. PromisesHold' /\ PackagesHold' /\ ReturnsHold'
  BY DEF OrderInv, PromisesHold, Live, Promised, PackagesHold, WarehouseOfPackage, ReturnsHold, OnFile
<1>5. PicksPlaced'
  BY DEF OrderInv, PicksPlaced
<1>6. /\ bin'[b].reserved = bin[b].reserved + r /\ bin'[b].picked = bin[b].picked + k
      /\ \A x \in Bins : x # b => bin'[x] = bin[x]
  <2>1. PICK q \in Int : q = 0 /\ BinBecomes(b, q, r, k)
    OBVIOUS
  <2>2. /\ bin'[b] = [quantity |-> bin[b].quantity + q, reserved |-> bin[b].reserved + r,
                      picked |-> bin[b].picked + k]
        /\ \A x \in Bins : x # b => bin'[x] = bin[x]
    BY <2>1, BinChange DEF OrderInv, StockInv
  <2> QED
    BY <2>2
<1>7. \A x \in Bins : bin[x].reserved \in Int /\ bin[x].picked \in Int
  BY DEF OrderInv, StockInv, LedgerInv, BinRecord
<1>8. \A x \in Bins : QuantityOf(transfer, Released(x)) \in Int
  <2>1. \A y \in Transfers : transfer[y].quantity \in Int
    BY QuantitiesCount DEF OrderInv, StockInv, PapersInv, TaskRecord, NoTask
  <2>2. \A x \in Bins : Released(x) \in SUBSET Transfers
    BY DEF Released
  <2> QED
    BY <2>1, <2>2, StockAssumption, QuantityOfPart
<1>9. \A x \in Bins :
        /\ QuantityOf(pick', OpenIn(x)') = QuantityOf(pick, OpenIn(x))
             + HoldsOpen(pick'[t], x) - HoldsOpen(pick[t], x)
        /\ QuantityOf(pick', PickedIn(x)') = QuantityOf(pick, PickedIn(x))
             + HoldsPicked(pick'[t], x) - HoldsPicked(pick[t], x)
        /\ QuantityOf(pick, OpenIn(x)) \in Int /\ QuantityOf(pick, PickedIn(x)) \in Int
  BY PickChange DEF OrderInv, OrderTyped
<1>10. ASSUME NEW x \in Bins
       PROVE  /\ HeldOtherwise(x)' = QuantityOf(pick', OpenIn(x)')
              /\ bin'[x].picked = QuantityOf(pick', PickedIn(x)')
  <2>1. /\ HeldOtherwise(x) = QuantityOf(pick, OpenIn(x))
        /\ bin[x].picked = QuantityOf(pick, PickedIn(x))
    BY DEF OrderInv, PicksHold
  <2>2. HeldOtherwise(x)' = bin'[x].reserved - QuantityOf(transfer, Released(x))
    BY DEF HeldOtherwise, Released, stockPapers
  <2>3. HeldOtherwise(x) = bin[x].reserved - QuantityOf(transfer, Released(x))
    BY DEF HeldOtherwise
  <2>4. /\ bin'[x].reserved = bin[x].reserved + (IF x = b THEN r ELSE 0)
        /\ bin'[x].picked = bin[x].picked + (IF x = b THEN k ELSE 0)
    BY <1>6, <1>7
  <2>5. HeldOtherwise(x)' = HeldOtherwise(x) + (IF x = b THEN r ELSE 0)
    BY <1>7, <1>8, <2>2, <2>3, <2>4
  <2>6. QuantityOf(pick', OpenIn(x)') = QuantityOf(pick, OpenIn(x)) + (IF x = b THEN r ELSE 0)
    BY <1>9
  <2>7. QuantityOf(pick', PickedIn(x)') = QuantityOf(pick, PickedIn(x)) + (IF x = b THEN k ELSE 0)
    BY <1>9
  <2> QED
    BY <2>1, <2>4, <2>5, <2>6, <2>7
<1>11. PicksHold'
  BY <1>10 DEF PicksHold
<1> QED
  BY <1>1, <1>2, <1>3, <1>4, <1>5, <1>11 DEF OrderInv, StockInv

LEMMA PickCreated ==
    ASSUME OrderInv, NEW t \in Picks, NEW i \in Reservations, NEW b \in Bins,
           NEW q \in Quantities, CreatePickTask(t, i, b, q)
    PROVE  OrderInv'
<1> DEFINE new == [status |-> "open", of |-> i, bin |-> b, quantity |-> q]
<1>1. /\ pick[t].status = "none" /\ reservation[i].status # "none"
      /\ reservation[i].warehouse = WarehouseOf[b]
      /\ pick' = [pick EXCEPT ![t] = new] /\ new \in PickRecord
      /\ new.status = "open" /\ new.of = i /\ new.bin = b /\ new.quantity = q
      /\ pick \in [Picks -> PickRecord] /\ q \in Int
      /\ UNCHANGED <<layers, position, stockPapers, order, reservation, package, rma, movements>>
  BY QuantitiesCount DEF CreatePickTask, PickRecord, OrderInv, OrderTyped
<1> HIDE DEF new
<1>2. /\ pick' \in [Picks -> PickRecord] /\ pick'[t] = new
      /\ \A x \in Picks : x # t => pick'[x] = pick[x]
  BY <1>1
<1>3. PICK r \in Int, k \in Int : r = q /\ k = 0 /\ BinBecomes(b, 0, r, k)
  BY <1>1 DEF CreatePickTask
<1>4. /\ \A x \in Bins : HoldsOpen(pick'[t], x) = (IF x = b THEN q ELSE 0) /\ HoldsOpen(pick[t], x) = 0
      /\ \A x \in Bins : HoldsPicked(pick'[t], x) = 0 /\ HoldsPicked(pick[t], x) = 0
  BY <1>1, <1>2 DEF HoldsOpen, HoldsPicked
<1>5. /\ \A x \in Bins : HoldsOpen(pick'[t], x) - HoldsOpen(pick[t], x) = (IF x = b THEN r ELSE 0)
      /\ \A x \in Bins : HoldsPicked(pick'[t], x) - HoldsPicked(pick[t], x) = (IF x = b THEN k ELSE 0)
      /\ \A x \in Bins : HoldsOpen(pick'[t], x) \in Int /\ HoldsOpen(pick[t], x) \in Int
      /\ \A x \in Bins : HoldsPicked(pick'[t], x) \in Int /\ HoldsPicked(pick[t], x) \in Int
  BY <1>1, <1>3, <1>4
<1>6. /\ reservation[pick'[t].of].status # "none"
      /\ reservation[pick'[t].of].warehouse = WarehouseOf[pick'[t].bin]
  BY <1>1, <1>2
<1> QED
  BY <1>1, <1>2, <1>3, <1>5, <1>6, PickFrame

LEMMA PickEnded ==
    ASSUME OrderInv, NEW t \in Picks, NEW outcome \in {"completed", "cancelled"},
           EndPickTask(t, outcome)
    PROVE  OrderInv'
<1> DEFINE b == pick[t].bin
           q == pick[t].quantity
<1>1. /\ pick[t].status = "open" /\ pick' = [pick EXCEPT ![t].status = outcome]
      /\ BinBecomes(b, 0, -q, IF outcome = "completed" THEN q ELSE 0)
      /\ pick \in [Picks -> PickRecord]
      /\ UNCHANGED <<layers, position, stockPapers, order, reservation, package, rma, movements>>
  BY DEF EndPickTask, OrderInv, OrderTyped
<1>2. /\ [pick[t] EXCEPT !.status = outcome] \in PickRecord
      /\ pick[t] \in [status : {"open", "completed", "cancelled", "issued"},
                      of : Reservations, bin : Bins, quantity : Quantities]
  <2>1. [pick[t] EXCEPT !.status = outcome] \in PickRecord
    BY <1>1, PickFields
  <2> QED
    BY <1>1, <2>1 DEF PickRecord, NoPick
<1>3. /\ pick' \in [Picks -> PickRecord]
      /\ pick'[t].status = outcome /\ pick'[t].of = pick[t].of
      /\ pick'[t].bin = b /\ pick'[t].quantity = q
      /\ \A x \in Picks : x # t => pick'[x] = pick[x]
  BY <1>1, <1>2
<1>4. b \in Bins /\ q \in Nat
  BY <1>2, QuantitiesCount
<1>5. PICK r \in Int, k \in Int :
        r = -q /\ k = (IF outcome = "completed" THEN q ELSE 0) /\ BinBecomes(b, 0, r, k)
  <2>1. PICK n \in Nat : n = q
    BY <1>4
  <2>2. -n \in Int /\ (IF outcome = "completed" THEN n ELSE 0) \in Int
    OBVIOUS
  <2> QED
    BY <1>1, <2>1, <2>2
<1>6. /\ \A x \in Bins : HoldsOpen(pick'[t], x) = 0 /\ HoldsOpen(pick[t], x) = (IF x = b THEN q ELSE 0)
      /\ \A x \in Bins : HoldsPicked(pick'[t], x) = (IF x = b THEN k ELSE 0)
      /\ \A x \in Bins : HoldsPicked(pick[t], x) = 0
  BY <1>1, <1>3, <1>5 DEF HoldsOpen, HoldsPicked
<1> HIDE DEF b, q
<1>7. /\ \A x \in Bins : HoldsOpen(pick'[t], x) - HoldsOpen(pick[t], x) = (IF x = b THEN r ELSE 0)
      /\ \A x \in Bins : HoldsPicked(pick'[t], x) - HoldsPicked(pick[t], x) = (IF x = b THEN k ELSE 0)
      /\ \A x \in Bins : HoldsOpen(pick'[t], x) \in Int /\ HoldsOpen(pick[t], x) \in Int
      /\ \A x \in Bins : HoldsPicked(pick'[t], x) \in Int /\ HoldsPicked(pick[t], x) \in Int
  BY <1>4, <1>5, <1>6
<1>8. /\ reservation[pick'[t].of].status # "none"
      /\ reservation[pick'[t].of].warehouse = WarehouseOf[pick'[t].bin]
  BY <1>1, <1>3 DEF OrderInv, PicksPlaced, b
<1>9. /\ pick' \in [Picks -> PickRecord] /\ \A x \in Picks : x # t => pick'[x] = pick[x]
      /\ UNCHANGED <<layers, position, stockPapers, order, reservation, package, rma, movements>>
      /\ b \in Bins /\ BinBecomes(b, 0, r, k)
  BY <1>1, <1>3, <1>4, <1>5
<1> QED
  BY <1>7, <1>8, <1>9, PickFrame

-----------------------------------------------------------------------------
(* Reservations that are packed, freed or gone together.                   *)

LEMMA ItemsMarked ==
    ASSUME OrderInv, NEW items \in SUBSET Reservations,
           \A r \in items : reservation[r].status # "none",
           NEW s \in {"reserved", "packed", "released", "consumed"},
           reservation' = [r \in Reservations |->
               IF r \in items THEN [reservation[r] EXCEPT !.status = s] ELSE reservation[r]]
    PROVE  /\ reservation' \in [Reservations -> ReservationRecord]
           /\ \A r \in items : reservation'[r].status = s
           /\ \A r \in Reservations : r \notin items => reservation'[r] = reservation[r]
           /\ \A r \in Reservations : reservation'[r].warehouse = reservation[r].warehouse
           /\ \A S \in SUBSET Reservations :
                /\ QuantityOf(reservation', S) = QuantityOf(reservation, S)
                /\ QuantityOf(reservation, S) \in Nat
           /\ ReservationsStay
<1>1. /\ reservation \in [Reservations -> ReservationRecord]
      /\ \A r \in Reservations : reservation[r].quantity \in Nat
      /\ \A r \in Reservations : reservation[r].quantity \in Int
  BY ReservationFields DEF OrderInv, OrderTyped
<1>2. ASSUME NEW r \in items
      PROVE  /\ reservation'[r] \in ReservationRecord /\ reservation'[r].status = s
             /\ reservation'[r].warehouse = reservation[r].warehouse
             /\ reservation'[r].quantity = reservation[r].quantity
  <2>1. reservation[r] \in [status : {"reserved", "packed", "released", "consumed"},
                            warehouse : Warehouses, quantity : Quantities]
    BY <1>1 DEF ReservationRecord, NoReservation
  <2>2. reservation'[r] = [reservation[r] EXCEPT !.status = s]
    OBVIOUS
  <2>3. reservation'[r] \in [status : {"reserved", "packed", "released", "consumed"},
                             warehouse : Warehouses, quantity : Quantities]
    BY <2>1, <2>2
  <2> QED
    BY <2>1, <2>2, <2>3 DEF ReservationRecord
<1>3. \A r \in Reservations : r \notin items => reservation'[r] = reservation[r]
  OBVIOUS
<1>4. /\ \A r \in Reservations : reservation'[r] \in ReservationRecord
      /\ \A r \in Reservations : reservation'[r].warehouse = reservation[r].warehouse
      /\ \A r \in Reservations : reservation'[r].quantity = reservation[r].quantity
  BY <1>1, <1>2, <1>3
<1>5. reservation' \in [Reservations -> ReservationRecord]
  BY <1>4
<1>6. ASSUME NEW S \in SUBSET Reservations
      PROVE  /\ QuantityOf(reservation', S) = QuantityOf(reservation, S)
             /\ QuantityOf(reservation, S) \in Nat
  <2>1. /\ IsFiniteSet(S) /\ S \in SUBSET S
        /\ \A r \in S : reservation[r].quantity \in Nat
        /\ \A r \in S : reservation[r].quantity \in Int
        /\ \A r \in S : reservation'[r].quantity = reservation[r].quantity
    BY <1>1, <1>4, FulfilmentAssumption, FS_Subset
  <2>2. QuantityOf(reservation', S) = QuantityOf(reservation, S)
    BY <2>1, QuantitySame
  <2>3. QuantityOf(reservation, S) \in Nat
    BY <2>1, QuantityWithin
  <2> QED
    BY <2>2, <2>3
<1>7. ReservationsStay
  <2>1. s # "none"
    OBVIOUS
  <2> QED
    BY <1>2, <1>3, <1>4, <2>1 DEF ReservationsStay
<1> QED
  BY <1>2, <1>3, <1>4, <1>5, <1>6, <1>7

LEMMA Packed ==
    ASSUME OrderInv, NEW p \in Packages, NEW items \in SUBSET Reservations, NEW first \in items,
           CreateShipmentPackage(p, items, first)
    PROVE  OrderInv'
<1> DEFINE new == [status |-> "packed", items |-> items, first |-> first]
<1>1. /\ package[p].status = "none" /\ package' = [package EXCEPT ![p] = new]
      /\ new \in PackageRecord /\ new.status = "packed" /\ new.items = items
      /\ new.first = first /\ package \in [Packages -> PackageRecord]
      /\ \A r \in items : /\ reservation[r].status = "reserved"
                          /\ reservation[r].warehouse = reservation[first].warehouse
      /\ UNCHANGED <<stockVars, order, pick, rma, movements>>
  BY DEF CreateShipmentPackage, PackageRecord, OrderInv, OrderTyped
<1> HIDE DEF new
<1>2. /\ package' \in [Packages -> PackageRecord] /\ package'[p] = new
      /\ \A x \in Packages : x # p => package'[x] = package[x]
  BY <1>1
<1>3. /\ reservation' \in [Reservations -> ReservationRecord]
      /\ \A r \in items : reservation'[r].status = "packed"
      /\ \A r \in Reservations : r \notin items => reservation'[r] = reservation[r]
      /\ \A r \in Reservations : reservation'[r].warehouse = reservation[r].warehouse
      /\ \A S \in SUBSET Reservations : QuantityOf(reservation', S) = QuantityOf(reservation, S)
      /\ ReservationsStay
  <2>1. /\ reservation' = [r \in Reservations |->
             IF r \in items THEN [reservation[r] EXCEPT !.status = "packed"] ELSE reservation[r]]
        /\ \A r \in items : reservation[r].status # "none"
    BY DEF CreateShipmentPackage
  <2> QED
    BY <2>1, ItemsMarked
<1>4. OrderTyped' /\ PackagesStay /\ ReturnsStay
  BY <1>1, <1>2, <1>3 DEF OrderInv, OrderTyped, PackagesStay, ReturnsStay
<1>5. StockInv'
  BY <1>1 DEF OrderInv, StockInv, LedgerInv, PapersInv, BinsOf, stockVars
<1>6. PicksHold'
  BY <1>1 DEF OrderInv, PicksHold, HeldOtherwise, Released, OpenIn, PickedIn, stockVars
<1>7. PromisesHold'
  <2>1. /\ \A w \in Warehouses : Live(w)' = Live(w) /\ Live(w) \in SUBSET Reservations
        /\ Promised' = Promised /\ Promised \in SUBSET Reservations
    BY <1>1, <1>3 DEF Live, Promised
  <2> QED
    BY <1>1, <1>3, <2>1 DEF OrderInv, PromisesHold, stockVars
<1>8. PackagesHold'
  <2>1. ASSUME NEW x \in Packages, package'[x].status # "none"
        PROVE  /\ package'[x].first \in package'[x].items
               /\ \A r \in package'[x].items :
                    /\ reservation'[r].status # "none"
                    /\ reservation'[r].warehouse = reservation'[package'[x].first].warehouse
    <3>1. CASE x = p
      BY <1>1, <1>2, <1>3, <3>1
    <3>2. CASE x # p
      <4>1. package[x].status # "none" /\ package'[x] = package[x]
        BY <1>2, <2>1, <3>2
      <4>2. /\ package[x].items \subseteq Reservations
            /\ package[x].first \in package[x].items
            /\ \A r \in package[x].items : reservation[r].status # "none"
            /\ \A r \in package[x].items : reservation[r].warehouse = WarehouseOfPackage(x)
        BY <4>1, PackagePlaced
      <4> QED
        BY <1>3, <4>1, <4>2 DEF ReservationsStay, WarehouseOfPackage
    <3> QED
      BY <3>1, <3>2
  <2>2. \A x \in Packages : x # p /\ package[x].status = "packed" =>
          /\ package[x].items \subseteq Reservations
          /\ \A r \in package[x].items : reservation[r].status = "packed"
    BY PackagePlaced DEF OrderInv, PackagesHold
  <2>3. ASSUME NEW x \in Packages, package'[x].status = "packed"
        PROVE  \A r \in package'[x].items : reservation'[r].status = "packed"
    BY <1>1, <1>2, <1>3, <2>2, <2>3
  <2>4. ASSUME NEW x \in Packages, NEW y \in Packages, x # y,
               package'[x].status = "packed", package'[y].status = "packed"
        PROVE  package'[x].items \cap package'[y].items = {}
    <3>1. CASE x # p /\ y # p
      BY <1>2, <2>4, <3>1 DEF OrderInv, PackagesHold
    <3>2. \A z \in Packages : z # p /\ package[z].status = "packed" =>
            package[z].items \cap items = {}
      BY <1>1, <2>2
    <3> QED
      BY <1>1, <1>2, <2>4, <3>1, <3>2
  <2> QED
    BY <2>1, <2>3, <2>4 DEF PackagesHold, WarehouseOfPackage
<1>9. PicksPlaced'
  BY <1>1, <1>3, KeptPicks
<1>10. ReturnsHold'
  BY <1>3, <1>4, KeptReturns
<1> QED
  BY <1>4, <1>5, <1>6, <1>7, <1>8, <1>9, <1>10 DEF OrderInv

(* A package leaves, or is given up: its items go with it.                 *)
LEMMA ItemsLeave ==
    ASSUME OrderInv, NEW p \in Packages, package[p].status = "packed",
           NEW s \in {"released", "consumed"}, ItemsBecome(p, s),
           NEW k \in {"cancelled", "dispatched"}, package' = [package EXCEPT ![p].status = k],
           NEW n \in Int,
           PositionBecomes(WarehouseOfPackage(p), n, -InReservations(package[p].items))
    PROVE  /\ reservation' \in [Reservations -> ReservationRecord]
           /\ package' \in [Packages -> PackageRecord]
           /\ ReservationsStay /\ PackagesStay
           /\ position' \in [Warehouses -> [onHand : Nat, reserved : Nat]]
           /\ \A w \in Warehouses : position'[w].reserved <= position'[w].onHand
           /\ PromisesHold' /\ PackagesHold'
<1> DEFINE items == package[p].items
           W == WarehouseOfPackage(p)
<1>1. /\ items \in SUBSET Reservations /\ package[p].first \in items /\ W \in Warehouses
      /\ \A r \in items : reservation[r].status = "packed" /\ reservation[r].warehouse = W
      /\ reservation \in [Reservations -> ReservationRecord] /\ LedgerInv
  BY PackagePlaced DEF OrderInv, OrderTyped, StockInv, PackagesHold
<1>2. /\ reservation' \in [Reservations -> ReservationRecord]
      /\ \A r \in items : reservation'[r].status = s
      /\ \A r \in Reservations : r \notin items => reservation'[r] = reservation[r]
      /\ \A r \in Reservations : reservation'[r].warehouse = reservation[r].warehouse
      /\ \A S \in SUBSET Reservations :
           /\ QuantityOf(reservation', S) = QuantityOf(reservation, S)
           /\ QuantityOf(reservation, S) \in Nat
      /\ ReservationsStay
  <2>1. /\ reservation' = [r \in Reservations |->
             IF r \in items THEN [reservation[r] EXCEPT !.status = s] ELSE reservation[r]]
        /\ \A r \in items : reservation[r].status # "none"
        /\ s \in {"reserved", "packed", "released", "consumed"}
    BY <1>1 DEF ItemsBecome
  <2> HIDE DEF items
  <2> QED
    BY <1>1, <2>1, ItemsMarked
<1>3. /\ package' \in [Packages -> PackageRecord] /\ package'[p].status = k
      /\ package'[p].items = items /\ package'[p].first = package[p].first
      /\ \A x \in Packages : x # p => package'[x] = package[x]
      /\ PackagesStay
  <2>1. k \in {"packed", "cancelled", "dispatched", "delivered",
               "return-in-progress", "returned"} /\ package[p].status # "none"
    OBVIOUS
  <2> QED
    BY <2>1, PackageRestated
<1>4. PICK q \in Nat, m \in Int :
        q = QuantityOf(reservation, items) /\ m = -q /\ PositionBecomes(W, n, m)
  <2>1. PICK q \in Nat : q = QuantityOf(reservation, items)
    BY <1>1, <1>2
  <2>2. -q \in Int /\ PositionBecomes(W, n, -q)
    BY <2>1 DEF InReservations, QuantityOf
  <2> QED
    BY <2>1, <2>2
<1> HIDE DEF W, items
<1>5. /\ position' \in [Warehouses -> [onHand : Nat, reserved : Nat]]
      /\ \A v \in Warehouses : position'[v].reserved <= position'[v].onHand
      /\ \A v \in Warehouses :
           /\ position'[v].reserved = position[v].reserved + (IF v = W THEN m ELSE 0)
           /\ position[v].reserved \in Nat
  <2>1. PositionBecomes(W, n, m)
    BY <1>4
  <2> QED
    BY <1>1, <2>1, PositionChange
<1>6. ASSUME NEW v \in Warehouses
      PROVE  position'[v].reserved = QuantityOf(reservation', Live(v)')
  <2>1. PICK S \in SUBSET Reservations, T \in SUBSET Reservations : S = Live(v) /\ T = Live(v)'
    BY DEF Live
  <2>2. T = S \ items
    BY <1>1, <1>2, <2>1 DEF Live
  <2>3. position[v].reserved = QuantityOf(reservation, S)
    BY <2>1 DEF OrderInv, PromisesHold
  <2>4. CASE v = W
    <3>1. items \in SUBSET S
      BY <1>1, <2>1, <2>4 DEF Live
    <3>2. /\ IsFiniteSet(S) /\ \A r \in S : reservation[r].quantity \in Int
      BY <1>1, ReservationFields, FulfilmentAssumption, FS_Subset
    <3>3. /\ QuantityOf(reservation, S) =
               QuantityOf(reservation, items) + QuantityOf(reservation, S \ items)
          /\ QuantityOf(reservation, S \ items) \in Int
      BY <3>1, <3>2, QuantityParts
    <3>4. QuantityOf(reservation', T) = QuantityOf(reservation, T)
      BY <1>2
    <3>5. position'[v].reserved = QuantityOf(reservation, S) + m
      BY <1>5, <2>3, <2>4
    <3>6. QuantityOf(reservation, S \ items) = QuantityOf(reservation, T)
      BY <2>2
    <3> QED
      BY <1>4, <2>1, <3>3, <3>4, <3>5, <3>6
  <2>5. CASE v # W
    <3>1. T = S
      BY <1>1, <2>1, <2>2, <2>5 DEF Live
    <3> QED
      BY <1>2, <1>5, <2>1, <2>3, <2>5, <3>1
  <2> QED
    BY <2>4, <2>5
<1>7. QuantityOf(reservation', Promised') <= Ordered
  <2>1. PICK S \in SUBSET Reservations, T \in SUBSET Reservations : S = Promised /\ T = Promised'
    BY DEF Promised
  <2>2. T \in SUBSET S
    BY <1>1, <1>2, <2>1 DEF Promised
  <2>3. /\ IsFiniteSet(S) /\ \A r \in S : reservation[r].quantity \in Nat
    BY <1>1, ReservationFields, FulfilmentAssumption, FS_Subset
  <2>4. /\ QuantityOf(reservation, T) <= QuantityOf(reservation, S)
        /\ QuantityOf(reservation, T) \in Nat /\ QuantityOf(reservation, S) \in Nat
    BY <2>2, <2>3, QuantityWithin
  <2>5. QuantityOf(reservation', T) = QuantityOf(reservation, T)
    BY <1>2
  <2>6. QuantityOf(reservation, S) <= Ordered
    BY <2>1 DEF OrderInv, PromisesHold
  <2> QED
    BY <2>1, <2>4, <2>5, <2>6, FulfilmentAssumption
<1>8. PackagesHold'
  <2>1. ASSUME NEW x \in Packages, package'[x].status # "none"
        PROVE  /\ package'[x].first \in package'[x].items
               /\ \A r \in package'[x].items :
                    /\ reservation'[r].status # "none"
                    /\ reservation'[r].warehouse = reservation'[package'[x].first].warehouse
    <3>1. /\ package[x].status # "none" /\ package'[x].items = package[x].items
          /\ package'[x].first = package[x].first
      BY <1>3, <2>1 DEF items
    <3>2. /\ package[x].items \subseteq Reservations
          /\ package[x].first \in package[x].items
          /\ \A r \in package[x].items : reservation[r].status # "none"
          /\ \A r \in package[x].items : reservation[r].warehouse = WarehouseOfPackage(x)
      BY <3>1, PackagePlaced
    <3> QED
      BY <1>2, <3>1, <3>2 DEF ReservationsStay, WarehouseOfPackage
  <2>2. \A x \in Packages : package'[x].status = "packed" =>
          x # p /\ package'[x] = package[x] /\ package[x].status = "packed"
    BY <1>3
  <2>3. ASSUME NEW x \in Packages, package'[x].status = "packed"
        PROVE  \A r \in package'[x].items : reservation'[r].status = "packed"
    <3>1. x # p /\ package'[x] = package[x] /\ package[x].status = "packed"
      BY <2>2, <2>3
    <3>2. /\ package[x].items \subseteq Reservations /\ package[x].items \cap items = {}
          /\ \A r \in package[x].items : reservation[r].status = "packed"
      BY <3>1, PackagePlaced DEF OrderInv, PackagesHold, items
    <3> QED
      BY <1>2, <3>1, <3>2
  <2>4. \A x, y \in Packages :
          x # y /\ package'[x].status = "packed" /\ package'[y].status = "packed"
            => package'[x].items \cap package'[y].items = {}
    BY <2>2 DEF OrderInv, PackagesHold
  <2> QED
    BY <2>1, <2>3, <2>4 DEF PackagesHold, WarehouseOfPackage
<1> QED
  BY <1>2, <1>3, <1>5, <1>6, <1>7, <1>8 DEF PromisesHold

LEMMA ShipmentCancelled ==
    ASSUME OrderInv, NEW p \in Packages, CancelShipment(p)
    PROVE  OrderInv'
<1>1. /\ package[p].status = "packed"
      /\ UNCHANGED <<bin, layers, stockPapers, order, pick, rma, movements>>
  BY DEF CancelShipment
<1>2. /\ reservation' \in [Reservations -> ReservationRecord]
      /\ package' \in [Packages -> PackageRecord]
      /\ ReservationsStay /\ PackagesStay
      /\ position' \in [Warehouses -> [onHand : Nat, reserved : Nat]]
      /\ \A w \in Warehouses : position'[w].reserved <= position'[w].onHand
      /\ PromisesHold' /\ PackagesHold'
  <2>1. PICK n \in Int : n = 0 /\
          PositionBecomes(WarehouseOfPackage(p), n, -InReservations(package[p].items))
    BY DEF CancelShipment
  <2>2. /\ ItemsBecome(p, "released") /\ package' = [package EXCEPT ![p].status = "cancelled"]
        /\ PositionBecomes(WarehouseOfPackage(p), n, -InReservations(package[p].items))
    BY <2>1 DEF CancelShipment
  <2> QED
    BY <1>1, <2>2, ItemsLeave
<1>3. OrderTyped' /\ ReturnsStay
  BY <1>1, <1>2 DEF OrderInv, OrderTyped, ReturnsStay
<1>4. StockInv'
  BY <1>1, <1>2, PositionsMove DEF OrderInv, StockInv, PapersInv, stockPapers
<1>5. PicksHold'
  BY <1>1 DEF OrderInv, PicksHold, HeldOtherwise, Released, OpenIn, PickedIn, stockPapers
<1>6. PicksPlaced'
  BY <1>1, <1>2, KeptPicks
<1>7. ReturnsHold'
  BY <1>2, <1>3, KeptReturns
<1> QED
  BY <1>2, <1>3, <1>4, <1>5, <1>6, <1>7 DEF OrderInv

(* The picks of a package that leaves are issued from its warehouse.       *)
From(b, ts) == {t \in ts : pick[t].bin = b}

LEMMA PicksMarked ==
    ASSUME OrderInv, NEW p \in Packages, package[p].status # "none", PicksIssued(p)
    PROVE  /\ pick' \in [Picks -> PickRecord]
           /\ \A t \in Issuable(p) : pick'[t].status = "issued"
           /\ \A t \in Picks : t \notin Issuable(p) => pick'[t] = pick[t]
           /\ \A t \in Picks : /\ pick'[t].of = pick[t].of /\ pick'[t].bin = pick[t].bin
                               /\ pick'[t].quantity = pick[t].quantity
           /\ \A t \in Issuable(p) : /\ t \in Picks /\ pick[t].status = "completed"
                                     /\ pick[t].bin \in BinsOf(WarehouseOfPackage(p))
<1> DEFINE ts == Issuable(p)
<1>1. /\ pick \in [Picks -> PickRecord]
      /\ \A t \in ts : t \in Picks /\ pick[t].of \in package[p].items /\ pick[t].status = "completed"
      /\ pick' = [t \in Picks |->
             IF t \in ts THEN [pick[t] EXCEPT !.status = "issued"] ELSE pick[t]]
  BY DEF OrderInv, OrderTyped, PicksIssued, Issuable
<1>2. ASSUME NEW t \in ts PROVE pick[t].bin \in BinsOf(WarehouseOfPackage(p))
  <2>1. pick[t].bin \in Bins
    BY <1>1, PickFields
  <2>2. /\ reservation[pick[t].of].warehouse = WarehouseOf[pick[t].bin]
        /\ reservation[pick[t].of].warehouse = WarehouseOfPackage(p)
    BY <1>1, PackagePlaced DEF OrderInv, PicksPlaced
  <2> QED
    BY <2>1, <2>2 DEF BinsOf
<1> HIDE DEF ts
<1>3. ASSUME NEW t \in ts
      PROVE  /\ pick'[t] \in PickRecord /\ pick'[t].status = "issued"
             /\ pick'[t].of = pick[t].of /\ pick'[t].bin = pick[t].bin
             /\ pick'[t].quantity = pick[t].quantity
  <2>1. pick[t] \in [status : {"open", "completed", "cancelled", "issued"},
                     of : Reservations, bin : Bins, quantity : Quantities]
    BY <1>1 DEF PickRecord, NoPick
  <2>2. pick'[t] = [pick[t] EXCEPT !.status = "issued"]
    BY <1>1
  <2>3. pick'[t] \in [status : {"open", "completed", "cancelled", "issued"},
                      of : Reservations, bin : Bins, quantity : Quantities]
    BY <2>1, <2>2
  <2> QED
    BY <2>1, <2>2, <2>3 DEF PickRecord
<1>4. \A t \in Picks : t \notin ts => pick'[t] = pick[t]
  BY <1>1
<1>5. /\ \A t \in Picks : pick'[t] \in PickRecord
      /\ \A t \in Picks : /\ pick'[t].of = pick[t].of /\ pick'[t].bin = pick[t].bin
                          /\ pick'[t].quantity = pick[t].quantity
  BY <1>1, <1>3, <1>4
<1>6. pick' \in [Picks -> PickRecord]
  BY <1>1, <1>5
<1> QED
  BY <1>1, <1>2, <1>3, <1>4, <1>5, <1>6 DEF ts

LEMMA BinsIssued ==
    ASSUME OrderInv, NEW p \in Packages, package[p].status # "none", PicksIssued(p)
    PROVE  /\ bin' \in [Bins -> BinRecord] /\ layers' \in [Warehouses -> Nat]
           /\ \A b \in Bins : Controlled(bin'[b])
           /\ \A w \in Warehouses : QuantityOf(bin', BinsOf(w)) = layers'[w]
           /\ \A b \in Bins :
                /\ bin'[b].reserved = bin[b].reserved
                /\ bin'[b].picked = bin[b].picked - QuantityOf(pick, From(b, Issuable(p)))
                /\ bin[b].picked \in Nat
<1> DEFINE ts == Issuable(p)
           W == WarehouseOfPackage(p)
           F(b) == QuantityOf(pick, From(b, ts))
<1>1. /\ pick \in [Picks -> PickRecord] /\ ts \in SUBSET Picks
      /\ \A t \in ts : pick[t].bin \in BinsOf(W)
      /\ bin \in [Bins -> BinRecord] /\ layers \in [Warehouses -> Nat]
      /\ \A b \in Bins : Controlled(bin[b])
      /\ \A v \in Warehouses : QuantityOf(bin, BinsOf(v)) = layers[v]
      /\ W \in Warehouses
  BY PicksMarked, PackagePlaced DEF OrderInv, OrderTyped, StockInv, LedgerInv, Issuable
<1>2. /\ IsFiniteSet(ts) /\ \A t \in Picks : pick[t].quantity \in Nat /\ pick[t].quantity \in Int
      /\ \A b \in Bins : From(b, ts) \in SUBSET ts
  BY <1>1, PickFields, FulfilmentAssumption, FS_Subset DEF From
<1>3. /\ \A b \in Bins : F(b) \in Nat
      /\ QuantityOf(pick, ts) \in Nat
  <2>1. /\ IsFiniteSet(ts) /\ \A t \in ts : pick[t].quantity \in Nat /\ ts \in SUBSET ts
    BY <1>1, <1>2
  <2> QED
    BY <1>2, <2>1, QuantityWithin
<1>4. /\ layers[W] >= QuantityOf(pick, ts)
      /\ \A b \in Bins : bin[b].picked >= F(b)
      /\ bin' = [b \in Bins |-> Changed(bin[b], -F(b), 0, -F(b))]
      /\ layers' = [layers EXCEPT ![W] = @ - QuantityOf(pick, ts)]
  BY DEF PicksIssued, FromBin, QuantityIn, QuantityOf, From
<1> HIDE DEF ts, W, F
<1>5. ASSUME NEW b \in Bins
      PROVE  /\ bin'[b] \in BinRecord /\ Controlled(bin'[b])
             /\ bin'[b].quantity = bin[b].quantity - F(b)
             /\ bin'[b].reserved = bin[b].reserved
             /\ bin'[b].picked = bin[b].picked - F(b)
             /\ bin[b].quantity \in Int
  <2>1. PICK n \in Nat : n = F(b)
    BY <1>3
  <2>2. /\ bin[b].quantity \in Nat /\ bin[b].reserved \in Nat /\ bin[b].picked \in Nat
        /\ bin[b].reserved + bin[b].picked <= bin[b].quantity /\ bin[b].picked >= n
    BY <1>1, <1>4, <2>1 DEF BinRecord, Controlled
  <2>3. bin'[b] = [quantity |-> bin[b].quantity - n, reserved |-> bin[b].reserved,
                   picked |-> bin[b].picked - n]
    <3>1. bin'[b] = Changed(bin[b], -n, 0, -n)
      BY <1>4, <2>1
    <3>2. /\ bin[b].quantity + -n = bin[b].quantity - n /\ bin[b].reserved + 0 = bin[b].reserved
          /\ bin[b].picked + -n = bin[b].picked - n
      BY <2>2
    <3> QED
      BY <3>1, <3>2 DEF Changed
  <2> QED
    BY <2>1, <2>2, <2>3 DEF BinRecord, Controlled
<1>6. bin' \in [Bins -> BinRecord]
  BY <1>4, <1>5
<1>7. /\ layers' \in [Warehouses -> Nat]
      /\ \A v \in Warehouses :
           layers'[v] = layers[v] - (IF v = W THEN QuantityOf(pick, ts) ELSE 0)
  <2>1. PICK n \in Nat : n = QuantityOf(pick, ts)
    BY <1>3
  <2>2. layers[W] \in Nat /\ layers[W] - n \in Nat
    BY <1>1, <1>4, <2>1
  <2>3. layers' = [layers EXCEPT ![W] = layers[W] - n]
    BY <1>4, <2>1
  <2> QED
    BY <1>1, <2>1, <2>2, <2>3
<1>8. ASSUME NEW v \in Warehouses
      PROVE  QuantityOf(bin', BinsOf(v)) = layers'[v]
  <2> DEFINE D == BinsOf(v)
  <2>1. /\ IsFiniteSet(D) /\ D \in SUBSET Bins
        /\ \A b \in D : WarehouseOf[b] = v
    BY StockAssumption, FS_Subset DEF BinsOf
  <2>2. /\ \A b \in D : bin[b].quantity \in Int
        /\ \A b \in D : bin'[b].quantity \in Int
    BY <1>5, <1>6, <2>1 DEF BinRecord
  <2>3. QuantityOf(bin, D) = layers[v] /\ layers[v] \in Nat
    BY <1>1
  <2>4. CASE v = W
    <3> DEFINE key == [t \in ts |-> pick[t].bin]
    <3>1. key \in [ts -> D] /\ \A b \in D : Family(key, ts, b) = From(b, ts)
      BY <1>1, <2>4 DEF Family, From
    <3> HIDE DEF D, key
    <3>2. \A b \in D : bin'[b].quantity = bin[b].quantity - QuantityOf(pick, Family(key, ts, b))
      BY <1>5, <2>1, <3>1 DEF F
    <3>3. /\ \A t \in ts : pick[t].quantity \in Int
          /\ \A b \in D : bin[b].quantity \in Int /\ bin'[b].quantity \in Int
      BY <1>1, <1>2, <2>2
    <3>4. QuantityOf(bin', D) = QuantityOf(bin, D) - QuantityOf(pick, ts)
      BY <1>2, <2>1, <3>1, <3>2, <3>3, QuantityDrawn
    <3> QED
      BY <1>7, <2>3, <2>4, <3>4 DEF D
  <2>5. CASE v # W
    <3>1. \A b \in D : From(b, ts) = {}
      BY <1>1, <2>1, <2>5 DEF From, BinsOf
    <3>2. \A b \in D : F(b) = 0
      BY <3>1, QuantityOfNone DEF F
    <3> HIDE DEF D
    <3>3. \A b \in D : bin'[b].quantity = bin[b].quantity
      BY <1>5, <2>1, <2>2, <3>2
    <3>4. QuantityOf(bin', D) = QuantityOf(bin, D)
      BY <2>1, <2>2, <3>3, QuantitySame
    <3> QED
      BY <1>7, <2>3, <2>5, <3>4 DEF D
  <2> QED
    BY <2>4, <2>5
<1>9. \A b \in Bins : bin[b].picked \in Nat
  BY <1>1 DEF BinRecord
<1> QED
  BY <1>5, <1>6, <1>7, <1>8, <1>9 DEF F, ts

LEMMA PicksLeave ==
    ASSUME OrderInv, NEW p \in Packages, package[p].status # "none", PicksIssued(p),
           transfer' = transfer
    PROVE  PicksHold'
<1> DEFINE ts == Issuable(p)
<1>1. /\ pick' \in [Picks -> PickRecord] /\ pick \in [Picks -> PickRecord]
      /\ \A t \in ts : pick'[t].status = "issued"
      /\ \A t \in Picks : t \notin ts => pick'[t] = pick[t]
      /\ \A t \in Picks : /\ pick'[t].bin = pick[t].bin /\ pick'[t].quantity = pick[t].quantity
      /\ \A t \in ts : t \in Picks /\ pick[t].status = "completed"
  BY PicksMarked DEF OrderInv, OrderTyped
<1>2. \A b \in Bins :
        /\ bin'[b].reserved = bin[b].reserved
        /\ bin'[b].picked = bin[b].picked - QuantityOf(pick, From(b, ts))
        /\ bin[b].picked \in Nat
  BY BinsIssued
<1> HIDE DEF ts
<1>3. ASSUME NEW b \in Bins
      PROVE  HeldOtherwise(b)' = QuantityOf(pick', OpenIn(b)')
  <2>1. PICK S \in SUBSET Picks : S = OpenIn(b)
    BY DEF OpenIn
  <2>2. OpenIn(b)' = S
    BY <1>1, <2>1 DEF OpenIn
  <2>3. /\ IsFiniteSet(S) /\ \A t \in S : pick[t].quantity \in Int
        /\ \A t \in S : pick'[t].quantity = pick[t].quantity
    BY <1>1, PickFields, FulfilmentAssumption, FS_Subset
  <2>4. QuantityOf(pick', S) = QuantityOf(pick, S)
    BY <2>3, QuantitySame
  <2>5. HeldOtherwise(b)' = HeldOtherwise(b)
    BY <1>2 DEF HeldOtherwise, Released
  <2>6. HeldOtherwise(b) = QuantityOf(pick, S)
    BY <2>1 DEF OrderInv, PicksHold
  <2> QED
    BY <2>2, <2>4, <2>5, <2>6
<1>4. ASSUME NEW b \in Bins
      PROVE  bin'[b].picked = QuantityOf(pick', PickedIn(b)')
  <2>1. PICK S \in SUBSET Picks, R \in SUBSET Picks : S = PickedIn(b) /\ R = From(b, ts)
    BY <1>1 DEF PickedIn, From
  <2>2. R \in SUBSET S
    BY <1>1, <2>1 DEF PickedIn, From
  <2>3. PICK T \in SUBSET Picks : T = PickedIn(b)' /\ T = S \ R
    <3>1. PickedIn(b)' = S \ R
      BY <1>1, <2>1 DEF PickedIn, From
    <3> QED
      BY <3>1
  <2>4. /\ IsFiniteSet(S) /\ \A t \in S : pick[t].quantity \in Int
        /\ IsFiniteSet(T) /\ \A t \in T : pick[t].quantity \in Int
        /\ \A t \in T : pick'[t].quantity = pick[t].quantity
    BY <1>1, PickFields, FulfilmentAssumption, FS_Subset
  <2>5. QuantityOf(pick', T) = QuantityOf(pick, T)
    BY <2>4, QuantitySame
  <2>6. /\ QuantityOf(pick, S) = QuantityOf(pick, R) + QuantityOf(pick, S \ R)
        /\ QuantityOf(pick, R) \in Int /\ QuantityOf(pick, S \ R) \in Int
    BY <2>2, <2>4, QuantityParts
  <2>7. bin[b].picked = QuantityOf(pick, S) /\ bin'[b].picked = bin[b].picked - QuantityOf(pick, R)
    BY <1>2, <2>1 DEF OrderInv, PicksHold
  <2>8. QuantityOf(pick, S \ R) = QuantityOf(pick, T)
    BY <2>3
  <2>9. bin'[b].picked = QuantityOf(pick, T)
    BY <2>6, <2>7, <2>8
  <2> QED
    BY <2>3, <2>5, <2>9
<1> QED
  BY <1>3, <1>4 DEF PicksHold

LEMMA ShipmentDispatched ==
    ASSUME OrderInv, NEW p \in Packages, DispatchShipment(p)
    PROVE  OrderInv'
<1>1. /\ package[p].status = "packed" /\ PicksIssued(p)
      /\ UNCHANGED <<stockPapers, order, rma, movements>>
  BY DEF DispatchShipment
<1>2. /\ reservation' \in [Reservations -> ReservationRecord]
      /\ package' \in [Packages -> PackageRecord]
      /\ ReservationsStay /\ PackagesStay
      /\ position' \in [Warehouses -> [onHand : Nat, reserved : Nat]]
      /\ \A w \in Warehouses : position'[w].reserved <= position'[w].onHand
      /\ PromisesHold' /\ PackagesHold'
  <2> DEFINE q == InReservations(package[p].items)
  <2>1. /\ ItemsBecome(p, "consumed") /\ package' = [package EXCEPT ![p].status = "dispatched"]
        /\ PositionBecomes(WarehouseOfPackage(p), -q, -q)
    BY DEF DispatchShipment
  <2>2. q \in Nat
    <3>1. /\ IsFiniteSet(package[p].items) /\ package[p].items \in SUBSET package[p].items
          /\ \A r \in package[p].items : reservation[r].quantity \in Nat
      BY <1>1, PackagePlaced, ReservationFields, FulfilmentAssumption, FS_Subset
         DEF OrderInv, OrderTyped
    <3>2. QuantityOf(reservation, package[p].items) \in Nat
      BY <3>1, QuantityWithin
    <3> QED
      BY <3>2 DEF InReservations, QuantityOf
  <2>3. PICK n \in Int : n = -q
    <3> HIDE DEF q
    <3> QED
      BY <2>2
  <2>4. PositionBecomes(WarehouseOfPackage(p), n, -InReservations(package[p].items))
    BY <2>1, <2>3
  <2> HIDE DEF q
  <2> QED
    BY <1>1, <2>1, <2>4, ItemsLeave
<1>3. /\ pick' \in [Picks -> PickRecord]
      /\ \A t \in Picks : pick'[t].of = pick[t].of /\ pick'[t].bin = pick[t].bin
      /\ \A t \in Picks : pick'[t].status # "none" => pick[t].status # "none"
  <2>1. /\ pick' \in [Picks -> PickRecord]
        /\ \A t \in Picks : t \notin Issuable(p) => pick'[t] = pick[t]
        /\ \A t \in Picks : pick'[t].of = pick[t].of /\ pick'[t].bin = pick[t].bin
        /\ \A t \in Issuable(p) : pick[t].status = "completed"
    BY <1>1, PicksMarked
  <2> QED
    BY <2>1
<1>4. OrderTyped' /\ ReturnsStay
  BY <1>1, <1>2, <1>3 DEF OrderInv, OrderTyped, ReturnsStay, DispatchShipment
<1>5. StockInv'
  <2>1. /\ bin' \in [Bins -> BinRecord] /\ layers' \in [Warehouses -> Nat]
        /\ \A b \in Bins : Controlled(bin'[b])
        /\ \A w \in Warehouses : QuantityOf(bin', BinsOf(w)) = layers'[w]
    BY <1>1, BinsIssued
  <2>2. \A w \in Warehouses : QuantityOf(bin', BinsOf(w)') = layers'[w]
    BY <2>1 DEF BinsOf
  <2>3. LedgerInv'
    BY <1>2, <2>1, <2>2 DEF LedgerInv
  <2> QED
    BY <1>1, <2>3 DEF OrderInv, StockInv, PapersInv, stockPapers
<1>6. PicksHold'
  BY <1>1, PicksLeave DEF stockPapers
<1>7. PicksPlaced'
  <2>1. \A t \in Picks : pick[t].status # "none" => pick[t].of \in Reservations
    BY PickFields DEF OrderInv, OrderTyped
  <2> QED
    BY <1>2, <1>3, <2>1 DEF OrderInv, PicksPlaced, ReservationsStay
<1>8. ReturnsHold'
  BY <1>2, <1>4, KeptReturns
<1> QED
  BY <1>2, <1>4, <1>5, <1>6, <1>7, <1>8 DEF OrderInv

-----------------------------------------------------------------------------
LEMMA FulfilmentStepKeeps ==
    ASSUME OrderInv, [FulfilmentNext]_fulfilmentVars
    PROVE  OrderInv'
<1>1. CASE StockNext /\ UNCHANGED <<order, reservation, package, pick, rma, movements>>
  BY <1>1, WarehouseWork
<1>2. CASE ReservationStep
  BY <1>2, Reserved, Unreserved, PickCreated DEF ReservationStep
<1>3. CASE PickStep
  BY <1>3, PickEnded DEF PickStep
<1>4. CASE PackageStep
  BY <1>4, Packed, ShipmentDispatched, ShipmentCancelled, PackageMoved, ReturnRequested
     DEF PackageStep
<1>5. CASE ReturnStep
  BY <1>5, ReturnDecided, ReturnReceived, ReturnInspected DEF ReturnStep
<1>6. CASE OrderStep
  BY <1>6, PositionWork DEF OrderStep
<1>7. CASE UNCHANGED fulfilmentVars
  <2>1. UNCHANGED <<bin, layers, position, stockPapers, order, reservation, package, pick, rma, movements>>
    BY <1>7 DEF fulfilmentVars, stockVars, stockPapers
  <2>2. StockInv' /\ OrderTyped'
    BY <2>1 DEF OrderInv, StockInv, LedgerInv, PapersInv, BinsOf, OrderTyped, stockPapers
  <2>3. PromisesHold' /\ PackagesHold' /\ PicksPlaced' /\ ReturnsHold'
    BY <2>1 DEF OrderInv, PromisesHold, Live, Promised, PackagesHold, WarehouseOfPackage,
       PicksPlaced, ReturnsHold, OnFile
  <2>4. PicksHold'
    BY <2>1 DEF OrderInv, PicksHold, HeldOtherwise, Released, OpenIn, PickedIn, stockPapers
  <2> QED
    BY <2>2, <2>3, <2>4 DEF OrderInv
<1> QED
  BY <1>1, <1>2, <1>3, <1>4, <1>5, <1>6, <1>7 DEF FulfilmentNext

LEMMA FulfilmentInductive == FulfilmentSpec => []OrderInv
BY OrderInitially, FulfilmentStepKeeps, PTL DEF FulfilmentSpec

(* Bins, layers, positions, papers, reservations, packages, picks and      *)
(* return authorisations keep their shapes, and no register goes below     *)
(* zero: what upsertBalance and updatedPosition refuse by throwing.        *)
LEMMA FulfilmentTypeCorrect == FulfilmentSpec => []FulfilmentTypeOK
<1>1. OrderInv => FulfilmentTypeOK
  BY DEF OrderInv, StockInv, LedgerInv, PapersInv, OrderTyped, FulfilmentTypeOK, StockTypeOK
<1> QED
  BY <1>1, FulfilmentInductive, PTL

(* What lies in the bins of a warehouse is what its cost layers value,     *)
(* through every movement of goods and every package that takes picked     *)
(* goods along (consumeLayers and upsertBalance in inventory-warehouse.ts, *)
(* which each operation calls by itself).                                  *)
THEOREM StockIsAlwaysCosted == FulfilmentSpec => []StockIsCosted
<1>1. OrderInv => StockIsCosted
  BY DEF OrderInv, StockInv, LedgerInv, StockIsCosted, StockIn, QuantityOf
<1> QED
  BY <1>1, FulfilmentInductive, PTL

(* What a location's position sets aside is what live reservations hold,   *)
(* it is on hand, and the order is never promised more than it asked for   *)
(* (reserveStock, moveShipment and updatedPosition).                       *)
THEOREM PromisesAreAlwaysBacked == FulfilmentSpec => []PromisesAreBacked
<1>1. OrderInv => PromisesAreBacked
  BY DEF OrderInv, StockInv, LedgerInv, PromisesHold, Promised, PromisesAreBacked,
     InReservations, QuantityOf
<1> QED
  BY <1>1, FulfilmentInductive, PTL

(* Every unit a bin holds back is held by a released transfer or an open   *)
(* pick, and every unit picked is still to be issued (createPickTask,      *)
(* completePickTask, issuePickedInventory and the transfers).              *)
THEOREM BinHoldsAreAlwaysOwned == FulfilmentSpec => []BinHoldsAreOwned
<1>1. ASSUME OrderInv, NEW b \in Bins
      PROVE  /\ bin[b].reserved = QuantityOf(transfer, Released(b)) + QuantityOf(pick, OpenIn(b))
             /\ bin[b].picked = QuantityOf(pick, PickedIn(b))
             /\ Controlled(bin[b])
  <2>1. /\ bin[b].reserved \in Int /\ Controlled(bin[b])
        /\ bin[b].reserved - QuantityOf(transfer, Released(b)) = QuantityOf(pick, OpenIn(b))
        /\ bin[b].picked = QuantityOf(pick, PickedIn(b))
    BY <1>1 DEF OrderInv, StockInv, LedgerInv, BinRecord, PicksHold, HeldOtherwise
  <2>2. QuantityOf(transfer, Released(b)) \in Int
    <3>1. \A y \in Transfers : transfer[y].quantity \in Int
      BY <1>1, QuantitiesCount DEF OrderInv, StockInv, PapersInv, TaskRecord, NoTask
    <3>2. Released(b) \in SUBSET Transfers
      BY DEF Released
    <3> QED
      BY <3>1, <3>2, StockAssumption, QuantityOfPart
  <2> QED
    BY <2>1, <2>2
<1>2. OrderInv => BinHoldsAreOwned
  BY <1>1 DEF BinHoldsAreOwned, HeldForTransfer, QuantityIn, QuantityOf, Released, OpenIn, PickedIn
<1> QED
  BY <1>2, FulfilmentInductive, PTL

(* Over all requests for a package, whatever their order and whatever      *)
(* became of it since, no more comes back than went out                    *)
(* (createReturnAuthorization).                                            *)
THEOREM ReturnsStayWithinDelivery == FulfilmentSpec => []ReturnsWithinDelivery
<1>1. OrderInv => ReturnsWithinDelivery
  BY DEF OrderInv, ReturnsHold, ReturnsWithinDelivery, Returning, InReservations, QuantityOf
<1> QED
  BY <1>1, FulfilmentInductive, PTL
=============================================================================
