-------------------------- MODULE OrderFulfilment ---------------------------
(***************************************************************************)
(* From a sales order to its packages and back                             *)
(* (src/domain/fulfilment-control.ts, commercial.ts transitionSalesOrder,  *)
(* the picks of inventory-warehouse.ts, RevenueOpsStore.moveShipment),     *)
(* composed with the warehouse stock the goods are taken from.             *)
(*                                                                         *)
(* One order with one goods line of the variant WarehouseStock models.     *)
(* The evidence a package needs on its way (place-of-supply review, issued *)
(* invoice, carrier, e-way bill, delivery promise) is on file.  Shipments  *)
(* are packed, ready or in transit without more ado: only the stages that  *)
(* change stock or close doors are told apart.                             *)
(***************************************************************************)
EXTENDS WarehouseStock

CONSTANTS Reservations, Packages, Picks, Returns,
          Ordered,      \* quantity of the order line
          MaxMovements  \* bound on manual stock movements

ASSUME FulfilmentAssumption ==
    /\ IsFiniteSet(Reservations) /\ IsFiniteSet(Picks) /\ IsFiniteSet(Returns)
    /\ Ordered \in Nat /\ None \notin Packages

VARIABLES
    order,        \* status of the sales order
    reservation, package, pick,
    rma,          \* returnAuthorizations
    movements     \* how many manual movements were recorded

fulfilmentVars == <<stockVars, order, reservation, package, pick, rma, movements>>
stockPapers == <<putaway, transfer, cycleCount, disposition>>

NoReservation == [status |-> "none", warehouse |-> None, quantity |-> 0]
NoPackage == [status |-> "none", items |-> {}, first |-> None]
NoPick == [status |-> "none", of |-> None, bin |-> None, quantity |-> 0]
NoReturn == [status |-> "none", package |-> None, quantity |-> 0]

FulfilmentInit ==
    /\ StockInit
    /\ order = "open"
    /\ reservation = [r \in Reservations |-> NoReservation]
    /\ package = [p \in Packages |-> NoPackage]
    /\ pick = [t \in Picks |-> NoPick]
    /\ rma = [a \in Returns |-> NoReturn]
    /\ movements = 0

InReservations(rs) == MapThenSumSet(LAMBDA r : reservation[r].quantity, rs)
Live(w) == {r \in Reservations : reservation[r].warehouse = w
                              /\ reservation[r].status \in {"reserved", "packed"}}
WarehouseOfPackage(p) == reservation[package[p].first].warehouse

(* updatedPosition.                                                        *)
PositionBecomes(w, onHand, reserved) ==
    LET new == [onHand |-> position[w].onHand + onHand,
                reserved |-> position[w].reserved + reserved]
    IN  /\ new.onHand >= 0
        /\ new.reserved >= 0 /\ new.reserved <= new.onHand
        /\ position' = [position EXCEPT ![w] = new]

-----------------------------------------------------------------------------
(* confirmed, fulfilling and on-hold are all "open".  Nothing that was     *)
(* reserved or packed for the order is looked at.                          *)
CloseSalesOrder ==
    /\ order = "open"
    /\ order' = "closed"
    /\ UNCHANGED <<stockVars, reservation, package, pick, rma, movements>>

(* A manual movement changes the position and no bin.                      *)
RecordStockMovement(w, quantity) ==
    /\ movements < MaxMovements
    /\ position[w].onHand + quantity <= MaxStock
    /\ position[w].onHand - position[w].reserved + quantity >= 0
    /\ PositionBecomes(w, quantity, 0)
    /\ movements' = movements + 1
    /\ UNCHANGED <<bin, layers, stockPapers, order, reservation, package, pick, rma>>

(* Mutant: the units already packed or shipped are not counted again. *)
PromisedAnew(quantity) ==
    InReservations({r \in Reservations : reservation[r].status = "reserved"}) + quantity <= Ordered

WithinOrder(quantity) ==
    InReservations({r \in Reservations : reservation[r].status \notin {"none", "released"}})
        + quantity <= Ordered

ReserveStock(r, w, quantity) ==
    /\ order = "open"
    /\ reservation[r].status = "none"
    /\ WithinOrder(quantity)
    /\ quantity <= position[w].onHand - position[w].reserved
    /\ PositionBecomes(w, 0, quantity)
    /\ reservation' = [reservation EXCEPT ![r] =
         [status |-> "reserved", warehouse |-> w, quantity |-> quantity]]
    /\ UNCHANGED <<bin, layers, stockPapers, order, package, pick, rma, movements>>

ReleaseStockReservation(r) ==
    /\ reservation[r].status = "reserved"
    /\ PositionBecomes(reservation[r].warehouse, 0, -reservation[r].quantity)
    /\ reservation' = [reservation EXCEPT ![r].status = "released"]
    /\ UNCHANGED <<bin, layers, stockPapers, order, package, pick, rma, movements>>

-----------------------------------------------------------------------------
PickOf(r) == {t \in Picks : pick[t].of = r /\ pick[t].status # "cancelled"}
QuantityIn(ts) == MapThenSumSet(LAMBDA t : pick[t].quantity, ts)

CreatePickTask(t, r, b, quantity) ==
    /\ pick[t].status = "none"
    /\ reservation[r].status \in {"reserved", "packed"}
    /\ reservation[r].warehouse = WarehouseOf[b] /\ Purpose[b] = "storage"
    /\ quantity <= Available(b)
    /\ QuantityIn(PickOf(r)) + quantity <= reservation[r].quantity
    /\ BinBecomes(b, 0, quantity, 0)
    /\ pick' = [pick EXCEPT ![t] = [status |-> "open", of |-> r, bin |-> b, quantity |-> quantity]]
    /\ UNCHANGED <<layers, position, stockPapers, order, reservation, package, rma, movements>>

(* A pick task does not look at its reservation again.                     *)
EndPickTask(t, outcome) ==
    LET task == pick[t] IN
    /\ task.status = "open"
    /\ BinBecomes(task.bin, 0, -task.quantity, IF outcome = "completed" THEN task.quantity ELSE 0)
    /\ pick' = [pick EXCEPT ![t].status = outcome]
    /\ UNCHANGED <<layers, position, stockPapers, order, reservation, package, rma, movements>>

-----------------------------------------------------------------------------
CreateShipmentPackage(p, items, first) ==
    /\ order = "open"
    /\ package[p].status = "none"
    /\ first \in items
    /\ \A r \in items : /\ reservation[r].status = "reserved"
                        /\ reservation[r].warehouse = reservation[first].warehouse
    /\ reservation' = [r \in Reservations |->
         IF r \in items THEN [reservation[r] EXCEPT !.status = "packed"] ELSE reservation[r]]
    /\ package' = [package EXCEPT ![p] = [status |-> "packed", items |-> items, first |-> first]]
    /\ UNCHANGED <<stockVars, order, pick, rma, movements>>

ItemsBecome(p, status) ==
    reservation' = [r \in Reservations |->
        IF r \in package[p].items THEN [reservation[r] EXCEPT !.status = status] ELSE reservation[r]]

(* issuePickedInventory, for the picks completed by now.                   *)
Issuable(p) == {t \in Picks : pick[t].of \in package[p].items /\ pick[t].status = "completed"}
FromBin(b, ts) == QuantityIn({t \in ts : pick[t].bin = b})

(* Mutant: the bin is not told that its picked goods are gone. *)
IssuedStillPicked(p) ==
    LET ts == Issuable(p) IN
    /\ layers[WarehouseOfPackage(p)] >= QuantityIn(ts)
    /\ bin' = [b \in Bins |-> Changed(bin[b], -FromBin(b, ts), 0, 0)]
    /\ layers' = [layers EXCEPT ![WarehouseOfPackage(p)] = @ - QuantityIn(ts)]
    /\ pick' = [t \in Picks |->
         IF t \in ts THEN [pick[t] EXCEPT !.status = "issued"] ELSE pick[t]]

PicksIssued(p) ==
    LET ts == Issuable(p)
        w == WarehouseOfPackage(p)
    IN  /\ layers[w] >= QuantityIn(ts)
        /\ \A b \in Bins : bin[b].picked >= FromBin(b, ts)
        /\ bin' = [b \in Bins |-> Changed(bin[b], -FromBin(b, ts), 0, -FromBin(b, ts))]
        /\ layers' = [layers EXCEPT ![w] = @ - QuantityIn(ts)]
        /\ pick' = [t \in Picks |->
             IF t \in ts THEN [pick[t] EXCEPT !.status = "issued"] ELSE pick[t]]

(* moveShipment to dispatched: the position gives up what was packed, and  *)
(* the bins what was picked.                                               *)
DispatchShipment(p) ==
    LET quantity == InReservations(package[p].items) IN
    /\ package[p].status = "packed"
    /\ \A r \in package[p].items : reservation[r].status = "packed"
    /\ PositionBecomes(WarehouseOfPackage(p), -quantity, -quantity)
    /\ ItemsBecome(p, "consumed")
    /\ PicksIssued(p)
    /\ package' = [package EXCEPT ![p].status = "dispatched"]
    /\ UNCHANGED <<stockPapers, order, rma, movements>>

CancelShipment(p) ==
    /\ package[p].status = "packed"
    /\ PositionBecomes(WarehouseOfPackage(p), 0, -InReservations(package[p].items))
    /\ ItemsBecome(p, "released")
    /\ package' = [package EXCEPT ![p].status = "cancelled"]
    /\ UNCHANGED <<bin, layers, stockPapers, order, pick, rma, movements>>

(* The stages that move no stock.                                          *)
MoveShipment(p, from, to) ==
    /\ package[p].status = from
    /\ package' = [package EXCEPT ![p].status = to]
    /\ UNCHANGED <<stockVars, order, reservation, pick, rma, movements>>

-----------------------------------------------------------------------------
OnFile(p) == {a \in Returns : rma[a].package = p /\ rma[a].status # "rejected"}
Returning(as) == MapThenSumSet(LAMBDA a : rma[a].quantity, as)

(* Mutant: only returns already decided count against the package. *)
UndecidedUncounted(p, quantity) ==
    Returning({a \in OnFile(p) : rma[a].status # "requested"}) + quantity
        <= reservation[package[p].first].quantity

(* Of a package that carries the line twice, the first item is compared.   *)
WithinDelivered(p, quantity) ==
    Returning(OnFile(p)) + quantity <= reservation[package[p].first].quantity

CreateReturnAuthorization(a, p, quantity) ==
    /\ rma[a].status = "none"
    /\ package[p].status = "delivered"
    /\ WithinDelivered(p, quantity)
    /\ rma' = [rma EXCEPT ![a] = [status |-> "requested", package |-> p, quantity |-> quantity]]
    /\ UNCHANGED <<stockVars, order, reservation, package, pick, movements>>

(* Whatever the status of the package.                                     *)
DecideReturnAuthorization(a, decision) ==
    /\ rma[a].status = "requested"
    /\ rma' = [rma EXCEPT ![a].status = decision]
    /\ package' = IF decision = "approved"
                  THEN [package EXCEPT ![rma[a].package].status = "return-in-progress"]
                  ELSE package
    /\ UNCHANGED <<stockVars, order, reservation, pick, movements>>

(* The position takes the goods back; no bin does.                         *)
ReceiveReturn(a) ==
    LET p == rma[a].package IN
    /\ rma[a].status = "approved"
    /\ PositionBecomes(WarehouseOfPackage(p), rma[a].quantity, 0)
    /\ rma' = [rma EXCEPT ![a].status = "received"]
    /\ package' = [package EXCEPT ![p].status = "returned"]
    /\ UNCHANGED <<bin, layers, stockPapers, order, reservation, pick, movements>>

InspectReturn(a, disposed) ==
    LET w == WarehouseOfPackage(rma[a].package) IN
    /\ rma[a].status = "received"
    /\ \/ disposed = "restock" /\ UNCHANGED position
       \/ /\ disposed = "failed"
          /\ position[w].onHand - position[w].reserved >= rma[a].quantity
          /\ PositionBecomes(w, -rma[a].quantity, 0)
    /\ rma' = [rma EXCEPT ![a].status = "closed"]
    /\ UNCHANGED <<bin, layers, stockPapers, order, reservation, package, pick, movements>>

-----------------------------------------------------------------------------
Stages == {<<"dispatched", "delivered">>, <<"delivered", "return-in-progress">>,
           <<"return-in-progress", "returned">>}

ReservationStep ==
    \E r \in Reservations :
        \/ \E w \in Warehouses, q \in Quantities : ReserveStock(r, w, q)
        \/ ReleaseStockReservation(r)
        \/ \E t \in Picks, b \in Bins, q \in Quantities : CreatePickTask(t, r, b, q)

PickStep == \E t \in Picks, outcome \in {"completed", "cancelled"} : EndPickTask(t, outcome)

PackageStep ==
    \E p \in Packages :
        \/ \E items \in SUBSET Reservations : \E first \in items :
               CreateShipmentPackage(p, items, first)
        \/ DispatchShipment(p)
        \/ CancelShipment(p)
        \/ \E stage \in Stages : MoveShipment(p, stage[1], stage[2])
        \/ \E a \in Returns, q \in Quantities : CreateReturnAuthorization(a, p, q)

ReturnStep ==
    \E a \in Returns :
        \/ \E decision \in Decisions : DecideReturnAuthorization(a, decision)
        \/ ReceiveReturn(a)
        \/ \E disposed \in {"restock", "failed"} : InspectReturn(a, disposed)

OrderStep == CloseSalesOrder
             \/ \E w \in Warehouses, q \in Quantities :
                    RecordStockMovement(w, q) \/ RecordStockMovement(w, -q)

FulfilmentNext ==
    \/ StockNext /\ UNCHANGED <<order, reservation, package, pick, rma, movements>>
    \/ ReservationStep \/ PickStep \/ PackageStep \/ ReturnStep \/ OrderStep

FulfilmentSpec == FulfilmentInit /\ [][FulfilmentNext]_fulfilmentVars

-----------------------------------------------------------------------------
ReservationRecord ==
    {NoReservation} \cup [status : {"reserved", "packed", "released", "consumed"},
                          warehouse : Warehouses, quantity : Quantities]
PackageRecord ==
    {NoPackage} \cup [status : {"packed", "cancelled", "dispatched", "delivered",
                                "return-in-progress", "returned"},
                      items : SUBSET Reservations, first : Reservations]
PickRecord ==
    {NoPick} \cup [status : {"open", "completed", "cancelled", "issued"},
                   of : Reservations, bin : Bins, quantity : Quantities]
ReturnRecord ==
    {NoReturn} \cup [status : {"requested", "approved", "rejected", "received", "closed"},
                     package : Packages, quantity : Quantities]

(* Every record keeps the shape its handlers give it.                      *)
FulfilmentTypeOK ==
    /\ StockTypeOK
    /\ order \in {"open", "closed"} /\ movements \in Nat
    /\ reservation \in [Reservations -> ReservationRecord]
    /\ package \in [Packages -> PackageRecord]
    /\ pick \in [Picks -> PickRecord]
    /\ rma \in [Returns -> ReturnRecord]

(* Stock promised to the order is there: the reserved part of a position   *)
(* is exactly what live reservations hold, through sales, transfers,       *)
(* counts, losses and cancelled packages, and the order is never promised  *)
(* more than it asked for.                                                 *)
PromisesAreBacked ==
    /\ \A w \in Warehouses : /\ position[w].reserved = InReservations(Live(w))
                             /\ position[w].reserved <= position[w].onHand
    /\ InReservations({r \in Reservations : reservation[r].status \notin {"none", "released"}})
         <= Ordered

(* Every unit a bin holds back is held for a released transfer or an open  *)
(* pick, and every unit picked is still to be issued: two registers kept   *)
(* by eight operations, which a package leaving and a reservation lapsing  *)
(* in between must not unbalance.                                          *)
BinHoldsAreOwned ==
    \A b \in Bins :
        /\ bin[b].reserved = HeldForTransfer(b)
             + QuantityIn({t \in Picks : pick[t].bin = b /\ pick[t].status = "open"})
        /\ bin[b].picked = QuantityIn({t \in Picks : pick[t].bin = b /\ pick[t].status = "completed"})
        /\ Controlled(bin[b])

(* "Return quantity exceeds the delivered package quantity.": over all     *)
(* requests, whatever their order and whatever the package's status became *)
(* since, no more comes back than went out.                                *)
ReturnsWithinDelivery ==
    \A p \in Packages : Returning(OnFile(p)) <= InReservations(package[p].items)
=============================================================================
