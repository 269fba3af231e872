--------------------------- MODULE WarehouseStock ---------------------------
(***************************************************************************)
(* The inventory ledger (src/domain/inventory-warehouse.ts): what lies in  *)
(* the bins of each warehouse, the cost layers behind it, and the stock    *)
(* position of the warehouse's location that sales are promised from.      *)
(*                                                                         *)
(* One variant of one item, valued first-in first-out at one unit cost,    *)
(* without batches or serials.  Units of measure, capacities, due dates    *)
(* and the checksummed ledger entries are left out, and so is who acts:    *)
(* wherever the code asks for a second person, one is there.  A transfer   *)
(* has one line and a count covers one bin.                                *)
(***************************************************************************)
EXTENDS Shared, Integers, FiniteSets, FiniteSetsExt

CONSTANTS
    Warehouses, Bins,
    WarehouseOf,     \* the warehouse a bin stands in
    Purpose,         \* receiving, storage, quarantine
    Putaways, Transfers, Counts, Dispositions,
    Quantities,      \* the quantities of one operation
    MaxStock         \* bound on the stock of a warehouse

ASSUME StockAssumption ==
    /\ IsFiniteSet(Bins) /\ IsFiniteSet(Transfers)
    /\ WarehouseOf \in [Bins -> Warehouses]
    /\ Quantities \subseteq Nat /\ MaxStock \in Nat

VARIABLES
    bin,          \* quantity, reserved and picked of each bin
    layers,       \* remaining quantity of the open cost layers, by warehouse
    position,     \* stockPositions: onHand and reserved, by warehouse
    putaway, transfer, cycleCount, disposition

stockVars == <<bin, layers, position, putaway, transfer, cycleCount, disposition>>
stockLedger == <<bin, layers, position>>
documents == <<putaway, transfer, cycleCount, disposition>>

EmptyBin == [quantity |-> 0, reserved |-> 0, picked |-> 0]
NoTask == [status |-> "none", from |-> None, to |-> None, quantity |-> 0]
NoCount == [status |-> "none", bin |-> None, expected |-> 0, variance |-> 0]
NoDisposition == [status |-> "none", kind |-> None, bin |-> None, quantity |-> 0]

StockInit ==
    /\ bin = [b \in Bins |-> EmptyBin]
    /\ layers = [w \in Warehouses |-> 0]
    /\ position = [w \in Warehouses |-> [onHand |-> 0, reserved |-> 0]]
    /\ putaway = [t \in Putaways |-> NoTask]
    /\ transfer = [t \in Transfers |-> NoTask]
    /\ cycleCount = [c \in Counts |-> NoCount]
    /\ disposition = [d \in Dispositions |-> NoDisposition]

Available(b) == bin[b].quantity - bin[b].reserved - bin[b].picked

(* upsertBalance.                                                          *)
Changed(balance, quantity, reserved, picked) ==
    [quantity |-> balance.quantity + quantity,
     reserved |-> balance.reserved + reserved,
     picked |-> balance.picked + picked]
Controlled(balance) ==
    /\ balance.reserved >= 0 /\ balance.picked >= 0
    /\ balance.reserved + balance.picked <= balance.quantity

BinBecomes(b, quantity, reserved, picked) ==
    /\ Controlled(Changed(bin[b], quantity, reserved, picked))
    /\ bin' = [bin EXCEPT ![b] = Changed(@, quantity, reserved, picked)]

(* syncLegacyStock: the position may not fall below what is reserved.      *)
Synced(w, quantity) ==
    /\ position[w].onHand + quantity >= position[w].reserved
    /\ position' = [position EXCEPT ![w].onHand = @ + quantity]

(* consumeLayers, or a new layer.                                          *)
LayersBecome(w, quantity) ==
    /\ layers[w] + quantity >= 0
    /\ layers' = [layers EXCEPT ![w] = @ + quantity]

(* Goods enter (or leave) a bin, its cost layers and the position at once. *)
Enters(b, quantity) ==
    /\ layers[WarehouseOf[b]] + quantity <= MaxStock
    /\ BinBecomes(b, quantity, 0, 0)
    /\ LayersBecome(WarehouseOf[b], quantity)
    /\ Synced(WarehouseOf[b], quantity)

-----------------------------------------------------------------------------
ReceiveInventory(b, quantity) ==
    /\ Purpose[b] \in {"receiving", "quarantine"}
    /\ Enters(b, quantity)
    /\ UNCHANGED documents

(* consumeInventoryForProduction takes from any bin, a sale at the counter *)
(* from storage.                                                           *)
IssueInventory(b, quantity) ==
    /\ quantity <= Available(b)
    /\ Enters(b, -quantity)
    /\ UNCHANGED documents

(* A counter return: resalable goods go back to storage, quarantined and   *)
(* damaged goods into quarantine, "never added to the sellable-stock       *)
(* projection".                                                            *)
ReturnRetailInventory(b, quantity) ==
    \/ /\ Purpose[b] = "storage"
       /\ Enters(b, quantity)
       /\ UNCHANGED documents
    \/ /\ Purpose[b] = "quarantine"
       /\ layers[WarehouseOf[b]] + quantity <= MaxStock
       /\ BinBecomes(b, quantity, 0, 0)
       /\ LayersBecome(WarehouseOf[b], quantity)
       /\ UNCHANGED <<position, documents>>

-----------------------------------------------------------------------------
(* A putaway holds nothing: it is checked when planned and when completed. *)
CreatePutawayTask(t, from, to, quantity) ==
    /\ putaway[t].status = "none"
    /\ WarehouseOf[from] = WarehouseOf[to]
    /\ Purpose[from] = "receiving" /\ Purpose[to] = "storage"
    /\ quantity <= Available(from)
    /\ putaway' = [putaway EXCEPT ![t] =
         [status |-> "open", from |-> from, to |-> to, quantity |-> quantity]]
    /\ UNCHANGED <<stockLedger, transfer, cycleCount, disposition>>

(* planned, in-progress and blocked are all "open".                        *)
EndPutawayTask(t, outcome) ==
    LET task == putaway[t]
        source == Changed(bin[task.from], -task.quantity, 0, 0)
    IN  /\ task.status = "open"
        /\ putaway' = [putaway EXCEPT ![t].status = outcome]
        /\ \/ outcome = "cancelled" /\ UNCHANGED bin
           \/ /\ outcome = "completed"
              /\ Controlled(source)
              /\ bin' = [bin EXCEPT ![task.from] = source,
                                    ![task.to] = Changed(@, task.quantity, 0, 0)]
        /\ UNCHANGED <<layers, position, transfer, cycleCount, disposition>>

CreateInventoryTransfer(t, from, to, quantity) ==
    /\ transfer[t].status = "none"
    /\ WarehouseOf[from] # WarehouseOf[to]
    /\ quantity <= Available(from)
    /\ transfer' = [transfer EXCEPT ![t] =
         [status |-> "draft", from |-> from, to |-> to, quantity |-> quantity]]
    /\ UNCHANGED <<stockLedger, putaway, cycleCount, disposition>>

TransferBecomes(t, status) ==
    /\ transfer' = [transfer EXCEPT ![t].status = status]
    /\ UNCHANGED <<putaway, cycleCount, disposition>>

ReleaseTransfer(t) ==
    /\ transfer[t].status = "draft"
    /\ BinBecomes(transfer[t].from, 0, transfer[t].quantity, 0)
    /\ TransferBecomes(t, "released")
    /\ UNCHANGED <<layers, position>>

CancelTransfer(t) ==
    /\ \/ transfer[t].status = "draft" /\ UNCHANGED bin
       \/ transfer[t].status = "released"
          /\ BinBecomes(transfer[t].from, 0, -transfer[t].quantity, 0)
    /\ TransferBecomes(t, "cancelled")
    /\ UNCHANGED <<layers, position>>

(* Mutant: goods leave without their cost layers. *)
LeavesUncosted(b, quantity) ==
    /\ BinBecomes(b, -quantity, -quantity, 0)
    /\ UNCHANGED layers
    /\ Synced(WarehouseOf[b], -quantity)

Leaves(b, quantity) ==
    /\ BinBecomes(b, -quantity, -quantity, 0)
    /\ LayersBecome(WarehouseOf[b], -quantity)
    /\ Synced(WarehouseOf[b], -quantity)

DispatchTransfer(t) ==
    LET b == transfer[t].from IN
    /\ transfer[t].status = "released"
    /\ Leaves(b, transfer[t].quantity)
    /\ TransferBecomes(t, "in-transit")

ReceiveTransfer(t) ==
    /\ transfer[t].status = "in-transit"
    /\ Enters(transfer[t].to, transfer[t].quantity)
    /\ TransferBecomes(t, "received")

-----------------------------------------------------------------------------
(* The expected quantity is read when the count is planned.                *)
CreateCycleCount(c, b) ==
    /\ cycleCount[c].status = "none"
    /\ cycleCount' = [cycleCount EXCEPT ![c] = [status |-> "planned", bin |-> b,
         expected |-> bin[b].quantity, variance |-> 0]]
    /\ UNCHANGED <<stockLedger, putaway, transfer, disposition>>

RecordCycleCount(c, counted) ==
    /\ cycleCount[c].status = "planned"
    /\ cycleCount' = [cycleCount EXCEPT ![c].status = "review",
                                        ![c].variance = counted - cycleCount[c].expected]
    /\ UNCHANGED <<stockLedger, putaway, transfer, disposition>>

(* The variance is applied to the balance of now.                          *)
DecideCycleCount(c, decision) ==
    LET b == cycleCount[c].bin
        variance == cycleCount[c].variance
    IN  /\ cycleCount[c].status = "review"
        /\ cycleCount' = [cycleCount EXCEPT ![c].status =
             IF decision = "approved" THEN "posted" ELSE "cancelled"]
        /\ \/ decision = "rejected" /\ UNCHANGED stockLedger
           \/ decision = "approved" /\ variance = 0 /\ UNCHANGED stockLedger
           \/ /\ decision = "approved" /\ variance # 0
              /\ bin[b].quantity + variance >= bin[b].reserved + bin[b].picked
              /\ Enters(b, variance)
        /\ UNCHANGED <<putaway, transfer, disposition>>

-----------------------------------------------------------------------------
(* A submitted loss is evidence, not yet a movement.                       *)
CreateInventoryDisposition(d, kind, b, quantity) ==
    /\ disposition[d].status = "none"
    /\ kind = "opening-balance" => Purpose[b] \in {"receiving", "quarantine"}
    /\ kind = "loss" => quantity <= Available(b)
    /\ disposition' = [disposition EXCEPT ![d] =
         [status |-> "submitted", kind |-> kind, bin |-> b, quantity |-> quantity]]
    /\ UNCHANGED <<stockLedger, putaway, transfer, cycleCount>>

DecideInventoryDisposition(d, decision) ==
    /\ disposition[d].status = "submitted"
    /\ disposition' = [disposition EXCEPT ![d].status = decision]
    /\ UNCHANGED <<stockLedger, putaway, transfer, cycleCount>>

(* An old approval cannot spend stock reserved since.                      *)
StillSpare(d) == Available(disposition[d].bin) >= disposition[d].quantity

PostInventoryDisposition(d) ==
    /\ disposition[d].status = "approved"
    /\ \/ disposition[d].kind = "opening-balance"
          /\ Enters(disposition[d].bin, disposition[d].quantity)
       \/ disposition[d].kind = "loss"
          /\ StillSpare(d)
          /\ Enters(disposition[d].bin, -disposition[d].quantity)
    /\ disposition' = [disposition EXCEPT ![d].status = "posted"]
    /\ UNCHANGED <<putaway, transfer, cycleCount>>

-----------------------------------------------------------------------------
Decisions == {"approved", "rejected"}

GoodsStep ==
    \E b \in Bins, q \in Quantities :
        \/ ReceiveInventory(b, q)
        \/ IssueInventory(b, q)
        \/ ReturnRetailInventory(b, q)

TransferStep ==
    \E t \in Transfers :
        \/ \E from, to \in Bins, q \in Quantities : CreateInventoryTransfer(t, from, to, q)
        \/ ReleaseTransfer(t)
        \/ CancelTransfer(t)
        \/ DispatchTransfer(t)
        \/ ReceiveTransfer(t)

PutawayStep ==
    \E t \in Putaways :
        \/ \E from, to \in Bins, q \in Quantities : CreatePutawayTask(t, from, to, q)
        \/ \E outcome \in {"completed", "cancelled"} : EndPutawayTask(t, outcome)

CountStep ==
    \E c \in Counts :
        \/ \E b \in Bins : CreateCycleCount(c, b)
        \/ \E counted \in 0 .. MaxStock : RecordCycleCount(c, counted)
        \/ \E decision \in Decisions : DecideCycleCount(c, decision)

DispositionStep ==
    \E d \in Dispositions :
        \/ \E kind \in {"opening-balance", "loss"}, b \in Bins, q \in Quantities :
               CreateInventoryDisposition(d, kind, b, q)
        \/ \E decision \in Decisions : DecideInventoryDisposition(d, decision)
        \/ PostInventoryDisposition(d)

StockNext == GoodsStep \/ TransferStep \/ PutawayStep \/ CountStep \/ DispositionStep

StockSpec == StockInit /\ [][StockNext]_stockVars

-----------------------------------------------------------------------------
BinRecord == [quantity : Nat, reserved : Nat, picked : Nat]
TaskRecord(statuses) ==
    {NoTask} \cup [status : statuses, from : Bins, to : Bins, quantity : Quantities]
CountRecord ==
    {NoCount} \cup [status : {"planned", "review", "posted", "cancelled"}, bin : Bins,
                    expected : Nat, variance : Int]
DispositionRecord ==
    {NoDisposition} \cup [status : {"submitted", "approved", "rejected", "posted"},
                          kind : {"opening-balance", "loss"}, bin : Bins,
                          quantity : Quantities]

(* Every record keeps the shape its handlers give it.                      *)
StockTypeOK ==
    /\ bin \in [Bins -> BinRecord]
    /\ layers \in [Warehouses -> Nat]
    /\ position \in [Warehouses -> [onHand : Nat, reserved : Nat]]
    /\ putaway \in [Putaways -> TaskRecord({"open", "completed", "cancelled"})]
    /\ transfer \in [Transfers ->
         TaskRecord({"draft", "released", "in-transit", "received", "cancelled"})]
    /\ cycleCount \in [Counts -> CountRecord]
    /\ disposition \in [Dispositions -> DispositionRecord]

BinsOf(w) == {b \in Bins : WarehouseOf[b] = w}
StockIn(w) == MapThenSumSet(LAMBDA b : bin[b].quantity, BinsOf(w))
HeldForTransfer(b) ==
    MapThenSumSet(LAMBDA t : transfer[t].quantity,
        {t \in Transfers : transfer[t].from = b /\ transfer[t].status = "released"})

(* What lies in a warehouse is what its cost layers value, through every   *)
(* receipt, issue, return, transfer, count and disposition: ten operations *)
(* change bins and layers by separate calls (inventory-warehouse.ts).      *)
StockIsCosted == \A w \in Warehouses : StockIn(w) = layers[w]
=============================================================================
