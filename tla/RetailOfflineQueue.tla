------------------------ MODULE RetailOfflineQueue --------------------------
(***************************************************************************)
(* The offline sale queue (src/domain/retail-offline-sync.ts) in front of  *)
(* the till: a sale taken while disconnected is queued under its           *)
(* transaction key and later replayed through the ordinary checkout; what  *)
(* the checkout refuses becomes a conflict that another person requeues or *)
(* discards.  A batch run (syncRetailOfflineQueue) is a series of Sync     *)
(* steps.  A payload that no longer has its checksum, that is a corrupted  *)
(* store, is not modelled.                                                 *)
(***************************************************************************)
EXTENDS RetailPos

CONSTANTS
    Items,
    MaxAttempts   \* bound on the synchronisations of one item

(* Cleaning a key that is already clean leaves it as it is.                *)
ASSUME OfflineAssumption ==
    \A k \in RawKeys : CleanKey[k] \in RawKeys => CleanKey[CleanKey[k]] = CleanKey[k]

VARIABLES
    queue,      \* RetailOfflineSaleQueueItem records
    trail,      \* the statuses of each item's sync receipts, oldest first
    completed   \* history: the sales each item's synchronisations completed

offlineVars == <<vars, queue, trail, completed>>

NoItem == [status |-> "none", key |-> None, shift |-> None, request |-> None,
           queuedBy |-> None, attempts |-> 0]

Item == [status : {"none", "queued", "synced", "conflict", "discarded"},
         key : RawKeys \cup {None}, shift : Shifts \cup {None},
         request : Requests \cup {None}, queuedBy : Actors \cup {None},
         attempts : Nat]

OfflineInit ==
    /\ Init
    /\ queue = [i \in Items |-> NoItem]
    /\ trail = [i \in Items |-> << >>]
    /\ completed = [i \in Items |-> {}]

(* appendSyncReceipt. *)
Receipted(i, statuses) == [trail EXCEPT ![i] = @ \o statuses]

(* The queue compares keys as they were typed.  Any client may queue for   *)
(* any shift: the shift is looked at when the sale is synchronised.        *)
EnqueueRetailOfflineSale(i, k, s, q, a) ==
    /\ queue[i].status = "none"
    /\ \A j \in Items : queue[j].status # "none" => queue[j].key # k
    /\ queue' = [queue EXCEPT ![i] = [@ EXCEPT !.status = "queued", !.key = k,
         !.shift = s, !.request = q, !.queuedBy = a]]
    /\ trail' = Receipted(i, <<"queued">>)
    /\ UNCHANGED <<vars, completed>>

Synchronised(i, outcome) ==
    /\ queue' = [queue EXCEPT ![i] = [queue[i] EXCEPT
         !.status = outcome, !.attempts = @ + 1]]
    /\ trail' = Receipted(i, <<"syncing", outcome>>)

(* The sale of this step, or an earlier one, found under the key as it was *)
(* typed; none is found when clean() changed that key.                     *)
FoundUnderTypedKey(i) ==
    IF \E n \in DOMAIN sales' : sales'[n].key = queue[i].key
    THEN "synced" ELSE "conflict"

SyncSells(i, a) ==
    LET item == queue[i]
    IN  /\ CanSell(CleanKey[item.key], item.shift, item.request, a)
        /\ Sell(CleanKey[item.key], item.shift, item.request, a)
        /\ Synchronised(i, FoundUnderTypedKey(i))
        /\ completed' = [completed EXCEPT ![i] = @ \cup {Len(sales) + 1}]

SyncReplays(i, a) ==
    LET item == queue[i]
    IN  /\ TillOpenFor(item.shift, a)
        /\ IsReplay(CleanKey[item.key], item.shift, item.request)
        /\ UNCHANGED <<vars, completed>>
        /\ Synchronised(i, FoundUnderTypedKey(i))

(* Mutant: any sale under the key taken for this one. *)
RefusedUnlessKeyUsed(i, a) ==
    LET item == queue[i]
        k == CleanKey[item.key]
    IN  /\ ~ CanSell(k, item.shift, item.request, a)
        /\ ~ /\ TillOpenFor(item.shift, a)
             /\ IsReplay(k, item.shift, item.request)
        /\ UNCHANGED <<vars, completed>>
        /\ Synchronised(i, FoundUnderTypedKey(i))

SyncRefused(i, a) ==
    LET item == queue[i]
        k == CleanKey[item.key]
    IN  /\ ~ CanSell(k, item.shift, item.request, a)
        /\ ~ /\ TillOpenFor(item.shift, a)
             /\ IsReplay(k, item.shift, item.request)
        /\ UNCHANGED <<vars, completed>>
        /\ Synchronised(i, "conflict")

(* syncRetailOfflineSale: the cashier who queued the sale, or someone else *)
(* with recovery evidence; the checkout is made in the name of whoever     *)
(* synchronises.                                                           *)
SyncRetailOfflineSale(i, a) ==
    /\ queue[i].status = "queued"
    /\ queue[i].attempts < MaxAttempts
    /\ SyncSells(i, a) \/ SyncReplays(i, a) \/ SyncRefused(i, a)

ResolveRetailOfflineSale(i, resolution, a) ==
    /\ queue[i].status = "conflict"
    /\ a # queue[i].queuedBy
    /\ queue' = [queue EXCEPT ![i] = [@ EXCEPT
         !.status = IF resolution = "requeued" THEN "queued" ELSE "discarded"]]
    /\ trail' = Receipted(i, <<resolution>>)
    /\ UNCHANGED <<vars, completed>>

OfflineStep(i, a) ==
    \/ \E k \in RawKeys, s \in Shifts, q \in Requests :
         EnqueueRetailOfflineSale(i, k, s, q, a)
    \/ SyncRetailOfflineSale(i, a)
    \/ \E resolution \in {"requeued", "discarded"} :
         ResolveRetailOfflineSale(i, resolution, a)

OfflineNext ==
    \/ Next /\ UNCHANGED <<queue, trail, completed>>
    \/ \E i \in Items, a \in Actors : OfflineStep(i, a)

OfflineSpec == OfflineInit /\ [][OfflineNext]_offlineVars

-----------------------------------------------------------------------------
(* The queue keeps its shape, and every item's sync receipts tell its      *)
(* story: they begin when it was queued, count its attempts and end in its *)
(* status.                                                                 *)
OfflineTypeOK ==
    /\ queue \in [Items -> Item]
    /\ \A i \in Items :
         IF queue[i].status = "none" THEN trail[i] = << >>
         ELSE /\ trail[i][1] = "queued"
              /\ queue[i].attempts =
                   Cardinality({n \in DOMAIN trail[i] : trail[i][n] = "syncing"})
              /\ trail[i][Len(trail[i])] \in
                   (IF queue[i].status = "queued" THEN {"queued", "requeued"}
                    ELSE {queue[i].status})

(* A synchronised item stands for one sale with exactly its content,       *)
(* whether the sync made it or the cashier had made it online before       *)
(* (checkoutRetailSale's replay); it stays so for good.                    *)
SyncedMeansSold ==
    \A i \in Items : queue[i].status = "synced" =>
      \E n \in DOMAIN sales :
        /\ sales[n].key = queue[i].key
        /\ sales[n].shift = queue[i].shift
        /\ sales[n].request = queue[i].request

(* STORE_RECOVERY_RUNBOOK.md: a conflict "is not a completed sale".        *)
ConflictIsNotASale ==
    \A i \in Items : queue[i].status = "conflict" => completed[i] = {}

=============================================================================
