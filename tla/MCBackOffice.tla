---------------------------- MODULE MCBackOffice ----------------------------
(* Small instances of the automation scheduler, procurement, the general   *)
(* ledger and the assets, which share no state.                            *)
(* Each behaviour stays at one desk: what is not on it keeps its initial   *)
(* state, and the state spaces add up instead of multiplying.              *)
EXTENDS AutomationScheduler, ProcureToPay, GeneralLedger, FixedAssets, TLC

CONSTANTS m,              \* the key of a run proposed by hand
          x1, x2,         \* assets
          clerk, head

VARIABLE desk

officeVars == <<schedulerVars, procureVars, ledgerVars, assetVars, desk>>

(* The run proposed by hand is not under a policy; the slot's run is.      *)
SchedulerDesk ==
    /\ desk = "scheduler"
    /\ SchedulerNext
    /\ run'[m].status # "none" => consumed' = {} /\ \A s \in Slots : run'[s].status = "none"
    /\ UNCHANGED <<procureVars, ledgerVars, assetVars>>

(* Documents are numbered in the order in which they are made.             *)
InOrder(used) == \A x, y \in DOMAIN used : x < y /\ used[y] => used[x]
Numbered(f) == InOrder([x \in DOMAIN f |-> f'[x].status # "none"])

(* Goods are invoiced once all that came is at the dock and no cost of it  *)
(* is under way, and they come from the first supplier, who has won        *)
(* against the second or is the only one.                                  *)
AtDock == dock' = order'.received /\ \A c \in Costs : landedCost'[c].status = "none"
ProcurementDesk ==
    /\ desk = "procurement"
    /\ ProcureNext
    /\ order'.invoiced > 0 => AtDock
    /\ order.status # "none" => UNCHANGED sourcingVars
    /\ order'.received > 0 => quote'[1] = "awarded" 
    /\ order'.received > 0 => quote'[2] = "lost" \/ supplier'[2] = "none"
    /\ InOrder([s \in Suppliers |-> supplier'[s] # "none"])
    /\ InOrder([i \in Invoices |-> match'[i] # "none"])
    /\ Numbered(receipt) /\ Numbered(landedCost) /\ Numbered(payment)
    /\ UNCHANGED <<schedulerVars, ledgerVars, assetVars>>

LedgerDesk ==
    /\ LedgerNext
    /\ Numbered(journal) /\ Numbered(close)
    /\ UNCHANGED <<schedulerVars, procureVars, assetVars>>

(* Journals of three kinds on one day, no period being submitted; a source *)
(* whose export asks for its claim, or one whose export does not.          *)
BooksDesk ==
    /\ desk = "books"
    /\ LedgerDesk
    /\ \A h \in Canonical : handoff'[h].date \in {None, 1}
    /\ \A h \in LegacyHandoffs \cup RecognitionHandoffs : handoff'[h] = NoHandoff
    /\ \E h \in OtherHandoffs : \A x \in OtherHandoffs \ {h} : handoff'[x] = NoHandoff
    /\ \A j \in Journals : journal'[j].date \in {None, 1}
    /\ UNCHANGED close

(* Periods of up to two days over hand-offs and their journals, four of    *)
(* these together; what has no adapter is of the first day.                *)
InUse(f) == Cardinality({x \in DOMAIN f : f[x].status # "none"})
ClosingDesk ==
    /\ desk = "closing"
    /\ LedgerDesk
    /\ \A h \in OtherHandoffs : handoff'[h] = NoHandoff
    /\ \A h \in LegacyHandoffs : handoff'[h].date \in {None, 1}
    /\ InUse(handoff') + InUse(journal') + InUse(close') <= 4
    /\ \A j \in Journals : journal'[j].status # "none" =>
         journal'[j].source # None \/ journal'[j].undoes # None

-----------------------------------------------------------------------------
MCTaxable == [b \in Bills |-> 3]
MCLife == [p \in Policies |-> p]

(* A clerk asks for everything and a head decides; the second asset, of    *)
(* another cost, comes when the first is in the books.                     *)
MadeByClerk(f) == \A x \in DOMAIN f : f'[x].maker \in {clerk, None}
AsRegistered ==
    /\ MadeByClerk(asset) /\ MadeByClerk(cap) /\ MadeByClerk(policy)
    /\ MadeByClerk(depreciation) /\ MadeByClerk(request) /\ MadeByClerk(work)
    /\ \A a \in Assets : asset'[a].status # "rejected" /\ cap'[a].status # "rejected"
    /\ cap'[x1].amount \in {0, 2} /\ cap'[x2].amount \in {0, 1}
    /\ asset'[x2].status # "none" => entry'[x1] = "posted"
    /\ policy'[1].status # "rejected"
    /\ InUse(depreciation') > 0 \/ policy'[2].status # "none" => policy'[1].status = "approved"
    /\ Numbered(depreciation) /\ Numbered(request) /\ Numbered(work)
    /\ \A q \in Requests : request'[q].checker \in {head, None}
    /\ UNCHANGED <<schedulerVars, procureVars, ledgerVars>>

ChargesDesk ==
    /\ desk = "charges"
    /\ \/ \E user \in Staff : RegisterStep(user) \/ DepreciationStep(user)
       \/ BooksStep
    /\ AsRegistered

(* Two requests of any kind for one asset, and one month's charge.         *)
MovesDesk ==
    /\ desk = "moves"
    /\ \/ \E user \in Staff : RegisterStep(user) \/ DepreciationStep(user) \/ RequestStep(user)
       \/ BooksStep
    /\ AsRegistered
    /\ asset'[x2].status = "none" /\ policy'[2].status = "none"
    /\ InUse(depreciation') <= 1 /\ \A r \in Runs : depreciation'[r].month <= 1

WorksDesk ==
    /\ desk = "works"
    /\ \E user \in Staff : RegisterStep(user) \/ RequestStep(user) \/ MaintenanceStep(user)
    /\ AsRegistered
    /\ InUse(request') <= 1 /\ InUse(cap') = 0

-----------------------------------------------------------------------------
OfficeInit ==
    /\ SchedulerInit /\ ProcureInit /\ LedgerInit /\ AssetInit
    /\ desk \in {"scheduler", "procurement", "books", "closing",
                 "charges", "moves", "works"}
OfficeNext ==
    /\ UNCHANGED desk
    /\ \/ SchedulerDesk \/ ProcurementDesk \/ BooksDesk \/ ClosingDesk
       \/ ChargesDesk \/ MovesDesk \/ WorksDesk
OfficeSpec == OfficeInit /\ [][OfficeNext]_officeVars

Symmetry == Permutations(Clerks)
=============================================================================
