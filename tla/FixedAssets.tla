----------------------------- MODULE FixedAssets -----------------------------
(* The register of installed assets and their maintenance                  *)
(* (assets-maintenance.ts) with the journals the books keep of them        *)
(* (general-ledger-store.ts).  An asset in service is capitalised from a   *)
(* supplier's bill, depreciated month by month, moved, split into          *)
(* components, revalued, serviced, and at last retired or sold.  Each of   *)
(* these is a request that a maker submits and another person decides; what *)
(* changes the books leaves a hand-off, which finance prepares from the    *)
(* evidence of that moment, posts, and may reverse.                        *)
(*                                                                         *)
(* The bills are those whose match stands and whose own journal is posted. *)
(* All assets are of one category, available after every policy's effective *)
(* date and capitalised in month 1.  Residual values, proceeds, tax,       *)
(* warranties, contracts, meters, spares and vehicles are left out, and    *)
(* who drafts and posts a journal is the subject of GeneralLedger.         *)
EXTENDS Shared, Integers, FiniteSets, FiniteSetsExt

CONSTANTS
    Assets,
    Bills, Taxable,     \* and the taxable amount of each
    Policies, Life,     \* numbered by effective date; useful lives in months
    Runs, LastMonth,
    Requests,
    Orders,             \* of maintenance work
    Places,
    Staff

ASSUME AssetAssumption ==
    /\ None \notin Staff \cup Assets
    /\ Policies \subseteq Nat /\ LastMonth \in Nat
    /\ Life \in [Policies -> Nat \ {0}]
    /\ Taxable \in [Bills -> Nat]

VARIABLES
    asset,      \* [status, version, place, maker]
    cap,        \* the capitalisation of each asset: [status, bill, amount, maker]
    policy,     \* of depreciation: [status, maker]
    depreciation,  \* runs: [status, month, charge, split, maker], with each asset's charge
    request,    \* [kind, asset, status, maker, checker, sender, version, place]
    frozen,     \* the accumulated depreciation each request was made with
    plan,       \* the day the next preventive maintenance of an asset is due
    work,       \* orders: [status, asset, due, technician, maker]
    entry       \* the journal of each capitalisation, run and request

assetVars == <<asset, cap, policy, depreciation, request, frozen, plan, work, entry>>

Months == 1 .. LastMonth
Documents == Assets \cup Runs \cup Requests

-----------------------------------------------------------------------------
(* The register.                                                           *)

CreateManagedAsset(a, place, user) ==
    /\ asset[a].status = "none"
    /\ asset' = [asset EXCEPT ![a] = [status |-> "draft", version |-> 1,
                                      place |-> place, maker |-> user]]
    /\ UNCHANGED <<cap, policy, depreciation, request, frozen, plan, work, entry>>

SubmitManagedAsset(a, user) ==
    /\ asset[a].status = "draft"
    /\ asset[a].maker = user
    /\ asset' = [asset EXCEPT ![a].status = "submitted", ![a].version = @ + 1]
    /\ UNCHANGED <<cap, policy, depreciation, request, frozen, plan, work, entry>>

DecideManagedAsset(a, decision, user) ==
    /\ asset[a].status = "submitted"
    /\ asset[a].maker # user
    /\ asset' = [asset EXCEPT ![a].status = decision, ![a].version = @ + 1]
    /\ UNCHANGED <<cap, policy, depreciation, request, frozen, plan, work, entry>>

InService(a) == asset[a].status = "in-service"
Live == {"submitted", "approved"}

-----------------------------------------------------------------------------
(* Capitalisation and depreciation.                                        *)

Claimed(b) ==
    MapThenSumSet(LAMBDA a : cap[a].amount,
                  {a \in Assets : cap[a].bill = b /\ cap[a].status \in Live})

CreateAssetCapitalization(a, b, amount, user) ==
    /\ InService(a)
    /\ cap[a].status \notin Live
    /\ amount > 0
    /\ Claimed(b) + amount <= Taxable[b]
    /\ cap' = [cap EXCEPT ![a] = [status |-> "submitted", bill |-> b,
                                  amount |-> amount, maker |-> user]]
    /\ UNCHANGED <<asset, policy, depreciation, request, frozen, plan, work, entry>>

DecideAssetCapitalization(a, decision, user) ==
    /\ cap[a].status = "submitted"
    /\ cap[a].maker # user
    /\ cap' = [cap EXCEPT ![a].status = decision]
    /\ entry' = IF decision = "approved" THEN [entry EXCEPT ![a] = "ready"] ELSE entry
    /\ UNCHANGED <<asset, policy, depreciation, request, frozen, plan, work>>

CreateAssetDepreciationPolicy(p, user) ==
    /\ policy[p].status \notin Live
    /\ policy' = [policy EXCEPT ![p] = [status |-> "submitted", maker |-> user]]
    /\ UNCHANGED <<asset, cap, depreciation, request, frozen, plan, work, entry>>

DecideAssetDepreciationPolicy(p, decision, user) ==
    /\ policy[p].status = "submitted"
    /\ policy[p].maker # user
    /\ policy' = [policy EXCEPT ![p].status = decision]
    /\ UNCHANGED <<asset, cap, depreciation, request, frozen, plan, work, entry>>

Controlling == {p \in Policies : policy[p].status = "approved" /\
                  \A other \in Policies : policy[other].status = "approved" => other <= p}

(* What is left over of an even division is charged to the first months.   *)
ScheduledDepreciation(cost, life, month) ==
    IF month > life THEN 0
    ELSE cost \div life + (IF month <= cost % life THEN 1 ELSE 0)

(* Mutant: a proposal that waits for its decision is overlooked.           *)
AlreadyApproved(a, month) ==
    \E r \in Runs : /\ depreciation[r].status = "approved"
                    /\ depreciation[r].month = month
                    /\ depreciation[r].charge[a] > 0

AlreadyProposed(a, month) ==
    \E r \in Runs : /\ depreciation[r].status \in Live
                    /\ depreciation[r].month = month
                    /\ depreciation[r].charge[a] > 0

Split(a) ==
    \E q \in Requests : /\ request[q].kind = "allocation" /\ request[q].asset = a
                        /\ request[q].status = "approved"

(* The components of a split asset keep the life of its policy.            *)
Due(a, month) ==
    IF /\ InService(a)
       /\ cap[a].status = "approved" /\ entry[a] = "posted"
       /\ Controlling # {}
       /\ ~ AlreadyProposed(a, month)
    THEN ScheduledDepreciation(cap[a].amount, Life[CHOOSE p \in Controlling : TRUE], month)
    ELSE 0

CreateAssetDepreciationRun(r, month, user) ==
    /\ depreciation[r].status = "none"
    /\ \E a \in Assets : Due(a, month) > 0
    /\ depreciation' = [depreciation EXCEPT ![r] =
         [status |-> "submitted", month |-> month, maker |-> user,
          charge |-> [a \in Assets |-> Due(a, month)],
          split |-> {a \in Assets : Due(a, month) > 0 /\ Split(a)}]]
    /\ UNCHANGED <<asset, cap, policy, request, frozen, plan, work, entry>>

DecideAssetDepreciationRun(r, decision, user) ==
    /\ depreciation[r].status = "submitted"
    /\ depreciation[r].maker # user
    /\ depreciation' = [depreciation EXCEPT ![r].status = decision]
    /\ entry' = IF decision = "approved" THEN [entry EXCEPT ![r] = "ready"] ELSE entry
    /\ UNCHANGED <<asset, cap, policy, request, frozen, plan, work>>

-----------------------------------------------------------------------------
(* The book value of an asset, which the books tell the register.          *)

Accumulated(a) ==
    MapThenSumSet(LAMBDA r : depreciation[r].charge[a],
                  {r \in Runs : entry[r] = "posted"})

BookKnown(a) ==
    cap[a].status = "approved" /\ entry[a] = "posted" /\ Accumulated(a) <= cap[a].amount

BookIsAsFrozen(q) ==
    LET a == request[q].asset IN BookKnown(a) /\ Accumulated(a) = frozen[q]

-----------------------------------------------------------------------------
(* Requests about an asset.                                                *)

Has(kind, a, statuses) ==
    \E q \in Requests :
        request[q].kind = kind /\ request[q].asset = a /\ request[q].status \in statuses

Submit(q, kind, a, place, user) ==
    /\ request[q].status = "none"
    /\ InService(a)
    /\ request' = [request EXCEPT ![q] =
         [kind |-> kind, asset |-> a, status |-> "submitted", maker |-> user,
          checker |-> None, sender |-> None, version |-> asset[a].version,
          place |-> place]]
    /\ frozen' = [frozen EXCEPT ![q] = Accumulated(a)]
    /\ UNCHANGED <<asset, cap, policy, depreciation, plan, work, entry>>

Decide(q, kind, decision, user) ==
    /\ request[q].kind = kind
    /\ request[q].status = "submitted"
    /\ request[q].maker # user
    /\ InService(request[q].asset)
    /\ request' = [request EXCEPT ![q].status = decision, ![q].checker = user]
    /\ UNCHANGED <<asset, cap, policy, depreciation, frozen, plan, work>>

SourceUnchanged(q) == asset[request[q].asset].version = request[q].version

LeavesHandoff(q, decision) ==
    entry' = IF decision = "approved" THEN [entry EXCEPT ![q] = "ready"] ELSE entry

Finish(q, kind, from, to, user) ==
    /\ request[q].kind = kind
    /\ request[q].status = from
    /\ request' = [request EXCEPT ![q].status = to,
                     ![q].sender = IF to = "dispatched" THEN user ELSE @]
    /\ UNCHANGED <<cap, policy, depreciation, frozen, plan, work, entry>>

Retire(a) == asset' = [asset EXCEPT ![a].status = "retired", ![a].version = @ + 1]

(* A retirement looks at the book again, and not at the asset's version.   *)
CreateAssetRetirement(q, a, user) ==
    /\ ~ Has("retirement", a, {"submitted", "approved", "completed"})
    /\ BookKnown(a)
    /\ Submit(q, "retirement", a, None, user)

DecideAssetRetirement(q, decision, user) ==
    /\ Decide(q, "retirement", decision, user)
    /\ decision = "approved" => BookIsAsFrozen(q)
    /\ LeavesHandoff(q, decision)

CompleteAssetRetirement(q, user) ==
    /\ Finish(q, "retirement", "approved", "completed", user)
    /\ request[q].maker # user
    /\ entry[q] = "posted"
    /\ InService(request[q].asset)
    /\ Retire(request[q].asset)

CreateAssetSaleDisposal(q, a, user) ==
    /\ ~ Has("sale", a, Live) /\ ~ Has("retirement", a, Live)
    /\ BookKnown(a)
    /\ Submit(q, "sale", a, None, user)

DecideAssetSaleDisposal(q, decision, user) ==
    /\ Decide(q, "sale", decision, user)
    /\ SourceUnchanged(q)
    /\ LeavesHandoff(q, decision)

CompleteAssetSaleDisposal(q, user) ==
    /\ Finish(q, "sale", "approved", "completed", user)
    /\ entry[q] = "posted"
    /\ Retire(request[q].asset)

(* A custody transfer moves the asset, when a third person receives it.    *)
Open(o) == work[o].status \notin {"none", "verified"}
OpenWork(a) == \E o \in Orders : work[o].asset = a /\ Open(o)

CreateAssetCustodyTransfer(q, a, place, user) ==
    /\ ~ Has("custody", a, Live) /\ ~ Has("retirement", a, Live)
    /\ ~ OpenWork(a)
    /\ place # asset[a].place
    /\ Submit(q, "custody", a, place, user)

DecideAssetCustodyTransfer(q, decision, user) ==
    /\ Decide(q, "custody", decision, user)
    /\ SourceUnchanged(q)
    /\ UNCHANGED entry

(* Mutant: what was true at the approval is not looked at again.           *)
ReceiveUnchecked(q, user) ==
    /\ Finish(q, "custody", "approved", "received", user)
    /\ user \notin {request[q].maker, request[q].checker}
    /\ asset' = [asset EXCEPT ![request[q].asset].place = request[q].place,
                              ![request[q].asset].version = @ + 1]

ReceiveAssetCustodyTransfer(q, user) ==
    /\ Finish(q, "custody", "approved", "received", user)
    /\ user \notin {request[q].maker, request[q].checker}
    /\ InService(request[q].asset) /\ SourceUnchanged(q)
    /\ asset' = [asset EXCEPT ![request[q].asset].place = request[q].place,
                              ![request[q].asset].version = @ + 1]

(* A transfer to another branch takes the book value out of this one's.    *)
CreateAssetTransferAccounting(q, a, user) ==
    /\ ~ Has("branch", a, {"submitted", "approved", "dispatched"})
    /\ BookKnown(a)
    /\ Submit(q, "branch", a, None, user)

DecideAssetTransferAccounting(q, decision, user) ==
    /\ Decide(q, "branch", decision, user)
    /\ SourceUnchanged(q)
    /\ LeavesHandoff(q, decision)

DispatchAssetTransferAccounting(q, user) ==
    /\ Finish(q, "branch", "approved", "dispatched", user)
    /\ request[q].checker # user
    /\ UNCHANGED asset

ReceiveAssetTransferAccounting(q, user) ==
    /\ Finish(q, "branch", "dispatched", "received", user)
    /\ user \notin {request[q].maker, request[q].checker, request[q].sender}
    /\ UNCHANGED asset

(* An impairment or a revaluation, of an amount that can be measured.      *)
CreateAssetImpairmentReview(q, a, user) ==
    /\ ~ Has("impairment", a, {"submitted"})
    /\ BookKnown(a)
    /\ Submit(q, "impairment", a, None, user)

DecideAssetImpairmentReview(q, decision, user) ==
    /\ Decide(q, "impairment", decision, user)
    /\ SourceUnchanged(q)
    /\ LeavesHandoff(q, decision)

CompleteAssetImpairmentReview(q, user) ==
    /\ Finish(q, "impairment", "approved", "completed", user)
    /\ entry[q] = "posted"
    /\ UNCHANGED asset

CreateAssetRevaluation(q, a, user) ==
    BookKnown(a) /\ Submit(q, "revaluation", a, None, user)

DecideAssetRevaluation(q, decision, user) ==
    /\ Decide(q, "revaluation", decision, user)
    /\ SourceUnchanged(q)
    /\ LeavesHandoff(q, decision)

CompleteAssetRevaluation(q, user) ==
    /\ Finish(q, "revaluation", "approved", "completed", user)
    /\ entry[q] = "posted"
    /\ UNCHANGED asset

(* The passport of an asset's components, and its cost split over them.    *)
CreateAssetComponentization(q, a, user) ==
    /\ ~ Has("passport", a, Live) /\ ~ Has("retirement", a, Live)
    /\ ~ OpenWork(a)
    /\ Submit(q, "passport", a, None, user)

DecideAssetComponentization(q, decision, user) ==
    /\ Decide(q, "passport", decision, user)
    /\ SourceUnchanged(q)
    /\ UNCHANGED entry

CreateAssetComponentAllocation(q, a, user) ==
    /\ \E p \in Requests :
         /\ request[p].kind = "passport" /\ request[p].asset = a
         /\ request[p].status = "approved" /\ SourceUnchanged(p)
    /\ cap[a].status = "approved"
    /\ ~ Has("allocation", a, Live)
    /\ Submit(q, "allocation", a, None, user)

DecideAssetComponentAllocation(q, decision, user) ==
    /\ Decide(q, "allocation", decision, user)
    /\ SourceUnchanged(q)
    /\ UNCHANGED entry

-----------------------------------------------------------------------------
(* Preventive maintenance: the next date is set when the work of the last  *)
(* is verified.                                                            *)

CreatePreventiveMaintenancePlan(a, due) ==
    /\ InService(a)
    /\ plan[a] = 0
    /\ plan' = [plan EXCEPT ![a] = due]
    /\ UNCHANGED <<asset, cap, policy, depreciation, request, frozen, work, entry>>

GenerateDueMaintenanceWorkOrder(o, a, technician, user) ==
    /\ work[o].status = "none"
    /\ InService(a)
    /\ plan[a] > 0
    /\ \A other \in Orders : ~ (work[other].asset = a /\ work[other].due = plan[a])
    /\ work' = [work EXCEPT ![o] = [status |-> "scheduled", asset |-> a, due |-> plan[a],
                                      technician |-> technician, maker |-> user]]
    /\ UNCHANGED <<asset, cap, policy, depreciation, request, frozen, plan, entry>>

StartMaintenanceWorkOrder(o, user) ==
    /\ work[o].status = "scheduled"
    /\ work[o].technician = user
    /\ work' = [work EXCEPT ![o].status = "in-progress"]
    /\ UNCHANGED <<asset, cap, policy, depreciation, request, frozen, plan, entry>>

CompleteMaintenanceWorkOrder(o, user) ==
    /\ work[o].status = "in-progress"
    /\ work[o].technician = user
    /\ work' = [work EXCEPT ![o].status = "completed"]
    /\ UNCHANGED <<asset, cap, policy, depreciation, request, frozen, plan, entry>>

VerifyMaintenanceWorkOrder(o, decision, user) ==
    /\ work[o].status = "completed"
    /\ user \notin {work[o].maker, work[o].technician}
    /\ work' = [work EXCEPT ![o].status =
                   IF decision = "reopened" THEN "in-progress" ELSE "verified"]
    /\ plan' = IF decision = "reopened" THEN plan
               ELSE [plan EXCEPT ![work[o].asset] = work[o].due + 1]
    /\ UNCHANGED <<asset, cap, policy, depreciation, request, frozen, entry>>

-----------------------------------------------------------------------------
(* The books.                                                              *)

EntryStep(d, from, to) ==
    /\ entry[d] = from
    /\ entry' = [entry EXCEPT ![d] = to]
    /\ UNCHANGED <<asset, cap, policy, depreciation, request, frozen, plan, work>>

PrepareAssetCapitalizationPosting(a) ==
    InService(a) /\ EntryStep(a, "ready", "drafted")

(* A reversed capitalisation is still a posted one here, and a run with a  *)
(* line per component charges a capitalisation twice.                      *)
PrepareAssetDepreciationPosting(r) ==
    /\ depreciation[r].split = {}
    /\ \A a \in Assets : depreciation[r].charge[a] > 0 =>
         /\ entry[a] \in {"posted", "reversed"}
         /\ \A other \in Runs \ {r} :
              \/ depreciation[other].status \notin Live
              \/ depreciation[other].month # depreciation[r].month
              \/ depreciation[other].charge[a] = 0
    /\ EntryStep(r, "ready", "drafted")

PrepareAssetRetirementPosting(q) ==
    /\ request[q].kind = "retirement"
    /\ InService(request[q].asset)
    /\ BookIsAsFrozen(q)
    /\ EntryStep(q, "ready", "drafted")

(* A line for the accumulated depreciation is demanded even if there is    *)
(* none to release.                                                        *)
PrepareAssetSaleDisposalPosting(q) ==
    /\ request[q].kind = "sale"
    /\ InService(request[q].asset)
    /\ BookIsAsFrozen(q)
    /\ frozen[q] > 0
    /\ EntryStep(q, "ready", "drafted")

PrepareAssetLifecyclePosting(q) ==
    /\ request[q].kind \in {"impairment", "revaluation"}
    /\ InService(request[q].asset)
    /\ EntryStep(q, "ready", "drafted")

PostAssetJournal(d) == EntryStep(d, "drafted", "posted")
ReverseAssetJournal(d) == EntryStep(d, "posted", "reversed")

-----------------------------------------------------------------------------
AssetInit ==
    /\ asset = [a \in Assets |->
         [status |-> "none", version |-> 0, place |-> None, maker |-> None]]
    /\ cap = [a \in Assets |->
         [status |-> "none", bill |-> None, amount |-> 0, maker |-> None]]
    /\ policy = [p \in Policies |-> [status |-> "none", maker |-> None]]
    /\ depreciation = [r \in Runs |->
         [status |-> "none", month |-> 0, maker |-> None,
          charge |-> [a \in Assets |-> 0], split |-> {}]]
    /\ request = [q \in Requests |->
         [kind |-> None, asset |-> None, status |-> "none", maker |-> None, checker |-> None,
          sender |-> None, version |-> 0, place |-> None]]
    /\ frozen = [q \in Requests |-> 0]
    /\ plan = [a \in Assets |-> 0]
    /\ work = [o \in Orders |-> [status |-> "none", asset |-> None, due |-> 0,
                                  technician |-> None, maker |-> None]]
    /\ entry = [d \in Documents |-> "none"]

Verdicts == {"approved", "rejected"}

RegisterStep(user) ==
    \E a \in Assets :
        \/ \E place \in Places : CreateManagedAsset(a, place, user)
        \/ SubmitManagedAsset(a, user)
        \/ \E decision \in {"in-service", "rejected"} : DecideManagedAsset(a, decision, user)
        \/ \E b \in Bills : \E amount \in 1 .. Taxable[b] :
             CreateAssetCapitalization(a, b, amount, user)
        \/ \E decision \in Verdicts : DecideAssetCapitalization(a, decision, user)

DepreciationStep(user) ==
    \/ \E p \in Policies :
         \/ CreateAssetDepreciationPolicy(p, user)
         \/ \E decision \in Verdicts : DecideAssetDepreciationPolicy(p, decision, user)
    \/ \E r \in Runs :
         \/ \E month \in Months : CreateAssetDepreciationRun(r, month, user)
         \/ \E decision \in Verdicts : DecideAssetDepreciationRun(r, decision, user)

NewRequest(q, a, user) ==
    \/ CreateAssetRetirement(q, a, user)
    \/ CreateAssetSaleDisposal(q, a, user)
    \/ \E place \in Places : CreateAssetCustodyTransfer(q, a, place, user)
    \/ CreateAssetTransferAccounting(q, a, user)
    \/ CreateAssetImpairmentReview(q, a, user)
    \/ CreateAssetRevaluation(q, a, user)
    \/ CreateAssetComponentization(q, a, user)
    \/ CreateAssetComponentAllocation(q, a, user)

DecideRequest(q, decision, user) ==
    \/ DecideAssetRetirement(q, decision, user)
    \/ DecideAssetSaleDisposal(q, decision, user)
    \/ DecideAssetCustodyTransfer(q, decision, user)
    \/ DecideAssetTransferAccounting(q, decision, user)
    \/ DecideAssetImpairmentReview(q, decision, user)
    \/ DecideAssetRevaluation(q, decision, user)
    \/ DecideAssetComponentization(q, decision, user)
    \/ DecideAssetComponentAllocation(q, decision, user)

FinishRequest(q, user) ==
    \/ CompleteAssetRetirement(q, user)
    \/ CompleteAssetSaleDisposal(q, user)
    \/ ReceiveAssetCustodyTransfer(q, user)
    \/ DispatchAssetTransferAccounting(q, user)
    \/ ReceiveAssetTransferAccounting(q, user)
    \/ CompleteAssetImpairmentReview(q, user)
    \/ CompleteAssetRevaluation(q, user)

MaintenanceStep(user) ==
    \/ \E a \in Assets : CreatePreventiveMaintenancePlan(a, 1)
    \/ \E o \in Orders :
         \/ \E a \in Assets, technician \in Staff :
              GenerateDueMaintenanceWorkOrder(o, a, technician, user)
         \/ StartMaintenanceWorkOrder(o, user)
         \/ CompleteMaintenanceWorkOrder(o, user)
         \/ \E decision \in {"reopened", "verified"} :
              VerifyMaintenanceWorkOrder(o, decision, user)

BooksStep ==
    \/ \E a \in Assets : PrepareAssetCapitalizationPosting(a)
    \/ \E r \in Runs : PrepareAssetDepreciationPosting(r)
    \/ \E q \in Requests :
         \/ PrepareAssetRetirementPosting(q)
         \/ PrepareAssetSaleDisposalPosting(q)
         \/ PrepareAssetLifecyclePosting(q)
    \/ \E d \in Documents : PostAssetJournal(d) \/ ReverseAssetJournal(d)

RequestStep(user) ==
    \E q \in Requests :
        \/ \E a \in Assets : NewRequest(q, a, user)
        \/ \E decision \in Verdicts : DecideRequest(q, decision, user)
        \/ FinishRequest(q, user)

AssetNext ==
    \/ \E user \in Staff :
         \/ RegisterStep(user) \/ DepreciationStep(user)
         \/ RequestStep(user) \/ MaintenanceStep(user)
    \/ BooksStep

AssetSpec == AssetInit /\ [][AssetNext]_assetVars

-----------------------------------------------------------------------------
Kinds == {"retirement", "sale", "custody", "branch", "impairment", "revaluation",
          "passport", "allocation"}
RequestStatuses == Live \cup {"none", "rejected", "completed", "dispatched", "received"}

(* What the register, the books of it and the work orders may hold.        *)
AssetTypeOK ==
    /\ asset \in [Assets -> [status : {"none", "draft", "submitted", "in-service",
                                       "rejected", "retired"},
                             version : Nat, place : Places \cup {None},
                             maker : Staff \cup {None}]]
    /\ cap \in [Assets -> [status : Live \cup {"none", "rejected"}, bill : Bills \cup {None},
                           amount : Nat, maker : Staff \cup {None}]]
    /\ depreciation \in [Runs ->
         [status : Live \cup {"none", "rejected"}, month : Nat, maker : Staff \cup {None},
          charge : [Assets -> Nat], split : SUBSET Assets]]
    /\ request \in [Requests ->
         [kind : Kinds \cup {None}, asset : Assets \cup {None}, status : RequestStatuses,
          maker : Staff \cup {None}, checker : Staff \cup {None}, sender : Staff \cup {None},
          version : Nat, place : Places \cup {None}]]
    /\ plan \in [Assets -> Nat]
    /\ work \in [Orders ->
         [status : {"none", "scheduled", "in-progress", "completed", "verified"},
          asset : Assets \cup {None}, due : Nat,
          technician : Staff \cup {None}, maker : Staff \cup {None}]]

(* Whatever runs are proposed, rejected and proposed again while others    *)
(* wait for their decision or their posting, no asset is charged twice for *)
(* one month (assets-maintenance.ts:694).                                  *)
MonthChargedOnce ==
    \A r, s \in Runs, a \in Assets :
        /\ r # s
        /\ depreciation[r].status \in Live /\ depreciation[s].status \in Live
        /\ depreciation[r].month = depreciation[s].month
        => depreciation[r].charge[a] = 0 \/ depreciation[s].charge[a] = 0

(* An asset that was sold or retired stays where it was: a custody         *)
(* transfer approved before it left is not received any more, although     *)
(* neither disposal looks at open transfers.                               *)
RetiredAssetStaysPut ==
    [][\A a \in Assets : asset[a].status = "retired" =>
         asset'[a].status = "retired" /\ asset'[a].place = asset[a].place]_assetVars

(* Maintenance of a plan is generated again only when its last work was    *)
(* verified by somebody else; work sent back is the only work there is.    *)
OneOpenOrderPerPlan ==
    \A o, p \in Orders :
        Open(o) /\ Open(p) /\ work[o].asset = work[p].asset => o = p
=============================================================================
