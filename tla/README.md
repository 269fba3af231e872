# Epic BOS: formal model

This directory is a verification development of Epic BOS, the Electron and TypeScript ERP of this
repository. It holds TLA+ modules that model the parts of the program where the order of events decides
whether money, stock and evidence stay right, TLC configurations that check them on small instances, and
proofs checked by TLAPS. `PROJECT.json` lists, for every definition, the source lines it stands for.

Contents: 1 the system and its inventory; 2 the modules; 3 the runs; 4 fairness; 5 the proofs; 6 where the
code and its documents disagree; 7 what is not modelled; 8 the plan.

## 1. The system

```text
renderer windows ──typed bridge──> preload ──IPC──> main process (ipc.ts: schema, session, permission)
                                                        │ await store.command(...)
                             stores (main/*-store.ts): one promise chain each
                                                        │ pure rule: state -> state, or throw
                             domain rules (domain/*.ts)
                                                        │ whole document + audit entries
                             SQLite (main/database.ts), one document row per store
```

A window sends a command with the version of the record it was composed on. An IPC handler
(`src/main/ipc.ts`) validates the payload, checks the session's permission and calls a *store*. A store keeps
one state document in memory and chains commands on one promise, so that a command runs alone; the command
applies a pure domain function `state -> state`, which throws to refuse, and the result is written as one row
in one SQLite transaction. Nearly all business rules are therefore sequential code over one document, and what is
hard is not a data race: it is the *interleaving of workflows*. Desks, counters and reviewers act in any order
on records that other workflows read; a command rests on evidence that was valid when it was composed; the
same money, goods or reference is claimed along two paths; and a write fails, or the process dies, between two
steps.

### 1.1 Inventory

The parts of the system, with the state each keeps, its operations, how it interacts and what is hard in it.
The last column says what makes it correct; names in `code` are properties that a run checks. The modelled
parts come first.

| component (source) | state and operations | interactions; what is hard | correct when |
| --- | --- | --- | --- |
| COD custody (`domain/cod-custody.ts`) | custody cases; create, handover, collection, remittance, bank match, shortfall closure, exception | reads the package, its promise, the receivable, receipts and bank lines, which four other workflows move on in between | `CustodyFollowsPackage`, `CashIsDischarged`, `BankEvidenceIsExclusive`; one live case for a parcel (proved) |
| Retail till (`domain/retail-pos.ts`) | shifts, sales, receipts, store credits, variance journals; open, checkout, request close, resolve variance, approve or reject close | sales, refunds and the finance desk go on while a close is reviewed; a rejected close reopens the drawer; clients retry checkouts | `DrawerMatchesExpectation`, `ClosedTillIsSettled`, `VarianceIsIndependentlyResolved`, `CloseIsFinal`, `OneSalePerKey`, `EvidenceUsedOnce`; one shift at a counter (proved) |
| Returns and refund settlements (`domain/retail-returns.ts`) | return cases, their credits, settlements; request, inspect, decide, request settlement, decide settlement, confirm provider refund | several returns of a sale compete for its rails; the drawer of a refund may be closing; provider answers come late or twice | `RefundsStayWithinTender`, `SettledIsFinal`; `ReturnValueGivenOnce` does not hold (section 6) |
| Exchanges (`domain/retail-exchange.ts`) | exchange requests; create, reject, approve | approval is a checkout, a settlement and one or two new store credits at once, priced at the request | `ExchangesStayWithinCredit`, `StoreCreditIsConserved` |
| Offline sale queue (`domain/retail-offline-sync.ts`) | queued sales and sync receipts; enqueue, synchronise, resolve | the same sale may also be made online, be synchronised by two people or fail half way | `SyncedMeansSold`; `ConflictIsNotASale` does not hold (section 6) |
| State stores (`main/*-store.ts`, `main/database.ts`) | document in memory and on disk, write queue, audit ledger; enqueue, run, answer, restart | memory is replaced before the write; failures, crashes, stale versions in the queue | `NoLostUpdate`, `KeepsPromise`, `LedgerMatchesDocument`, `QueueMovesOn`; `FailureLeavesNothing` does not hold (section 6) |
| Party master (`domain/party.ts`, `main/party-store.ts`) | accounts, contacts, holdings, relationships, consents, duplicates, merges | a merge deactivates records that others point at, and merges follow each other | `NothingIsLeftBehind` |
| Lead conversion and lead imports (`main/ipc.ts`, `domain/crm.ts`, `crm-depth.ts`) | leads, conversions, import jobs in three documents | two writes without a transaction; a failing write, a stop of the process, a second window or a merge comes between | `ConvertedLeadHasParty`, `ConversionsResolve`, `CommittedImportIsStored` |
| Automation (`main/automation-*.ts`, `domain/workflow-execution.ts`) | schedule slots, runs, failures, escalations; tick, retry, approve, start, complete | up to four statements without a transaction; a run fails, is retried and approved again | `NoSlotIsLost`, `EveryAttemptIsApproved` |
| Order to cash and collections (`domain/order-to-cash.ts`, `collections-finance.ts`) | invoices, receivables, receipts, journals, notes, withholding; bank lines, disputes, dunning, write-offs | three copies of every allocation; dunning recomputes a status that disputes set; bank match, reconciliation desk and later application reach one receipt | `BalancesAgree`, `DisputedMeansInDispute`, `ReconciledCashIsSettled`; `OnlyUndisputedCash` does not hold (section 6) |
| Procurement and supplier payments (`domain/procurement.ts`, `treasury.ts`) | requisition, quotations, order, receipts, landed costs, invoices, matches, payments | partial receipts and several invoices; payments that are rejected, fail and are proposed again | `PaymentsAreBacked` |
| General ledger and period close (`main/general-ledger-store.ts`, `domain/financial-close.ts`) | hand-offs, journals, reversals, periods | preparing, posting, reversing and cancelling by several people; an export is claimed before it is queued; periods close over drafts | `EventBookedOnce`, `ClosedBooksHoldRevenue` |
| Fixed assets and maintenance (`domain/assets-maintenance.ts`) | assets, capitalisations, policies, depreciation runs, requests about an asset, plans and work orders | a request rests on what the asset and the books were when it was made; disposals, transfers and charges overtake each other | `MonthChargedOnce`, `RetiredAssetStaysPut`; one open order of a plan (proved) |
| Inventory ledger (`domain/inventory-warehouse.ts`) | bins, cost layers, positions; receipts, putaway, issues, transfers, counts, dispositions | bins, layers and positions are changed by separate calls; counts and losses are measured on one day and posted on another | `StockIsCosted`, `BinHoldsAreOwned` |
| Fulfilment (`domain/fulfilment-control.ts`, `commercial.ts`) | reservations, picks, packages, return authorisations | a package leaves or a reservation lapses while a pick is open; requests for one package wait side by side | `PromisesAreBacked`, `ReturnsWithinDelivery` |
| Unified order ingestion (`domain/retail-unified-order-ingestion.ts`) | the external order, its evidence by digest, mappings, intents, executions | the channel says something new while the last thing it said is approved, mapped and executed | `ReservedAsApproved`; `RtoIsReconciled` does not hold (section 6) |
| Payroll (`domain/payroll.ts`, `workforce-ledger.ts`, `financial-close.ts`) | policies, registrations and compensations; adjustments; runs; obligations; the close that waits for them | a run takes its adjustments when it is submitted and is decided and finalised later; runs overlap; a period closes over runs that are not final yet | `WagesPaidOnce`, `ClosedMonthIsSettled` |
| Provider hand-offs (`domain/provider-control.ts`, `main/revenue-ops-store.ts`) | a connector's secret, its conformance cases and approval; submissions | a secret is changed between an approval, a packet and its hand-off; the vault is written before the document | `HandoffIsCertified` |
| Delivery operations (`domain/retail-delivery-operations.ts`, `delivery.ts`) | riders, assignments, attempts, proofs | attempts and hand-backs race | one rider holds a parcel |
| Treasury, payouts (`domain/treasury.ts`, `payout-workflows.ts`, `retail-settlement-allocation.ts`) | positions, forecasts, sweeps, settlements | three keys, provider outcomes late | two sweeps stay within one balance (payments: `ProcureToPay`) |
| Manufacturing, projects (`domain/manufacturing.ts`, `project-commercial.ts`) | status machines | one command at a time | transitions of the tables |
| Campaigns and communications (`domain/crm-depth.ts`) | campaigns, timeline | consent is read before the command is queued | nothing recorded after a withdrawal |
| Pipeline and activities (`domain/crm.ts`) | opportunities, activities | one table lookup per transition | stage graph respected |
| Loyalty, vouchers, promotions (`domain/retail-loyalty-promotions.ts`, ...) | points, vouchers, uses | use limits at the till | a voucher within its limit |
| Kernel (`domain/kernel.ts`, `main/kernel-store.ts`) | roles, approvals, numbering, audit | approvers are independent; the actor is activated before the rule may throw | an approval never by its maker |
| Authentication (`main/auth-service.ts`) | users, sessions, failure counts | attempts overlap while a password is derived | every failure counts |
| Devices (`domain/retail-device-*.ts`, `main/retail-device-preflight.ts`) | profiles, jobs, receipts | a device's answer is awaited inside the queue | a job prints once |
| Statutory gateways, other connectors | credentials, calls | answers from outside enter as commands | external |
| Workspace mode, cutover, reset (`domain/retail-workspace-mode.ts`, ...) | mode, five documents replaced at once | commands queued meanwhile write the old state (`main/ipc.ts:2123`) | no document of the old workspace survives |
| Database, backup, attachments | files and rows | I/O | transactional (the documents: `StateStore`) |
| Release control | evidence about builds | none | outside of the business |
| Retail hub (`retail-hub/`) | shadow imports in PostgreSQL | a separate service; pages pulled twice | each record once |
| Read projections, reports | none | pure functions of a snapshot | none to check by states |
| Renderer, preload, IPC schemas | screens | refuse malformed payloads | a refused payload changes nothing |

`PROJECT.json` gives each its status (`modelled`, `partly`, `not_modelled`) and the reason, and lists the
hazards of the code line by line with the property that covers each, or why none does yet.

## 2. Modules

Every module's state is the state of the code reduced to what the rules compare. One action is one command
handler with everything it changes; its guard is the conjunction of the handler's refusals.

Conventions common to all:

* **Versions.** A handler refuses a command that names an old version of its record. In the business modules
  a command is therefore always composed on the present record: one that is not changes nothing. What that check
  itself is worth is the subject of `StateStore`. Where one record remembers the version of *another*
  (an exchange its credit's, a request its asset's), that number is state.
* **Replays** return the state unchanged and do not appear as steps of their own, except in
  `RetailOfflineQueue`, where the item changes although the till does not.
* **People.** A rule that demands another person compares two members of a set; where a module's header says so,
  the second person is simply there. Permissions a session must have are sets of people where a rule's meaning
  depends on them (`FinanceDesk`).
* **Money** is in the smallest unit, an item has one price, and tax splits, discounts and wording are left
  out. Dates are compared, never computed with.
* **Unset fields** are `None`, declared once in `Shared`, or a record of their own (`NoShift`).
* **`as` operators** with the comment "Mutant:" are not part of any specification. Each is a plausible bug of
  the definition after it, and shows that the property named in `PROJECT.json` would catch it.

| module | models | built on |
| --- | --- | --- |
| `CodCustody` | COD custody, with the steps that move packages, receivables, receipts and bank lines | |
| `RetailPos` | the till: shifts, checkout, close, variance resolution, reconciliation | |
| `RetailReturns` | returns and settlements beside the till | EXTENDS `RetailPos` |
| `RetailExchange` | exchanges beside returns and till | EXTENDS `RetailReturns` |
| `RetailOfflineQueue` | the offline queue in front of the till | EXTENDS `RetailPos` |
| `DurableLog` | what a store promises its windows (abstract) | |
| `StateStore` | what a store does: queue, memory, document, ledger, crash | INSTANCE `DurableLog` |
| `PartyMaster` | the party document and its store | EXTENDS `Shared` |
| `LeadConversion` | conversions and imports over the CRM, party and import documents | EXTENDS `PartyMaster` |
| `AutomationScheduler` | tick, retry and the life of an automation run, statement by statement | EXTENDS `Shared` |
| `Receivables` | invoices, receipts, notes, bank matches, disputes, dunning, write-offs | EXTENDS `Shared` |
| `ProcureToPay` | from a requisition to the payment of the supplier | EXTENDS `Shared` |
| `GeneralLedger` | hand-offs, canonical journals, reversals, exports, period close | EXTENDS `Shared` |
| `FixedAssets` | the asset register, depreciation, requests, maintenance and their journals | EXTENDS `Shared` |
| `WarehouseStock` | bins, cost layers and positions of the warehouses | EXTENDS `Shared` |
| `OrderFulfilment` | one order's reservations, picks, packages and returns over that stock | EXTENDS `WarehouseStock` |
| `UnifiedOrder` | an order of an outside channel from its first event to its return | EXTENDS `Shared` |
| `Payroll` | papers, adjustments, runs, obligations and the close over them | EXTENDS `Shared` |
| `ProviderHandoffs` | one provider's secret, conformance, approval and packets of payroll runs | EXTENDS `Payroll` |
| `MC...` | finite instances for TLC | the modules named in its header |
| `TotalsProofs` | lemmas on sums over finite sets | |
| `CustodyAndWagesProofs` | theorems on `CodCustody`, `Payroll`, `ProviderHandoffs` | EXTENDS these |
| `FrontOfficeProofs` | theorems on `PartyMaster`, `LeadConversion`, `Receivables` | EXTENDS these, `TotalsProofs` |
| `BackOfficeProofs` | theorems on `GeneralLedger`, `FixedAssets`, `ProcureToPay` | EXTENDS these, `TotalsProofs` |
| `RetailProofs` | theorems on `RetailPos` ... `RetailOfflineQueue` | EXTENDS these, `TotalsProofs` |
| `OrderProofs` | theorems on `UnifiedOrder`, `WarehouseStock`, `OrderFulfilment` | EXTENDS these, `TotalsProofs` |
| `AutomationSchedulerProofs`, `StateStoreProofs` | theorems | the module of that name |

**Desks and stories.** Several small instances share a run. Such an MC module has one variable more (`desk`,
`story`) that Init chooses and nothing changes, and a next-state relation with one disjunct per desk, which
takes the steps of one component (or of one part of it) and leaves the rest as it was at the start. The
state spaces then add up instead of multiplying, and every property is checked at every desk. A desk may also narrow the
instance: how many documents a behaviour holds together (`InUse`), or that they are made in the order of
their numbers (`Numbered`), which only removes states that are the same up to renaming.

### 2.1 `CodCustody`

`cod[c]` is a `CodCollectionCase`; `package`, `promise`, `receivable`, `receipt` and `bankLine` are the
records it reads, each with the handlers that move what is kept of it: `TransitionShipment`
(fulfilment-control.ts); `CreateCreditDebitNote`, `RecordPayment`, `ApplyUnappliedReceipt`, `ReconcilePayment`
(order-to-cash.ts); `RecordWithholdingEntry`, `ApproveWriteOff`, `PreviewBankStatement`, `CommitBankStatement`,
`ConfirmBankMatch`, `ExcludeBankLine` (collections-finance.ts). `now` is the host clock; instants reported by
people range over the same set, because the code compares them with each other and not only with the clock.

Of a receivable its balance is kept: `charged` is the original amount with its adjustments, `outstanding` what
the code calls so. Debit notes and collected tax raise both, credit notes lower both (`Charge`); receipts,
deducted tax and write-offs lower what is outstanding (`Settle`). Once an invoice is issued, the code nowhere else
assigns `outstandingAmount`, and none of these places looks at the custody case. So a bank-matched case may have
something outstanding again; that the remitted cash stays settled, whatever is charged on top, is what
`CashIsDischarged` says. Left out are a receivable's status (disputes, dunning and write-off requests, which are
in `Receivables`: a command that also wants it open is refused less often here) and receipts split over several
receivables, which are evidence for no case.
All parcels belong to one order and customer: that is where evidence is easiest to confuse, since the scope
equalities the handlers check all hold.

### 2.2 `RetailPos`, `RetailReturns`, `RetailExchange`, `RetailOfflineQueue`

`shift` is a `RetailCashierShift` with the variance resolution inside it; `receipts` are the payment receipts
of counter sales with the status of their journal; `sales` is a sequence. `short` and `rails` are the two
verdicts of a close (declared cash against expected cash, and tender by tender). `drawer` is not in the code:
it is the cash physically there, moved by every step that moves cash, and is what the computed expectation
must agree with. A client's request is a member of `Requests`; a key is typed in one of `RawKeys` and stored
as `CleanKey` of it, which is what `clean()` does to blanks.

A return carries its `RetailReturnCredit`: `Available` is `creditWithBalances`, computed from settlements as the
code does. `creditVersion` is kept because an exchange remembers the one it was priced on. `settlement` is
declared in `RetailPos`, whose close subtracts cash refunds; `RetailReturns` gives it its actions. An approved
exchange is one step, because the code works on one draft state: bridge credit, checkout in the cashier's
name, settlement, remainder credit.

An item of the offline queue has the `status`, `attempts` and sync receipts (`trail`) of the code.
`SyncSells`, `SyncReplays` and `SyncRefused` are the three ways the inner checkout ends; whether an item
becomes `synced` then depends on finding a sale under the key *as typed*. `completed` is a history variable:
the sales that an item's synchronisations stored, whatever the item says.

### 2.3 `StateStore` and `DurableLog`

A document is the sequence of commands whose effects it holds. `memory` is `this.state`, `disk` the stored
row, `queue` the promise chain, `seen[c]` what the sender's window had seen of the record, `outcome` how the
promise settled, `told` what reached the window. A task is one step, because its body does not await. It is
refused, stored, or fails to be stored with memory changed all the same. `Crash` takes everything but the
disk. `DurableLog` has two variables and two actions: the log grows (`Take`), a window is told (`Tell`).
`StateStore` implements it with `log <- disk`.

### 2.4 `PartyMaster` and `LeadConversion`

`party` is the document in memory and `partyDisk` the stored one: a mutation changes both (`PartyStored`) or,
when the write fails, memory alone (`PartyWriteLost`), exactly as in `StateStore`. A merge moves what is
attached to the source (`MovedHoldings`), deactivates it and remembers where it went. `LeadConversion` adds the
leads, the import job and a `call` per window: partyConvertLead reads the lead, queues the party's part, and
when that is answered the CRM's part; crmDepthCommitImport does the same over CRM and import job. Between any
two steps another window may do anything, a write may fail, or the process may stop and lose all memory and every call.

### 2.5 `AutomationScheduler`

The handlers are synchronous, so no other runs between their statements, but each statement is its own
transaction. `todo` holds the statements that the running handler has yet to make: `WriteNext` makes one,
`WriteThrows` ends the handler in its error path, `Stop` ends the process. `approvals[k]` counts the
approvals of a run by somebody else than its requester and is compared with `attempt`.

### 2.6 `Receivables`

One customer's invoices; an invoice, its receivable and its dunning case share an identity. `receipt` holds the
allocation of each receipt, `cashJournal` what its journal posts to accounts-receivable: the copies whose
agreement is `BalancesAgree`. A receivable says that it is disputed and a dispute says that it is open: the
two are kept by different handlers, which is what `DisputedMeansInDispute` is about; `Lifted` says what takes
the mark away.
Not in the module: credit limits, the life of a withholding certificate, zero-rated evidence, bank accounts.

### 2.7 `ProcureToPay`

One requisition and the order that comes of it. `match` is the verdict on an invoice against what was received
and not yet invoiced, `payment` a proposal with its two decisions and its outcome. Goods lie at the dock or
on the shelf, so that a landed cost approved after a putaway can be seen to land on an empty bin
(`procurement.ts:314`, EXECUTION_STATUS.md:408 says it must come before): it happens in the model, and no run
states it. Not in the module: reorder orders, retail prices, the supplier portal.

### 2.8 `GeneralLedger`

`handoff` is the draft an operational document leaves for the books, `journal` a canonical journal (with its
source, what it undoes, what it reverses, maker, poster and date), `close` a period. Preparing, posting, cancelling and reversing are
by different people. An export is two steps, because its claim is looked up before the command is queued;
`exporting` holds those in between. The export asks whether a source is claimed for some types only
(`AskedOnExport`; `main/ipc.ts:3055`). `Guarded` hand-offs are those the close asks for.

### 2.9 `FixedAssets`

`request` holds the eight kinds of request about an asset (retirement, sale, custody transfer, branch
transfer, impairment, revaluation, component passport, cost allocation) under one shape: `Submit`, `Decide`
and `Finish` are what their handlers share, and each handler is an action of its own with its own guards. A
request remembers the asset's version and the accumulated depreciation (`frozen`) it was made with; which of the two
is looked at again, and when, differs by kind. `entry` is the journal of a document, prepared from the
evidence of that moment. An asset has one maintenance plan, whose next date moves on when its work is verified.
Equality of versions stands for the comparison of locations that a custody transfer also makes, since every
move changes the version.

### 2.10 `WarehouseStock` and `OrderFulfilment`

`bin` holds quantity, reserved and picked stock, `layers` the cost layers of a warehouse, `position` its
stock position (on hand, reserved): the code changes them by separate calls, and each action makes all the calls
of its handler. `OrderFulfilment` adds one order with its reservations, picks, packages and return
authorisations, and RevenueOpsStore.moveShipment, which issues what was picked when a package leaves. Not in
the modules: units of measure, batches and serials, reorder rules, valuation reviews.

### 2.11 `UnifiedOrder`

An event of the channel stands for the digest of its content. Approvals, mappings, reservations, packages and
executions are filed under the digest of the moment (`intent`, `hub`, `mapping`, `stage`, `parcel`, `closed`),
and `external` knows the latest only; `approvals` is a history of what was approved. That a handler looks at the last approval, whatever digest it was for, is in
the guards as it is in the code; the `intent` superseded by a later event is what makes it harmless.

### 2.12 `Payroll` and `ProviderHandoffs`

`paper` holds what a run rests on, under one shape: a policy, an employer's registration with an authority, an
employee's compensation, each submitted by one officer and decided by another. A run takes in the adjustments
of its last day when it is *submitted* and marks them applied; `CurrentRuns` are those a new one must not overlap.
`obligation[r][p]` is what a finalised run owes under a policy and how far it was reported and paid. `period` is
the close of financial-close.ts, here for what it asks of payroll; its other conditions are in `GeneralLedger`.
Amounts, slips, attendance, benefits and expenses are left out.

`ProviderHandoffs` models one payroll connector. `vault` is the secret in the vault, `connector` what the
document knows of it: `StopAfterVault` is a process that stops between the two. `cases` are the conformance
cases with the revision of the secret they were made under, `packet` the submissions. A hand-off looks only at
the packet's revision; that the approval and the evidence it was prepared on still hold is
`HandoffIsCertified`. What the provider answers, at once or when asked later (`Reconcile`), is any of its
statuses, for any of the packets, those never handed off included.

## 3. Runs

| run | shows | distinct states |
| --- | --- | --- |
| `custody_and_wages` | seven desks: one parcel in depth (partial amounts, foreign carriers, two instants); two parcels of one order competing for receipts, receivables and a bank line; one parcel at the door, whose receivable notes, taxes, write-offs and late applications move before the bank match and after; the papers a payroll run rests on; runs that overlap and share adjustments; runs against two closes; packets of a finalised run while secrets change | 671 thousand |
| `retail_tills` | four stories of one counter: two consecutive shifts and every way to close them; a cash refund from a drawer that is counted, reviewed and reopened; returns of one sale competing for its rails; a return exchanged or refunded and its credits spent | 210 thousand |
| `offline_queue` | sales queued and made online under two spellings of one key, with split tenders, used references, customer credit; synchronised, refused, requeued, discarded | 778 thousand |
| `store_crashes` | four commands, three on one record, sent on any version; failing writes, two crashes; refinement of `DurableLog` and progress of the queue | 219 thousand |
| `front_office` | four desks: two windows converting and importing leads while writes fail and the process stops; the party master by itself; claims on one invoice; cash received, applied and matched over two | 370 thousand |
| `back_office` | seven desks: the automation scheduler; a requisition to its payment; the books and their close; depreciation; the charges and moves of one asset; requests about it; three rounds of maintenance | 390 thousand |
| `order_fulfilment` | two desks: an order reserved, picked, packed, sent and returned while the stock is sold, moved, counted and written off; an order of an outside channel | 188 thousand |
| `disputed_cash`, `exchange_remainder`, `offline_conflict`, `store_failure`, `coming_back` | the five disagreements of section 6 | counterexamples |

Deadlock is not checked in any run: commands come from people and the finite pools of keys, cases and
documents run out, after which the system may really stop.

**Bounds, and why they are enough.** The rules relate at most two records of a kind (two cases and one bank
line, two shifts and one counter, two settlements and one credit, two requests about one asset, two packages and
one order), so two of each meet every conflict the guards are about; a third is only another pair. Where
something is used up and tried again (payments, work orders, journals, depreciation runs, requested closes)
there are three. Three people are what the longest chain of independent roles needs (cashier, maker, checker;
requester, inspector, approver), and two suffice where only "another" is asked. Amounts go up to 2, the least
that can be split, and stock to 2, the least that can be reserved twice. `MaxJournals` cuts the number of
variance journals of a shift, so that the loop reject, count, resolve is finite. `MaxAttempts = 2` lets an item,
or an automation run, fail and be tried again; `MaxFailures` and `MaxFaults` let both attempts fail and the
process stop twice. `MaxInstant = 2` gives a before and an after, `LastMonth = 2` two months, `MaxCrashes = 2` a
crash during the recovery from the first; in the front office one lost write and one stop suffice, because
either alone separates the two documents. `MaxCharged` is one
more than an order's value, so that a note or a tax can come on top of cash that settled the whole of it.
`MaxMovements` and `MaxAdjustments` cut what stands beside the
subject of a run (sales of the same stock, notes on the same invoice).

Some desks are narrower than the constants: notes and taxes come to one parcel, delivered when a behaviour
starts, and not to the two desks where parcels travel; at the conversions desk two windows meet one fault (and then no
merge) or one window meets two; the claims desk holds two documents among disputes, write-offs and receipts,
the cash desk three; the closing desk four documents; the warehouse desk five papers, the closing of the order being
one; requests about an asset come two at a time within one month, and its charges over two months. The wages desks
have every paper in force and runs of one month, or one employee and no adjustments but two closes; the provider's
desk starts from one finalised run. Lead merges are of one hop; the theorem covers chains of any length. Each
restriction is written, with its reason, in the MC module.

In `custody_and_wages` records of workflows that never meet share their names, so that few permutations serve
them all. Symmetry is used over people, and over records that no constant singles out; the runs with a liveness
property (`store_crashes`, `coming_back`) use none.

## 4. Fairness

* `StateStore`: weak fairness of `RunTask(c)`. The event loop runs a task chained on a settled promise; nothing
  else has to be assumed because `enqueue` chains with `then(task, task)`, so a rejected task settles its place
  like an accepted one. Nothing obliges the process to restart, and `Crash` itself settles what waited
  (`lost`). `Deliver` needs no fairness since `QueueMovesOn` is about tasks.
* `AutomationScheduler`: weak fairness of `WriteNext`: a synchronous handler goes on with its next statement
  unless it throws or the process stops.
* `UnifiedOrder`: `Diligence`, weak fairness of every step that would bring a return to its end. The code does
  not guarantee that people work. It is assumed only by `coming_back`, to show that what goes wrong there does
  not come of somebody's idleness.

In the other modules every step is a person's command; nobody is obliged to send one, and only safety is
claimed.

## 5. Proofs

TLAPS checks the following for every value of the constants that the modules' named assumptions allow
(`CodAssumption`, `PosAssumption`, `ExchangeAssumption`, `OfflineAssumption`, `StoreAssumption`,
`NoneIsNoRecord`, `SchedulerAssumption`, `LedgerAssumption`, `AssetAssumption`, `ReceivablesAssumption`,
`ProcureAssumption`, `StockAssumption`, `FulfilmentAssumption`, `PayrollAssumption`, `ProviderAssumption`).
They say what type a constant has, that every bin stands in a warehouse, that the records of a document are finitely many, that `None` is none of them, that an exchange's key is nobody else's
(retail-exchange.ts builds it from the exchange's id) and that cleaning a clean key leaves it alone. TLC
evaluates them in every run.

| theorem | states |
| --- | --- |
| `CustodyAndWagesProofs!Typing`, `PayrollTyping`, `ProviderTyping` | records keep their shape |
| `CustodyAndWagesProofs!ExclusiveEvidence` | `BankEvidenceIsExclusive` |
| `CustodyAndWagesProofs!OneCaseForAParcel` | `OneCasePerParcel` |
| `CustodyAndWagesProofs!CashFollowsParcel` | `CustodyFollowsPackage` |
| `CustodyAndWagesProofs!MatchedCashIsDischarged` | `CashIsDischarged` |
| `CustodyAndWagesProofs!NobodyPaidTwice` | `WagesPaidOnce` |
| `CustodyAndWagesProofs!ClosedMonthsStaySettled` | `ClosedMonthIsSettled` |
| `CustodyAndWagesProofs!WagesGoOutCertified` | `HandoffIsCertified` |
| `RetailProofs!PosTyping`, `ShopTyping` | records of the till, and of till, returns and exchanges together, keep their shape; stock and credit balances are never negative |
| `RetailProofs!VarianceReview` | `VarianceIsIndependentlyResolved` |
| `RetailProofs!OneDrawer` | `OneShiftPerCounter` |
| `RetailProofs!RetrySafety`, `EvidenceSafety` | `OneSalePerKey`, `EvidenceUsedOnce` |
| `RetailProofs!SettledTill`, `ClosedForGood` | `ClosedTillIsSettled`, `CloseIsFinal` |
| `RetailProofs!ShopReviews`, `ShopClosedForGood`, `ShopEvidence`, `ShopRetrySafety` | the same five of the till with its returns and exchanges |
| `RetailProofs!CreditIsNeverOverdrawn` | `ExchangesStayWithinCredit` |
| `RetailProofs!RefundsKeepToTheirRail` | `RefundsStayWithinTender` |
| `RetailProofs!SettledRefundsAreFinal` | `SettledIsFinal` |
| `RetailProofs!DrawersMatch` | `DrawerMatchesExpectation` |
| `RetailProofs!CreditIsConserved` | `StoreCreditIsConserved` |
| `RetailProofs!QueueImplementsTill` | `RetailOfflineQueue` implements `RetailPos` |
| `RetailProofs!SyncedItemsAreSold` | `SyncedMeansSold` |
| `StateStoreProofs!StoreTyping` | the queue and the documents keep their shape |
| `StateStoreProofs!UpdatesSurvive` | `NoLostUpdate` |
| `StateStoreProofs!EvidenceMatches`, `MemoryLeads` | `LedgerMatchesDocument`, `MemoryIsAhead` |
| `StateStoreProofs!StoreKeepsPromise` | `StateStore` implements `DurableLog` |
| `FrontOfficeProofs!ConversionTypeCorrect`, `ReceivablesTyping` | the documents, calls, merges and receivables keep their shape |
| `FrontOfficeProofs!ConvertedLeadsHaveTheirParty` | `ConvertedLeadHasParty` |
| `FrontOfficeProofs!NothingIsEverLeftBehind` | `NothingIsLeftBehind` |
| `FrontOfficeProofs!ConversionsAlwaysResolve` | `ConversionsResolve` |
| `FrontOfficeProofs!CommittedImportsAreStored` | `CommittedImportIsStored` |
| `FrontOfficeProofs!BalancesAlwaysAgree` | `BalancesAgree` |
| `FrontOfficeProofs!DisputesMarkWhatTheyHold` | `DisputedMeansInDispute` |
| `FrontOfficeProofs!ReconciledCashStaysSettled` | `ReconciledCashIsSettled` |
| `AutomationSchedulerProofs!SchedulerTypeCorrect` | slots, runs, failures and statements keep their shape |
| `AutomationSchedulerProofs!SlotsAreNotLost` | `NoSlotIsLost` |
| `AutomationSchedulerProofs!AttemptsAreApproved` | `EveryAttemptIsApproved` |
| `BackOfficeProofs!LedgerTypeCorrect` | hand-offs, journals and closes keep their shape |
| `BackOfficeProofs!EventsAreBookedOnce` | `EventBookedOnce` |
| `BackOfficeProofs!ClosedBooksAreComplete` | `ClosedBooksHoldRevenue` |
| `BackOfficeProofs!OneChargeForAMonth` | `MonthChargedOnce` |
| `BackOfficeProofs!OneOrderOfAPlan` | `OneOpenOrderPerPlan` |
| `BackOfficeProofs!DisposedStaysPut` | `RetiredAssetStaysPut` |
| `BackOfficeProofs!ProcureTypeCorrect` | the papers of a purchase keep their shape, bins and layers are never negative |
| `BackOfficeProofs!SupplierPaymentsAreBacked` | `PaymentsAreBacked` |
| `OrderProofs!UnifiedTypeCorrect` | the order, its intents, mappings and executions keep their shape |
| `OrderProofs!StockIsReservedAsApproved` | `ReservedAsApproved` |
| `OrderProofs!FulfilmentTypeCorrect` | stock, reservations, packages, picks and returns keep their shape, no register is negative |
| `OrderProofs!StockIsAlwaysCosted` | `StockIsCosted` |
| `OrderProofs!PromisesAreAlwaysBacked` | `PromisesAreBacked` |
| `OrderProofs!BinHoldsAreAlwaysOwned` | `BinHoldsAreOwned` |
| `OrderProofs!ReturnsStayWithinDelivery` | `ReturnsWithinDelivery` |

`OneCasePerParcel`, `OneShiftPerCounter`, `OneOpenOrderPerPlan` and `MemoryIsAhead` are proved and no run states
them: the proof says more than a small instance would.

**Sums.** What a drawer, a credit, a rail or a receivable holds is a sum over a set of records, and the models
write it with `MapThenSumSet`. The library's induction over finite sets takes an operator as its parameter,
which no installed prover can instantiate, so `TotalsProofs` argues by the least counterexample instead: the
proper subsets of a finite set are well-founded (`FS_StrictSubsetOrderingWellFounded`, `WFMin`), both about
sets, not operators. `LeastSubset` gives a smallest subset for which a statement fails, and there is none.
That the recursive function on the subsets exists (`AddsExists`), is unique on each (`AddsUnique`) and does not
depend on the order of adding (`TotalTake`) comes of it; then how a total changes with one term
(`TotalChange`), over an equal or greater family (`TotalSame`, `TotalLeq`), and that a part is no
more than the whole (`TotalOfSome`), and that adding up family by family is adding up all (`TotalFamilies`).
The modules' sums are shown to be such totals where they are used.

**Bank evidence.** `BankEvidenceIsExclusive` is not inductive: it says nothing of lines and receipts no case
uses yet, from which the next case takes its evidence. `EvidenceInv` adds that a matched line, used or not,
names a reconciled receipt recorded by someone other than who matched it (`LineEvidence`), that a case's line
is matched and its status one that has evidence, and that a case without a line names no receipt
(`CaseEvidence`). That no step changes a reconciled receipt or a matched line is one lemma, `SettledStep`, used
for every action. **Custody** follows its package because the sets of statuses the invariant speaks of
(`Underway`, `Arrived`, `SentBack`) are ones no transition of a package leaves (`NoWayBack`); a case handed over
has to have its package under way, or a package could be cancelled behind its back. **Discharge** is about
what is settled of a balance (`SettledOn`, charged less outstanding): no step lowers it (`SettledNeverFalls`), since
notes and taxes move both sides (`Charging`), and every receipt has settled at least what it allocates
(`AllocationsSettle`). Both are needed because a case is matched on a receipt that was recorded, applied and
reconciled without regard to it, while the balance went on moving.

**Wages.** The property is of finalised runs, but a run takes its adjustments and its days when it is submitted:
`WagesInv` says of all runs that may still be finalised that they are apart, and of the adjustments of *every*
run, a rejected one included, that no other has them. `ClosedMonthIsSettled` is inductive by itself given the
types; its two hard cases are a run finalised into a closed period, refused by `ClosedOn`, and a
close while a run waits. **Hand-offs.** That evidence of one revision is never taken back and a new secret
withdraws the approval makes the packet's revision enough: `CertificationInv` carries the approval's evidence
(`ApprovalIsBacked`) and that a packet prepared under the present revision has an approved connector.

**Variance review.** The conclusion is about closed shifts, but what they close on was made while the shift
was under review, so `ReviewInv` carries the independence of maker and checker and the journal through the
review, and says that a shift that is not under review yet has no resolution: exactly what a rejected close
must restore. **Settled till.** `ReleasedInv` adds that reconciled receipts have their journal released,
whoever reconciled them: the close reconciles only recorded ones and would say nothing of those the finance
desk took first. **One drawer** follows from the guard of opening together with the fact that no step revives
a closed shift. **Retries and evidence** need only that sales are appended and receipts change status in place;
in the shop also that an exchange's key is its own (`KeyInv`).

**The shop.** Theorems about the till with its returns and exchanges rest on `ShopInv`: types, and what records
refer to (`PlaceInv`: a sale its opened shift, a settlement an approved return, a requested exchange a return and
a shift). On it stand four sums. `WithinInv`: what is spent or held of a return's credit is within what was
issued; a settlement starts within what is available and never grows. `RailInv`: the same per sale and
rail over all returns of the sale; a return is of a sale that was made, so that a new sale starts with
nothing refunded. `CashInv`: the drawer is the float and what was sold for cash less what was refunded, and an
expectation computed at the close stays right because no sale and no cash refund is made through a shift under
review. `CreditInv`: by `EvidenceUsedOnce` at most one receipt refers to a store credit, and what is gone from
the credit is that receipt's amount; an exchange tops its bridge credit up, spends it and issues the rest in one
step.

**The queue.** Every step of the offline queue is, on the till's variables, a step of the till or none, so that
what is proved of `RetailPos` holds behind the queue (`QueueImplementsTill`). `SyncedMeansSold` needs in addition
that keys of sales are clean: the synchronisation looks a sale up under the key as typed, finds one only if
that spelling was clean, and then it is the sale it made or the replay it was answered with.

**The store.** `StoreInv` relates memory, disk, queue and answers: nothing holds a command that has not run
or was refused, stored ones are on disk, what is in memory alone is failed, and both documents have each
command once (`EffectsHold`); what a window was told is how its command settled (`AnswersHold`); a waiting
command saw no more than memory holds (`WaitingSawMemory`). The last is what makes the version check work: it
compares *numbers* of effects, and two sets of which one contains the other are equal when their numbers are
(`CurrentMeansSame`). The invariant of effects is needed on the stored document too, since a restart makes it
memory. A successful write is `Take` (it may carry earlier failed effects along, which is why `Take` allows
several), an answer is `Tell`, everything else stutters.

**Lead conversion.** The party part of a conversion is stored, or lost, before the CRM part is queued, so the
invariant has to carry the promise of the first through the call: what a call was answered is in the party
document of *memory*, and unless the write failed of disk (`CallIsBacked`); and every conversion that memory or
disk records is kept by the party document of the same place (`KeepsConversions`). The case that makes the
statement about two documents necessary is a stop of the process: disk becomes memory on both sides. **Merges.**
`Sound` is about one document and is shown of memory and of disk: everybody on file leads to an active
record (`EveryoneIsFound`), conversions name records on file. Survivors are the least set closed under merges,
so that chains need no induction: who finds the merged record finds the survivor (`SurvivorTakesOver`).
**Imports.** `ImportInv` carries the stored leads through the call between the two writes (`ImportIsBacked`): the
rows of a job cannot change once it was previewed.

**Receivables.** `RecordsInv` says which records are blank; on it `BalancesInv` says for each receivable that its
own amounts explain its balance and that what it counts as paid is the sum over the receipts, and of all together
that they are what the journals post. Each of the operations is shown to be one of a few moves (of no
money, of a claim, of an allocation), and a move changes one term of each sum. That the balance is never negative is
part of it: an allocation is capped by what is outstanding. **Disputes.** A mark is set with the dispute and
taken off where the last active dispute ends (`Lifted`); that dunning takes it off earlier is section 6, and
harmless here.

**Automation.** A handler may stop between any two statements, so the invariant is about what is left of it:
`todo` is always the tail of a handler's list, the statements come in the order of the code
(`WritesInOrder`: the run before the trigger that names it, the resolution last), and the approval counted for
an attempt is ahead of the attempt (`ApprovedAhead`).

**General ledger.** That an event is booked once rests on two facts about journals that no longer count:
a journal is posted whole, with its reversal if it has one (`JournalsAreWhole`), and has at most one live
reversal (`OneLiveReversal`). Together they show that reversing frees a source exactly once.

**Channel orders.** `ReservedAsApproved` compares a reservation with a history of approvals under one digest.
The invariant adds that the intent in force is for the latest digest of the external order
(`IntentsFollowOrder`), which is what a later event must destroy.

**Fixed assets.** A depreciation run is proposed on one day and approved on another; that it charges months not
charged before (`DueIsNew`) has to hold while both wait. Open work is for the plan's present date
(`OpenWorkIsForPlan`), from which one open order per plan follows, and a disposed asset stays put because
every step that would move one looks at the status at its last moment and not only at the request (`Stays`).

**Procurement.** The property compares counters kept on the order with each other and payments with invoices.
`ProcureInv` adds where the counters come from (`OrderCounts`: they are the sums over receipts and over
invoices), that the award an order rests on is never taken back (`OrderIsBacked`), and that every payment ever
proposed, a rejected or failed one included, is for an invoice that was eligible (`PaymentsWithin`): a later
proposal is measured against what is committed at that moment, so that a payment which leaves the committed ones may not
make room twice.

**Stock and fulfilment.** One invariant, `OrderInv`, covers both modules, since a package takes goods out of
bins, layers and positions at once. `LedgerInv` relates the three registers of a warehouse; each operation is shown
to be one of four moves (goods with their layers, holds alone, positions alone, nothing), and a move changes
one term of a sum (`BinChange`, `GoodsMove`, `HoldsMove`, `PositionsMove`). What a bin holds back has two
owners in two modules: seen from the warehouse it is what transfers hold and a rest (`HeldOtherwise`) that no
work of the warehouse changes (`HoldsKept`), and seen from the order that rest is the open picks (`PicksHold`), so that
the theorem about the composition uses the warehouse's steps without looking into them. Two facts make a
departing package come out even, and neither is in the properties: the items of packages that are still packed are apart
and packed (`PackagesHold`), so that cancelling and sending never give up the same reservation twice; and goods
are picked in the warehouse they are reserved in (`PicksPlaced`), so that the sum over bins of what is
issued is the sum over picks taken from the layers of one warehouse (`QuantityDrawn`). A return is
compared with the first item of its package alone, and the items are at least that.

**Only model-checked.** `QueueMovesOn` (liveness), which is out of the prover's reach, as is the temporal
counterexample of `coming_back`. Every other property of a passing run is proved.

## 6. Where the code and its documents disagree

Each of the first five is a run that ends in a counterexample, with the two quotations in `PROJECT.json`.

* **`exchange_remainder`** (retail-exchange.ts:111). Approving an exchange for less than the return's credit
  issues the rest as a new store credit and settles only the applied part, so the rest remains available on the
  return as well and can be paid out again. The exchange's own settlement stays within the credit
  (`ExchangesStayWithinCredit` holds); the value given does not.
* **`offline_conflict`** (retail-offline-sync.ts:120). A key with a doubled blank inside is stored cleaned by the
  checkout and looked up as typed by the synchronisation; the sale is kept and its item reported as a
  conflict, which the recovery runbook says is not a completed sale.
* **`store_failure`** (revenue-ops-store.ts:4090). Memory is replaced before the write and not put back; a
  command answered with a failure is part of the next document that is stored.
* **`disputed_cash`** (collections-finance.ts:101). A dunning run, or a part payment, computes a receivable's
  status anew from amounts and dates and takes the disputed mark off while the dispute is open; cash may then be
  applied, which the order-to-cash rules refuse for a receivable in dispute.
* **`coming_back`** (retail-unified-order-ingestion.ts:1668). Reconciling a return to origin asks for an
  execution of the digest that says so, and the digest of the return is never the one that was dispatched; the
  execution ledger lists the flow as complete.

Seen in the model, without a run of their own:

* *Assets.* A submitted sale does not stop a retirement, so both can be approved, prepared and posted before
  either completes, and the cost is credited twice. Depreciation posted between preparing and posting a
  retirement leaves accumulated depreciation behind. A run that contains a component-allocated asset can never
  be prepared (general-ledger-store.ts:2342; EXECUTION_STATUS.md:218 says otherwise), nor a sale at exactly book
  value or of an asset without accumulated depreciation. A later policy with another life changes a schedule
  under way and may over-depreciate. Impairment is no part of book value.
* *Books.* Three canonical close types have no case in `isCanonicalHandoffPosted`, so a period that contains one
  never closes. A reopened period is never decided again and blocks what overlaps it. Payments, notes and
  write-offs may be dated in a closed period. A journal reversed after the close leaves its source without
  evidence. An export that was checked before a journal is prepared makes a source both exported and canonical.
* *Channel orders.* A second mapping, for a later digest, may name another sales order, so one external order can
  be reserved and shipped twice. Any event after reserving strands the executions of the old digest. Conflicts
  are never resolved.
* *Automation.* Re-proposing under an idempotency key in use replaces the run (automation-run-store.ts:16).
* *Warehouse.* A transferred serial unit gets a layer without its serial (inventory-warehouse.ts:619); a pick
  completed after its package left leaves picked stock nobody issues (347); closing an order leaves
  reservations and packages live. A landed cost approved after putaway puts value on an empty bin.
* *Payroll.* A rejected run keeps the adjustments it took in marked as applied, so that no later run pays them
  (payroll.ts:189; EXECUTION_STATUS.md:482). Two runs of half a month each pay the full basic of the month,
  although payroll.ts:191 speaks of one calendar month. A policy never changes once it is active, so that the
  check of a run's snapshot against it never refuses. Wages of a closed month may still be run with a later day
  of payment.
* *Providers.* A payroll or banking submission may be prepared twice from one source. A reconciliation
  acknowledges packets that were never handed off. The vault is written before the document: a stop in between
  leaves an approved connector with a secret nobody assessed. Nothing calls the revocation or the expiry of a
  secret.
* *Store credit.* A receipt's reference is used once, so that the rest of a partly spent credit can never be
  spent.
* *Books.* The export of a write-off, a withheld tax, a landed cost or a payout does not ask for a canonical
  posting: the event can stand in the canonical books and in the outside ones.
* *Receivables and payables.* A debit note on a paid receivable leaves it paid with something outstanding; one
  credit note can resolve several disputes; a failed supplier payment's journal is never reversed; a rejected
  match keeps its quantity invoiced.

## 7. Not modelled

* Of the modelled components: pricing, discounts, vouchers, loyalty, tax splits, journal lines, credit limits
  and holds, counter set-up, payload corruption in the offline queue, reorder rules, batches and serials,
  valuation reviews, the supplier portal, liquidity sweeps, permissions beyond those named. The sections
  on the modules say what each leaves out.
* Of the stores: reads made outside of the queue (the counter and the customer of a checkout, consent), tasks
  that wait for a device or a gateway inside of it, the replacement of documents by a demo reset
  (`main/ipc.ts:2123`), upgrades of older documents, and a power cut, which under WAL with `synchronous = NORMAL`
  may also lose the last committed writes.
* The components of section 1.1 whose status is `not_modelled`. Sign-in, devices and loyalty are small and
  sequential but for the hazards listed with them. `domain/retail-delivery-operations.ts` is reached by no store.
  Read projections, the renderer, release control and file handling change no business state; providers and
  gateways are outside of the repository, and what they answer enters as commands.
* **Coverage.** Two thirds of the implementation's lines are screens (`renderer/`), message schemas and their
  handlers (`shared/`, `main/ipc.ts`), projections and reports, and the forwarding methods of the stores,
  which decide nothing; the modules map the domain rules that change state.

## 8. Plan

Done: the money-bearing core (custody, till, returns, exchanges, offline queue), the stores under all of it,
and the workflows that hand documents from one component to another (leads, automation, receivables, payables,
books, assets, stock, fulfilment, channel orders, payroll and its provider); what the runs check of them is
also proved, liveness apart. What is left, in this order:

1. Channel settlements and remote orders; liquidity sweeps against one balance; approvals of the kernel.
2. Sign-in: failure counts with overlapping derivations; lock-out.

A composition is kept as an extension of the module it composes with, so that a theorem about the smaller module
is a lemma about its steps in the larger specification.
