---------------------------- MODULE GeneralLedger ----------------------------
(* The canonical books of one company (general-ledger-store.ts and the gl_ *)
(* tables of database.ts) and the close of its accounting periods          *)
(* (financial-close.ts), over the hand-offs of the revenue document: an    *)
(* issued invoice, revenue recognised on a project, a receipt, a           *)
(* settlement.  A hand-off is exported to the outside books or prepared as *)
(* a canonical journal, which another user posts; a posted journal is only *)
(* ever corrected by a reversal.                                           *)
(*                                                                         *)
(* Amounts, accounts and the hash of the chain are left out: a journal is  *)
(* the business event it books, and a reversal is what it takes back.      *)
(* Versions are left out because each command of the ledger reads and      *)
(* writes in one step; an export is two, since its claim is looked up      *)
(* before the command is queued.                                           *)
EXTENDS Shared, Naturals, FiniteSets

CONSTANTS
    Clerks,
    InvoiceHandoffs,    \* of issued invoices
    RecognitionHandoffs, \* of revenue recognised on a project's billing claims
    OtherHandoffs,      \* of the other source types with a canonical adapter
    LegacyHandoffs,     \* of source types that are only ever exported
    AskedOnExport,      \* of source types whose claim the export looks up (ipc.ts)
    Journals,
    Dates,              \* the days of the open gl periods
    Closes

Guarded == InvoiceHandoffs \cup RecognitionHandoffs
Canonical == Guarded \cup OtherHandoffs
Handoffs == Canonical \cup LegacyHandoffs

ASSUME LedgerAssumption ==
    /\ None \notin Clerks \cup Handoffs \cup Journals
    /\ Guarded \cap (OtherHandoffs \cup LegacyHandoffs) = {}
    /\ Guarded \subseteq AskedOnExport /\ AskedOnExport \subseteq Canonical

VARIABLES
    handoff,     \* [status, date, by]; an "open" invoice or claim has no hand-off yet
    exporting,   \* hand-offs whose export is past the claim check and queued
    journal,     \* [status, source, undoes, reverses, maker, poster, date]
    close        \* [status, from, to, maker, decider]

revenueVars == <<handoff, exporting>>
ledgerVars == <<revenueVars, journal, close>>

NoHandoff == [status |-> "none", date |-> None, by |-> None]
NoJournal == [status |-> "none", source |-> None, undoes |-> None, reverses |-> None,
              maker |-> None, poster |-> None, date |-> None]
NoClose == [status |-> "none", from |-> None, to |-> None, maker |-> None, decider |-> None]

Covers(c, d) == close[c].from <= d /\ d <= close[c].to
InClosedPeriod(d) == \E c \in Closes : close[c].status = "closed" /\ Covers(c, d)

-----------------------------------------------------------------------------
(* The revenue document.                                                   *)

WithHandoff(h, status, d, user) ==
    /\ handoff[h].status = "none"
    /\ handoff' = [handoff EXCEPT ![h] = [status |-> status, date |-> d, by |-> user]]
    /\ UNCHANGED <<exporting, journal, close>>

CreateInvoiceDraft(h, d, user) ==
    h \in InvoiceHandoffs /\ ~ InClosedPeriod(d) /\ WithHandoff(h, "open", d, user)

(* Mutant: the period is only looked at when the draft is made.            *)
IssueInvoiceUnchecked(h, user) ==
    /\ h \in InvoiceHandoffs
    /\ handoff[h].status = "open" /\ handoff[h].by # user
    /\ handoff' = [handoff EXCEPT ![h].status = "ready"]
    /\ UNCHANGED <<exporting, journal, close>>

IssueInvoice(h, user) ==
    /\ h \in InvoiceHandoffs
    /\ handoff[h].status = "open" /\ handoff[h].by # user
    /\ ~ InClosedPeriod(handoff[h].date)
    /\ handoff' = [handoff EXCEPT ![h].status = "ready"]
    /\ UNCHANGED <<exporting, journal, close>>

(* A claim is for a day of work, and recognised on another; a rejected one *)
(* leaves the work to be claimed again.                                    *)
CreateProjectBillingClaim(h, d, user) ==
    h \in RecognitionHandoffs /\ WithHandoff(h, "open", d, user)

DecideProjectBillingClaim(h, decision, recognitionDate, user) ==
    /\ h \in RecognitionHandoffs
    /\ handoff[h].status = "open" /\ handoff[h].by # user
    /\ decision = "recognized" => ~ InClosedPeriod(recognitionDate)
    /\ handoff' = [handoff EXCEPT ![h] =
         IF decision = "rejected" THEN NoHandoff
         ELSE [@ EXCEPT !.status = "ready", !.date = recognitionDate]]
    /\ UNCHANGED <<exporting, journal, close>>

(* The other events look at no close period: a receipt's hand-off waits    *)
(* for its reconciliation, the rest are ready at once.                     *)
RecordEvent(h, d, status) ==
    /\ h \in Handoffs \ Guarded
    /\ status = "open" => h \in OtherHandoffs
    /\ WithHandoff(h, status, d, None)

ReconcilePayment(h) ==
    /\ h \in OtherHandoffs
    /\ handoff[h].status = "open"
    /\ handoff' = [handoff EXCEPT ![h].status = "ready"]
    /\ UNCHANGED <<exporting, journal, close>>

HasCanonicalSourcePosting(h) == \E j \in Journals : journal[j].source = h

(* A write-off, a tax, a landed cost or a payout is exported unasked. *)
StartExport(h) ==
    /\ handoff[h].status = "ready"
    /\ h \in AskedOnExport => ~ HasCanonicalSourcePosting(h)
    /\ exporting' = exporting \cup {h}
    /\ UNCHANGED <<handoff, journal, close>>

(* By then the draft may have been exported by an earlier command.         *)
ExportJournal(h) ==
    /\ h \in exporting
    /\ exporting' = exporting \ {h}
    /\ handoff' = [handoff EXCEPT ![h].status =
                     IF handoff[h].status = "ready" THEN "exported" ELSE handoff[h].status]
    /\ UNCHANGED <<journal, close>>

-----------------------------------------------------------------------------
(* The ledger.  No gl period is ever closed, so each of Dates is open.     *)

CreateLedgerJournal(j, drafted) ==
    /\ journal[j].status = "none"
    /\ journal' = [journal EXCEPT ![j] = drafted]
    /\ UNCHANGED <<revenueVars, close>>

Draft(source, undoes, user, d) ==
    [status |-> "draft", source |-> source, undoes |-> undoes, reverses |-> undoes,
     maker |-> user, poster |-> None, date |-> d]

CreateJournal(j, user, d) == CreateLedgerJournal(j, Draft(None, None, user, d))

(* Prepared again, the journal that exists is found and nothing changes.   *)
PrepareSourcePosting(j, h, user) ==
    /\ h \in Canonical
    /\ handoff[h].status = "ready"
    /\ ~ HasCanonicalSourcePosting(h)
    /\ CreateLedgerJournal(j, Draft(h, None, user, handoff[h].date))

PostJournal(j, user) ==
    /\ journal[j].status = "draft"
    /\ journal[j].maker # user
    /\ journal' = [journal EXCEPT ![j].status = "posted", ![j].poster = user]
    /\ UNCHANGED <<revenueVars, close>>

(* Mutant: only a reversal that was posted counts as one.                  *)
HasPostedReversal(j) ==
    \E r \in Journals : journal[r].reverses = j /\ journal[r].status = "posted"

(* A draft counts, a voided one points nowhere.                            *)
HasReversal(j) == \E r \in Journals : journal[r].reverses = j

ReverseJournal(r, j, user, d) ==
    /\ journal[j].status = "posted"
    /\ journal[j].undoes = None
    /\ journal[j].poster # user
    /\ ~ HasReversal(j)
    /\ CreateLedgerJournal(r, Draft(None, j, user, d))

CancelReversalJournal(r, user) ==
    /\ journal[r].status = "draft"
    /\ journal[r].undoes # None
    /\ journal[r].maker = user
    /\ journal' = [journal EXCEPT ![r].status = "voided", ![r].reverses = None]
    /\ UNCHANGED <<revenueVars, close>>

-----------------------------------------------------------------------------
(* The close.                                                              *)

IsActivePosted(h) ==
    \E j \in Journals :
        /\ journal[j].source = h /\ journal[j].status = "posted"
        /\ ~ \E r \in Journals : journal[r].reverses = j /\ journal[r].status = "posted"

HandedOff(h) ==
    \/ handoff[h].status \in {"ready", "exported"}
    \/ handoff[h].status = "open" /\ h \notin Guarded

HandoffComplete(h) ==
    IF h \in Canonical THEN IsActivePosted(h) ELSE handoff[h].status = "exported"

CloseReady(c) ==
    /\ \A h \in Handoffs : HandedOff(h) /\ Covers(c, handoff[h].date) => HandoffComplete(h)
    /\ \A j \in Journals : journal[j].status = "draft" => ~ Covers(c, journal[j].date)
    /\ \A h \in RecognitionHandoffs :
         handoff[h].status = "open" => ~ Covers(c, handoff[h].date)

CreateAccountingClosePeriod(c, from, to, user) ==
    /\ close[c].status = "none"
    /\ from <= to
    /\ \A other \in Closes : close[other].status \notin {"none", "rejected"} =>
         close[other].to < from \/ to < close[other].from
    /\ close' = [close EXCEPT ![c] = [status |-> "submitted", from |-> from, to |-> to,
                                      maker |-> user, decider |-> None]]
    /\ UNCHANGED <<revenueVars, journal>>

DecideAccountingClosePeriod(c, decision, user) ==
    /\ close[c].status = "submitted"
    /\ close[c].maker # user
    /\ decision = "closed" => CloseReady(c)
    /\ close' = [close EXCEPT ![c].status = decision, ![c].decider = user]
    /\ UNCHANGED <<revenueVars, journal>>

ReopenAccountingClosePeriod(c, user) ==
    /\ close[c].status = "closed"
    /\ close[c].decider # user
    /\ close' = [close EXCEPT ![c].status = "reopened"]
    /\ UNCHANGED <<revenueVars, journal>>

-----------------------------------------------------------------------------
LedgerInit ==
    /\ handoff = [h \in Handoffs |-> NoHandoff]
    /\ exporting = {}
    /\ journal = [j \in Journals |-> NoJournal]
    /\ close = [c \in Closes |-> NoClose]

RevenueStep ==
    \E h \in Handoffs :
        \/ \E d \in Dates, user \in Clerks :
             \/ CreateInvoiceDraft(h, d, user)
             \/ CreateProjectBillingClaim(h, d, user)
             \/ \E decision \in {"recognized", "rejected"} :
                  DecideProjectBillingClaim(h, decision, d, user)
        \/ \E d \in Dates, status \in {"open", "ready"} : RecordEvent(h, d, status)
        \/ \E user \in Clerks : IssueInvoice(h, user)
        \/ ReconcilePayment(h)
        \/ StartExport(h) \/ ExportJournal(h)

JournalStep ==
    \E j \in Journals, user \in Clerks :
        \/ \E d \in Dates : CreateJournal(j, user, d)
        \/ \E h \in Handoffs : PrepareSourcePosting(j, h, user)
        \/ PostJournal(j, user)
        \/ \E original \in Journals, d \in Dates : ReverseJournal(j, original, user, d)
        \/ CancelReversalJournal(j, user)

CloseStep ==
    \E c \in Closes, user \in Clerks :
        \/ \E from, to \in Dates : CreateAccountingClosePeriod(c, from, to, user)
        \/ \E decision \in {"closed", "rejected"} : DecideAccountingClosePeriod(c, decision, user)
        \/ ReopenAccountingClosePeriod(c, user)

LedgerNext == RevenueStep \/ JournalStep \/ CloseStep

LedgerSpec == LedgerInit /\ [][LedgerNext]_ledgerVars

-----------------------------------------------------------------------------
(* What a journal may hold.                                                *)
JournalRecord ==
    [status : {"none", "draft", "posted", "voided"}, source : Canonical \cup {None},
     undoes : Journals \cup {None}, reverses : Journals \cup {None},
     maker : Clerks \cup {None}, poster : Clerks \cup {None}, date : Dates \cup {None}]

LedgerTypeOK ==
    /\ handoff \in [Handoffs -> [status : {"none", "open", "ready", "exported"},
                                 date : Dates \cup {None}, by : Clerks \cup {None}]]
    /\ exporting \subseteq Handoffs
    /\ journal \in [Journals -> JournalRecord]
    /\ close \in [Closes -> [status : {"none", "submitted", "closed", "rejected", "reopened"},
                             from : Dates \cup {None}, to : Dates \cup {None},
                             maker : Clerks \cup {None}, decider : Clerks \cup {None}]]

(* Whatever is prepared, posted, reversed, cancelled and reversed again, a *)
(* business event stands in the posted books once or not at all: one       *)
(* journal claims it, one posted reversal at most takes it back, and the   *)
(* reversal went through somebody who neither posted what it undoes nor    *)
(* posts it himself.                                                       *)
EventBookedOnce ==
    /\ \A i, j \in Journals : journal[i].source # None /\ journal[i].source = journal[j].source => i = j
    /\ \A r, s \in Journals :
         /\ journal[r].undoes # None /\ journal[r].undoes = journal[s].undoes
         /\ journal[r].status = "posted" /\ journal[s].status = "posted"
         => r = s
    /\ \A r \in Journals : journal[r].undoes # None =>
         /\ journal[journal[r].undoes].status = "posted"
         /\ journal[r].maker \notin {journal[journal[r].undoes].poster, journal[r].poster}

(* While a period is closed, every invoice issued and all revenue          *)
(* recognised in it was posted to the canonical books: drafts and claims   *)
(* dated in it, exports in the queue and periods reopened next to it open  *)
(* no way around the readiness of general-ledger-store.ts and the checks   *)
(* of order-to-cash.ts and financial-close.ts.  A reversal may take the    *)
(* posting back afterwards, since the gl period stays open.                *)
ClosedBooksHoldRevenue ==
    \A h \in Guarded :
        HandedOff(h) /\ InClosedPeriod(handoff[h].date) =>
          \E j \in Journals : journal[j].source = h /\ journal[j].status = "posted"
=============================================================================
