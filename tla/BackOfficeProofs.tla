-------------------------- MODULE BackOfficeProofs --------------------------
(***************************************************************************)
(* Theorems about the general ledger for any clerks, events, journals,     *)
(* days and close periods, and about the assets for every register, every  *)
(* number of runs, requests and work orders, every set of policies and     *)
(* every staff; and about procurement for any suppliers, quantities,       *)
(* receipts, invoices and payments.                                        *)
(***************************************************************************)
EXTENDS GeneralLedger, FixedAssets, ProcureToPay, TotalsProofs

-----------------------------------------------------------------------------
(* The general ledger.                                                     *)

(* A journal not yet drafted is blank, a posted one has two people behind  *)
(* it, and a reversal holds on to its original until it is cancelled.      *)
JournalsAreWhole ==
    \A j \in Journals :
        /\ journal[j].status = "none" =>
             journal[j].source = None /\ journal[j].undoes = None /\ journal[j].reverses = None
        /\ journal[j].status = "posted" => journal[j].poster \in Clerks
        /\ journal[j].undoes # None => journal[j].maker \in Clerks
        /\ journal[j].reverses =
             IF journal[j].status = "voided" THEN None ELSE journal[j].undoes

OneLiveReversal ==
    \A r, s \in Journals :
        journal[r].reverses # None /\ journal[r].reverses = journal[s].reverses => r = s

BooksInv ==
    /\ LedgerTypeOK /\ JournalsAreWhole /\ OneLiveReversal
    /\ EventBookedOnce /\ ClosedBooksHoldRevenue

-----------------------------------------------------------------------------
LEMMA InitHolds == LedgerInit => BooksInv
<1> SUFFICES ASSUME LedgerInit PROVE BooksInv
  OBVIOUS
<1> USE DEF LedgerInit, NoHandoff, NoJournal, NoClose
<1>1. LedgerTypeOK
  BY DEF LedgerTypeOK, JournalRecord
<1>2. JournalsAreWhole /\ OneLiveReversal
  BY DEF JournalsAreWhole, OneLiveReversal
<1>3. EventBookedOnce /\ ClosedBooksHoldRevenue
  BY DEF EventBookedOnce, ClosedBooksHoldRevenue, HandedOff, InClosedPeriod
<1> QED
  BY <1>1, <1>2, <1>3 DEF BooksInv

(* What is said of the journals survives every step that leaves them alone. *)
LEMMA BooksUntouched ==
    ASSUME BooksInv, UNCHANGED journal
    PROVE  JournalsAreWhole' /\ OneLiveReversal' /\ EventBookedOnce'
BY DEF BooksInv, JournalsAreWhole, OneLiveReversal, EventBookedOnce

(* The step hands nothing off into a closed period.                        *)
NothingIntoClosed ==
    \A h \in Guarded : HandedOff(h)' =>
        \/ HandedOff(h) /\ handoff'[h].date = handoff[h].date
        \/ ~ InClosedPeriod(handoff'[h].date)

(* Revenue stays in closed books while postings stay, periods do, and no   *)
(* event is handed off into a closed one.                                  *)
LEMMA RevenueUntouched ==
    ASSUME BooksInv, UNCHANGED close,
           \A j \in Journals : journal[j].status = "posted" =>
               journal'[j].status = "posted" /\ journal'[j].source = journal[j].source,
           NothingIntoClosed
    PROVE  ClosedBooksHoldRevenue'
<1> SUFFICES ASSUME NEW h \in Guarded, HandedOff(h)', InClosedPeriod(handoff[h].date)'
             PROVE  \E j \in Journals : journal'[j].source = h /\ journal'[j].status = "posted"
  BY DEF ClosedBooksHoldRevenue
<1>1. InClosedPeriod(handoff'[h].date)
  BY DEF InClosedPeriod, Covers
<1>2. HandedOff(h) /\ InClosedPeriod(handoff[h].date)
  BY <1>1 DEF NothingIntoClosed
<1>3. PICK j \in Journals : journal[j].source = h /\ journal[j].status = "posted"
  BY <1>2 DEF BooksInv, ClosedBooksHoldRevenue
<1> QED
  BY <1>3

LEMMA RevenuePreserves == ASSUME BooksInv, RevenueStep PROVE BooksInv'
<1> USE DEF BooksInv
<1> PICK h \in Handoffs :
      \/ \E d \in Dates, user \in Clerks :
           \/ CreateInvoiceDraft(h, d, user)
           \/ CreateProjectBillingClaim(h, d, user)
           \/ \E decision \in {"recognized", "rejected"} :
                DecideProjectBillingClaim(h, decision, d, user)
      \/ \E d \in Dates, status \in {"open", "ready"} : RecordEvent(h, d, status)
      \/ \E user \in Clerks : IssueInvoice(h, user)
      \/ ReconcilePayment(h)
      \/ StartExport(h) \/ ExportJournal(h)
  BY DEF RevenueStep
<1>1. UNCHANGED <<journal, close>>
  BY DEF CreateInvoiceDraft, CreateProjectBillingClaim, DecideProjectBillingClaim, RecordEvent,
         WithHandoff, IssueInvoice, ReconcilePayment, StartExport, ExportJournal
<1>2. LedgerTypeOK' /\ NothingIntoClosed
  <2> USE <1>1, LedgerAssumption DEF LedgerTypeOK, NothingIntoClosed, HandedOff, Guarded, Handoffs, Canonical
  <2>1. ASSUME NEW d \in Dates, NEW user \in Clerks, CreateInvoiceDraft(h, d, user)
        PROVE  LedgerTypeOK' /\ NothingIntoClosed
    BY <2>1 DEF CreateInvoiceDraft, WithHandoff
  <2>2. ASSUME NEW d \in Dates, NEW user \in Clerks, CreateProjectBillingClaim(h, d, user)
        PROVE LedgerTypeOK' /\ NothingIntoClosed
    BY <2>2 DEF CreateProjectBillingClaim, WithHandoff
  <2>3. ASSUME NEW d \in Dates, NEW user \in Clerks, NEW decision \in {"recognized", "rejected"},
               DecideProjectBillingClaim(h, decision, d, user)
        PROVE LedgerTypeOK' /\ NothingIntoClosed
    <3>1. h \in RecognitionHandoffs /\ handoff[h].status = "open"
      BY <2>3 DEF DecideProjectBillingClaim
    <3>2. CASE decision = "rejected"
      <4>1. handoff' = [handoff EXCEPT ![h] = NoHandoff] /\ UNCHANGED exporting
        BY <2>3, <3>2 DEF DecideProjectBillingClaim
      <4> QED
        BY <3>1, <4>1 DEF NoHandoff
    <3>3. CASE decision = "recognized"
      <4>1. /\ handoff' = [handoff EXCEPT ![h] =
                             [handoff[h] EXCEPT !.status = "ready", !.date = d]]
            /\ ~ InClosedPeriod(d) /\ UNCHANGED exporting
        BY <2>3, <3>3 DEF DecideProjectBillingClaim
      <4>2. /\ \A g \in Handoffs : g # h => handoff'[g] = handoff[g]
            /\ handoff'[h] = [handoff[h] EXCEPT !.status = "ready", !.date = d]
            /\ DOMAIN handoff' = Handoffs
        BY <4>1
      <4>3. /\ handoff'[h].status = "ready" /\ handoff'[h].date = d
            /\ handoff'[h] \in [status : {"none", "open", "ready", "exported"},
                                 date : Dates \cup {None}, by : Clerks \cup {None}]
        BY <4>2
      <4>4. LedgerTypeOK'
        BY <4>1, <4>3
      <4> QED
        BY <4>1, <4>2, <4>3, <4>4
    <3> QED
      BY <3>2, <3>3
  <2>4. ASSUME NEW d \in Dates, NEW status \in {"open", "ready"}, RecordEvent(h, d, status)
        PROVE LedgerTypeOK' /\ NothingIntoClosed
    BY <2>4 DEF RecordEvent, WithHandoff
  <2>5. ASSUME NEW user \in Clerks, IssueInvoice(h, user)
        PROVE  LedgerTypeOK' /\ NothingIntoClosed
    BY <2>5 DEF IssueInvoice
  <2>6. CASE ReconcilePayment(h)
    BY <2>6 DEF ReconcilePayment
  <2>7. CASE StartExport(h)
    BY <2>7 DEF StartExport
  <2>8. CASE ExportJournal(h)
    BY <2>8 DEF ExportJournal
  <2> QED
    BY <2>1, <2>2, <2>3, <2>4, <2>5, <2>6, <2>7, <2>8
<1>3. ClosedBooksHoldRevenue'
  BY <1>1, <1>2, RevenueUntouched
<1> QED
  BY <1>1, <1>2, <1>3, BooksUntouched

(* The fields of a journal, and of one that is posted or voided.           *)
Posted(record, user) == [record EXCEPT !.status = "posted", !.poster = user]
Voided(record) == [record EXCEPT !.status = "voided", !.reverses = None]

LEMMA JournalFields ==
    ASSUME NEW record \in JournalRecord
    PROVE  record.source \in Canonical \cup {None} /\ record.undoes \in Journals \cup {None}
BY DEF JournalRecord

LEMMA PostedFields ==
    ASSUME NEW record \in JournalRecord, NEW user \in Clerks
    PROVE  /\ Posted(record, user) \in JournalRecord
           /\ Posted(record, user).status = "posted" /\ Posted(record, user).poster = user
           /\ Posted(record, user).source = record.source
           /\ Posted(record, user).undoes = record.undoes
           /\ Posted(record, user).reverses = record.reverses
           /\ Posted(record, user).maker = record.maker
BY DEF JournalRecord, Posted

LEMMA VoidedFields ==
    ASSUME NEW record \in JournalRecord
    PROVE  /\ Voided(record) \in JournalRecord
           /\ Voided(record).status = "voided" /\ Voided(record).reverses = None
           /\ Voided(record).source = record.source /\ Voided(record).undoes = record.undoes
           /\ Voided(record).poster = record.poster /\ Voided(record).maker = record.maker
BY DEF JournalRecord, Voided

(* A fresh journal stands beside the others and posts nothing.             *)
LEMMA Drafted ==
    ASSUME BooksInv, NEW j \in Journals, NEW drafted \in JournalRecord, CreateLedgerJournal(j, drafted),
           drafted.status = "draft", drafted.reverses = drafted.undoes, drafted.maker \in Clerks,
           drafted.poster = None,
           drafted.source # None => ~ HasCanonicalSourcePosting(drafted.source),
           drafted.undoes # None =>
               /\ drafted.undoes \in Journals /\ journal[drafted.undoes].status = "posted"
               /\ journal[drafted.undoes].poster # drafted.maker
               /\ ~ HasReversal(drafted.undoes)
    PROVE  BooksInv'
<1> USE DEF BooksInv
<1>1. /\ journal[j].status = "none" /\ journal \in [Journals -> JournalRecord]
      /\ journal' = [journal EXCEPT ![j] = drafted]
      /\ UNCHANGED <<handoff, exporting, close>>
  BY DEF CreateLedgerJournal, revenueVars, LedgerTypeOK
<1>2. LedgerTypeOK'
  BY <1>1 DEF LedgerTypeOK
<1>3. /\ \A i \in Journals : journal'[i] = IF i = j THEN drafted ELSE journal[i]
      /\ journal[j].undoes = None /\ journal[j].source = None /\ journal[j].reverses = None
  BY <1>1 DEF JournalsAreWhole
<1>4. JournalsAreWhole'
  BY <1>3 DEF JournalsAreWhole
<1>5. OneLiveReversal'
  BY <1>3 DEF OneLiveReversal, HasReversal
<1>6. EventBookedOnce'
  <2>1. \A i, k \in Journals :
          journal'[i].source # None /\ journal'[i].source = journal'[k].source => i = k
    BY <1>3 DEF EventBookedOnce, HasCanonicalSourcePosting
  <2>2. \A r, s \in Journals :
          /\ journal'[r].undoes # None /\ journal'[r].undoes = journal'[s].undoes
          /\ journal'[r].status = "posted" /\ journal'[s].status = "posted"
          => r = s
    BY <1>3 DEF EventBookedOnce
  <2>3. ASSUME NEW r \in Journals, journal'[r].undoes # None
        PROVE  /\ journal'[journal'[r].undoes].status = "posted"
               /\ journal'[r].maker \notin {journal'[journal'[r].undoes].poster, journal'[r].poster}
    <3>1. CASE r = j
      <4>1. journal'[r] = drafted /\ drafted.undoes # j
        BY <1>1, <1>3, <2>3, <3>1
      <4> QED
        BY <1>3, <2>3, <4>1, LedgerAssumption
    <3>2. CASE r # j
      <4>1. /\ journal'[r] = journal[r] /\ journal[journal[r].undoes].status = "posted"
            /\ journal[r].maker \notin {journal[journal[r].undoes].poster, journal[r].poster}
        BY <1>3, <2>3, <3>2 DEF EventBookedOnce
      <4>2. journal[r].undoes \in Journals \ {j}
        BY <1>1, <2>3, <4>1, JournalFields
      <4> QED
        BY <1>3, <4>1, <4>2
    <3> QED
      BY <3>1, <3>2
  <2> QED
    BY <2>1, <2>2, <2>3 DEF EventBookedOnce
<1>7. ClosedBooksHoldRevenue'
  <2>1. NothingIntoClosed
    BY <1>1 DEF NothingIntoClosed, HandedOff
  <2> QED
    BY <1>1, <1>3, <2>1, RevenueUntouched
<1> QED
  BY <1>2, <1>4, <1>5, <1>6, <1>7

LEMMA PostPreserves ==
    ASSUME BooksInv, NEW j \in Journals, NEW user \in Clerks, PostJournal(j, user)
    PROVE  BooksInv'
<1> USE DEF BooksInv
<1>1. /\ journal[j].status = "draft" /\ journal[j].maker # user
      /\ journal \in [Journals -> JournalRecord]
      /\ journal' = [journal EXCEPT ![j].status = "posted", ![j].poster = user]
      /\ UNCHANGED <<handoff, exporting, close>>
  BY DEF PostJournal, revenueVars, LedgerTypeOK
<1>2. /\ \A i \in Journals : i # j => journal'[i] = journal[i]
      /\ journal'[j] = Posted(journal[j], user)
  BY <1>1 DEF Posted
<1>3. /\ journal'[j].status = "posted" /\ journal'[j].poster = user
      /\ journal'[j].source = journal[j].source /\ journal'[j].undoes = journal[j].undoes
      /\ journal'[j].reverses = journal[j].reverses /\ journal'[j].maker = journal[j].maker
      /\ journal'[j] \in JournalRecord
  <2>1. journal[j] \in JournalRecord
    BY <1>1
  <2> QED
    BY <1>2, <2>1, PostedFields
<1>4. LedgerTypeOK'
  BY <1>1, <1>3 DEF LedgerTypeOK
<1>5. JournalsAreWhole'
  BY <1>1, <1>2, <1>3 DEF JournalsAreWhole
<1>6. OneLiveReversal'
  BY <1>2, <1>3 DEF OneLiveReversal
<1>7. EventBookedOnce'
  <2>1. \A i, k \in Journals :
          journal'[i].source # None /\ journal'[i].source = journal'[k].source => i = k
    BY <1>2, <1>3 DEF EventBookedOnce
  <2>2. \A r \in Journals : journal'[r].status = "posted" =>
          journal'[r].reverses = journal'[r].undoes
    BY <1>5 DEF JournalsAreWhole
  <2>3. ASSUME NEW r \in Journals, journal'[r].undoes # None
        PROVE  /\ journal'[journal'[r].undoes].status = "posted"
               /\ journal'[r].maker \notin {journal'[journal'[r].undoes].poster, journal'[r].poster}
    <3>1. /\ journal'[r].undoes = journal[r].undoes /\ journal'[r].maker = journal[r].maker
          /\ journal[journal[r].undoes].status = "posted"
          /\ journal[r].maker \notin {journal[journal[r].undoes].poster, journal[r].poster}
      BY <1>2, <1>3, <2>3 DEF EventBookedOnce
    <3>2. journal[r].undoes \in Journals \ {j}
      BY <1>1, <2>3, <3>1, JournalFields
    <3> QED
      BY <1>1, <1>2, <1>3, <3>1, <3>2
  <2> QED
    BY <1>6, <2>1, <2>2, <2>3 DEF EventBookedOnce, OneLiveReversal
<1>8. ClosedBooksHoldRevenue'
  <2>1. NothingIntoClosed
    BY <1>1 DEF NothingIntoClosed, HandedOff
  <2> QED
    BY <1>1, <1>2, <1>3, <2>1, RevenueUntouched
<1> QED
  BY <1>4, <1>5, <1>6, <1>7, <1>8

LEMMA CancelPreserves ==
    ASSUME BooksInv, NEW r \in Journals, NEW user \in Clerks, CancelReversalJournal(r, user)
    PROVE  BooksInv'
<1> USE DEF BooksInv
<1>1. /\ journal[r].status = "draft" /\ journal[r].undoes # None
      /\ journal \in [Journals -> JournalRecord]
      /\ journal' = [journal EXCEPT ![r].status = "voided", ![r].reverses = None]
      /\ UNCHANGED <<handoff, exporting, close>>
  BY DEF CancelReversalJournal, revenueVars, LedgerTypeOK
<1>2. /\ \A i \in Journals : i # r => journal'[i] = journal[i]
      /\ journal'[r] = Voided(journal[r])
  BY <1>1 DEF Voided
<1>3. /\ journal'[r].status = "voided" /\ journal'[r].reverses = None
      /\ journal'[r].source = journal[r].source /\ journal'[r].undoes = journal[r].undoes
      /\ journal'[r].poster = journal[r].poster /\ journal'[r].maker = journal[r].maker
      /\ journal'[r] \in JournalRecord
  <2>1. journal[r] \in JournalRecord
    BY <1>1
  <2> QED
    BY <1>2, <2>1, VoidedFields
<1>4. LedgerTypeOK'
  BY <1>1, <1>3 DEF LedgerTypeOK
<1>5. JournalsAreWhole'
  BY <1>1, <1>2, <1>3 DEF JournalsAreWhole
<1>6. OneLiveReversal'
  BY <1>2, <1>3 DEF OneLiveReversal
<1>7. EventBookedOnce'
  <2>1. \A i, k \in Journals :
          journal'[i].source # None /\ journal'[i].source = journal'[k].source => i = k
    BY <1>2, <1>3 DEF EventBookedOnce
  <2>2. \A i, k \in Journals :
          /\ journal'[i].undoes # None /\ journal'[i].undoes = journal'[k].undoes
          /\ journal'[i].status = "posted" /\ journal'[k].status = "posted"
          => i = k
    BY <1>2, <1>3 DEF EventBookedOnce
  <2>3. ASSUME NEW i \in Journals, journal'[i].undoes # None
        PROVE  /\ journal'[journal'[i].undoes].status = "posted"
               /\ journal'[i].maker \notin {journal'[journal'[i].undoes].poster, journal'[i].poster}
    <3>1. /\ journal'[i].undoes = journal[i].undoes /\ journal'[i].maker = journal[i].maker
          /\ journal'[i].poster = journal[i].poster
          /\ journal[journal[i].undoes].status = "posted"
          /\ journal[i].maker \notin {journal[journal[i].undoes].poster, journal[i].poster}
      BY <1>2, <1>3, <2>3 DEF EventBookedOnce
    <3>2. journal[i].undoes \in Journals \ {r}
      BY <1>1, <2>3, <3>1, JournalFields
    <3> QED
      BY <1>2, <3>1, <3>2
  <2> QED
    BY <2>1, <2>2, <2>3 DEF EventBookedOnce
<1>8. ClosedBooksHoldRevenue'
  <2>1. NothingIntoClosed
    BY <1>1 DEF NothingIntoClosed, HandedOff
  <2> QED
    BY <1>1, <1>2, <1>3, <2>1, RevenueUntouched
<1> QED
  BY <1>4, <1>5, <1>6, <1>7, <1>8

LEMMA JournalPreserves == ASSUME BooksInv, JournalStep PROVE BooksInv'
<1> PICK j \in Journals, user \in Clerks :
      \/ \E d \in Dates : CreateJournal(j, user, d)
      \/ \E h \in Handoffs : PrepareSourcePosting(j, h, user)
      \/ PostJournal(j, user)
      \/ \E original \in Journals, d \in Dates : ReverseJournal(j, original, user, d)
      \/ CancelReversalJournal(j, user)
  BY DEF JournalStep
<1>1. ASSUME NEW d \in Dates, CreateJournal(j, user, d) PROVE BooksInv'
  <2>1. CreateLedgerJournal(j, Draft(None, None, user, d))
    BY <1>1 DEF CreateJournal
  <2>2. Draft(None, None, user, d) \in JournalRecord
    BY DEF JournalRecord, Draft
  <2> QED
    BY <2>1, <2>2, Drafted DEF Draft
<1>2. ASSUME NEW h \in Handoffs, PrepareSourcePosting(j, h, user) PROVE BooksInv'
  <2> DEFINE d == handoff[h].date
  <2>1. h \in Canonical /\ ~ HasCanonicalSourcePosting(h) /\ d \in Dates \cup {None}
    BY <1>2 DEF PrepareSourcePosting, BooksInv, LedgerTypeOK
  <2>2. CreateLedgerJournal(j, Draft(h, None, user, d))
    BY <1>2 DEF PrepareSourcePosting
  <2>3. Draft(h, None, user, d) \in JournalRecord
    BY <2>1 DEF JournalRecord, Draft
  <2> QED
    BY <2>1, <2>2, <2>3, Drafted DEF Draft
<1>3. CASE PostJournal(j, user)
  BY <1>3, PostPreserves
<1>4. ASSUME NEW original \in Journals, NEW d \in Dates, ReverseJournal(j, original, user, d)
      PROVE  BooksInv'
  <2>1. /\ journal[original].status = "posted" /\ journal[original].poster # user
        /\ ~ HasReversal(original)
    BY <1>4 DEF ReverseJournal
  <2>2. CreateLedgerJournal(j, Draft(None, original, user, d))
    BY <1>4 DEF ReverseJournal
  <2>3. Draft(None, original, user, d) \in JournalRecord
    BY DEF JournalRecord, Draft
  <2> QED
    BY <2>1, <2>2, <2>3, Drafted DEF Draft
<1>5. CASE CancelReversalJournal(j, user)
  BY <1>5, CancelPreserves
<1> QED
  BY <1>1, <1>2, <1>3, <1>4, <1>5

(* A period is closed only over revenue that was posted.                   *)
LEMMA ReadyMeansPosted ==
    ASSUME NEW c \in Closes, CloseReady(c), NEW h \in Guarded, HandedOff(h),
           Covers(c, handoff[h].date)
    PROVE  \E j \in Journals : journal[j].source = h /\ journal[j].status = "posted"
BY DEF CloseReady, HandoffComplete, IsActivePosted, Canonical, Handoffs

(* A period that is closed was, or is ready to be.                         *)
ClosedWhenReady ==
    \A c \in Closes : close'[c].status = "closed" =>
        /\ close'[c].from = close[c].from /\ close'[c].to = close[c].to
        /\ close[c].status = "closed" \/ CloseReady(c)

LEMMA ClosePreserves == ASSUME BooksInv, CloseStep PROVE BooksInv'
<1> USE DEF BooksInv
<1> PICK c \in Closes, user \in Clerks :
      \/ \E from, to \in Dates : CreateAccountingClosePeriod(c, from, to, user)
      \/ \E decision \in {"closed", "rejected"} : DecideAccountingClosePeriod(c, decision, user)
      \/ ReopenAccountingClosePeriod(c, user)
  BY DEF CloseStep
<1>1. UNCHANGED <<handoff, exporting, journal>>
  BY DEF CreateAccountingClosePeriod, DecideAccountingClosePeriod, ReopenAccountingClosePeriod,
         revenueVars
<1>2. LedgerTypeOK' /\ ClosedWhenReady
  <2> USE <1>1 DEF LedgerTypeOK, ClosedWhenReady
  <2>1. ASSUME NEW from \in Dates, NEW to \in Dates,
               CreateAccountingClosePeriod(c, from, to, user)
        PROVE  LedgerTypeOK' /\ ClosedWhenReady
    BY <2>1 DEF CreateAccountingClosePeriod
  <2>2. ASSUME NEW decision \in {"closed", "rejected"},
               DecideAccountingClosePeriod(c, decision, user)
        PROVE  LedgerTypeOK' /\ ClosedWhenReady
    BY <2>2 DEF DecideAccountingClosePeriod
  <2>3. CASE ReopenAccountingClosePeriod(c, user)
    BY <2>3 DEF ReopenAccountingClosePeriod
  <2> QED
    BY <2>1, <2>2, <2>3
<1>3. ClosedBooksHoldRevenue'
  <2> SUFFICES ASSUME NEW h \in Guarded, HandedOff(h)', InClosedPeriod(handoff[h].date)'
               PROVE  \E j \in Journals : journal[j].source = h /\ journal[j].status = "posted"
    BY <1>1 DEF ClosedBooksHoldRevenue
  <2>1. PICK other \in Closes :
          close'[other].status = "closed" /\ Covers(other, handoff[h].date)'
    BY <1>1 DEF InClosedPeriod, Covers
  <2>2. HandedOff(h) /\ Covers(other, handoff[h].date)
    BY <1>1, <1>2, <2>1 DEF HandedOff, Covers, ClosedWhenReady
  <2>3. CASE close[other].status = "closed"
    BY <2>2, <2>3 DEF ClosedBooksHoldRevenue, InClosedPeriod
  <2>4. CASE CloseReady(other)
    BY <2>2, <2>4, ReadyMeansPosted
  <2> QED
    BY <1>2, <2>1, <2>3, <2>4 DEF ClosedWhenReady
<1> QED
  BY <1>1, <1>2, <1>3, BooksUntouched

-----------------------------------------------------------------------------
LEMMA Inductive == LedgerSpec => []BooksInv
<1>1. BooksInv /\ [LedgerNext]_ledgerVars => BooksInv'
  <2> SUFFICES ASSUME BooksInv, [LedgerNext]_ledgerVars PROVE BooksInv'
    OBVIOUS
  <2>1. CASE UNCHANGED ledgerVars
    <3>1. UNCHANGED <<handoff, exporting, journal, close>>
      BY <2>1 DEF ledgerVars, revenueVars
    <3>2. LedgerTypeOK' /\ NothingIntoClosed
      BY <3>1 DEF BooksInv, LedgerTypeOK, NothingIntoClosed, HandedOff
    <3> QED
      BY <3>1, <3>2, BooksUntouched, RevenueUntouched DEF BooksInv
  <2> QED
    BY <2>1, RevenuePreserves, JournalPreserves, ClosePreserves DEF LedgerNext
<1> QED
  BY InitHolds, <1>1, PTL DEF LedgerSpec

(* The ledger's tables keep their shape.                                   *)
THEOREM LedgerTypeCorrect == LedgerSpec => []LedgerTypeOK
BY Inductive, PTL DEF BooksInv

(* However many people prepare, post, reverse and cancel, a business event *)
(* stands in the posted books once or not at all, and what takes it back   *)
(* went through two people, neither of whom acted on both sides alone      *)
(* (postLedgerJournal, reverseJournal and voidLedgerJournal).              *)
THEOREM EventsAreBookedOnce == LedgerSpec => []EventBookedOnce
BY Inductive, PTL DEF BooksInv

(* No revenue is issued or recognised into a closed period, or caught by   *)
(* its close, without having been posted to the canonical books.           *)
THEOREM ClosedBooksAreComplete == LedgerSpec => []ClosedBooksHoldRevenue
BY Inductive, PTL DEF BooksInv

-----------------------------------------------------------------------------
(* Fixed assets and maintenance.                                           *)

(* Work that is open is for the date at which its plan stands: this is why *)
(* no second order can be generated beside it.                             *)
OpenWorkIsForPlan ==
    \A o \in Orders : Open(o) =>
        /\ work[o].asset \in Assets
        /\ work[o].due = plan[work[o].asset] /\ work[o].due > 0

AssetInv ==
    /\ AssetTypeOK
    /\ MonthChargedOnce
    /\ OpenWorkIsForPlan
    /\ OneOpenOrderPerPlan

-----------------------------------------------------------------------------
(* A scheduled charge is a natural number.                                 *)
LEMMA ScheduleTyped ==
    ASSUME NEW cost \in Nat, NEW life \in Nat \ {0}, NEW month \in Nat
    PROVE  ScheduledDepreciation(cost, life, month) \in Nat
<1>1. cost \div life \in Nat
  OBVIOUS
<1> QED
  BY <1>1 DEF ScheduledDepreciation

(* What a new run charges is natural, and nothing where a live run of the  *)
(* month charges already.                                                  *)
LEMMA DueIsNew ==
    ASSUME AssetTypeOK, NEW a \in Assets, NEW month \in Nat
    PROVE  /\ Due(a, month) \in Nat
           /\ AlreadyProposed(a, month) => Due(a, month) = 0
<1>1. Controlling # {} => (CHOOSE p \in Controlling : TRUE) \in Policies
  BY DEF Controlling
<1>2. Controlling # {} => Life[CHOOSE p \in Controlling : TRUE] \in Nat \ {0}
  BY <1>1, AssetAssumption DEF AssetAssumption
<1>3. cap[a].amount \in Nat
  BY DEF AssetTypeOK
<1>4. Controlling # {} =>
        ScheduledDepreciation(cap[a].amount, Life[CHOOSE p \in Controlling : TRUE], month) \in Nat
  BY <1>2, <1>3, ScheduleTyped
<1> QED
  BY <1>4 DEF Due

-----------------------------------------------------------------------------
(* The register: what a step may do to an asset.                           *)

AssetRecord ==
    [status : {"none", "draft", "submitted", "in-service", "rejected", "retired"},
     version : Nat, place : Places \cup {None}, maker : Staff \cup {None}]

CapRecord ==
    [status : Live \cup {"none", "rejected"}, bill : Bills \cup {None},
     amount : Nat, maker : Staff \cup {None}]

RequestRecord ==
    [kind : Kinds \cup {None}, asset : Assets \cup {None}, status : RequestStatuses,
     maker : Staff \cup {None}, checker : Staff \cup {None}, sender : Staff \cup {None},
     version : Nat, place : Places \cup {None}]

RunRecord ==
    [status : Live \cup {"none", "rejected"}, month : Nat, maker : Staff \cup {None},
     charge : [Assets -> Nat], split : SUBSET Assets]

WorkRecord ==
    [status : {"none", "scheduled", "in-progress", "completed", "verified"},
     asset : Assets \cup {None}, due : Nat,
     technician : Staff \cup {None}, maker : Staff \cup {None}]

Stays(a) == asset[a].status = "retired" =>
              asset'[a].status = "retired" /\ asset'[a].place = asset[a].place

LEMMA RecordsTyped ==
    ASSUME AssetTypeOK
    PROVE  /\ asset \in [Assets -> AssetRecord]
           /\ cap \in [Assets -> CapRecord]
           /\ request \in [Requests -> RequestRecord]
           /\ depreciation \in [Runs -> RunRecord]
           /\ work \in [Orders -> WorkRecord]
           /\ plan \in [Assets -> Nat]
  BY DEF AssetTypeOK, AssetRecord, CapRecord, RequestRecord, RunRecord, WorkRecord

LEMMA RecordsSuffice ==
    ASSUME asset' \in [Assets -> AssetRecord],
           cap' \in [Assets -> CapRecord],
           request' \in [Requests -> RequestRecord],
           depreciation' \in [Runs -> RunRecord],
           work' \in [Orders -> WorkRecord],
           plan' \in [Assets -> Nat]
    PROVE  AssetTypeOK'
  BY DEF AssetTypeOK, AssetRecord, CapRecord, RequestRecord, RunRecord, WorkRecord

LEMMA RegisterStepKeeps ==
    ASSUME AssetTypeOK, NEW user \in Staff, RegisterStep(user)
    PROVE  /\ asset' \in [Assets -> AssetRecord] /\ cap' \in [Assets -> CapRecord]
           /\ \A a \in Assets : Stays(a)
           /\ UNCHANGED <<depreciation, request, plan, work>>
<1> USE DEF AssetTypeOK, AssetRecord, CapRecord, Stays, Live
<1> PICK a \in Assets :
      \/ \E place \in Places : CreateManagedAsset(a, place, user)
      \/ SubmitManagedAsset(a, user)
      \/ \E decision \in {"in-service", "rejected"} : DecideManagedAsset(a, decision, user)
      \/ \E b \in Bills : \E amount \in 1 .. Taxable[b] :
           CreateAssetCapitalization(a, b, amount, user)
      \/ \E decision \in Verdicts : DecideAssetCapitalization(a, decision, user)
  BY DEF RegisterStep
<1>1. CASE \E place \in Places : CreateManagedAsset(a, place, user)
  BY <1>1 DEF CreateManagedAsset
<1>2. CASE SubmitManagedAsset(a, user)
  BY <1>2 DEF SubmitManagedAsset
<1>3. CASE \E decision \in {"in-service", "rejected"} : DecideManagedAsset(a, decision, user)
  BY <1>3 DEF DecideManagedAsset
<1>4. CASE \E b \in Bills : \E amount \in 1 .. Taxable[b] :
             CreateAssetCapitalization(a, b, amount, user)
  <2> PICK b \in Bills : \E amount \in 1 .. Taxable[b] :
             CreateAssetCapitalization(a, b, amount, user)
    BY <1>4
  <2> PICK amount \in 1 .. Taxable[b] : CreateAssetCapitalization(a, b, amount, user)
    OBVIOUS
  <2>1. amount \in Nat
    BY AssetAssumption DEF AssetAssumption
  <2> QED
    BY <2>1 DEF CreateAssetCapitalization
<1>5. CASE \E decision \in Verdicts : DecideAssetCapitalization(a, decision, user)
  <2> PICK decision \in Verdicts : cap' = [cap EXCEPT ![a].status = decision]
    BY <1>5 DEF DecideAssetCapitalization
  <2>1. cap' \in [Assets -> CapRecord]
    <3>1. SUFFICES ASSUME NEW b \in Assets PROVE cap'[b] \in CapRecord
      OBVIOUS
    <3>2. cap[b] \in CapRecord
      BY RecordsTyped
    <3>3. CASE b = a
      <4>1. cap'[b] = [cap[b] EXCEPT !.status = decision]
        BY <3>3
      <4> QED
        BY <4>1, <3>2 DEF Verdicts
    <3>4. CASE b # a
      BY <3>2, <3>4
    <3> QED
      BY <3>3, <3>4
  <2> QED
    BY <1>5, <2>1 DEF DecideAssetCapitalization
<1> QED
  BY <1>1, <1>2, <1>3, <1>4, <1>5

(* Of the requests only a disposal and a received transfer touch an asset: *)
(* the one retires it, the other needs it in service.                      *)
LEMMA NewRequestKeeps ==
    ASSUME AssetTypeOK, NEW user \in Staff, NEW q \in Requests, NEW a \in Assets,
           NewRequest(q, a, user)
    PROVE  /\ request' \in [Requests -> RequestRecord]
           /\ UNCHANGED <<asset, cap, depreciation, plan, work>>
<1>1. PICK kind \in Kinds, place \in Places \cup {None} : Submit(q, kind, a, place, user)
  BY DEF NewRequest, CreateAssetRetirement, CreateAssetSaleDisposal,
       CreateAssetCustodyTransfer, CreateAssetTransferAccounting,
       CreateAssetImpairmentReview, CreateAssetRevaluation,
       CreateAssetComponentization, CreateAssetComponentAllocation, Kinds
<1> QED
  BY <1>1 DEF Submit, AssetTypeOK, RequestRecord, RequestStatuses, Live

LEMMA DecideRequestKeeps ==
    ASSUME AssetTypeOK, NEW user \in Staff, NEW q \in Requests, NEW decision \in Verdicts,
           DecideRequest(q, decision, user)
    PROVE  /\ request' \in [Requests -> RequestRecord]
           /\ UNCHANGED <<asset, cap, depreciation, plan, work>>
<1>1. PICK kind \in Kinds : Decide(q, kind, decision, user)
  BY DEF DecideRequest, DecideAssetRetirement, DecideAssetSaleDisposal,
       DecideAssetCustodyTransfer, DecideAssetTransferAccounting,
       DecideAssetImpairmentReview, DecideAssetRevaluation,
       DecideAssetComponentization, DecideAssetComponentAllocation, Kinds
<1>2. request' = [request EXCEPT ![q].status = decision, ![q].checker = user]
  BY <1>1 DEF Decide
<1>3. SUFFICES ASSUME NEW p \in Requests PROVE request'[p] \in RequestRecord
  BY <1>1, <1>2 DEF Decide, AssetTypeOK
<1>4. request[p] \in RequestRecord
  BY RecordsTyped
<1>5. decision \in RequestStatuses
  BY DEF Verdicts, RequestStatuses, Live
<1> QED
  BY <1>2, <1>4, <1>5 DEF AssetTypeOK, RequestRecord

LEMMA FinishRequestKeeps ==
    ASSUME AssetTypeOK, NEW user \in Staff, NEW q \in Requests, FinishRequest(q, user)
    PROVE  /\ request' \in [Requests -> RequestRecord]
           /\ asset' \in [Assets -> AssetRecord]
           /\ \A a \in Assets : Stays(a)
           /\ UNCHANGED <<cap, depreciation, plan, work>>
<1>1. PICK kind \in Kinds, from \in RequestStatuses, to \in RequestStatuses :
        Finish(q, kind, from, to, user)
  BY DEF FinishRequest, CompleteAssetRetirement, CompleteAssetSaleDisposal,
       ReceiveAssetCustodyTransfer, DispatchAssetTransferAccounting,
       ReceiveAssetTransferAccounting, CompleteAssetImpairmentReview,
       CompleteAssetRevaluation, Kinds, RequestStatuses, Live
<1>2. /\ request' \in [Requests -> RequestRecord]
      /\ UNCHANGED <<cap, depreciation, plan, work>>
  <2>1. \E sender \in Staff \cup {None} :
          request' = [request EXCEPT ![q].status = to, ![q].sender = sender]
    <3>1. request[q].sender \in Staff \cup {None}
      BY RecordsTyped DEF RequestRecord
    <3> QED
      BY <1>1, <3>1 DEF Finish
  <2>2. SUFFICES ASSUME NEW p \in Requests PROVE request'[p] \in RequestRecord
    BY <1>1, <2>1 DEF Finish, AssetTypeOK
  <2>3. request[p] \in RequestRecord /\ request \in [Requests -> RequestRecord]
    BY RecordsTyped
  <2> PICK sender \in Staff \cup {None} :
        request' = [request EXCEPT ![q].status = to, ![q].sender = sender]
    BY <2>1
  <2>4. CASE p = q
    <3>1. request'[p] = [request[p] EXCEPT !.status = to, !.sender = sender]
      BY <2>3, <2>4
    <3> QED
      BY <3>1, <2>3, <1>1 DEF RequestRecord
  <2>5. CASE p # q
    BY <2>3, <2>5
  <2> QED
    BY <2>4, <2>5
<1>3. CASE CompleteAssetRetirement(q, user) \/ CompleteAssetSaleDisposal(q, user)
  <2>1. asset' = [asset EXCEPT ![request[q].asset].status = "retired",
                               ![request[q].asset].version = @ + 1]
    BY <1>3 DEF CompleteAssetRetirement, CompleteAssetSaleDisposal, Retire
  <2>2. SUFFICES ASSUME NEW a \in Assets PROVE asset'[a] \in AssetRecord /\ Stays(a)
    BY <1>2, <2>1 DEF AssetTypeOK
  <2>3. asset[a] \in AssetRecord /\ asset \in [Assets -> AssetRecord]
    BY RecordsTyped
  <2>4. CASE a = request[q].asset
    <3>1. asset'[a] = [asset[a] EXCEPT !.status = "retired", !.version = @ + 1]
      BY <2>1, <2>3, <2>4
    <3>2. asset'[a] \in AssetRecord
      <4>1. asset[a].version \in Nat /\ asset[a].version + 1 \in Nat
        BY <2>3 DEF AssetRecord
      <4>2. asset'[a] = [status |-> "retired", version |-> asset[a].version + 1,
                         place |-> asset[a].place, maker |-> asset[a].maker]
        BY <3>1, <2>3 DEF AssetRecord
      <4> QED
        BY <4>1, <4>2, <2>3 DEF AssetRecord
    <3>3. asset'[a].status = "retired" /\ asset'[a].place = asset[a].place
      BY <3>1, <2>3 DEF AssetRecord
    <3> QED
      BY <3>2, <3>3 DEF Stays
  <2>5. CASE a # request[q].asset
    BY <2>1, <2>3, <2>5 DEF Stays
  <2> QED
    BY <2>4, <2>5
<1>4. CASE ReceiveAssetCustodyTransfer(q, user)
  <2>1. /\ asset' = [asset EXCEPT ![request[q].asset].place = request[q].place,
                                  ![request[q].asset].version = @ + 1]
        /\ asset[request[q].asset].status = "in-service"
    BY <1>4 DEF ReceiveAssetCustodyTransfer, InService
  <2>2. request[q].place \in Places \cup {None}
    BY RecordsTyped DEF RequestRecord
  <2>3. SUFFICES ASSUME NEW a \in Assets PROVE asset'[a] \in AssetRecord /\ Stays(a)
    BY <1>2, <2>1 DEF AssetTypeOK
  <2>4. asset[a] \in AssetRecord
    BY RecordsTyped
  <2> QED
    BY <2>1, <2>2, <2>4 DEF AssetTypeOK, AssetRecord, Stays
<1>5. CASE UNCHANGED asset
  BY <1>2, <1>5 DEF AssetTypeOK, AssetRecord, Stays
<1> QED
  BY <1>3, <1>4, <1>5 DEF FinishRequest, DispatchAssetTransferAccounting,
       ReceiveAssetTransferAccounting, CompleteAssetImpairmentReview, CompleteAssetRevaluation

-----------------------------------------------------------------------------
(* Depreciation: a new run charges nothing that a live one charges, and a  *)
(* decision does not bring a run to life.                                  *)
LEMMA DepreciationStepKeeps ==
    ASSUME AssetTypeOK, MonthChargedOnce, NEW user \in Staff, DepreciationStep(user)
    PROVE  /\ depreciation' \in [Runs -> RunRecord]
           /\ MonthChargedOnce'
           /\ UNCHANGED <<asset, cap, request, plan, work>>
<1>0. depreciation \in [Runs -> RunRecord]
  BY RecordsTyped
<1>1. CASE UNCHANGED depreciation
  <2>1. UNCHANGED <<asset, cap, request, plan, work>>
    BY DEF DepreciationStep, CreateAssetDepreciationPolicy, DecideAssetDepreciationPolicy,
         CreateAssetDepreciationRun, DecideAssetDepreciationRun
  <2> QED
    BY <1>0, <1>1, <2>1 DEF MonthChargedOnce
<1>2. CASE \E r \in Runs, month \in Months : CreateAssetDepreciationRun(r, month, user)
  <2> PICK r \in Runs, month \in Months : CreateAssetDepreciationRun(r, month, user)
    BY <1>2
  <2> DEFINE new == [status |-> "submitted", month |-> month, maker |-> user,
                     charge |-> [a \in Assets |-> Due(a, month)],
                     split |-> {a \in Assets : Due(a, month) > 0 /\ Split(a)}]
  <2>1. /\ depreciation' = [depreciation EXCEPT ![r] = new]
        /\ depreciation[r].status = "none"
        /\ UNCHANGED <<asset, cap, request, plan, work>>
    BY DEF CreateAssetDepreciationRun
  <2>2. month \in Nat
    BY AssetAssumption DEF Months, AssetAssumption
  <2>3. [a \in Assets |-> Due(a, month)] \in [Assets -> Nat]
    BY <2>2, DueIsNew
  <2>4. new \in RunRecord
    BY <2>2, <2>3 DEF RunRecord, Live
  <2>5. depreciation' \in [Runs -> RunRecord]
    BY <1>0, <2>1, <2>4
  <2>6. ASSUME NEW s \in Runs \ {r}, NEW a \in Assets,
               depreciation[s].status \in Live, depreciation[s].month = month
        PROVE  depreciation[s].charge[a] = 0 \/ Due(a, month) = 0
    <3>1. depreciation[s].charge[a] \in Nat
      BY <1>0 DEF RunRecord
    <3>2. depreciation[s].charge[a] > 0 => AlreadyProposed(a, month)
      BY <2>6 DEF AlreadyProposed
    <3> QED
      BY <3>1, <3>2, <2>2, DueIsNew
  <2>7. MonthChargedOnce'
    <3> SUFFICES ASSUME NEW s \in Runs, NEW u \in Runs, NEW a \in Assets, s # u,
                        depreciation'[s].status \in Live, depreciation'[u].status \in Live,
                        depreciation'[s].month = depreciation'[u].month
                 PROVE  depreciation'[s].charge[a] = 0 \/ depreciation'[u].charge[a] = 0
      BY DEF MonthChargedOnce
    <3>0. /\ depreciation'[r].month = month
          /\ depreciation'[r].charge[a] = Due(a, month)
          /\ \A v \in Runs \ {r} : depreciation'[v] = depreciation[v]
      BY <1>0, <2>1
    <3>1. CASE s = r
      BY <3>0, <3>1, <2>6
    <3>2. CASE u = r
      BY <3>0, <3>2, <2>6
    <3>3. CASE s # r /\ u # r
      BY <3>0, <3>3 DEF MonthChargedOnce
    <3> QED
      BY <3>1, <3>2, <3>3
  <2> QED
    BY <2>1, <2>5, <2>7
<1>3. CASE \E r \in Runs, decision \in Verdicts : DecideAssetDepreciationRun(r, decision, user)
  <2> PICK r \in Runs, decision \in Verdicts : DecideAssetDepreciationRun(r, decision, user)
    BY <1>3
  <2>1. /\ depreciation' = [depreciation EXCEPT ![r].status = decision]
        /\ depreciation[r].status = "submitted"
        /\ UNCHANGED <<asset, cap, request, plan, work>>
    BY DEF DecideAssetDepreciationRun
  <2>2. \A s \in Runs :
          /\ depreciation'[s] \in RunRecord
          /\ depreciation'[s].month = depreciation[s].month
          /\ depreciation'[s].charge = depreciation[s].charge
          /\ depreciation'[s].status \in Live => depreciation[s].status \in Live
    <3> SUFFICES ASSUME NEW s \in Runs
                 PROVE  /\ depreciation'[s] \in RunRecord
                        /\ depreciation'[s].month = depreciation[s].month
                        /\ depreciation'[s].charge = depreciation[s].charge
                        /\ depreciation'[s].status \in Live => depreciation[s].status \in Live
      OBVIOUS
    <3>1. CASE s = r
      <4>1. depreciation'[s] = [depreciation[s] EXCEPT !.status = decision]
        BY <1>0, <2>1, <3>1
      <4>2. depreciation[s] \in RunRecord /\ depreciation[s].status \in Live
        BY <1>0, <2>1, <3>1 DEF Live
      <4> QED
        BY <4>1, <4>2 DEF RunRecord, Verdicts, Live
    <3>2. CASE s # r
      BY <1>0, <2>1, <3>2
    <3> QED
      BY <3>1, <3>2
  <2>3. depreciation' \in [Runs -> RunRecord]
    BY <1>0, <2>1, <2>2
  <2>4. MonthChargedOnce'
    BY <2>2 DEF MonthChargedOnce
  <2> QED
    BY <2>1, <2>3, <2>4
<1> QED
  BY <1>1, <1>2, <1>3 DEF DepreciationStep, CreateAssetDepreciationPolicy,
       DecideAssetDepreciationPolicy

(* A step that leaves the runs alone charges nothing.                      *)
LEMMA ChargesStay ==
    ASSUME MonthChargedOnce, UNCHANGED depreciation
    PROVE  MonthChargedOnce'
  BY DEF MonthChargedOnce

-----------------------------------------------------------------------------
(* Maintenance: an order is generated for a date no order has, and only the *)
(* verification of the one open order moves the date on.                   *)

WorkInv == OpenWorkIsForPlan /\ OneOpenOrderPerPlan

LEMMA WorkStays ==
    ASSUME WorkInv, UNCHANGED <<plan, work>>
    PROVE  WorkInv'
  BY DEF WorkInv, OpenWorkIsForPlan, OneOpenOrderPerPlan, Open

LEMMA ProgressKeeps ==
    ASSUME AssetTypeOK, WorkInv, NEW o \in Orders, NEW to \in {"in-progress", "completed"},
           Open(o), work' = [work EXCEPT ![o].status = to], UNCHANGED plan
    PROVE  work' \in [Orders -> WorkRecord] /\ WorkInv'
<1>0. work \in [Orders -> WorkRecord]
  BY RecordsTyped
<1>1. \A p \in Orders :
        /\ work'[p] \in WorkRecord
        /\ work'[p].asset = work[p].asset /\ work'[p].due = work[p].due
        /\ Open(p)' <=> Open(p)
  <2> SUFFICES ASSUME NEW p \in Orders
               PROVE  /\ work'[p] \in WorkRecord
                      /\ work'[p].asset = work[p].asset /\ work'[p].due = work[p].due
                      /\ Open(p)' <=> Open(p)
    OBVIOUS
  <2>1. CASE p = o
    <3>1. work'[p] = [work[p] EXCEPT !.status = to]
      BY <1>0, <2>1
    <3> QED
      BY <1>0, <2>1, <3>1 DEF WorkRecord, Open
  <2>2. CASE p # o
    BY <1>0, <2>2 DEF Open
  <2> QED
    BY <2>1, <2>2
<1>2. work' \in [Orders -> WorkRecord]
  BY <1>0, <1>1
<1> QED
  BY <1>1, <1>2 DEF WorkInv, OpenWorkIsForPlan, OneOpenOrderPerPlan

LEMMA MaintenanceStepKeeps ==
    ASSUME AssetTypeOK, WorkInv, NEW user \in Staff, MaintenanceStep(user)
    PROVE  /\ work' \in [Orders -> WorkRecord] /\ plan' \in [Assets -> Nat]
           /\ WorkInv'
           /\ UNCHANGED <<asset, cap, request, depreciation>>
<1>0. work \in [Orders -> WorkRecord] /\ plan \in [Assets -> Nat]
  BY RecordsTyped
<1>1. UNCHANGED <<asset, cap, request, depreciation>>
  BY DEF MaintenanceStep, CreatePreventiveMaintenancePlan, GenerateDueMaintenanceWorkOrder,
       StartMaintenanceWorkOrder, CompleteMaintenanceWorkOrder, VerifyMaintenanceWorkOrder
<1>2. CASE \E a \in Assets : CreatePreventiveMaintenancePlan(a, 1)
  <2> PICK a \in Assets : plan[a] = 0 /\ plan' = [plan EXCEPT ![a] = 1] /\ UNCHANGED work
    BY <1>2 DEF CreatePreventiveMaintenancePlan
  <2>1. \A o \in Orders : Open(o)' <=> Open(o)
    BY DEF Open
  <2>2. \A o \in Orders : Open(o) => plan'[work[o].asset] = plan[work[o].asset]
    BY <1>0 DEF WorkInv, OpenWorkIsForPlan
  <2> QED
    BY <1>0, <1>1, <2>1, <2>2 DEF WorkInv, OpenWorkIsForPlan, OneOpenOrderPerPlan
<1>3. CASE \E o \in Orders, a \in Assets, technician \in Staff :
             GenerateDueMaintenanceWorkOrder(o, a, technician, user)
  <2> PICK o \in Orders, a \in Assets, technician \in Staff :
        GenerateDueMaintenanceWorkOrder(o, a, technician, user)
    BY <1>3
  <2> DEFINE new == [status |-> "scheduled", asset |-> a, due |-> plan[a],
                     technician |-> technician, maker |-> user]
  <2>1. /\ work' = [work EXCEPT ![o] = new] /\ plan' = plan /\ plan[a] > 0
        /\ \A p \in Orders : ~ (work[p].asset = a /\ work[p].due = plan[a])
    BY DEF GenerateDueMaintenanceWorkOrder
  <2>2. new \in WorkRecord
    BY <1>0 DEF WorkRecord
  <2>3. work' \in [Orders -> WorkRecord]
    BY <1>0, <2>1, <2>2
  <2>4. work'[o] = new /\ \A p \in Orders \ {o} : work'[p] = work[p] /\ (Open(p)' <=> Open(p))
    BY <1>0, <2>1 DEF Open
  <2>5. OpenWorkIsForPlan'
    BY <1>0, <2>1, <2>4 DEF WorkInv, OpenWorkIsForPlan
  <2>6. \A p \in Orders \ {o} : Open(p) => work[p].asset # a
    BY <2>1 DEF WorkInv, OpenWorkIsForPlan
  <2>7. OneOpenOrderPerPlan'
    BY <2>4, <2>6 DEF WorkInv, OneOpenOrderPerPlan
  <2> QED
    BY <1>0, <1>1, <2>1, <2>3, <2>5, <2>7 DEF WorkInv
<1>4. CASE \E o \in Orders : StartMaintenanceWorkOrder(o, user)
  <2> PICK o \in Orders : StartMaintenanceWorkOrder(o, user)
    BY <1>4
  <2>1. /\ Open(o) /\ work' = [work EXCEPT ![o].status = "in-progress"]
        /\ UNCHANGED plan
    BY DEF StartMaintenanceWorkOrder, Open
  <2> QED
    BY <1>0, <1>1, <2>1, ProgressKeeps
<1>5. CASE \E o \in Orders : CompleteMaintenanceWorkOrder(o, user)
  <2> PICK o \in Orders : CompleteMaintenanceWorkOrder(o, user)
    BY <1>5
  <2>1. /\ Open(o) /\ work' = [work EXCEPT ![o].status = "completed"]
        /\ UNCHANGED plan
    BY DEF CompleteMaintenanceWorkOrder, Open
  <2> QED
    BY <1>0, <1>1, <2>1, ProgressKeeps
<1>6. CASE \E o \in Orders, decision \in {"reopened", "verified"} :
             VerifyMaintenanceWorkOrder(o, decision, user)
  <2> PICK o \in Orders, decision \in {"reopened", "verified"} :
        VerifyMaintenanceWorkOrder(o, decision, user)
    BY <1>6
  <2>0. Open(o)
    BY DEF VerifyMaintenanceWorkOrder, Open
  <2>1. CASE decision = "reopened"
    <3>1. work' = [work EXCEPT ![o].status = "in-progress"] /\ UNCHANGED plan
      BY <2>1 DEF VerifyMaintenanceWorkOrder
    <3> QED
      BY <1>0, <1>1, <2>0, <3>1, ProgressKeeps
  <2>2. CASE decision = "verified"
    <3>1. /\ work' = [work EXCEPT ![o].status = "verified"]
          /\ plan' = [plan EXCEPT ![work[o].asset] = work[o].due + 1]
      BY <2>2 DEF VerifyMaintenanceWorkOrder
    <3>2. work'[o] = [work[o] EXCEPT !.status = "verified"]
      BY <1>0, <3>1
    <3>3. work'[o] \in WorkRecord /\ ~ Open(o)'
      BY <1>0, <3>2 DEF WorkRecord, Open
    <3>4. \A p \in Orders \ {o} : work'[p] = work[p] /\ (Open(p)' <=> Open(p))
      BY <1>0, <3>1 DEF Open
    <3>5. work' \in [Orders -> WorkRecord]
      BY <1>0, <3>1, <3>3, <3>4
    <3>6. plan' \in [Assets -> Nat]
      <4>1. work[o].due + 1 \in Nat
        BY <1>0 DEF WorkRecord
      <4> QED
        BY <1>0, <3>1, <4>1
    <3>7. \A p \in Orders \ {o} : Open(p) =>
            work[p].asset # work[o].asset /\ plan'[work[p].asset] = plan[work[p].asset]
      BY <1>0, <2>0, <3>1 DEF WorkInv, OneOpenOrderPerPlan, OpenWorkIsForPlan
    <3>8. OpenWorkIsForPlan'
      BY <3>3, <3>4, <3>7 DEF WorkInv, OpenWorkIsForPlan
    <3>9. OneOpenOrderPerPlan'
      BY <3>3, <3>4 DEF WorkInv, OneOpenOrderPerPlan
    <3> QED
      BY <1>1, <3>5, <3>6, <3>8, <3>9 DEF WorkInv
  <2> QED
    BY <2>1, <2>2
<1> QED
  BY <1>2, <1>3, <1>4, <1>5, <1>6 DEF MaintenanceStep

(* The books only write journals.                                          *)
LEMMA BooksStepKeeps ==
    ASSUME BooksStep
    PROVE  UNCHANGED <<asset, cap, request, depreciation, plan, work>>
  BY DEF BooksStep, PrepareAssetCapitalizationPosting, PrepareAssetDepreciationPosting,
       PrepareAssetRetirementPosting, PrepareAssetSaleDisposalPosting,
       PrepareAssetLifecyclePosting, PostAssetJournal, ReverseAssetJournal, EntryStep

-----------------------------------------------------------------------------
LEMMA InitEstablishes == AssetInit => AssetInv
<1> SUFFICES ASSUME AssetInit PROVE AssetInv
  OBVIOUS
<1>1. AssetTypeOK
  BY DEF AssetInit, AssetTypeOK, RequestStatuses, Live
<1>2. MonthChargedOnce
  BY DEF AssetInit, MonthChargedOnce, Live
<1>3. \A o \in Orders : ~ Open(o)
  BY DEF AssetInit, Open
<1> QED
  BY <1>1, <1>2, <1>3 DEF AssetInv, OpenWorkIsForPlan, OneOpenOrderPerPlan

(* Every step keeps the invariant, and a disposed asset where it was.      *)
LEMMA StepKeeps ==
    ASSUME AssetInv, [AssetNext]_assetVars
    PROVE  AssetInv' /\ \A a \in Assets : Stays(a)
<1> USE DEF AssetInv
<1>0. /\ asset \in [Assets -> AssetRecord] /\ cap \in [Assets -> CapRecord]
      /\ request \in [Requests -> RequestRecord] /\ depreciation \in [Runs -> RunRecord]
      /\ work \in [Orders -> WorkRecord] /\ plan \in [Assets -> Nat]
  BY RecordsTyped
<1>1. ASSUME UNCHANGED <<asset, cap, request, depreciation, plan, work>>
      PROVE  AssetInv' /\ \A a \in Assets : Stays(a)
  <2>1. AssetTypeOK'
    BY <1>0, <1>1, RecordsSuffice
  <2> QED
    BY <1>1, <2>1, ChargesStay, WorkStays DEF WorkInv, Stays
<1>2. CASE \E user \in Staff : RegisterStep(user)
  <2>1. /\ asset' \in [Assets -> AssetRecord] /\ cap' \in [Assets -> CapRecord]
        /\ \A a \in Assets : Stays(a)
        /\ UNCHANGED <<depreciation, request, plan, work>>
    BY <1>2, RegisterStepKeeps
  <2>2. AssetTypeOK'
    BY <1>0, <2>1, RecordsSuffice
  <2> QED
    BY <2>1, <2>2, ChargesStay, WorkStays DEF WorkInv
<1>3. CASE \E user \in Staff : DepreciationStep(user)
  <2>1. /\ depreciation' \in [Runs -> RunRecord]
        /\ MonthChargedOnce'
        /\ UNCHANGED <<asset, cap, request, plan, work>>
    BY <1>3, DepreciationStepKeeps
  <2>2. AssetTypeOK'
    BY <1>0, <2>1, RecordsSuffice
  <2> QED
    BY <2>1, <2>2, WorkStays DEF WorkInv, Stays
<1>4. CASE \E user \in Staff : RequestStep(user)
  <2>1. /\ asset' \in [Assets -> AssetRecord] /\ request' \in [Requests -> RequestRecord]
        /\ \A a \in Assets : Stays(a)
        /\ UNCHANGED <<cap, depreciation, plan, work>>
    <3> PICK user \in Staff : RequestStep(user)
      BY <1>4
    <3> PICK q \in Requests :
          \/ \E a \in Assets : NewRequest(q, a, user)
          \/ \E decision \in Verdicts : DecideRequest(q, decision, user)
          \/ FinishRequest(q, user)
      BY DEF RequestStep
    <3>1. CASE \E a \in Assets : NewRequest(q, a, user)
      BY <1>0, <3>1, NewRequestKeeps DEF Stays
    <3>2. CASE \E decision \in Verdicts : DecideRequest(q, decision, user)
      BY <1>0, <3>2, DecideRequestKeeps DEF Stays
    <3>3. CASE FinishRequest(q, user)
      BY <3>3, FinishRequestKeeps
    <3> QED
      BY <3>1, <3>2, <3>3
  <2>2. AssetTypeOK'
    BY <1>0, <2>1, RecordsSuffice
  <2> QED
    BY <2>1, <2>2, ChargesStay, WorkStays DEF WorkInv
<1>5. CASE \E user \in Staff : MaintenanceStep(user)
  <2>1. /\ work' \in [Orders -> WorkRecord] /\ plan' \in [Assets -> Nat]
        /\ WorkInv'
        /\ UNCHANGED <<asset, cap, request, depreciation>>
    BY <1>5, MaintenanceStepKeeps DEF WorkInv
  <2>2. AssetTypeOK'
    BY <1>0, <2>1, RecordsSuffice
  <2> QED
    BY <2>1, <2>2, ChargesStay DEF WorkInv, Stays
<1>6. CASE BooksStep
  BY <1>1, <1>6, BooksStepKeeps
<1>7. CASE UNCHANGED assetVars
  BY <1>1, <1>7 DEF assetVars
<1> QED
  BY <1>2, <1>3, <1>4, <1>5, <1>6, <1>7 DEF AssetNext

(* Whatever is proposed, rejected, posted, reversed or proposed again by   *)
(* however many makers and checkers, an asset is charged at most once for  *)
(* a month.                                                                *)
THEOREM OneChargeForAMonth == AssetSpec => []MonthChargedOnce
<1>1. AssetInit => AssetInv
  BY InitEstablishes
<1>2. AssetInv /\ [AssetNext]_assetVars => AssetInv'
  BY StepKeeps
<1>3. AssetInv => MonthChargedOnce
  BY DEF AssetInv
<1> QED
  BY <1>1, <1>2, <1>3, PTL DEF AssetSpec

(* Of the preventive maintenance of an asset there is at most one order    *)
(* that is not verified, however often work is sent back.                  *)
THEOREM OneOrderOfAPlan == AssetSpec => []OneOpenOrderPerPlan
<1>1. AssetInit => AssetInv
  BY InitEstablishes
<1>2. AssetInv /\ [AssetNext]_assetVars => AssetInv'
  BY StepKeeps
<1>3. AssetInv => OneOpenOrderPerPlan
  BY DEF AssetInv
<1> QED
  BY <1>1, <1>2, <1>3, PTL DEF AssetSpec

(* No step moves an asset that was retired or sold, nor brings it back.    *)
THEOREM DisposedStaysPut == AssetSpec => RetiredAssetStaysPut
<1>1. AssetInit => AssetInv
  BY InitEstablishes
<1>2. AssetInv /\ [AssetNext]_assetVars => AssetInv'
  BY StepKeeps
<1>3. AssetInv /\ [AssetNext]_assetVars =>
        [\A a \in Assets : asset[a].status = "retired" =>
            asset'[a].status = "retired" /\ asset'[a].place = asset[a].place]_assetVars
  BY StepKeeps DEF Stays
<1> QED
  BY <1>1, <1>2, <1>3, PTL DEF AssetSpec, RetiredAssetStaysPut

-----------------------------------------------------------------------------
(* From a requisition to the payment of the supplier.                      *)

(* The order rests on an award that nothing takes back, and what comes in  *)
(* comes in on it.                                                         *)
OrderIsBacked ==
    /\ rfq.status # "none" => requisition = "converted"
    /\ order.status # "none" =>
         /\ rfq.status = "awarded" /\ order.supplier \in Suppliers
         /\ supplier[order.supplier] = "approved" /\ quote[order.supplier] = "awarded"
    /\ order.received > 0 => order.status \in {"partially-received", "received"}

(* The order's two counters are the sums of its receipts and its invoices. *)
OrderCounts ==
    /\ order.received = QuantityOf(receipt, Receipts)
    /\ order.invoiced = QuantityOf(invoice, Invoices)
    /\ order.invoiced <= order.received
    /\ \A g \in Receipts : receipt[g].status = "none" => receipt[g].quantity = 0

PaymentsWithin ==
    /\ \A i \in Invoices : match[i] # "none" => invoice[i] # NoInvoice
    /\ \A p \in Payments : payment[p].status # "none" =>
         payment[p].invoice \in Invoices /\ PaymentEligible(payment[p].invoice)
    /\ \A i \in Invoices : HeldBy(payment, Committed(i)) <= invoice[i].total

ProcureInv == ProcureTypeOK /\ OrderIsBacked /\ OrderCounts /\ PaymentsWithin

LEMMA ProcureInitially == ProcureInit => ProcureInv
<1> SUFFICES ASSUME ProcureInit PROVE ProcureInv
  OBVIOUS
<1>1. ProcureTypeOK
  BY ProcureAssumption
  DEF ProcureInit, ProcureTypeOK, NoRfq, NoOrder, NoReceipt, NoLandedCost, NoInvoice, NoPayment,
      OrderRecord, ReceiptRecord, CostRecord, InvoiceRecord, PaymentRecord, Shares
<1>2. OrderIsBacked
  BY DEF ProcureInit, OrderIsBacked, NoRfq, NoOrder
<1>3. OrderCounts
  <2>1. /\ \A g \in Receipts : receipt[g].quantity = 0
        /\ \A i \in Invoices : invoice[i].quantity = 0
        /\ order.received = 0 /\ order.invoiced = 0
    BY DEF ProcureInit, NoOrder, NoReceipt, NoInvoice
  <2>2. /\ QuantityOf(receipt, Receipts) = Total(QuantityTerms(receipt, Receipts), Receipts)
        /\ QuantityOf(invoice, Invoices) = Total(QuantityTerms(invoice, Invoices), Invoices)
    BY <2>1, ProcureAssumption, QuantityIsTotal
  <2>3. QuantityOf(receipt, Receipts) = 0 /\ QuantityOf(invoice, Invoices) = 0
    BY <2>1, <2>2, ProcureAssumption, TotalZero DEF QuantityTerms
  <2> QED
    BY <2>1, <2>3 DEF OrderCounts
<1>4. PaymentsWithin
  <2>1. ASSUME NEW i \in Invoices
        PROVE  HeldBy(payment, Committed(i)) <= invoice[i].total
    <3>1. Committed(i) = {} /\ invoice[i].total = 0
      BY DEF Committed, ProcureInit, NoPayment, NoInvoice
    <3> QED
      BY <3>1, HeldNone
  <2> QED
    BY <2>1 DEF PaymentsWithin, ProcureInit, PaymentEligible, NoPayment
<1> QED
  BY <1>1, <1>2, <1>3, <1>4 DEF ProcureInv

(* Sourcing moves no goods and no money. *)
LEMMA SourcingStep ==
    ASSUME ProcureInv, Sourcing, UNCHANGED <<order, goodsVars, payableVars>>
    PROVE  ProcureInv'
<1> USE DEF goodsVars, payableVars
<1>1. /\ OrderCounts' /\ PaymentsWithin'
      /\ order' = order /\ receipt' = receipt /\ layer' = layer /\ dock' = dock /\ shelf' = shelf
      /\ landedCost' = landedCost /\ invoice' = invoice /\ match' = match /\ payment' = payment
  BY DEF ProcureInv, OrderCounts, PaymentsWithin, Committed, PaymentEligible
<1>2. /\ supplier' \in [Suppliers -> {"none", "pending", "approved", "rejected"}]
      /\ requisition' \in {"none", "submitted", "approved", "rejected", "converted"}
      /\ rfq' \in [status : {"none", "draft", "issued", "awarded"}, addressed : SUBSET Suppliers]
      /\ quote' \in [Suppliers -> {"none", "submitted", "awarded", "lost"}]
  BY DEF ProcureInv, ProcureTypeOK, Sourcing, CreateSupplier, RecordSupplierQuotation, AwardRfq,
         DecideSupplier, CreatePurchaseRequisition, IssueRfq, DecidePurchaseRequisition,
         CreateRfqFromRequisition, Decisions
<1>3. ProcureTypeOK'
  BY <1>1, <1>2 DEF ProcureInv, ProcureTypeOK
<1>4. OrderIsBacked'
  BY <1>1 DEF ProcureInv, OrderIsBacked, ProcureTypeOK, Sourcing, CreateSupplier,
         RecordSupplierQuotation, AwardRfq, DecideSupplier, CreatePurchaseRequisition, IssueRfq,
         DecidePurchaseRequisition, CreateRfqFromRequisition, Decisions
<1> QED
  BY <1>1, <1>3, <1>4 DEF ProcureInv

(* The order is made of an award, and decided. *)
LEMMA OrderStepInv ==
    ASSUME ProcureInv,
           \/ \E s \in Suppliers : CreatePurchaseOrderFromRfq(s)
           \/ \E decision \in Decisions : DecidePurchaseOrder(decision)
    PROVE  ProcureInv'
<1> USE DEF sourcingVars, goodsVars, payableVars
<1>1. /\ PaymentsWithin'
      /\ supplier' = supplier /\ requisition' = requisition /\ rfq' = rfq /\ quote' = quote
      /\ receipt' = receipt /\ layer' = layer /\ dock' = dock /\ shelf' = shelf
      /\ landedCost' = landedCost /\ invoice' = invoice /\ match' = match /\ payment' = payment
  BY DEF ProcureInv, PaymentsWithin, Committed, PaymentEligible, CreatePurchaseOrderFromRfq,
         DecidePurchaseOrder
<1>2. /\ order' \in OrderRecord /\ order'.received = order.received
      /\ order'.invoiced = order.invoiced
      /\ order.received = 0 /\ order'.supplier \in Suppliers
      /\ order.status = "none" \/ order'.supplier = order.supplier
  <2>0. /\ order \in OrderRecord /\ order.status \in {"none", "submitted"}
        /\ order.invoiced <= order.received
    BY DEF ProcureInv, ProcureTypeOK, OrderCounts, CreatePurchaseOrderFromRfq, DecidePurchaseOrder
  <2>1. order \in OrderRecord /\ order.received = 0 /\ order.invoiced = 0
    BY <2>0, ProcureAssumption DEF ProcureInv, OrderIsBacked, OrderRecord, Shares
  <2>2. CASE \E s \in Suppliers : CreatePurchaseOrderFromRfq(s)
    BY <2>1, <2>2, ProcureAssumption
    DEF CreatePurchaseOrderFromRfq, NoOrder, OrderRecord, Shares
  <2>3. CASE \E decision \in Decisions : DecidePurchaseOrder(decision)
    BY <2>1, <2>3 DEF DecidePurchaseOrder, OrderRecord, Decisions, ProcureInv, OrderIsBacked
  <2> QED
    BY <2>2, <2>3
<1>3. ProcureTypeOK'
  BY <1>1, <1>2 DEF ProcureInv, ProcureTypeOK
<1>4. OrderIsBacked'
  <2>1. CASE \E s \in Suppliers : CreatePurchaseOrderFromRfq(s)
    BY <1>1, <1>2, <2>1
    DEF ProcureInv, OrderIsBacked, CreatePurchaseOrderFromRfq, NoOrder, Approved
  <2>2. CASE \E decision \in Decisions : DecidePurchaseOrder(decision)
    BY <1>1, <1>2, <2>2 DEF ProcureInv, OrderIsBacked, DecidePurchaseOrder
  <2> QED
    BY <2>1, <2>2
<1>5. OrderCounts'
  BY <1>1, <1>2 DEF ProcureInv, OrderCounts
<1> QED
  BY <1>1, <1>3, <1>4, <1>5 DEF ProcureInv

(* Goods come in within the order and are counted once. *)
LEMMA GoodsReceived ==
    ASSUME ProcureInv, NEW g \in Receipts, NEW q \in Quantities,
           RecordGoodsReceipt(g, q)
    PROVE  ProcureInv'
<1> USE DEF sourcingVars, payableVars
<1> DEFINE received == order.received + q
<1>1. /\ order \in OrderRecord /\ receipt \in [Receipts -> ReceiptRecord]
      /\ order.received \in Nat /\ q \in Nat /\ received \in Shares
      /\ layer \in [Receipts -> Shares] /\ q \in Shares /\ dock + q \in Nat
      /\ order.supplier \in Suppliers /\ order.status # "none"
  BY ProcureAssumption DEF ProcureInv, ProcureTypeOK, OrderIsBacked, OrderRecord, Shares,
     Quantities, RecordGoodsReceipt
<1>2. /\ receipt' = [receipt EXCEPT ![g] = [status |-> "cost-pending", quantity |-> q]]
      /\ order' = [order EXCEPT !.received = received,
                     !.status = IF received = Required THEN "received" ELSE "partially-received"]
      /\ layer' = [layer EXCEPT ![g] = q] /\ dock' = dock + q /\ shelf' = shelf
      /\ landedCost' = landedCost /\ invoice' = invoice /\ match' = match /\ payment' = payment
      /\ supplier' = supplier /\ requisition' = requisition /\ rfq' = rfq /\ quote' = quote
      /\ receipt[g].status = "none"
  BY DEF RecordGoodsReceipt
<1>3. /\ order' \in OrderRecord /\ order'.supplier = order.supplier
      /\ order'.received = received /\ order'.invoiced = order.invoiced
      /\ order'.status \in {"partially-received", "received"}
  <2> HIDE DEF received
  <2> QED
    BY <1>1, <1>2 DEF OrderRecord
<1>4. receipt' \in [Receipts -> ReceiptRecord] /\ layer' \in [Receipts -> Shares]
  BY <1>1, <1>2 DEF ReceiptRecord
<1>5. ProcureTypeOK'
  BY <1>1, <1>2, <1>3, <1>4 DEF ProcureInv, ProcureTypeOK
<1>6. OrderIsBacked'
  BY <1>2, <1>3, <1>1 DEF ProcureInv, OrderIsBacked
<1>7. PaymentsWithin'
  BY <1>2 DEF ProcureInv, PaymentsWithin, Committed, PaymentEligible
<1>8. OrderCounts'
  <2>1. /\ QuantityOf(receipt', Receipts) =
             QuantityOf(receipt, Receipts) - receipt[g].quantity + receipt'[g].quantity
        /\ QuantityOf(receipt, Receipts) \in Int
    <3>1. /\ \A x \in Receipts : receipt[x].quantity \in Int /\ receipt'[x].quantity \in Int
          /\ \A x \in Receipts : x # g => receipt'[x].quantity = receipt[x].quantity
      BY <1>1, <1>2, <1>4, ProcureAssumption DEF ReceiptRecord, Shares
    <3> QED
      BY <3>1, ProcureAssumption, QuantityChange
  <2>2. receipt[g].quantity = 0 /\ receipt'[g].quantity = q
    BY <1>1, <1>2 DEF ProcureInv, OrderCounts
  <2>3. /\ order.received = QuantityOf(receipt, Receipts)
        /\ order'.invoiced = QuantityOf(invoice', Invoices)
        /\ order.invoiced <= order.received /\ order.invoiced \in Nat
    BY <1>1, <1>2, <1>3, ProcureAssumption DEF ProcureInv, OrderCounts, OrderRecord, Shares
  <2>4. order'.received = QuantityOf(receipt', Receipts) /\ order'.invoiced <= order'.received
    BY <1>1, <1>3, <2>1, <2>2, <2>3
  <2>5. \A x \in Receipts : receipt'[x].status = "none" => receipt'[x].quantity = 0
    BY <1>1, <1>2 DEF ProcureInv, OrderCounts
  <2> QED
    BY <2>3, <2>4, <2>5 DEF OrderCounts
<1> QED
  BY <1>5, <1>6, <1>7, <1>8 DEF ProcureInv

(* Putaways, issues and landed costs move nothing that was counted. *)
LEMMA GoodsHandled ==
    ASSUME ProcureInv,
           \/ \E g \in Receipts : Consume(g) \/ \E c \in Costs : CreateLandedCost(c, g)
           \/ \E q \in Quantities : Putaway(q)
           \/ \E c \in Costs, decision \in Decisions : DecideLandedCost(c, decision)
    PROVE  ProcureInv'
<1> USE DEF sourcingVars, payableVars
<1>1. /\ order' = order /\ invoice' = invoice /\ match' = match /\ payment' = payment
      /\ supplier' = supplier /\ requisition' = requisition /\ rfq' = rfq /\ quote' = quote
  BY DEF Consume, CreateLandedCost, Putaway, DecideLandedCost
<1>2. /\ receipt' \in [Receipts -> ReceiptRecord]
      /\ \A g \in Receipts : receipt'[g].quantity = receipt[g].quantity
      /\ \A g \in Receipts : receipt'[g].status = "none" => receipt[g].status = "none"
      /\ layer' \in [Receipts -> Shares] /\ dock' \in Nat /\ shelf' \in Nat
      /\ landedCost' \in [Costs -> CostRecord]
  <2>0. /\ receipt \in [Receipts -> ReceiptRecord] /\ layer \in [Receipts -> Shares]
        /\ dock \in Nat /\ shelf \in Nat /\ landedCost \in [Costs -> CostRecord]
        /\ Required \in Nat
    BY ProcureAssumption DEF ProcureInv, ProcureTypeOK
  <2>1. ASSUME NEW g \in Receipts, Consume(g)
        PROVE  /\ layer' \in [Receipts -> Shares] /\ dock' \in Nat /\ shelf' \in Nat
               /\ receipt' = receipt /\ landedCost' = landedCost
    BY <2>0, <2>1 DEF Consume, Shares
  <2>2. ASSUME NEW g \in Receipts, NEW c \in Costs, CreateLandedCost(c, g)
        PROVE  /\ landedCost' \in [Costs -> CostRecord]
               /\ receipt' = receipt /\ layer' = layer /\ dock' = dock /\ shelf' = shelf
    BY <2>0, <2>2 DEF CreateLandedCost, CostRecord
  <2>3. ASSUME NEW q \in Quantities, Putaway(q)
        PROVE  /\ dock' \in Nat /\ shelf' \in Nat
               /\ receipt' = receipt /\ landedCost' = landedCost /\ layer' = layer
    BY <2>0, <2>3 DEF Putaway, Quantities
  <2>4. ASSUME NEW c \in Costs, NEW decision \in Decisions, DecideLandedCost(c, decision)
        PROVE  /\ receipt' \in [Receipts -> ReceiptRecord]
               /\ \A g \in Receipts : receipt'[g].quantity = receipt[g].quantity
               /\ \A g \in Receipts : receipt'[g].status = "none" => receipt[g].status = "none"
               /\ landedCost' \in [Costs -> CostRecord]
               /\ layer' = layer /\ dock' = dock /\ shelf' = shelf
    <3>1. /\ landedCost' = [landedCost EXCEPT ![c].status = decision]
          /\ layer' = layer /\ dock' = dock /\ shelf' = shelf
          /\ \/ receipt' = receipt
             \/ receipt' = [receipt EXCEPT ![landedCost[c].receipt].status = "costed"]
      BY <2>4 DEF DecideLandedCost
    <3>2. landedCost' \in [Costs -> CostRecord]
      BY <2>0, <3>1 DEF CostRecord, Decisions
    <3>3. CASE receipt' = [receipt EXCEPT ![landedCost[c].receipt].status = "costed"]
      <4>1. ASSUME NEW g \in Receipts
            PROVE  receipt'[g] \in {receipt[g], [receipt[g] EXCEPT !.status = "costed"]}
        BY <2>0, <3>3
      <4>2. receipt' = [g \in Receipts |-> receipt'[g]]
        BY <2>0, <3>3
      <4>3. ASSUME NEW g \in Receipts
            PROVE  /\ receipt'[g] \in ReceiptRecord /\ receipt'[g].quantity = receipt[g].quantity
                   /\ receipt'[g].status = "none" => receipt[g].status = "none"
        BY <2>0, <4>1 DEF ReceiptRecord
      <4> QED
        BY <3>1, <3>2, <4>2, <4>3
    <3> QED
      BY <2>0, <3>1, <3>2, <3>3
  <2> QED
    BY <2>0, <2>1, <2>2, <2>3, <2>4
<1>5. ProcureTypeOK' /\ OrderIsBacked'
  BY <1>1, <1>2 DEF ProcureInv, ProcureTypeOK, OrderIsBacked
<1>6. PaymentsWithin'
  BY <1>1 DEF ProcureInv, PaymentsWithin, Committed, PaymentEligible
<1>7. OrderCounts'
  <2>1. \A g \in Receipts : receipt[g].quantity \in Int
    BY ProcureAssumption DEF ProcureInv, ProcureTypeOK, ReceiptRecord, Shares
  <2>2. QuantityOf(receipt', Receipts) = QuantityOf(receipt, Receipts)
    BY <1>2, <2>1, ProcureAssumption, QuantitySame
  <2> QED
    BY <1>1, <1>2, <2>2 DEF ProcureInv, OrderCounts
<1> QED
  BY <1>5, <1>6, <1>7 DEF ProcureInv

(* What every step that pays leaves alone. *)
LEMMA PayingFrame ==
    ASSUME ProcureInv, UNCHANGED <<sourcingVars, goodsVars>>
    PROVE  /\ supplier' = supplier /\ requisition' = requisition /\ rfq' = rfq /\ quote' = quote
           /\ receipt' = receipt /\ layer' = layer /\ dock' = dock /\ shelf' = shelf
           /\ landedCost' = landedCost
           /\ QuantityOf(receipt', Receipts) = QuantityOf(receipt, Receipts)
           /\ IsFiniteSet(Payments) /\ IsFiniteSet(Invoices) /\ Required \in Nat
           /\ payment \in [Payments -> PaymentRecord] /\ invoice \in [Invoices -> InvoiceRecord]
           /\ \A p \in Payments : payment[p].amount \in Nat
           /\ \A i \in Invoices : IsFiniteSet(Committed(i)) /\ invoice[i].total \in Nat
<1>1. /\ payment \in [Payments -> PaymentRecord] /\ invoice \in [Invoices -> InvoiceRecord]
      /\ IsFiniteSet(Payments) /\ IsFiniteSet(Invoices) /\ Required \in Nat
  BY ProcureAssumption DEF ProcureInv, ProcureTypeOK
<1>2. \A i \in Invoices : Committed(i) \in SUBSET Payments
  BY DEF Committed
<1>3. \A i \in Invoices : IsFiniteSet(Committed(i))
  BY <1>1, <1>2, FS_Subset
<1> QED
  BY <1>1, <1>3 DEF sourcingVars, goodsVars, PaymentRecord, InvoiceRecord

(* An invoice is for goods received and not yet invoiced; no payment can   *)
(* have been proposed on it.                                               *)
LEMMA InvoiceRecorded ==
    ASSUME ProcureInv, NEW i \in Invoices, NEW q \in Quantities, NEW price \in Prices,
           RecordSupplierInvoice(i, q, price)
    PROVE  ProcureInv'
<1> DEFINE invoiced == order.invoiced + q
<1>0. UNCHANGED <<sourcingVars, goodsVars>> /\ payment' = payment
  BY DEF RecordSupplierInvoice
<1> USE PayingFrame, <1>0
<1>1. /\ order \in OrderRecord /\ order.received \in Nat /\ order.invoiced \in Nat
      /\ q \in Nat /\ q > 0 /\ price \in Nat /\ q \in Shares /\ order.received <= Required
      /\ q <= order.received - order.invoiced /\ match \in [Invoices ->
           {"none", "matched", "variance-review", "approved", "rejected"}]
  BY ProcureAssumption DEF ProcureInv, ProcureTypeOK, OrderRecord, Shares, Quantities,
     RecordSupplierInvoice, Uninvoiced
<1>2. /\ invoice' = [invoice EXCEPT ![i] = [quantity |-> q, total |-> q * price]]
      /\ match' = [match EXCEPT ![i] = IF q = Required /\ price = 1 THEN "matched"
                                       ELSE "variance-review"]
      /\ order' = [order EXCEPT !.invoiced = invoiced]
      /\ invoice[i] = NoInvoice
  BY DEF RecordSupplierInvoice
<1>3. invoiced \in Shares /\ invoiced <= order.received
  BY <1>1 DEF Shares
<1> HIDE DEF invoiced
<1>4. /\ order' \in OrderRecord /\ order'.invoiced = invoiced
      /\ order'.received = order.received /\ order'.status = order.status
      /\ order'.supplier = order.supplier
  BY <1>1, <1>2, <1>3 DEF OrderRecord
<1>5. q * price \in Nat
  BY <1>1
<1>6. invoice' \in [Invoices -> InvoiceRecord]
  BY <1>1, <1>2, <1>5 DEF InvoiceRecord
<1>7. ProcureTypeOK'
  <2>1. match' \in [Invoices -> {"none", "matched", "variance-review", "approved", "rejected"}]
    BY <1>1, <1>2
  <2> QED
    BY <1>4, <1>6, <2>1 DEF ProcureInv, ProcureTypeOK
<1>8. OrderIsBacked'
  BY <1>4 DEF ProcureInv, OrderIsBacked
<1>9. OrderCounts'
  <2>1. /\ \A x \in Invoices : invoice[x].quantity \in Int /\ invoice'[x].quantity \in Int
        /\ \A x \in Invoices : x # i => invoice'[x].quantity = invoice[x].quantity
        /\ invoice[i].quantity = 0 /\ invoice'[i].quantity = q
    BY <1>2, <1>6 DEF InvoiceRecord, NoInvoice, Shares
  <2>2. /\ QuantityOf(invoice', Invoices) =
             QuantityOf(invoice, Invoices) - invoice[i].quantity + invoice'[i].quantity
        /\ QuantityOf(invoice, Invoices) \in Int
    BY <2>1, QuantityChange
  <2>3. order'.invoiced = QuantityOf(invoice', Invoices)
    BY <1>1, <1>4, <2>1, <2>2 DEF ProcureInv, OrderCounts, invoiced
  <2> QED
    BY <1>3, <1>4, <2>3 DEF ProcureInv, OrderCounts
<1>10. PaymentsWithin'
  <2>1. \A p \in Payments : payment[p].status # "none" => payment[p].invoice # i
    BY <1>2 DEF ProcureInv, PaymentsWithin, PaymentEligible
  <2>2. \A x \in Invoices : x # i => match'[x] = match[x] /\ invoice'[x] = invoice[x]
    BY <1>1, <1>2
  <2>3. invoice'[i] # NoInvoice
    BY <1>1, <1>2 DEF NoInvoice
  <2>4. ASSUME NEW x \in Invoices
        PROVE  HeldBy(payment', Committed(x)') <= invoice'[x].total
    <3>1. Committed(x)' = Committed(x)
      BY DEF Committed
    <3>2. CASE x = i
      <4>1. Committed(i) = {}
        BY <2>1 DEF Committed
      <4>2. HeldBy(payment', Committed(x)') = 0
        BY <3>1, <3>2, <4>1, HeldNone
      <4> QED
        BY <1>2, <1>5, <3>2, <4>2
    <3> QED
      BY <2>2, <3>1, <3>2 DEF ProcureInv, PaymentsWithin
  <2>5. \A x \in Invoices : match'[x] # "none" => invoice'[x] # NoInvoice
    BY <2>2, <2>3 DEF ProcureInv, PaymentsWithin
  <2>6. \A p \in Payments : payment[p].status # "none" =>
          payment[p].invoice \in Invoices /\ PaymentEligible(payment[p].invoice)'
    BY <2>1, <2>2 DEF ProcureInv, PaymentsWithin, PaymentEligible
  <2> QED
    BY <2>4, <2>5, <2>6 DEF PaymentsWithin, PaymentEligible
<1> QED
  BY <1>7, <1>8, <1>9, <1>10 DEF ProcureInv

LEMMA MatchDecided ==
    ASSUME ProcureInv, NEW i \in Invoices, NEW decision \in Decisions,
           DecideThreeWayMatch(i, decision)
    PROVE  ProcureInv'
<1>0. /\ UNCHANGED <<sourcingVars, goodsVars>> /\ payment' = payment /\ invoice' = invoice
      /\ order' = order /\ match[i] = "variance-review" /\ decision \in {"approved", "rejected"}
      /\ match' = [match EXCEPT ![i] = decision]
  BY DEF DecideThreeWayMatch, Decisions
<1> USE PayingFrame, <1>0
<1>1. match \in [Invoices -> {"none", "matched", "variance-review", "approved", "rejected"}]
  BY DEF ProcureInv, ProcureTypeOK
<1>2. ProcureTypeOK' /\ OrderIsBacked' /\ OrderCounts'
  BY <1>1 DEF ProcureInv, ProcureTypeOK, OrderIsBacked, OrderCounts
<1>3. PaymentsWithin'
  <2>1. \A x \in Invoices : /\ PaymentEligible(x) => PaymentEligible(x)'
                            /\ match'[x] # "none" => match[x] # "none"
                            /\ Committed(x)' = Committed(x)
    BY <1>1 DEF PaymentEligible, Committed
  <2> QED
    BY <2>1 DEF ProcureInv, PaymentsWithin, PaymentEligible
<1> QED
  BY <1>2, <1>3 DEF ProcureInv

(* A part of some records that keep their amounts holds no more.           *)
LEMMA HeldByFewer ==
    ASSUME NEW z, NEW w, NEW D, IsFiniteSet(D), \A y \in D : z[y].amount \in Nat,
           \A y \in D : w[y].amount = z[y].amount,
           NEW S \in SUBSET D, NEW T \in SUBSET S
    PROVE  HeldBy(w, T) <= HeldBy(z, S)
<1>1. /\ IsFiniteSet(S) /\ IsFiniteSet(T) /\ IsFiniteSet(S \ T)
      /\ T \cup (S \ T) = S /\ T \cap (S \ T) = {}
  BY FS_Subset
<1>2. HeldBy(z, S) = HeldBy(z, T) + HeldBy(z, S \ T)
  <2>1. \A y \in T \cup (S \ T) : z[y].amount \in Nat
    OBVIOUS
  <2>2. HeldBy(z, T \cup (S \ T)) = HeldBy(z, T) + HeldBy(z, S \ T)
    BY <1>1, <2>1, HeldApart
  <2> QED
    BY <1>1, <2>2
<1>3. HeldBy(z, T) \in Nat /\ HeldBy(z, S \ T) \in Nat
  <2>1. (\A y \in T : z[y].amount \in Nat) /\ (\A y \in S \ T : z[y].amount \in Nat)
    OBVIOUS
  <2> QED
    BY <1>1, <2>1, HeldIsTotal
<1>4. HeldBy(w, T) = HeldBy(z, T)
  <2>1. (\A y \in T : z[y].amount \in Nat) /\ (\A y \in T : w[y].amount = z[y].amount)
    OBVIOUS
  <2> QED
    BY <1>1, <2>1, HeldSame
<1> QED
  BY <1>2, <1>3, <1>4

(* A proposal is for what no live payment of the invoice has taken.        *)
LEMMA PaymentProposed ==
    ASSUME ProcureInv, NEW p \in Payments, NEW i \in Invoices,
           NEW amount \in 1 .. invoice[i].total, CreatePaymentProposal(p, i, amount)
    PROVE  ProcureInv'
<1> DEFINE before == HeldBy(payment, Committed(i))
<1>0. UNCHANGED <<sourcingVars, goodsVars>> /\ invoice' = invoice /\ match' = match
      /\ order' = order
  BY DEF CreatePaymentProposal
<1> USE PayingFrame, <1>0
<1>1. /\ payment' = [payment EXCEPT ![p] =
             [status |-> "submitted", invoice |-> i, amount |-> amount]]
      /\ payment[p].status = "none" /\ PaymentEligible(i)
      /\ amount <= invoice[i].total - before /\ amount \in Nat
  BY DEF CreatePaymentProposal, AmountOf, HeldBy
<1>2. payment' \in [Payments -> PaymentRecord]
  BY <1>1 DEF PaymentRecord
<1>3. ProcureTypeOK' /\ OrderIsBacked' /\ OrderCounts'
  BY <1>2 DEF ProcureInv, ProcureTypeOK, OrderIsBacked, OrderCounts
<1>4. /\ payment'[p] = [status |-> "submitted", invoice |-> i, amount |-> amount]
      /\ \A y \in Payments : y # p => payment'[y] = payment[y]
  BY <1>1
<1>5. /\ \A x \in Invoices : p \notin Committed(x) /\ Committed(x) \subseteq Payments
      /\ \A x \in Invoices : x # i => Committed(x)' = Committed(x)
      /\ Committed(i)' = Committed(i) \cup {p}
  BY <1>1, <1>4 DEF Committed
<1>6. ASSUME NEW x \in Invoices
      PROVE  HeldBy(payment', Committed(x)) = HeldBy(payment, Committed(x))
             /\ HeldBy(payment, Committed(x)) <= invoice[x].total
             /\ HeldBy(payment, Committed(x)) \in Nat
  <2>1. /\ IsFiniteSet(Committed(x)) /\ \A y \in Committed(x) : payment[y].amount \in Nat
        /\ \A y \in Committed(x) : payment'[y].amount = payment[y].amount
    BY <1>4, <1>5
  <2>2. HeldBy(payment', Committed(x)) = HeldBy(payment, Committed(x))
    BY <2>1, HeldSame
  <2>3. HeldBy(payment, Committed(x)) \in Nat
    BY <2>1, HeldIsTotal
  <2> QED
    BY <2>2, <2>3 DEF ProcureInv, PaymentsWithin
<1>7. HeldBy(payment', Committed(i)') = amount + before
  <2> DEFINE S == Committed(i) \cup {p}
  <2>1. IsFiniteSet(S) /\ p \in S /\ S \ {p} = Committed(i)
    BY <1>5, FS_AddElement
  <2>2. \A y \in S : payment'[y].amount \in Nat
    BY <1>1, <1>4, <1>5
  <2> HIDE DEF S
  <2>3. HeldBy(payment', S) = payment'[p].amount + HeldBy(payment', S \ {p})
    BY <2>1, <2>2, HeldTake
  <2> QED
    <3>1. HeldBy(payment', S \ {p}) = before
      BY <1>6, <2>1
    <3>2. Committed(i)' = S
      BY <1>5 DEF S
    <3> QED
      BY <1>4, <2>3, <3>1, <3>2
<1>8. PaymentsWithin'
  <2>1. ASSUME NEW x \in Invoices
        PROVE  HeldBy(payment', Committed(x)') <= invoice'[x].total
    <3>1. CASE x = i
      BY <1>1, <1>6, <1>7, <3>1
    <3>2. CASE x # i
      BY <1>5, <1>6, <3>2
    <3> QED
      BY <3>1, <3>2
  <2>2. \A y \in Payments : payment'[y].status # "none" =>
          \/ payment'[y].invoice \in Invoices /\ PaymentEligible(payment[y].invoice)
          \/ y = p
    BY <1>4 DEF ProcureInv, PaymentsWithin
  <2> QED
    BY <1>1, <1>4, <2>1, <2>2 DEF ProcureInv, PaymentsWithin, PaymentEligible
<1> QED
  BY <1>3, <1>8 DEF ProcureInv

(* A payment that moves on stays or is no longer counted. *)
LEMMA PaymentMoved ==
    ASSUME ProcureInv, NEW p \in Payments, NEW move \in PaymentMoves,
           MovePayment(p, move[1], move[2])
    PROVE  ProcureInv'
<1>0. UNCHANGED <<sourcingVars, goodsVars>> /\ invoice' = invoice /\ match' = match
      /\ order' = order
  BY DEF MovePayment
<1> USE PayingFrame, <1>0
<1>1. /\ payment' = [payment EXCEPT ![p].status = move[2]]
      /\ payment[p].status \in {"submitted", "approved", "released"}
      /\ move[2] \in {"approved", "rejected", "released", "settled", "failed"}
  BY DEF MovePayment, PaymentMoves
<1>2. payment' \in [Payments -> PaymentRecord]
  BY <1>1 DEF PaymentRecord
<1>3. ProcureTypeOK' /\ OrderIsBacked' /\ OrderCounts'
  BY <1>2 DEF ProcureInv, ProcureTypeOK, OrderIsBacked, OrderCounts
<1>4. /\ \A y \in Payments : /\ payment'[y].invoice = payment[y].invoice
                             /\ payment'[y].amount = payment[y].amount
      /\ \A y \in Payments : y # p => payment'[y] = payment[y]
  BY <1>1 DEF PaymentRecord
<1>5. ASSUME NEW x \in Invoices
      PROVE  HeldBy(payment', Committed(x)') <= invoice'[x].total
  <2>1. PICK T \in SUBSET Payments : T = Committed(x)'
    BY DEF Committed
  <2>2. Committed(x) \in SUBSET Payments
    BY DEF Committed
  <2>3. T \in SUBSET Committed(x)
    <3>1. \A y \in Payments : y # p /\ y \in T => y \in Committed(x)
      BY <1>4, <2>1 DEF Committed
    <3>2. p \in T => p \in Committed(x)
      BY <1>1, <1>4, <2>1 DEF Committed
    <3> QED
      BY <3>1, <3>2
  <2>4. \A y \in Payments : payment'[y].amount = payment[y].amount
    BY <1>4
  <2>5. HeldBy(payment', T) <= HeldBy(payment, Committed(x))
    BY <2>2, <2>3, <2>4, HeldByFewer
  <2>6. HeldBy(payment, Committed(x)) \in Nat /\ HeldBy(payment', T) \in Nat
    <3>1. \A y \in Committed(x) : payment[y].amount \in Nat
      BY <2>2
    <3>2. IsFiniteSet(T) /\ \A y \in T : payment'[y].amount \in Nat
      BY <2>1, <2>4, FS_Subset
    <3> QED
      BY <3>1, <3>2, HeldIsTotal
  <2>7. HeldBy(payment, Committed(x)) <= invoice[x].total
    BY DEF ProcureInv, PaymentsWithin
  <2> QED
    BY <2>1, <2>5, <2>6, <2>7
<1>6. PaymentsWithin'
  <2>1. \A y \in Payments : payment'[y].status # "none" => payment[y].status # "none"
    BY <1>1, <1>4
  <2> QED
    BY <1>4, <1>5, <2>1 DEF ProcureInv, PaymentsWithin, PaymentEligible
<1> QED
  BY <1>3, <1>6 DEF ProcureInv

LEMMA ProcureStep ==
    ASSUME ProcureInv, [ProcureNext]_procureVars
    PROVE  ProcureInv'
<1>1. CASE Sourcing /\ UNCHANGED <<order, goodsVars, payableVars>>
  BY <1>1, SourcingStep
<1>2. ASSUME NEW s \in Suppliers, CreatePurchaseOrderFromRfq(s)
      PROVE  ProcureInv'
  BY <1>2, OrderStepInv
<1>3. ASSUME NEW decision \in Decisions, DecidePurchaseOrder(decision)
      PROVE  ProcureInv'
  BY <1>3, OrderStepInv
<1>4. CASE Receiving
  <2>1. ASSUME NEW g \in Receipts, NEW q \in Quantities, RecordGoodsReceipt(g, q)
        PROVE  ProcureInv'
    BY <2>1, GoodsReceived
  <2>2. ASSUME \/ \E g \in Receipts : Consume(g) \/ \E c \in Costs : CreateLandedCost(c, g)
               \/ \E q \in Quantities : Putaway(q)
               \/ \E c \in Costs, decision \in Decisions : DecideLandedCost(c, decision)
        PROVE  ProcureInv'
    BY <2>2, GoodsHandled
  <2> QED
    BY <1>4, <2>1, <2>2 DEF Receiving
<1>5. CASE Paying
  <2>1. ASSUME NEW i \in Invoices, NEW q \in Quantities, NEW price \in Prices,
               RecordSupplierInvoice(i, q, price)
        PROVE  ProcureInv'
    BY <2>1, InvoiceRecorded
  <2>2. ASSUME NEW i \in Invoices, NEW decision \in Decisions, DecideThreeWayMatch(i, decision)
        PROVE  ProcureInv'
    BY <2>2, MatchDecided
  <2>3. ASSUME NEW i \in Invoices, NEW p \in Payments, NEW amount \in 1 .. invoice[i].total,
               CreatePaymentProposal(p, i, amount)
        PROVE  ProcureInv'
    BY <2>3, PaymentProposed
  <2>4. ASSUME NEW p \in Payments, NEW move \in PaymentMoves, MovePayment(p, move[1], move[2])
        PROVE  ProcureInv'
    BY <2>4, PaymentMoved
  <2> QED
    BY <1>5, <2>1, <2>2, <2>3, <2>4 DEF Paying
<1>6. CASE UNCHANGED procureVars
  BY <1>6 DEF procureVars, sourcingVars, goodsVars, payableVars, ProcureInv, ProcureTypeOK,
              OrderIsBacked, OrderCounts, PaymentsWithin, Committed, PaymentEligible
<1> QED
  BY <1>1, <1>2, <1>3, <1>4, <1>5, <1>6 DEF ProcureNext

LEMMA ProcureInductive == ProcureSpec => []ProcureInv
<1>1. ProcureInit => ProcureInv
  BY ProcureInitially
<1>2. ProcureInv /\ [ProcureNext]_procureVars => ProcureInv'
  BY ProcureStep
<1> QED
  BY <1>1, <1>2, PTL DEF ProcureSpec

(* However many suppliers, receipts, invoices and payments there are, the  *)
(* records of a purchase keep the shape its handlers give them.            *)
THEOREM ProcureTypeCorrect == ProcureSpec => []ProcureTypeOK
<1>1. ProcureInv => ProcureTypeOK
  BY DEF ProcureInv
<1> QED
  BY <1>1, ProcureInductive, PTL

(* The live payments of an invoice stay within it and it was accepted, the *)
(* invoices within the receipts, and the receipts within an approved order *)
(* of the supplier that was approved and won.                              *)
THEOREM SupplierPaymentsAreBacked == ProcureSpec => []PaymentsAreBacked
<1>1. ASSUME ProcureInv PROVE PaymentsAreBacked
  <2>1. /\ order \in OrderRecord /\ Required \in Nat
        /\ order.received \in Nat /\ order.invoiced \in Nat /\ order.received <= Required
    BY <1>1, ProcureAssumption DEF ProcureInv, ProcureTypeOK, OrderRecord, Shares
  <2>2. Invoiced = order.invoiced /\ Received = order.received
    BY <1>1 DEF ProcureInv, OrderCounts, Invoiced, Received, QuantityOf
  <2>3. ASSUME NEW i \in Invoices, Committed(i) # {}
        PROVE  PaymentEligible(i) /\ AmountOf(Committed(i)) <= invoice[i].total
    <3>1. PICK p \in Payments : payment[p].invoice = i /\ payment[p].status # "none"
      BY <2>3 DEF Committed
    <3>2. AmountOf(Committed(i)) = HeldBy(payment, Committed(i))
      BY DEF AmountOf, HeldBy
    <3> QED
      BY <1>1, <3>1, <3>2 DEF ProcureInv, PaymentsWithin
  <2> QED
    BY <1>1, <2>1, <2>2, <2>3 DEF ProcureInv, OrderCounts, OrderIsBacked, PaymentsAreBacked
<1> QED
  BY <1>1, ProcureInductive, PTL
=============================================================================
