--------------------------- MODULE LeadConversion ---------------------------
(***************************************************************************)
(* A lead becomes an account and a contact: the partyConvertLead and       *)
(* crmDepthCommitImport handlers of src/main/ipc.ts, each of which writes  *)
(* two documents one after the other, over the CRM document (leads), the   *)
(* party document (PartyMaster) and the import job of the CRM depth        *)
(* document.  There is no transaction around the two writes: the process   *)
(* may stop between them, a write may fail, another window may do the same *)
(* or merge the records meanwhile.                                         *)
(*                                                                         *)
(* A handler is a call of a window: it reads, queues its first write,      *)
(* and when that is answered queues its second.  What a queued task does   *)
(* is one step, since each store runs one task at a time.                  *)
(***************************************************************************)
EXTENDS PartyMaster

CONSTANTS
    Windows,
    MaxCrashes    \* bound on the process stopping

VARIABLES
    lead, leadDisk,   \* CrmStore.state.leads, in memory and stored
    job, jobDisk,     \* one lead import of CrmDepthStore, likewise
    call,             \* the handler each window waits for
    crashes           \* history: times the process stopped

crmVars == <<lead, leadDisk>>
jobVars == <<job, jobDisk>>
conversionVars == <<partyVars, crmVars, jobVars, call, crashes>>

NoLead == [status |-> "none", email |-> None, account |-> None, contact |-> None]
NoJob == [status |-> "none", rows |-> {}]
NoCall == [step |-> "idle", lead |-> None, account |-> None, refs |-> NoConversion]

ConversionInit ==
    /\ PartyInit
    /\ lead = [l \in Leads |-> NoLead] /\ leadDisk = lead
    /\ job = NoJob /\ jobDisk = NoJob
    /\ call = [w \in Windows |-> NoCall]
    /\ crashes = 0

(* enqueue and persist of CrmStore; mutate of CrmDepthStore.               *)
LeadsStored(new) == lead' = new /\ leadDisk' = new /\ UNCHANGED lostWrites
LeadsWriteLost(new) ==
    /\ lostWrites < MaxLostWrites
    /\ lead' = new /\ lostWrites' = lostWrites + 1 /\ UNCHANGED leadDisk
JobStored(new) == job' = new /\ jobDisk' = new /\ UNCHANGED lostWrites
JobWriteLost(new) ==
    /\ lostWrites < MaxLostWrites
    /\ job' = new /\ lostWrites' = lostWrites + 1 /\ UNCHANGED jobDisk

-----------------------------------------------------------------------------
(* addLead: only a lead that is not converted yet keeps its address to     *)
(* itself.                                                                 *)
Added(leads, l, e) == [leads EXCEPT ![l] = [NoLead EXCEPT !.status = "new", !.email = e]]

AddLead(l, e) ==
    /\ lead[l].status = "none"
    /\ ~ \E k \in Leads : lead[k].email = e /\ lead[k].status # "converted"
    /\ LeadsStored(Added(lead, l, e)) \/ LeadsWriteLost(Added(lead, l, e))
    /\ UNCHANGED <<party, partyDisk, jobVars, call, crashes>>

(* convertLead of crm.ts. *)
Converted(leads, l, refs) ==
    [leads EXCEPT ![l] = [@ EXCEPT !.status = "converted",
         !.account = refs.account, !.contact = refs.contact]]

AlreadyConverted(l, refs) ==
    /\ lead[l].status = "converted"
    /\ lead[l].account = refs.account /\ lead[l].contact = refs.contact

-----------------------------------------------------------------------------
Answered(w, result) == call' = [call EXCEPT ![w] = [NoCall EXCEPT !.step = result]]
Waiting(w) == call[w].step \in {"idle", "done", "failed"}

(* partyConvertLead up to its first await.  account None asks for a new    *)
(* account.  A lead that is converted already may be converted again.      *)
StartConversion(w, l, account) ==
    /\ Waiting(w)
    /\ lead[l].status # "none"
    /\ call' = [call EXCEPT ![w] = [NoCall EXCEPT !.step = "party", !.lead = l,
                                     !.account = account]]
    /\ UNCHANGED <<partyVars, crmVars, jobVars, crashes>>

(* convertLeadToParty once its account is settled: the active contact with *)
(* the lead's address, or a new one.                                       *)
ConvertedIn(p, l, account) ==
    LET e == lead[l].email
        known == {c \in ActiveContacts(p) : p.contact[c].email = e}
        fresh == {c \in Contacts : p.contact[c].status = "none"}
        Recorded(q, c) == [q EXCEPT !.conversion[l] = [account |-> account, contact |-> c]]
    IN  IF known # {} THEN {Recorded(p, c) : c \in known}
        ELSE IF EmailTaken(p, e) THEN {}
        ELSE {Recorded(WithContact(p, c, account, e), c) : c \in fresh}

(* Mutant: a conversion made before is not looked up. *)
ConvertLeadToPartyAgain(w) ==
    LET l == call[w].lead  a == call[w].account
    IN  IF a # None
        THEN IF party.account[a] = "active" THEN ConvertedIn(party, l, a) ELSE {}
        ELSE UNION {ConvertedIn(WithAccount(party, b), l, b) :
                      b \in {b \in Accounts : party.account[b] = "none"}}

(* What the party document may become; nothing when the command throws.    *)
ConvertLeadToParty(w) ==
    LET l == call[w].lead  a == call[w].account
    IN  IF party.conversion[l] # NoConversion THEN {party}
        ELSE IF a # None
        THEN IF party.account[a] = "active" THEN ConvertedIn(party, l, a) ELSE {}
        ELSE UNION {ConvertedIn(WithAccount(party, b), l, b) :
                      b \in {b \in Accounts : party.account[b] = "none"}}

(* PartyStore.convertLead, and the handler going on with what it returns.  *)
PartyConverts(w) ==
    /\ call[w].step = "party"
    /\ \/ \E new \in ConvertLeadToParty(w) :
            \/ /\ PartyStored(new)
               /\ call' = [call EXCEPT ![w].step = "crm",
                                        ![w].refs = new.conversion[call[w].lead]]
            \/ PartyWriteLost(new) /\ Answered(w, "failed")
       \/ /\ ConvertLeadToParty(w) = {}
          /\ Answered(w, "failed")
          /\ UNCHANGED partyVars
    /\ UNCHANGED <<crmVars, jobVars, crashes>>

(* CrmStore.markLeadConverted. *)
CrmMarksConverted(w) ==
    LET l == call[w].lead  refs == call[w].refs
        new == IF AlreadyConverted(l, refs) THEN lead ELSE Converted(lead, l, refs)
    IN  /\ call[w].step = "crm"
        /\ IF lead[l].status = "converted" /\ ~ AlreadyConverted(l, refs)
           THEN Answered(w, "failed") /\ UNCHANGED <<crmVars, lostWrites>>
           ELSE \/ LeadsStored(new) /\ Answered(w, "done")
                \/ LeadsWriteLost(new) /\ Answered(w, "failed")
        /\ UNCHANGED <<party, partyDisk, jobVars, crashes>>

-----------------------------------------------------------------------------
LeadEmails == {lead[l].email : l \in Leads} \ {None}

(* previewLeadImport: rows whose address some lead has are set aside.      *)
PreviewLeadImport(rows) ==
    LET new == [status |-> "preview", rows |-> rows \ LeadEmails]
    IN  /\ job.status = "none"
        /\ JobStored(new) \/ JobWriteLost(new)
        /\ UNCHANGED <<party, partyDisk, crmVars, call, crashes>>

(* crmDepthCommitImport up to its first await. *)
StartImport(w) ==
    /\ Waiting(w)
    /\ job.status = "preview"
    /\ call' = [call EXCEPT ![w] = [NoCall EXCEPT !.step = "import"]]
    /\ UNCHANGED <<partyVars, crmVars, jobVars, crashes>>

(* Mutant: the handler commits the import before the leads are added. *)
ImportSkipping(rows) == {lead}

(* importLeads: a row whose address some lead has by now is skipped; each  *)
(* of the others becomes a lead.                                           *)
WithLeads(place) ==
    [l \in Leads |-> IF \E e \in DOMAIN place : place[e] = l
       THEN [NoLead EXCEPT !.status = "new",
                           !.email = CHOOSE e \in DOMAIN place : place[e] = l]
       ELSE lead[l]]

Imported(rows) ==
    LET fresh == {l \in Leads : lead[l].status = "none"}
        places == {f \in [rows \ LeadEmails -> fresh] :
                     \A d, e \in DOMAIN f : f[d] = f[e] => d = e}
    IN  {WithLeads(f) : f \in places}

CrmImports(w) ==
    /\ call[w].step = "import"
    /\ \E new \in Imported(job.rows) :
         \/ LeadsStored(new) /\ call' = [call EXCEPT ![w].step = "commit"]
         \/ LeadsWriteLost(new) /\ Answered(w, "failed")
    /\ UNCHANGED <<party, partyDisk, jobVars, crashes>>

(* commitImport: an import without an accepted row is refused.             *)
CommitImport(w) ==
    LET new == [job EXCEPT !.status = "committed"]
    IN  /\ call[w].step = "commit"
        /\ IF job.status = "preview" /\ job.rows # {}
           THEN \/ JobStored(new) /\ Answered(w, "done")
                \/ JobWriteLost(new) /\ Answered(w, "failed")
           ELSE Answered(w, "failed") /\ UNCHANGED <<jobVars, lostWrites>>
        /\ UNCHANGED <<party, partyDisk, crmVars, crashes>>

(* The process stops: calls are forgotten, and every store starts from     *)
(* its stored document (initialize of the three stores).                   *)
CrashAndRestart ==
    /\ crashes < MaxCrashes
    /\ crashes' = crashes + 1
    /\ party' = partyDisk /\ lead' = leadDisk /\ job' = jobDisk
    /\ call' = [w \in Windows |-> NoCall]
    /\ UNCHANGED <<partyDisk, leadDisk, jobDisk, lostWrites>>

PartyStep == PartyNext /\ UNCHANGED <<crmVars, jobVars, call, crashes>>

WindowStep(w) ==
    \/ \E l \in Leads, account \in Accounts \cup {None} : StartConversion(w, l, account)
    \/ PartyConverts(w) \/ CrmMarksConverted(w)
    \/ StartImport(w) \/ CrmImports(w) \/ CommitImport(w)

ConversionNext ==
    \/ PartyStep
    \/ \E l \in Leads, e \in Emails : AddLead(l, e)
    \/ \E rows \in SUBSET Emails : PreviewLeadImport(rows)
    \/ \E w \in Windows : WindowStep(w)
    \/ CrashAndRestart

ConversionSpec == ConversionInit /\ [][ConversionNext]_conversionVars

-----------------------------------------------------------------------------
LeadRecord ==
    [status : {"none", "new", "converted"}, email : Emails \cup {None},
     account : Accounts \cup {None}, contact : Contacts \cup {None}]
JobRecord == [status : {"none", "preview", "committed"}, rows : SUBSET Emails]
CallRecord ==
    [step : {"idle", "party", "crm", "import", "commit", "done", "failed"},
     lead : Leads \cup {None}, account : Accounts \cup {None},
     refs : [account : Accounts \cup {None}, contact : Contacts \cup {None}]]

ConversionTypeOK ==
    /\ party \in PartyDocument /\ partyDisk \in PartyDocument
    /\ lead \in [Leads -> LeadRecord] /\ leadDisk \in [Leads -> LeadRecord]
    /\ job \in JobRecord /\ jobDisk \in JobRecord
    /\ call \in [Windows -> CallRecord]
    /\ lostWrites \in Nat /\ crashes \in Nat

(* A lead that the CRM knows as converted, in memory or stored, names the  *)
(* account and contact of a conversion that the party master has stored,   *)
(* whatever writes failed and wherever the process stopped                 *)
(* (partyConvertLead writes the party document first).                     *)
AgreesWithParty(leads) ==
    \A l \in Leads : leads[l].status = "converted" =>
      /\ partyDisk.conversion[l] # NoConversion
      /\ partyDisk.conversion[l] = [account |-> leads[l].account,
                                    contact |-> leads[l].contact]

ConvertedLeadHasParty == AgreesWithParty(lead) /\ AgreesWithParty(leadDisk)

(* An account and a contact that a lead was converted to can be found for  *)
(* as long as the document lives: each is active, or was merged, perhaps   *)
(* through others, into one that is.                                       *)
AccountFound(p, a) == Survivors(p, a) \cap ActiveAccounts(p) # {}
ContactFound(p, c) == Survivors(p, c) \cap ActiveContacts(p) # {}

ConversionsResolve ==
    \A l \in Leads : party.conversion[l] # NoConversion =>
      /\ AccountFound(party, party.conversion[l].account)
      /\ ContactFound(party, party.conversion[l].contact)

(* An import that is recorded as committed has its leads stored: the CRM   *)
(* document is written before the job's (crmDepthCommitImport).            *)
CommittedImportIsStored ==
    job.status = "committed" =>
      job.rows \subseteq {leadDisk[l].email : l \in Leads}
=============================================================================
