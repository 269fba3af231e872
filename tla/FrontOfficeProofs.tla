-------------------------- MODULE FrontOfficeProofs --------------------------
(***************************************************************************)
(* Theorems about LeadConversion for every set of accounts, contacts,      *)
(* leads and windows, every number of stops of the process and every       *)
(* pattern of failing writes: what the CRM calls converted is in the party *)
(* master, where everything merged can be found; and about Receivables for *)
(* every finite set of invoices and receipts and every set of amounts: the *)
(* copies of what is owed agree.                                           *)
(***************************************************************************)
EXTENDS LeadConversion, Receivables, SequenceTheorems, TotalsProofs

-----------------------------------------------------------------------------
(* Leads, conversions and the party master.                                *)


(* The conversions of one party document are among those of another. *)
KeepsConversions(p, q) ==
    \A l \in Leads : p.conversion[l] # NoConversion => q.conversion[l] = p.conversion[l]

(* A window that is to mark a lead holds what the party store answered it: *)
(* a conversion that is stored.                                            *)
CallIsBacked(c) ==
    /\ c.step \in {"party", "crm"} => c.lead \in Leads
    /\ c.step = "crm" => /\ partyDisk.conversion[c.lead] = c.refs
                         /\ c.refs # NoConversion

(* Why a lead that is marked has its party: the store never forgets a      *)
(* conversion, and memory knows all the store does.                        *)
IInv ==
    /\ ConversionTypeOK
    /\ KeepsConversions(partyDisk, party)
    /\ \A w \in Windows : CallIsBacked(call[w])
    /\ ConvertedLeadHasParty

-----------------------------------------------------------------------------
(* The documents a party command may leave.                                *)

(* Anything renamed stays in its set. *)
LEMMA AccountTyped ==
    ASSUME NEW p \in PartyDocument, NEW a \in Accounts
    PROVE  WithAccount(p, a) \in PartyDocument /\ WithAccount(p, a).conversion = p.conversion
<1> DEFINE accounts == [p.account EXCEPT ![a] = "active"]
           fresh == {<<b, a>> : b \in {b \in Accounts :
                       p.account[b] # "none" /\ DomainOf[b] = DomainOf[a]}}
<1>1. accounts \in [Accounts -> {"none", "active", "inactive"}]
  BY DEF PartyDocument
<1>2. p.duplicates \cup fresh \in SUBSET (Accounts \X Accounts)
  BY DEF PartyDocument
<1>3. WithAccount(p, a) = [p EXCEPT !.account = accounts, !.duplicates = p.duplicates \cup fresh]
  BY DEF WithAccount, PartyDocument
<1> HIDE DEF accounts, fresh
<1> QED
  BY <1>1, <1>2, <1>3 DEF PartyDocument

LEMMA ContactTyped ==
    ASSUME NEW p \in PartyDocument, NEW c \in Contacts, NEW account \in Accounts \cup {None},
           NEW e \in Emails \cup {None}
    PROVE  /\ WithContact(p, c, account, e) \in PartyDocument
           /\ WithContact(p, c, account, e).conversion = p.conversion
<1> DEFINE contacts == [p.contact EXCEPT ![c] =
                          [status |-> "active", account |-> account, email |-> e]]
<1>1. contacts \in [Contacts -> ContactRecord]
  BY DEF PartyDocument, ContactRecord
<1>2. WithContact(p, c, account, e) = [p EXCEPT !.contact = contacts]
  BY DEF WithContact, PartyDocument
<1> HIDE DEF contacts
<1> QED
  BY <1>1, <1>2 DEF PartyDocument

(* Holdings and duplicates after a merge. *)
LEMMA MovedTyped ==
    ASSUME NEW p \in PartyDocument, NEW s, NEW m,
           (s \in Accounts /\ m \in Accounts) \/ (s \in Contacts /\ m \in Contacts)
    PROVE  /\ MovedHoldings(p, s, m) \in [Holdings -> Accounts \cup Contacts \cup {None}]
           /\ RemainingDuplicates(p, m) \in SUBSET (Accounts \X Accounts)
           /\ p.merges \cup {<<s, m>>} \in
                SUBSET ((Accounts \X Accounts) \cup (Contacts \X Contacts))
<1>1. \A h \in Holdings : Renamed(p.holder[h], s, m) \in Accounts \cup Contacts \cup {None}
  BY DEF Renamed, PartyDocument
<1>2. MovedHoldings(p, s, m) \in [Holdings -> Accounts \cup Contacts \cup {None}]
  BY <1>1 DEF MovedHoldings
<1>3. RemainingDuplicates(p, m) \in SUBSET (Accounts \X Accounts)
  BY DEF RemainingDuplicates, PartyDocument
<1>4. p.merges \cup {<<s, m>>} \in
        SUBSET ((Accounts \X Accounts) \cup (Contacts \X Contacts))
  BY DEF PartyDocument
<1> QED
  BY <1>2, <1>3, <1>4

LEMMA AccountMergeTyped ==
    ASSUME NEW p \in PartyDocument, NEW s \in Accounts, NEW m \in Accounts
    PROVE  /\ AccountsMerged(p, s, m) \in PartyDocument
           /\ AccountsMerged(p, s, m).conversion = p.conversion
<1> DEFINE accounts == [p.account EXCEPT ![m] = "inactive"]
           contacts == [c \in Contacts |->
               [p.contact[c] EXCEPT !.account = Renamed(@, s, m)]]
           pairs == {<<Renamed(q[1], s, m), Renamed(q[2], s, m)>> : q \in p.related}
           related == {r \in pairs : r[1] # r[2]}
           holder == MovedHoldings(p, s, m)
           duplicates == RemainingDuplicates(p, m)
           merges == p.merges \cup {<<s, m>>}
<1>1. accounts \in [Accounts -> {"none", "active", "inactive"}]
  BY DEF PartyDocument
<1>2. contacts \in [Contacts -> ContactRecord]
  <2>1. ASSUME NEW c \in Contacts
        PROVE  [p.contact[c] EXCEPT !.account = Renamed(@, s, m)] \in ContactRecord
    BY DEF PartyDocument, ContactRecord, Renamed
  <2> QED
    BY <2>1
<1>3. related \in SUBSET (Accounts \X Accounts)
  <2>1. \A q \in p.related : q[1] \in Accounts /\ q[2] \in Accounts
    BY DEF PartyDocument
  <2>2. \A x \in Accounts : Renamed(x, s, m) \in Accounts
    BY DEF Renamed
  <2> QED
    BY <2>1, <2>2
<1>4. AccountsMerged(p, s, m) =
        [p EXCEPT !.account = accounts, !.contact = contacts,
                  !.holder = holder, !.related = related,
                  !.duplicates = duplicates, !.merges = merges]
  BY DEF AccountsMerged, PartyDocument
<1>5. /\ holder \in [Holdings -> Accounts \cup Contacts \cup {None}]
      /\ duplicates \in SUBSET (Accounts \X Accounts)
      /\ merges \in SUBSET ((Accounts \X Accounts) \cup (Contacts \X Contacts))
  BY MovedTyped
<1> HIDE DEF accounts, contacts, pairs, related, holder, duplicates, merges
<1> QED
  BY <1>1, <1>2, <1>3, <1>4, <1>5 DEF PartyDocument

Consents == [contact : Contacts, channel : Channels, status : {"granted", "withdrawn"}]

LEMMA ContactMergeTyped ==
    ASSUME NEW p \in PartyDocument, NEW s \in Contacts, NEW m \in Contacts
    PROVE  /\ ContactsMerged(p, s, m) \in PartyDocument
           /\ ContactsMerged(p, s, m).conversion = p.conversion
<1> DEFINE contacts == [p.contact EXCEPT ![m].status = "inactive"]
           consents == [i \in DOMAIN p.consents |->
               [p.consents[i] EXCEPT !.contact = Renamed(@, s, m)]]
           holder == MovedHoldings(p, s, m)
           duplicates == RemainingDuplicates(p, m)
           merges == p.merges \cup {<<s, m>>}
<1>1. contacts \in [Contacts -> ContactRecord]
  <2>1. p.contact \in [Contacts -> ContactRecord]
    BY DEF PartyDocument
  <2> QED
    BY <2>1 DEF ContactRecord
<1>2. consents \in Seq(Consents)
  <2>1. p.consents \in Seq(Consents)
    BY DEF PartyDocument, Consents
  <2>2. PICK n \in Nat : p.consents \in [1..n -> Consents]
    BY <2>1, SeqDef
  <2>3. ASSUME NEW i \in 1..n
        PROVE  [p.consents[i] EXCEPT !.contact = Renamed(@, s, m)] \in Consents
    BY <2>2 DEF Consents, Renamed
  <2>4. consents \in [1..n -> Consents]
    BY <2>2, <2>3
  <2> HIDE DEF consents
  <2> QED
    BY <2>4, SeqDef
<1>3. ContactsMerged(p, s, m) =
        [p EXCEPT !.contact = contacts, !.holder = holder, !.consents = consents,
                  !.duplicates = duplicates, !.merges = merges]
  BY DEF ContactsMerged, PartyDocument
<1>4. /\ holder \in [Holdings -> Accounts \cup Contacts \cup {None}]
      /\ duplicates \in SUBSET (Accounts \X Accounts)
      /\ merges \in SUBSET ((Accounts \X Accounts) \cup (Contacts \X Contacts))
  BY MovedTyped
<1> HIDE DEF contacts, consents, holder, duplicates, merges
<1> QED
  BY <1>1, <1>2, <1>3, <1>4 DEF PartyDocument, Consents

-----------------------------------------------------------------------------
(* A party document that is written, in memory only or also stored, and    *)
(* keeps the conversions of the one before it.                             *)
LEMMA PartyMutation ==
    ASSUME IInv, NEW new \in PartyDocument, KeepsConversions(party, new), PartyMutated(new)
    PROVE  /\ party' \in PartyDocument /\ partyDisk' \in PartyDocument /\ lostWrites' \in Nat
           /\ KeepsConversions(partyDisk', party')
           /\ KeepsConversions(partyDisk, partyDisk')
<1>1. KeepsConversions(partyDisk, new)
  BY DEF IInv, KeepsConversions
<1>2. KeepsConversions(partyDisk, partyDisk) /\ KeepsConversions(new, new)
  BY DEF KeepsConversions
<1> QED
  BY <1>1, <1>2 DEF PartyMutated, PartyStored, PartyWriteLost, IInv, ConversionTypeOK

(* What the CRM knows as converted stays so while the store forgets        *)
(* nothing.                                                                *)
LEMMA StillAgrees ==
    ASSUME NEW leads, AgreesWithParty(leads), KeepsConversions(partyDisk, partyDisk')
    PROVE  \A l \in Leads : leads[l].status = "converted" =>
             /\ partyDisk'.conversion[l] # NoConversion
             /\ partyDisk'.conversion[l] = [account |-> leads[l].account,
                                            contact |-> leads[l].contact]
BY DEF AgreesWithParty, KeepsConversions

(* A party command, alone. *)
LEMMA PartyMutationPreserves ==
    ASSUME IInv, NEW new \in PartyDocument, new.conversion = party.conversion,
           PartyMutated(new), UNCHANGED <<crmVars, jobVars, call, crashes>>
    PROVE  IInv'
<1>1. KeepsConversions(party, new)
  BY DEF KeepsConversions
<1>2. /\ party' \in PartyDocument /\ partyDisk' \in PartyDocument /\ lostWrites' \in Nat
      /\ KeepsConversions(partyDisk', party')
      /\ KeepsConversions(partyDisk, partyDisk')
  BY <1>1, PartyMutation
<1>3. ConversionTypeOK'
  BY <1>2 DEF IInv, ConversionTypeOK, crmVars, jobVars
<1>4. \A w \in Windows : CallIsBacked(call[w])'
  BY <1>2 DEF IInv, CallIsBacked, KeepsConversions
<1>5. ConvertedLeadHasParty'
  BY <1>2, StillAgrees DEF IInv, ConvertedLeadHasParty, AgreesWithParty, crmVars
<1>6. KeepsConversions(partyDisk, party)'
  BY <1>2 DEF KeepsConversions
<1> QED
  BY <1>3, <1>4, <1>5, <1>6 DEF IInv

(* Every command of the party master is one of those. *)
LEMMA PartyStepPreserves ==
    ASSUME IInv, PartyStep
    PROVE  IInv'
<1> USE DEF PartyStep
<1>1. party \in PartyDocument
  BY DEF IInv, ConversionTypeOK
<1>2. ASSUME NEW a \in Accounts, CreateAccount(a)
      PROVE  IInv'
  BY <1>1, <1>2, AccountTyped, PartyMutationPreserves DEF CreateAccount
<1>3. ASSUME NEW c \in Contacts, NEW account \in Accounts \cup {None}, NEW e \in Emails,
             CreateContact(c, account, e)
      PROVE  IInv'
  BY <1>1, <1>3, ContactTyped, PartyMutationPreserves DEF CreateContact
<1>4. ASSUME NEW c \in Contacts, NEW channel \in Channels,
             NEW status \in {"granted", "withdrawn"}, RecordConsent(c, channel, status)
      PROVE  IInv'
  <2> DEFINE consents == Append(party.consents,
                           [contact |-> c, channel |-> channel, status |-> status])
             new == [party EXCEPT !.consents = consents]
  <2>1. PartyMutated(new)
    BY <1>4 DEF RecordConsent
  <2>2. consents \in Seq(Consents)
    <3>1. party.consents \in Seq(Consents)
      BY <1>1 DEF PartyDocument, Consents
    <3>2. [contact |-> c, channel |-> channel, status |-> status] \in Consents
      BY DEF Consents
    <3> QED
      BY <3>1, <3>2, AppendProperties
  <2> HIDE DEF consents
  <2>3. new \in PartyDocument /\ new.conversion = party.conversion
    BY <1>1, <2>2 DEF PartyDocument, Consents
  <2> QED
    BY <2>1, <2>3, PartyMutationPreserves
<1>5. ASSUME NEW pair \in party.duplicates, ResolveDuplicate(pair)
      PROVE  IInv'
  <2> DEFINE new == [party EXCEPT !.duplicates = @ \ {pair}]
  <2>1. PartyMutated(new)
    BY <1>5 DEF ResolveDuplicate
  <2>2. new \in PartyDocument /\ new.conversion = party.conversion
    BY <1>1 DEF PartyDocument
  <2> QED
    BY <2>1, <2>2, PartyMutationPreserves
<1>6. ASSUME NEW h \in Holdings, NEW owner \in Accounts \cup Contacts, AddHolding(h, owner)
      PROVE  IInv'
  <2> DEFINE new == [party EXCEPT !.holder[h] = owner]
  <2>1. PartyMutated(new)
    BY <1>6 DEF AddHolding
  <2>2. new \in PartyDocument /\ new.conversion = party.conversion
    BY <1>1 DEF PartyDocument
  <2> QED
    BY <2>1, <2>2, PartyMutationPreserves
<1>7. ASSUME NEW a \in Accounts, NEW b \in Accounts, CreateRelationship(a, b)
      PROVE  IInv'
  <2> DEFINE new == [party EXCEPT !.related = @ \cup {<<a, b>>}]
  <2>1. PartyMutated(new)
    BY <1>7 DEF CreateRelationship
  <2>2. new \in PartyDocument /\ new.conversion = party.conversion
    BY <1>1 DEF PartyDocument
  <2> QED
    BY <2>1, <2>2, PartyMutationPreserves
<1>8. ASSUME NEW a \in Accounts, NEW b \in Accounts, ExecuteAccountMerge(a, b)
      PROVE  IInv'
  BY <1>1, <1>8, AccountMergeTyped, PartyMutationPreserves DEF ExecuteAccountMerge
<1>9. ASSUME NEW c \in Contacts, NEW d \in Contacts, ExecuteContactMerge(c, d)
      PROVE  IInv'
  BY <1>1, <1>9, ContactMergeTyped, PartyMutationPreserves DEF ExecuteContactMerge
<1> QED
  BY <1>2, <1>3, <1>4, <1>5, <1>6, <1>7, <1>8, <1>9 DEF PartyNext

-----------------------------------------------------------------------------
(* A handler that ends keeps nothing. *)
LEMMA AnsweredTyped ==
    ASSUME ConversionTypeOK, NEW w \in Windows, NEW result \in {"done", "failed"},
           Answered(w, result)
    PROVE  /\ call' \in [Windows -> CallRecord]
           /\ \A v \in Windows : call'[v] = call[v] \/ call'[v].step = result
<1>1. [NoCall EXCEPT !.step = result] \in CallRecord
      /\ [NoCall EXCEPT !.step = result].step = result
  BY DEF NoCall, NoConversion, CallRecord
<1> QED
  BY <1>1 DEF Answered, ConversionTypeOK

(* A step that leaves the documents alone, and no window with an answer it *)
(* did not have.                                                           *)
LEMMA CallPreserves ==
    ASSUME IInv, UNCHANGED <<party, partyDisk, lostWrites, crmVars, jobVars, crashes>>,
           call' \in [Windows -> CallRecord],
           \A v \in Windows :
             \/ call'[v] = call[v]
             \/ call'[v].step \notin {"party", "crm"}
             \/ call'[v].step = "party" /\ call'[v].lead \in Leads
    PROVE  IInv'
<1>1. ConversionTypeOK'
  BY DEF IInv, ConversionTypeOK, crmVars, jobVars
<1>2. \A v \in Windows : CallIsBacked(call[v])'
  BY DEF IInv, CallIsBacked
<1>3. ConvertedLeadHasParty' /\ KeepsConversions(partyDisk, party)'
  BY DEF IInv, ConvertedLeadHasParty, AgreesWithParty, KeepsConversions, crmVars
<1> QED
  BY <1>1, <1>2, <1>3 DEF IInv

(* What convertLeadToParty may leave: a document that knows one more       *)
(* conversion, of the lead, and every one of before.                       *)
LEMMA ConversionDocuments ==
    ASSUME IInv, NEW w \in Windows, call[w].step = "party",
           NEW new \in ConvertLeadToParty(w)
    PROVE  /\ new \in PartyDocument
           /\ KeepsConversions(party, new)
           /\ new.conversion[call[w].lead] # NoConversion
<1> DEFINE l == call[w].lead  a == call[w].account
<1>1. /\ party \in PartyDocument /\ l \in Leads /\ a \in Accounts \cup {None}
      /\ lead[l].email \in Emails \cup {None}
  BY DEF IInv, ConversionTypeOK, CallIsBacked, CallRecord, LeadRecord
<1>2. CASE party.conversion[l] # NoConversion
  BY <1>1, <1>2 DEF ConvertLeadToParty, KeepsConversions
<1>3. CASE party.conversion[l] = NoConversion
  <2>1. ASSUME NEW p \in PartyDocument, p.conversion = party.conversion,
               NEW b \in Accounts, new \in ConvertedIn(p, l, b)
        PROVE  /\ new \in PartyDocument
               /\ KeepsConversions(party, new)
               /\ new.conversion[l] # NoConversion
    <3>1. PICK c \in Contacts, q \in PartyDocument :
            /\ q.conversion = p.conversion
            /\ new = [q EXCEPT !.conversion[l] = [account |-> b, contact |-> c]]
      <4>1. \A c \in Contacts : /\ WithContact(p, c, b, lead[l].email) \in PartyDocument
                               /\ WithContact(p, c, b, lead[l].email).conversion = p.conversion
        BY <1>1, <2>1, ContactTyped
      <4> QED
        BY <2>1, <4>1 DEF ConvertedIn, ActiveContacts
    <3>2. [account |-> b, contact |-> c] # NoConversion
      BY NoneIsNoRecord DEF NoConversion
    <3>3. q.conversion \in [Leads -> [account : Accounts \cup {None},
                                      contact : Contacts \cup {None}]]
      BY DEF PartyDocument
    <3> DEFINE conversions == [q.conversion EXCEPT ![l] = [account |-> b, contact |-> c]]
    <3>4. conversions \in [Leads -> [account : Accounts \cup {None},
                                     contact : Contacts \cup {None}]]
      BY <3>3
    <3>5. conversions[l] = [account |-> b, contact |-> c]
          /\ \A k \in Leads : k # l => conversions[k] = party.conversion[k]
      BY <1>1, <2>1, <3>1, <3>3
    <3>6. new = [q EXCEPT !.conversion = conversions]
      BY <3>1 DEF PartyDocument
    <3> HIDE DEF conversions
    <3>7. new \in PartyDocument /\ new.conversion = conversions
      BY <3>4, <3>6 DEF PartyDocument
    <3> QED
      BY <1>1, <1>3, <3>2, <3>5, <3>7 DEF KeepsConversions
  <2>2. CASE a # None
    BY <1>1, <1>3, <2>1, <2>2 DEF ConvertLeadToParty
  <2>3. CASE a = None
    <3>1. PICK b \in Accounts : new \in ConvertedIn(WithAccount(party, b), l, b)
      BY <1>3, <2>3 DEF ConvertLeadToParty
    <3> QED
      BY <1>1, <2>1, <3>1, AccountTyped
  <2> QED
    BY <2>2, <2>3
<1> QED
  BY <1>2, <1>3

(* The party store answers a window, or fails it. *)
LEMMA PartyConvertsPreserves ==
    ASSUME IInv, NEW w \in Windows, PartyConverts(w)
    PROVE  IInv'
<1> DEFINE l == call[w].lead
<1>1. ConversionTypeOK /\ CallIsBacked(call[w]) /\ call[w].step = "party" /\ l \in Leads
      /\ call[w] \in CallRecord /\ UNCHANGED <<crmVars, jobVars, crashes>>
  BY DEF IInv, PartyConverts, CallIsBacked, ConversionTypeOK
<1>2. CASE ConvertLeadToParty(w) = {} /\ Answered(w, "failed") /\ UNCHANGED partyVars
  <2>1. call' \in [Windows -> CallRecord]
        /\ \A v \in Windows : call'[v] = call[v] \/ call'[v].step = "failed"
    BY <1>1, <1>2, AnsweredTyped
  <2> QED
    BY <1>1, <1>2, <2>1, CallPreserves DEF partyVars
<1>3. ASSUME NEW new \in ConvertLeadToParty(w),
             \/ /\ PartyStored(new)
                /\ call' = [call EXCEPT ![w].step = "crm", ![w].refs = new.conversion[l]]
             \/ PartyWriteLost(new) /\ Answered(w, "failed")
      PROVE  IInv'
  <2>1. new \in PartyDocument /\ KeepsConversions(party, new)
        /\ new.conversion[l] # NoConversion /\ PartyMutated(new)
    BY <1>1, <1>3, ConversionDocuments DEF PartyMutated
  <2>2. /\ party' \in PartyDocument /\ partyDisk' \in PartyDocument /\ lostWrites' \in Nat
        /\ KeepsConversions(partyDisk', party')
        /\ KeepsConversions(partyDisk, partyDisk')
    BY <2>1, PartyMutation
  <2>3. call' \in [Windows -> CallRecord] /\ \A v \in Windows : CallIsBacked(call[v])'
    <3>0. \A v \in Windows : v # w => CallIsBacked(call[v])
      BY DEF IInv
    <3>1. CASE PartyStored(new) /\ call' = [call EXCEPT ![w].step = "crm",
                                                      ![w].refs = new.conversion[l]]
      <4>1. call' \in [Windows -> CallRecord]
        BY <1>1, <2>1, <3>1 DEF ConversionTypeOK, CallRecord, PartyDocument
      <4>2. \A v \in Windows : v # w => call'[v] = call[v]
        BY <1>1, <3>1 DEF ConversionTypeOK
      <4>3. call'[w].step = "crm" /\ call'[w].lead = l /\ call'[w].refs = new.conversion[l]
        BY <1>1, <3>1 DEF ConversionTypeOK, CallRecord
      <4>4. partyDisk' = new
        BY <3>1 DEF PartyStored
      <4>5. \A v \in Windows : v # w => CallIsBacked(call[v])'
        BY <2>2, <3>0, <4>2 DEF CallIsBacked, KeepsConversions
      <4>6. CallIsBacked(call[w])'
        BY <1>1, <2>1, <4>3, <4>4 DEF CallIsBacked
      <4> QED
        BY <4>1, <4>5, <4>6
    <3>2. CASE PartyWriteLost(new) /\ Answered(w, "failed")
      <4>1. call' \in [Windows -> CallRecord]
            /\ \A v \in Windows : call'[v] = call[v] \/ call'[v].step = "failed"
        BY <1>1, <3>2, AnsweredTyped
      <4>2. \A v \in Windows : CallIsBacked(call[v])
        BY DEF IInv
      <4> QED
        BY <2>2, <4>1, <4>2 DEF CallIsBacked, KeepsConversions
    <3> QED
      BY <1>3, <3>1, <3>2
  <2>4. ConversionTypeOK'
    BY <1>1, <2>2, <2>3 DEF ConversionTypeOK, crmVars, jobVars
  <2>5. ConvertedLeadHasParty'
    BY <1>1, <2>2, StillAgrees DEF IInv, ConvertedLeadHasParty, AgreesWithParty, crmVars
  <2>6. KeepsConversions(partyDisk, party)'
    BY <2>2 DEF KeepsConversions
  <2> QED
    BY <2>3, <2>4, <2>5, <2>6 DEF IInv
<1> QED
  BY <1>2, <1>3 DEF PartyConverts

-----------------------------------------------------------------------------
(* The CRM document is written, in memory only or also stored, with leads  *)
(* that agree with the party master.                                       *)
LEMMA LeadsPreserve ==
    ASSUME IInv, NEW new \in [Leads -> LeadRecord], AgreesWithParty(new),
           LeadsStored(new) \/ LeadsWriteLost(new),
           UNCHANGED <<party, partyDisk, jobVars, crashes>>,
           call' \in [Windows -> CallRecord],
           \A w \in Windows : call'[w] = call[w] \/ call'[w].step \notin {"party", "crm"}
    PROVE  IInv'
<1>1. ConversionTypeOK'
  BY DEF IInv, ConversionTypeOK, jobVars, LeadsStored, LeadsWriteLost
<1>2. \A w \in Windows : CallIsBacked(call[w])'
  BY DEF IInv, CallIsBacked
<1>3. ConvertedLeadHasParty'
  BY DEF IInv, ConvertedLeadHasParty, AgreesWithParty, LeadsStored, LeadsWriteLost
<1>4. KeepsConversions(partyDisk, party)'
  BY DEF IInv, KeepsConversions
<1> QED
  BY <1>1, <1>2, <1>3, <1>4 DEF IInv

(* The import job is written. *)
LEMMA JobPreserves ==
    ASSUME IInv, NEW new \in JobRecord, JobStored(new) \/ JobWriteLost(new),
           UNCHANGED <<party, partyDisk, crmVars, crashes>>,
           call' \in [Windows -> CallRecord],
           \A w \in Windows : call'[w] = call[w] \/ call'[w].step \notin {"party", "crm"}
    PROVE  IInv'
<1>1. ConversionTypeOK'
  BY DEF IInv, ConversionTypeOK, crmVars, JobStored, JobWriteLost
<1>2. \A w \in Windows : CallIsBacked(call[w])'
  BY DEF IInv, CallIsBacked
<1>3. ConvertedLeadHasParty' /\ KeepsConversions(partyDisk, party)'
  BY DEF IInv, ConvertedLeadHasParty, AgreesWithParty, KeepsConversions, crmVars
<1> QED
  BY <1>1, <1>2, <1>3 DEF IInv

(* addLead: a lead that was none is new. *)
LEMMA AddLeadPreserves ==
    ASSUME IInv, NEW l \in Leads, NEW e \in Emails, AddLead(l, e)
    PROVE  IInv'
<1>1. /\ Added(lead, l, e) \in [Leads -> LeadRecord]
      /\ Added(lead, l, e)[l].status = "new"
      /\ \A k \in Leads : k # l => Added(lead, l, e)[k] = lead[k]
  BY DEF IInv, ConversionTypeOK, Added, NoLead, LeadRecord
<1>2. AgreesWithParty(Added(lead, l, e))
  BY <1>1 DEF IInv, ConvertedLeadHasParty, AgreesWithParty
<1>3. call' \in [Windows -> CallRecord]
  BY DEF AddLead, IInv, ConversionTypeOK
<1> QED
  BY <1>1, <1>2, <1>3, LeadsPreserve DEF AddLead

(* markLeadConverted: the lead takes what the party store answered.        *)
LEMMA CrmMarksPreserves ==
    ASSUME IInv, NEW w \in Windows, CrmMarksConverted(w)
    PROVE  IInv'
<1> DEFINE l == call[w].lead  refs == call[w].refs
           new == IF AlreadyConverted(l, refs) THEN lead ELSE Converted(lead, l, refs)
<1>1. /\ ConversionTypeOK /\ call[w].step = "crm" /\ call[w] \in CallRecord
      /\ l \in Leads /\ partyDisk.conversion[l] = refs /\ refs # NoConversion
      /\ UNCHANGED <<party, partyDisk, jobVars, crashes>>
  BY DEF IInv, CrmMarksConverted, CallIsBacked, ConversionTypeOK
<1>2. CASE Answered(w, "failed") /\ UNCHANGED <<crmVars, lostWrites>>
  BY <1>1, <1>2, AnsweredTyped, CallPreserves
<1>3. CASE \/ LeadsStored(new) /\ Answered(w, "done")
           \/ LeadsWriteLost(new) /\ Answered(w, "failed")
  <2>1. refs \in [account : Accounts \cup {None}, contact : Contacts \cup {None}]
    BY <1>1 DEF CallRecord
  <2>2. Converted(lead, l, refs) \in [Leads -> LeadRecord]
    BY <1>1, <2>1 DEF ConversionTypeOK, Converted, LeadRecord
  <2>3. /\ Converted(lead, l, refs)[l].account = refs.account
        /\ Converted(lead, l, refs)[l].contact = refs.contact
        /\ \A k \in Leads : k # l => Converted(lead, l, refs)[k] = lead[k]
    BY <1>1, <2>1 DEF ConversionTypeOK, Converted, LeadRecord
  <2>4. refs = [account |-> refs.account, contact |-> refs.contact]
    BY <2>1
  <2>5. AgreesWithParty(lead)
    BY DEF IInv, ConvertedLeadHasParty
  <2>6. AgreesWithParty(Converted(lead, l, refs))
    BY <1>1, <2>3, <2>4, <2>5 DEF AgreesWithParty
  <2>7. new \in [Leads -> LeadRecord] /\ AgreesWithParty(new)
    BY <1>1, <2>2, <2>5, <2>6 DEF ConversionTypeOK
  <2>8. /\ call' \in [Windows -> CallRecord]
        /\ \A v \in Windows : call'[v] = call[v] \/ call'[v].step \in {"done", "failed"}
    BY <1>1, <1>3, AnsweredTyped
  <2> HIDE DEF new
  <2> QED
    BY <1>1, <1>3, <2>7, <2>8, LeadsPreserve
<1> QED
  BY <1>2, <1>3 DEF CrmMarksConverted

(* importLeads: the new leads are not converted. *)
LEMMA CrmImportsPreserves ==
    ASSUME IInv, NEW w \in Windows, CrmImports(w)
    PROVE  IInv'
<1>1. PICK new \in Imported(job.rows) :
        \/ LeadsStored(new) /\ call' = [call EXCEPT ![w].step = "commit"]
        \/ LeadsWriteLost(new) /\ Answered(w, "failed")
  BY DEF CrmImports
<1>2. ConversionTypeOK
  BY DEF IInv
<1>3. new \in [Leads -> LeadRecord] /\ AgreesWithParty(new)
  <2>1. PICK f \in [job.rows \ LeadEmails -> Leads] : new = WithLeads(f)
    BY <1>1 DEF Imported
  <2>2. DOMAIN f \subseteq Emails
    BY <1>2 DEF ConversionTypeOK, JobRecord
  <2> DEFINE email(l) == CHOOSE e \in DOMAIN f : f[e] = l
             added(l) == [NoLead EXCEPT !.status = "new", !.email = email(l)]
  <2>3. ASSUME NEW l \in Leads, \E e \in DOMAIN f : f[e] = l
        PROVE  added(l) \in LeadRecord /\ added(l).status = "new"
    <3>1. email(l) \in Emails
      BY <2>2, <2>3
    <3> HIDE DEF email
    <3> QED
      BY <3>1 DEF NoLead, LeadRecord
  <2>4. new = [l \in Leads |-> IF \E e \in DOMAIN f : f[e] = l THEN added(l) ELSE lead[l]]
    BY <2>1 DEF WithLeads
  <2> HIDE DEF added
  <2>5. \A l \in Leads : new[l] \in LeadRecord
          /\ (new[l] = lead[l] \/ new[l].status = "new")
    BY <1>2, <2>3, <2>4 DEF ConversionTypeOK
  <2>6. new \in [Leads -> LeadRecord]
    BY <2>4, <2>5
  <2> QED
    BY <2>5, <2>6 DEF IInv, ConvertedLeadHasParty, AgreesWithParty
<1>4. /\ call' \in [Windows -> CallRecord]
      /\ \A v \in Windows : call'[v] = call[v] \/ call'[v].step \notin {"party", "crm"}
  <2>1. CASE call' = [call EXCEPT ![w].step = "commit"]
    BY <1>2, <2>1 DEF ConversionTypeOK, CallRecord
  <2>2. CASE Answered(w, "failed")
    BY <1>2, <2>2, AnsweredTyped
  <2> QED
    BY <1>1, <2>1, <2>2
<1> QED
  BY <1>1, <1>3, <1>4, LeadsPreserve DEF CrmImports

(* The steps of an import around it. *)
LEMMA ImportJobPreserves ==
    ASSUME IInv, NEW w \in Windows,
           StartImport(w) \/ CommitImport(w)
    PROVE  IInv'
<1>1. ConversionTypeOK
  BY DEF IInv
<1>2. CASE StartImport(w)
  <2>1. [NoCall EXCEPT !.step = "import"] \in CallRecord
        /\ [NoCall EXCEPT !.step = "import"].step = "import"
    BY DEF NoCall, NoConversion, CallRecord
  <2>2. /\ call' \in [Windows -> CallRecord]
        /\ \A v \in Windows : call'[v] = call[v] \/ call'[v].step \notin {"party", "crm"}
    BY <1>1, <1>2, <2>1 DEF ConversionTypeOK, StartImport
  <2> QED
    BY <1>2, <2>2, CallPreserves DEF StartImport, partyVars
<1>3. CASE CommitImport(w)
  <2> DEFINE new == [job EXCEPT !.status = "committed"]
  <2>1. UNCHANGED <<party, partyDisk, crmVars, crashes>>
    BY <1>3 DEF CommitImport
  <2>2. Answered(w, "done") \/ Answered(w, "failed")
    BY <1>3 DEF CommitImport
  <2>3. /\ call' \in [Windows -> CallRecord]
        /\ \A v \in Windows : call'[v] = call[v] \/ call'[v].step \notin {"party", "crm"}
    BY <1>1, <2>2, AnsweredTyped
  <2>4. new \in JobRecord
    BY <1>1 DEF ConversionTypeOK, JobRecord
  <2>5. JobStored(new) \/ JobWriteLost(new) \/ UNCHANGED <<jobVars, lostWrites>>
    BY <1>3 DEF CommitImport
  <2> HIDE DEF new
  <2> QED
    BY <2>1, <2>3, <2>4, <2>5, JobPreserves, CallPreserves
<1> QED
  BY <1>2, <1>3

(* partyConvertLead begins. *)
LEMMA StartPreserves ==
    ASSUME IInv, NEW w \in Windows, NEW l \in Leads, NEW account \in Accounts \cup {None},
           StartConversion(w, l, account)
    PROVE  IInv'
<1> DEFINE c == [NoCall EXCEPT !.step = "party", !.lead = l, !.account = account]
<1>1. c \in CallRecord /\ c.step = "party" /\ c.lead = l
  BY DEF NoCall, NoConversion, CallRecord
<1>2. call' = [call EXCEPT ![w] = c] /\ UNCHANGED <<partyVars, crmVars, jobVars, crashes>>
  BY DEF StartConversion
<1> HIDE DEF c
<1>3. /\ call' \in [Windows -> CallRecord]
      /\ \A v \in Windows : call'[v] = call[v] \/ call'[v] = c
  BY <1>1, <1>2 DEF IInv, ConversionTypeOK
<1> QED
  BY <1>1, <1>2, <1>3, CallPreserves DEF partyVars

(* A restart: memory is what was stored, and no window waits. *)
LEMMA CrashPreserves ==
    ASSUME IInv, CrashAndRestart
    PROVE  IInv'
<1>1. /\ crashes' = crashes + 1
      /\ party' = partyDisk /\ lead' = leadDisk /\ job' = jobDisk
      /\ call' = [w \in Windows |-> NoCall]
      /\ UNCHANGED <<partyDisk, leadDisk, jobDisk, lostWrites>>
  BY DEF CrashAndRestart
<1>2. NoCall \in CallRecord /\ NoCall.step = "idle"
  BY DEF NoCall, NoConversion, CallRecord
<1>3. ConversionTypeOK'
  BY <1>1, <1>2 DEF IInv, ConversionTypeOK
<1>4. \A w \in Windows : CallIsBacked(call[w])'
  BY <1>1, <1>2 DEF CallIsBacked
<1>5. ConvertedLeadHasParty' /\ KeepsConversions(partyDisk, party)'
  BY <1>1 DEF IInv, ConvertedLeadHasParty, AgreesWithParty, KeepsConversions
<1> QED
  BY <1>3, <1>4, <1>5 DEF IInv

-----------------------------------------------------------------------------
(* Nothing is known at first. *)
LEMMA ConversionInitially == ConversionInit => IInv
<1> SUFFICES ASSUME ConversionInit PROVE IInv
  OBVIOUS
<1>1. CleanParty \in PartyDocument
  <2>1. NoContact \in ContactRecord
    BY DEF NoContact, ContactRecord
  <2>2. NoConversion \in [account : Accounts \cup {None}, contact : Contacts \cup {None}]
    BY DEF NoConversion
  <2>3. << >> \in Seq(Consents)
    BY EmptySeq
  <2>4. /\ CleanParty.account \in [Accounts -> {"none", "active", "inactive"}]
        /\ CleanParty.contact \in [Contacts -> ContactRecord]
        /\ CleanParty.holder \in [Holdings -> Accounts \cup Contacts \cup {None}]
        /\ CleanParty.conversion \in [Leads -> [account : Accounts \cup {None},
                                               contact : Contacts \cup {None}]]
    BY <2>1, <2>2 DEF CleanParty, NoAccount
  <2> QED
    BY <2>3, <2>4 DEF CleanParty, PartyDocument, Consents
<1>2. NoLead \in LeadRecord /\ NoLead.status = "none" /\ NoJob \in JobRecord
      /\ NoCall \in CallRecord /\ NoCall.step = "idle"
  BY DEF NoLead, NoJob, NoCall, NoConversion, LeadRecord, JobRecord, CallRecord
<1>3. ConversionTypeOK
  BY <1>1, <1>2 DEF ConversionInit, PartyInit, ConversionTypeOK
<1>4. KeepsConversions(partyDisk, party) /\ ConvertedLeadHasParty
      /\ \A w \in Windows : CallIsBacked(call[w])
  BY <1>2 DEF ConversionInit, PartyInit, KeepsConversions, ConvertedLeadHasParty,
              AgreesWithParty, CallIsBacked
<1> QED
  BY <1>3, <1>4 DEF IInv

(* Every step preserves the inductive invariant. *)
LEMMA ConversionStepPreserves ==
    ASSUME IInv, [ConversionNext]_conversionVars
    PROVE  IInv'
<1>1. CASE PartyStep
  BY <1>1, PartyStepPreserves
<1>2. ASSUME NEW l \in Leads, NEW e \in Emails, AddLead(l, e)
      PROVE  IInv'
  BY <1>2, AddLeadPreserves
<1>3. ASSUME NEW rows \in SUBSET Emails, PreviewLeadImport(rows)
      PROVE  IInv'
  <2> DEFINE new == [status |-> "preview", rows |-> rows \ LeadEmails]
  <2>1. new \in JobRecord
    BY DEF JobRecord
  <2>2. (JobStored(new) \/ JobWriteLost(new))
        /\ UNCHANGED <<party, partyDisk, crmVars, call, crashes>>
    BY <1>3 DEF PreviewLeadImport
  <2> HIDE DEF new
  <2> QED
    BY <2>1, <2>2, JobPreserves DEF IInv, ConversionTypeOK
<1>4. ASSUME NEW w \in Windows, WindowStep(w)
      PROVE  IInv'
  BY <1>4, StartPreserves, PartyConvertsPreserves, CrmMarksPreserves, CrmImportsPreserves,
     ImportJobPreserves DEF WindowStep
<1>5. CASE CrashAndRestart
  BY <1>5, CrashPreserves
<1>6. CASE UNCHANGED conversionVars
  BY <1>6, CallPreserves DEF conversionVars, partyVars, IInv, ConversionTypeOK
<1> QED
  BY <1>1, <1>2, <1>3, <1>4, <1>5, <1>6 DEF ConversionNext

(* The inductive invariant holds throughout. *)
LEMMA ConversionInvariant == ConversionSpec => []IInv
BY ConversionInitially, ConversionStepPreserves, PTL DEF ConversionSpec

(* Type correctness of the three documents and the calls. *)
THEOREM ConversionTypeCorrect == ConversionSpec => []ConversionTypeOK
BY ConversionInvariant, PTL DEF IInv

(* partyConvertLead writes the party document first: a lead that the CRM   *)
(* calls converted, in memory or stored, names a conversion that is        *)
(* stored, however writes fail and wherever the process stops.             *)
THEOREM ConvertedLeadsHaveTheirParty == ConversionSpec => []ConvertedLeadHasParty
BY ConversionInvariant, PTL DEF IInv

-----------------------------------------------------------------------------
(* What a record was merged into can be found.                             *)

LEMMA SelfSurvives ==
    ASSUME NEW p, NEW x \in Accounts \cup Contacts
    PROVE  x \in Survivors(p, x)
BY DEF Survivors

(* More merges find more. *)
LEMMA SurvivorsGrow ==
    ASSUME NEW p, NEW q, p.merges \subseteq q.merges, NEW x
    PROVE  Survivors(p, x) \subseteq Survivors(q, x)
BY DEF Survivors, ClosedUnderMerges

(* Who finds the merged record finds the survivor. *)
LEMMA SurvivorTakesOver ==
    ASSUME NEW p, NEW x, NEW s \in Accounts \cup Contacts, NEW m,
           <<s, m>> \in p.merges, m \in Survivors(p, x)
    PROVE  s \in Survivors(p, x)
BY DEF Survivors, ClosedUnderMerges

(* Every record on file can be found, and conversions name records on file.*)
EveryoneIsFound(p) ==
    /\ \A a \in Accounts : p.account[a] # "none" => AccountFound(p, a)
    /\ \A c \in Contacts : p.contact[c].status # "none" => ContactFound(p, c)

ConversionsAreOnFile(p) ==
    \A l \in Leads : p.conversion[l] # NoConversion =>
      /\ p.conversion[l].account \in Accounts
      /\ p.account[p.conversion[l].account] # "none"
      /\ p.conversion[l].contact \in Contacts
      /\ p.contact[p.conversion[l].contact].status # "none"

Sound(p) == NothingIsAstray(p) /\ EveryoneIsFound(p) /\ ConversionsAreOnFile(p)

(* The inductive invariant: the document is sound in memory and on disk.   *)
PartyIsSound == Sound(party) /\ Sound(partyDisk)

(* Records that are created, and nothing merged. *)
LEMMA CreationIsSound ==
    ASSUME NEW p, NEW q, Sound(p),
           q.holder = p.holder, q.related = p.related, q.merges = p.merges,
           q.conversion = p.conversion,
           \A a \in Accounts : q.account[a] = p.account[a] \/ q.account[a] = "active",
           \A c \in Contacts : q.contact[c] = p.contact[c] \/ q.contact[c].status = "active"
    PROVE  Sound(q)
<1>1. ActiveAccounts(p) \subseteq ActiveAccounts(q) /\ ActiveContacts(p) \subseteq ActiveContacts(q)
  BY DEF ActiveAccounts, ActiveContacts
<1>2. NothingIsAstray(q)
  BY <1>1 DEF Sound, NothingIsAstray
<1>3. \A x : Survivors(p, x) \subseteq Survivors(q, x)
  BY SurvivorsGrow
<1>4. ASSUME NEW a \in Accounts, q.account[a] # "none"
      PROVE  AccountFound(q, a)
  <2>1. CASE q.account[a] = "active"
    BY <2>1, SelfSurvives DEF AccountFound, ActiveAccounts
  <2>2. CASE q.account[a] = p.account[a]
    BY <1>1, <1>3, <1>4, <2>2 DEF Sound, EveryoneIsFound, AccountFound
  <2> QED
    BY <2>1, <2>2
<1>5. ASSUME NEW c \in Contacts, q.contact[c].status # "none"
      PROVE  ContactFound(q, c)
  <2>1. CASE q.contact[c].status = "active"
    BY <2>1, SelfSurvives DEF ContactFound, ActiveContacts
  <2>2. CASE q.contact[c] = p.contact[c]
    BY <1>1, <1>3, <1>5, <2>2 DEF Sound, EveryoneIsFound, ContactFound
  <2> QED
    BY <2>1, <2>2
<1>6. ConversionsAreOnFile(q)
  BY DEF Sound, ConversionsAreOnFile
<1> QED
  BY <1>2, <1>4, <1>5, <1>6 DEF Sound, EveryoneIsFound

(* The merged record is found through the survivor. *)
LEMMA MergeFinds ==
    ASSUME NEW p, NEW q, NEW s \in Accounts \cup Contacts, NEW m, NEW x,
           q.merges = p.merges \cup {<<s, m>>},
           NEW y \in Survivors(p, x)
    PROVE  y \in Survivors(q, x) /\ (y = m => s \in Survivors(q, x))
<1>1. y \in Survivors(q, x)
  BY SurvivorsGrow
<1> QED
  BY <1>1, SurvivorTakesOver

LEMMA AccountMergeIsSound ==
    ASSUME NEW p \in PartyDocument, Sound(p), NEW s \in Accounts, NEW m \in Accounts,
           s # m, {s, m} \subseteq ActiveAccounts(p)
    PROVE  Sound(AccountsMerged(p, s, m))
<1> DEFINE q == AccountsMerged(p, s, m)
<1>1. /\ q.account = [p.account EXCEPT ![m] = "inactive"]
      /\ q.contact = [c \in Contacts |-> [p.contact[c] EXCEPT !.account = Renamed(@, s, m)]]
      /\ q.holder = MovedHoldings(p, s, m)
      /\ q.related = {r \in {<<Renamed(u[1], s, m), Renamed(u[2], s, m)>> :
                               u \in p.related} : r[1] # r[2]}
      /\ q.merges = p.merges \cup {<<s, m>>}
      /\ q.conversion = p.conversion
  BY DEF AccountsMerged, PartyDocument
<1> HIDE DEF q
<1>2. ActiveAccounts(q) = ActiveAccounts(p) \ {m}
  BY <1>1 DEF ActiveAccounts, PartyDocument
<1>3. ASSUME NEW c \in Contacts
      PROVE  q.contact[c].status = p.contact[c].status
  <2>1. q.contact[c] = [p.contact[c] EXCEPT !.account = Renamed(@, s, m)]
    BY <1>1
  <2>2. p.contact[c] \in ContactRecord
    BY DEF PartyDocument
  <2> QED
    BY <2>1, <2>2 DEF ContactRecord
<1>4. ActiveContacts(q) = ActiveContacts(p)
  BY <1>3 DEF ActiveContacts
<1>5. \A a \in Accounts : q.account[a] # "none" <=> p.account[a] # "none"
  BY <1>1 DEF PartyDocument, ActiveAccounts
<1>6. NothingIsAstray(q)
  <2>1. ASSUME NEW h \in Holdings
        PROVE  q.holder[h] \in {None} \cup ActiveAccounts(q) \cup ActiveContacts(q)
    BY <1>1, <1>2, <1>4 DEF Sound, NothingIsAstray, MovedHoldings, Renamed
  <2>2. ASSUME NEW r \in q.related
        PROVE  {r[1], r[2]} \subseteq ActiveAccounts(q)
    <3>1. PICK u \in p.related : r = <<Renamed(u[1], s, m), Renamed(u[2], s, m)>>
      BY <1>1, <2>2
    <3>2. {u[1], u[2]} \subseteq ActiveAccounts(p)
      BY DEF Sound, NothingIsAstray
    <3>3. r[1] = Renamed(u[1], s, m) /\ r[2] = Renamed(u[2], s, m)
      BY <3>1
    <3> QED
      BY <1>2, <3>2, <3>3 DEF Renamed
  <2> QED
    BY <2>1, <2>2 DEF NothingIsAstray
<1>7. ASSUME NEW a \in Accounts, q.account[a] # "none"
      PROVE  AccountFound(q, a)
  <2>1. PICK y \in Survivors(p, a) : y \in ActiveAccounts(p)
    BY <1>5, <1>7 DEF Sound, EveryoneIsFound, AccountFound
  <2>2. y \in Survivors(q, a) /\ (y = m => s \in Survivors(q, a))
    BY <1>1, MergeFinds
  <2> QED
    BY <1>2, <2>1, <2>2 DEF AccountFound
<1>8. ASSUME NEW c \in Contacts, q.contact[c].status # "none"
      PROVE  ContactFound(q, c)
  <2>1. PICK y \in Survivors(p, c) : y \in ActiveContacts(p)
    BY <1>3, <1>8 DEF Sound, EveryoneIsFound, ContactFound
  <2> QED
    BY <1>1, <1>4, <2>1, MergeFinds DEF ContactFound
<1>9. ConversionsAreOnFile(q)
  BY <1>1, <1>3, <1>5 DEF Sound, ConversionsAreOnFile
<1> QED
  BY <1>6, <1>7, <1>8, <1>9 DEF Sound, EveryoneIsFound, q

LEMMA ContactMergeIsSound ==
    ASSUME NEW p \in PartyDocument, Sound(p), NEW s \in Contacts, NEW m \in Contacts,
           s # m, {s, m} \subseteq ActiveContacts(p)
    PROVE  Sound(ContactsMerged(p, s, m))
<1> DEFINE q == ContactsMerged(p, s, m)
<1>1. /\ q.contact = [p.contact EXCEPT ![m].status = "inactive"]
      /\ q.holder = MovedHoldings(p, s, m)
      /\ q.merges = p.merges \cup {<<s, m>>}
      /\ q.account = p.account /\ q.related = p.related /\ q.conversion = p.conversion
  BY DEF ContactsMerged, PartyDocument
<1> HIDE DEF q
<1>2. /\ q.contact[m].status = "inactive"
      /\ \A c \in Contacts : c # m => q.contact[c] = p.contact[c]
  BY <1>1 DEF PartyDocument, ContactRecord
<1>3. /\ ActiveContacts(q) = ActiveContacts(p) \ {m}
      /\ ActiveAccounts(q) = ActiveAccounts(p)
  BY <1>1, <1>2 DEF ActiveContacts, ActiveAccounts
<1>4. \A c \in Contacts : q.contact[c].status # "none" <=> p.contact[c].status # "none"
  BY <1>2 DEF ActiveContacts
<1>5. NothingIsAstray(q)
  <2>1. ASSUME NEW h \in Holdings
        PROVE  q.holder[h] \in {None} \cup ActiveAccounts(q) \cup ActiveContacts(q)
    BY <1>1, <1>3 DEF Sound, NothingIsAstray, MovedHoldings, Renamed
  <2> QED
    BY <1>1, <1>3, <2>1 DEF Sound, NothingIsAstray
<1>6. ASSUME NEW c \in Contacts, q.contact[c].status # "none"
      PROVE  ContactFound(q, c)
  <2>1. PICK y \in Survivors(p, c) : y \in ActiveContacts(p)
    BY <1>4, <1>6 DEF Sound, EveryoneIsFound, ContactFound
  <2>2. y \in Survivors(q, c) /\ (y = m => s \in Survivors(q, c))
    BY <1>1, MergeFinds
  <2> QED
    BY <1>3, <2>1, <2>2 DEF ContactFound
<1>7. ASSUME NEW a \in Accounts, q.account[a] # "none"
      PROVE  AccountFound(q, a)
  <2>1. PICK y \in Survivors(p, a) : y \in ActiveAccounts(p)
    BY <1>1, <1>7 DEF Sound, EveryoneIsFound, AccountFound
  <2> QED
    BY <1>1, <1>3, <2>1, MergeFinds DEF AccountFound
<1>8. ConversionsAreOnFile(q)
  BY <1>1, <1>4 DEF Sound, ConversionsAreOnFile
<1> QED
  BY <1>5, <1>6, <1>7, <1>8 DEF Sound, EveryoneIsFound, q

(* Documents with a new account, a new contact or a new attachment. *)
LEMMA NewAccountIsSound ==
    ASSUME NEW p \in PartyDocument, Sound(p), NEW a \in Accounts
    PROVE  /\ Sound(WithAccount(p, a))
           /\ WithAccount(p, a).account[a] = "active"
<1> DEFINE q == WithAccount(p, a)
<1>1. /\ q.account = [p.account EXCEPT ![a] = "active"]
      /\ q.contact = p.contact /\ q.holder = p.holder /\ q.related = p.related
      /\ q.merges = p.merges /\ q.conversion = p.conversion
  BY DEF WithAccount, PartyDocument
<1> HIDE DEF q
<1>2. q.account[a] = "active" /\ \A b \in Accounts : b # a => q.account[b] = p.account[b]
  BY <1>1 DEF PartyDocument
<1>3. Sound(q)
  BY <1>1, <1>2, CreationIsSound
<1> QED
  BY <1>2, <1>3 DEF q

LEMMA NewContactIsSound ==
    ASSUME NEW p \in PartyDocument, Sound(p), NEW c \in Contacts, NEW account, NEW e
    PROVE  /\ Sound(WithContact(p, c, account, e))
           /\ WithContact(p, c, account, e).contact[c].status = "active"
           /\ WithContact(p, c, account, e).account = p.account
<1> DEFINE q == WithContact(p, c, account, e)
<1>1. /\ q.contact = [p.contact EXCEPT ![c] =
                        [status |-> "active", account |-> account, email |-> e]]
      /\ q.account = p.account /\ q.holder = p.holder /\ q.related = p.related
      /\ q.merges = p.merges /\ q.conversion = p.conversion
  BY DEF WithContact, PartyDocument
<1> HIDE DEF q
<1>2. q.contact[c].status = "active" /\ \A d \in Contacts : d # c => q.contact[d] = p.contact[d]
  BY <1>1 DEF PartyDocument
<1>3. Sound(q)
  BY <1>1, <1>2, CreationIsSound
<1> QED
  BY <1>1, <1>2, <1>3 DEF q

(* A document whose records, merges and conversions are those of another,  *)
(* and whose attachments are with active records.                          *)
LEMMA AttachmentIsSound ==
    ASSUME NEW p, NEW q, Sound(p), NothingIsAstray(q),
           q.account = p.account, q.contact = p.contact,
           q.merges = p.merges, q.conversion = p.conversion
    PROVE  Sound(q)
<1>1. \A x : Survivors(q, x) = Survivors(p, x)
  BY DEF Survivors, ClosedUnderMerges
<1> QED
  BY <1>1 DEF Sound, EveryoneIsFound, ConversionsAreOnFile, AccountFound, ContactFound,
              ActiveAccounts, ActiveContacts

(* A party document that is written, in memory only or also stored. *)
LEMMA SoundMutation ==
    ASSUME PartyIsSound, NEW new, Sound(new), PartyMutated(new)
    PROVE  PartyIsSound'
BY DEF PartyIsSound, PartyMutated, PartyStored, PartyWriteLost, Sound, NothingIsAstray,
       EveryoneIsFound, ConversionsAreOnFile

(* Every command of the party master leaves such a document. *)
LEMMA PartyStepIsSound ==
    ASSUME IInv, PartyIsSound, PartyNext
    PROVE  PartyIsSound'
<1>1. party \in PartyDocument /\ Sound(party)
  BY DEF IInv, ConversionTypeOK, PartyIsSound
<1>2. ASSUME NEW a \in Accounts, CreateAccount(a)
      PROVE  PartyIsSound'
  BY <1>1, <1>2, NewAccountIsSound, SoundMutation DEF CreateAccount
<1>3. ASSUME NEW c \in Contacts, NEW account \in Accounts \cup {None}, NEW e \in Emails,
             CreateContact(c, account, e)
      PROVE  PartyIsSound'
  BY <1>1, <1>3, NewContactIsSound, SoundMutation DEF CreateContact
<1>4. ASSUME NEW new \in PartyDocument, PartyMutated(new),
             new.account = party.account, new.contact = party.contact,
             new.merges = party.merges, new.conversion = party.conversion,
             NothingIsAstray(new)
      PROVE  PartyIsSound'
  BY <1>1, <1>4, AttachmentIsSound, SoundMutation
<1>5. ASSUME NEW new, PartyMutated(new),
             new.account = party.account, new.contact = party.contact,
             new.merges = party.merges, new.conversion = party.conversion,
             new.holder = party.holder, new.related = party.related
      PROVE  PartyIsSound'
  <2>1. NothingIsAstray(new)
    BY <1>1, <1>5 DEF Sound, NothingIsAstray, ActiveAccounts, ActiveContacts
  <2> QED
    BY <1>1, <1>5, <2>1, AttachmentIsSound, SoundMutation
<1>6. ASSUME NEW c \in Contacts, NEW channel \in Channels,
             NEW status \in {"granted", "withdrawn"}, RecordConsent(c, channel, status)
      PROVE  PartyIsSound'
  <2> DEFINE new == [party EXCEPT !.consents =
                       Append(@, [contact |-> c, channel |-> channel, status |-> status])]
  <2>1. PartyMutated(new)
    BY <1>6 DEF RecordConsent
  <2>2. /\ new.account = party.account /\ new.contact = party.contact
        /\ new.merges = party.merges /\ new.conversion = party.conversion
        /\ new.holder = party.holder /\ new.related = party.related
    BY <1>1 DEF PartyDocument
  <2> QED
    BY <1>5, <2>1, <2>2
<1>7. ASSUME NEW pair \in party.duplicates, ResolveDuplicate(pair)
      PROVE  PartyIsSound'
  <2> DEFINE new == [party EXCEPT !.duplicates = @ \ {pair}]
  <2>1. PartyMutated(new)
    BY <1>7 DEF ResolveDuplicate
  <2>2. /\ new.account = party.account /\ new.contact = party.contact
        /\ new.merges = party.merges /\ new.conversion = party.conversion
        /\ new.holder = party.holder /\ new.related = party.related
    BY <1>1 DEF PartyDocument
  <2> QED
    BY <1>5, <2>1, <2>2
<1>8. ASSUME NEW h \in Holdings, NEW owner \in Accounts \cup Contacts, AddHolding(h, owner)
      PROVE  PartyIsSound'
  <2> DEFINE new == [party EXCEPT !.holder[h] = owner]
  <2>1. PartyMutated(new) /\ owner \in ActiveAccounts(party) \cup ActiveContacts(party)
    BY <1>8 DEF AddHolding
  <2>2. /\ new \in PartyDocument
        /\ new.account = party.account /\ new.contact = party.contact
        /\ new.merges = party.merges /\ new.conversion = party.conversion
        /\ new.related = party.related
        /\ \A k \in Holdings : new.holder[k] = IF k = h THEN owner ELSE party.holder[k]
    BY <1>1 DEF PartyDocument
  <2>3. NothingIsAstray(new)
    BY <1>1, <2>1, <2>2 DEF Sound, NothingIsAstray, ActiveAccounts, ActiveContacts
  <2> HIDE DEF new
  <2> QED
    BY <1>4, <2>1, <2>2, <2>3
<1>9. ASSUME NEW a \in Accounts, NEW b \in Accounts, CreateRelationship(a, b)
      PROVE  PartyIsSound'
  <2> DEFINE new == [party EXCEPT !.related = @ \cup {<<a, b>>}]
  <2>1. PartyMutated(new) /\ {a, b} \subseteq ActiveAccounts(party)
    BY <1>9 DEF CreateRelationship
  <2>2. /\ new \in PartyDocument
        /\ new.account = party.account /\ new.contact = party.contact
        /\ new.merges = party.merges /\ new.conversion = party.conversion
        /\ new.holder = party.holder /\ new.related = party.related \cup {<<a, b>>}
    BY <1>1 DEF PartyDocument
  <2>3. NothingIsAstray(new)
    BY <1>1, <2>1, <2>2 DEF Sound, NothingIsAstray, ActiveAccounts, ActiveContacts
  <2> HIDE DEF new
  <2> QED
    BY <1>4, <2>1, <2>2, <2>3
<1>10. ASSUME NEW a \in Accounts, NEW b \in Accounts, ExecuteAccountMerge(a, b)
       PROVE  PartyIsSound'
  BY <1>1, <1>10, AccountMergeIsSound, SoundMutation DEF ExecuteAccountMerge
<1>11. ASSUME NEW c \in Contacts, NEW d \in Contacts, ExecuteContactMerge(c, d)
       PROVE  PartyIsSound'
  BY <1>1, <1>11, ContactMergeIsSound, SoundMutation DEF ExecuteContactMerge
<1> QED
  BY <1>2, <1>3, <1>6, <1>7, <1>8, <1>9, <1>10, <1>11 DEF PartyNext

(* So does a conversion: it names records that are active. *)
LEMMA ConversionIsSound ==
    ASSUME IInv, Sound(party), NEW w \in Windows, call[w].step = "party",
           NEW new \in ConvertLeadToParty(w)
    PROVE  Sound(new)
<1> DEFINE l == call[w].lead  a == call[w].account
<1>1. /\ party \in PartyDocument /\ l \in Leads /\ a \in Accounts \cup {None}
      /\ lead[l].email \in Emails \cup {None}
  BY DEF IInv, ConversionTypeOK, CallIsBacked, CallRecord, LeadRecord
<1>2. CASE party.conversion[l] # NoConversion
  BY <1>1, <1>2 DEF ConvertLeadToParty
<1>3. CASE party.conversion[l] = NoConversion
  <2>1. ASSUME NEW p \in PartyDocument, Sound(p),
               NEW b \in Accounts, p.account[b] = "active", new \in ConvertedIn(p, l, b)
        PROVE  Sound(new)
    <3>1. PICK c \in Contacts, q \in PartyDocument :
            /\ Sound(q) /\ q.account[b] = "active" /\ q.contact[c].status = "active"
            /\ new = [q EXCEPT !.conversion[l] = [account |-> b, contact |-> c]]
      <4>1. \A c \in Contacts : /\ WithContact(p, c, b, lead[l].email) \in PartyDocument
                                /\ Sound(WithContact(p, c, b, lead[l].email))
                                /\ WithContact(p, c, b, lead[l].email).contact[c].status = "active"
                                /\ WithContact(p, c, b, lead[l].email).account[b] = "active"
        BY <1>1, <2>1, ContactTyped, NewContactIsSound
      <4> QED
        BY <2>1, <4>1 DEF ConvertedIn, ActiveContacts
    <3>2. /\ new.account = q.account /\ new.contact = q.contact /\ new.merges = q.merges
          /\ new.holder = q.holder /\ new.related = q.related
          /\ new.conversion = [q.conversion EXCEPT ![l] = [account |-> b, contact |-> c]]
      BY <3>1 DEF PartyDocument
    <3>3. \A k \in Leads : new.conversion[k] =
            IF k = l THEN [account |-> b, contact |-> c] ELSE q.conversion[k]
      BY <3>2 DEF PartyDocument
    <3>4. ConversionsAreOnFile(new)
      BY <3>1, <3>2, <3>3 DEF Sound, ConversionsAreOnFile
    <3>5. \A x : Survivors(new, x) = Survivors(q, x)
      BY <3>2 DEF Survivors, ClosedUnderMerges
    <3>6. NothingIsAstray(new) /\ EveryoneIsFound(new)
      BY <3>1, <3>2, <3>5 DEF Sound, NothingIsAstray, EveryoneIsFound, AccountFound,
                              ContactFound, ActiveAccounts, ActiveContacts
    <3> QED
      BY <3>4, <3>6 DEF Sound
  <2>2. CASE a # None
    BY <1>1, <1>3, <2>1, <2>2 DEF ConvertLeadToParty
  <2>3. CASE a = None
    <3>1. PICK b \in Accounts : new \in ConvertedIn(WithAccount(party, b), l, b)
      BY <1>3, <2>3 DEF ConvertLeadToParty
    <3> QED
      BY <1>1, <2>1, <3>1, AccountTyped, NewAccountIsSound
  <2> QED
    BY <2>2, <2>3
<1> QED
  BY <1>2, <1>3

LEMMA SoundInitially == ConversionInit => PartyIsSound
<1> SUFFICES ASSUME ConversionInit PROVE PartyIsSound
  OBVIOUS
<1>1. Sound(CleanParty)
  BY DEF CleanParty, Sound, NothingIsAstray, EveryoneIsFound, ConversionsAreOnFile,
         NoAccount, NoContact
<1> QED
  BY <1>1 DEF ConversionInit, PartyInit, PartyIsSound

LEMMA SoundStep ==
    ASSUME IInv, PartyIsSound, [ConversionNext]_conversionVars
    PROVE  PartyIsSound'
<1>1. CASE PartyStep
  BY <1>1, PartyStepIsSound DEF PartyStep
<1>2. ASSUME NEW w \in Windows, PartyConverts(w)
      PROVE  PartyIsSound'
  <2>1. CASE UNCHANGED partyVars
    BY <2>1 DEF partyVars, PartyIsSound, Sound, NothingIsAstray, EveryoneIsFound,
                ConversionsAreOnFile
  <2>2. CASE \E new \in ConvertLeadToParty(w) : PartyMutated(new)
    BY <1>2, <2>2, ConversionIsSound, SoundMutation DEF PartyConverts, PartyIsSound
  <2> QED
    BY <1>2, <2>1, <2>2 DEF PartyConverts, PartyMutated
<1>3. CASE UNCHANGED <<party, partyDisk>>
  BY <1>3 DEF PartyIsSound, Sound, NothingIsAstray, EveryoneIsFound, ConversionsAreOnFile
<1>4. CASE CrashAndRestart
  BY <1>4 DEF CrashAndRestart, PartyIsSound
<1> QED
  BY <1>1, <1>2, <1>3, <1>4 DEF ConversionNext, WindowStep, conversionVars, partyVars, AddLead,
     PreviewLeadImport, StartConversion, CrmMarksConverted, StartImport, CrmImports, CommitImport

LEMMA SoundThroughout == ConversionSpec => []PartyIsSound
BY SoundInitially, SoundStep, ConversionInvariant, PTL DEF ConversionSpec

(* executeMerge takes everything attached to a record along: whatever is   *)
(* merged into whatever, in any order, nothing is left with a record that  *)
(* is no longer active.                                                    *)
THEOREM NothingIsEverLeftBehind == ConversionSpec => []NothingIsLeftBehind
BY SoundThroughout, PTL DEF PartyIsSound, Sound, NothingIsLeftBehind

(* The account and the contact of a conversion are active, or were merged, *)
(* through however many others, into one that is.                          *)
THEOREM ConversionsAlwaysResolve == ConversionSpec => []ConversionsResolve
<1>1. PartyIsSound => ConversionsResolve
  BY DEF PartyIsSound, Sound, EveryoneIsFound, ConversionsAreOnFile, ConversionsResolve
<1> QED
  BY <1>1, SoundThroughout, PTL

-----------------------------------------------------------------------------
(* Imports: the leads are stored before the job is.                        *)

(* The leads of one document are in another, with their addresses. *)
KeepsLeads(p, q) ==
    \A l \in Leads : p[l].status # "none" => q[l].status # "none" /\ q[l].email = p[l].email

NoLeadNoAddress(p) == \A l \in Leads : p[l].status = "none" => p[l].email = None

Holds(leads, rows) ==
    \A e \in rows : \E l \in Leads : leads[l].status # "none" /\ leads[l].email = e

(* A window that is to commit the import has its leads stored, and the     *)
(* rows of the job it read cannot change any more: a preview needs a job   *)
(* that is none.                                                           *)
ImportIsBacked(c) ==
    /\ c.step \in {"import", "commit"} => job.status # "none"
    /\ c.step = "commit" => Holds(leadDisk, job.rows)

ImportInv ==
    /\ KeepsLeads(leadDisk, lead)
    /\ NoLeadNoAddress(lead) /\ NoLeadNoAddress(leadDisk)
    /\ \A j \in {job, jobDisk} : j.status = "committed" => Holds(leadDisk, j.rows)
    /\ \A w \in Windows : ImportIsBacked(call[w])

LEMMA HoldsStill ==
    ASSUME NEW p, NEW q, KeepsLeads(p, q), NEW rows, Holds(p, rows)
    PROVE  Holds(q, rows)
BY DEF KeepsLeads, Holds

(* The CRM document is written, in memory only or also stored. *)
LEMMA LeadsWritten ==
    ASSUME ImportInv, NEW new, KeepsLeads(lead, new), NoLeadNoAddress(new),
           LeadsStored(new) \/ LeadsWriteLost(new), UNCHANGED jobVars,
           \A w \in Windows : \/ call'[w] = call[w]
                              \/ call'[w].step \notin {"import", "commit"}
                              \/ /\ LeadsStored(new) /\ Holds(new, job.rows)
                                 /\ job.status # "none"
    PROVE  ImportInv'
<1>1. KeepsLeads(leadDisk, new) /\ KeepsLeads(leadDisk, leadDisk) /\ KeepsLeads(new, new)
  BY DEF ImportInv, KeepsLeads
<1>2. lead' = new /\ (leadDisk' = new \/ leadDisk' = leadDisk)
  BY DEF LeadsStored, LeadsWriteLost
<1>3. KeepsLeads(leadDisk, leadDisk')
  BY <1>1, <1>2
<1>4. KeepsLeads(leadDisk, lead)'
  BY <1>1, <1>2 DEF KeepsLeads
<1>5. NoLeadNoAddress(lead)' /\ NoLeadNoAddress(leadDisk)'
  BY <1>2 DEF ImportInv, NoLeadNoAddress
<1>6. \A rows : Holds(leadDisk, rows) => Holds(leadDisk', rows)
  BY <1>3, HoldsStill
<1>7. \A j \in {job, jobDisk} : j.status = "committed" => Holds(leadDisk', j.rows)
  BY <1>6 DEF ImportInv
<1>8. (\A j \in {job, jobDisk} : j.status = "committed" => Holds(leadDisk, j.rows))'
  BY <1>7 DEF jobVars, Holds
<1>9. ASSUME NEW w \in Windows
      PROVE  ImportIsBacked(call[w])'
  <2>1. ImportIsBacked(call[w]) /\ job' = job
    BY DEF ImportInv, jobVars
  <2>2. CASE call'[w] = call[w]
    <3>1. call[w].step = "commit" => Holds(leadDisk', job.rows)
      BY <1>6, <2>1 DEF ImportIsBacked
    <3> QED
      BY <2>1, <2>2, <3>1 DEF ImportIsBacked, Holds
  <2>3. CASE call'[w].step \notin {"import", "commit"}
    BY <2>3 DEF ImportIsBacked
  <2>4. CASE LeadsStored(new) /\ Holds(new, job.rows) /\ job.status # "none"
    BY <2>1, <2>4 DEF ImportIsBacked, LeadsStored, Holds
  <2> QED
    BY <2>2, <2>3, <2>4
<1> QED
  BY <1>4, <1>5, <1>8, <1>9 DEF ImportInv

(* The leads stay; the job may change while no window imports it, or from  *)
(* a preview whose leads are stored to a commit.                           *)
LEMMA JobWritten ==
    ASSUME ImportInv, UNCHANGED crmVars, NEW new,
           JobStored(new) \/ JobWriteLost(new),
           \/ job.status = "none" /\ new.status = "preview"
           \/ new.rows = job.rows /\ new.status # "none" /\ Holds(leadDisk, new.rows),
           \A w \in Windows : call'[w] = call[w] \/ call'[w].step \notin {"import", "commit"}
    PROVE  ImportInv'
<1>1. /\ job' = new /\ (jobDisk' = new \/ jobDisk' = jobDisk)
      /\ lead' = lead /\ leadDisk' = leadDisk
  BY DEF JobStored, JobWriteLost, crmVars
<1>2. new.status = "committed" => Holds(leadDisk, new.rows)
  OBVIOUS
<1>3. (\A j \in {job, jobDisk} : j.status = "committed" => Holds(leadDisk, j.rows))'
  BY <1>1, <1>2 DEF ImportInv, Holds
<1>4. ASSUME NEW w \in Windows
      PROVE  ImportIsBacked(call[w])'
  <2>1. ImportIsBacked(call[w])
    BY DEF ImportInv
  <2> QED
    BY <1>1, <2>1 DEF ImportIsBacked, Holds
<1> QED
  BY <1>1, <1>3, <1>4 DEF ImportInv, KeepsLeads, NoLeadNoAddress

LEMMA OnlyCalls ==
    ASSUME ImportInv, UNCHANGED <<crmVars, jobVars>>,
           \A w \in Windows : \/ call'[w] = call[w]
                              \/ call'[w].step \notin {"import", "commit"}
                              \/ call'[w].step = "import" /\ job.status # "none"
    PROVE  ImportInv'
<1>1. lead' = lead /\ leadDisk' = leadDisk /\ job' = job /\ jobDisk' = jobDisk
  BY DEF crmVars, jobVars
<1>2. ASSUME NEW w \in Windows
      PROVE  ImportIsBacked(call[w])'
  <2>1. ImportIsBacked(call[w])
    BY DEF ImportInv
  <2> QED
    BY <1>1, <2>1 DEF ImportIsBacked, Holds
<1> QED
  BY <1>1, <1>2 DEF ImportInv, KeepsLeads, NoLeadNoAddress, Holds

(* importLeads: every row is an address that some lead had, or has now. *)
LEMMA ImportedHolds ==
    ASSUME IInv, ImportInv, NEW new \in Imported(job.rows)
    PROVE  /\ Holds(new, job.rows) /\ KeepsLeads(lead, new) /\ NoLeadNoAddress(new)
<1> DEFINE fresh == {l \in Leads : lead[l].status = "none"}
<1>1. PICK f \in [job.rows \ LeadEmails -> fresh] :
        /\ new = WithLeads(f)
        /\ \A d, e \in DOMAIN f : f[d] = f[e] => d = e
  BY DEF Imported
<1>2. DOMAIN f = job.rows \ LeadEmails
  BY <1>1
<1>3. ASSUME NEW e \in DOMAIN f
      PROVE  f[e] \in fresh /\ new[f[e]].status = "new" /\ new[f[e]].email = e
  <2>1. f[e] \in fresh
    BY <1>1
  <2>2. (CHOOSE d \in DOMAIN f : f[d] = f[e]) = e
    BY <1>1
  <2>3. new[f[e]] = [NoLead EXCEPT !.status = "new",
                       !.email = CHOOSE d \in DOMAIN f : f[d] = f[e]]
    BY <1>1, <2>1 DEF WithLeads
  <2> QED
    BY <2>1, <2>2, <2>3 DEF NoLead
<1>4. ASSUME NEW l \in Leads, \A e \in DOMAIN f : f[e] # l
      PROVE  new[l] = lead[l]
  BY <1>1, <1>4 DEF WithLeads
<1>5. \A l \in Leads : lead[l].status # "none" => new[l] = lead[l]
  BY <1>3, <1>4
<1>6. KeepsLeads(lead, new)
  BY <1>5 DEF KeepsLeads
<1>7. NoLeadNoAddress(new)
  <2>1. ASSUME NEW l \in Leads, new[l].status = "none"
        PROVE  new[l].email = None
    <3>1. new[l] = lead[l]
      BY <1>3, <1>4, <2>1
    <3> QED
      BY <2>1, <3>1 DEF ImportInv, NoLeadNoAddress
  <2> QED
    BY <2>1 DEF NoLeadNoAddress
<1>8. ASSUME NEW e \in job.rows
      PROVE  \E l \in Leads : new[l].status # "none" /\ new[l].email = e
  <2>1. CASE e \in DOMAIN f
    BY <1>3, <2>1
  <2>2. CASE e \notin DOMAIN f
    <3>1. PICK l \in Leads : lead[l].email = e /\ e # None
      BY <1>2, <2>2 DEF LeadEmails
    <3>2. lead[l].status # "none"
      BY <3>1 DEF ImportInv, NoLeadNoAddress
    <3> QED
      BY <1>5, <3>1, <3>2
  <2> QED
    BY <2>1, <2>2
<1> QED
  BY <1>6, <1>7, <1>8 DEF Holds

LEMMA WindowImports ==
    ASSUME IInv, ImportInv, NEW w \in Windows, WindowStep(w)
    PROVE  ImportInv'
<1>1. ConversionTypeOK
  BY DEF IInv
<1>2. ASSUME NEW result \in {"done", "failed"}, Answered(w, result)
      PROVE  \A v \in Windows : call'[v] = call[v] \/ call'[v].step \notin {"import", "commit"}
  BY <1>1, <1>2, AnsweredTyped
<1>3. ASSUME NEW l \in Leads, NEW account \in Accounts \cup {None}, StartConversion(w, l, account)
      PROVE  ImportInv'
  <2>1. \A v \in Windows : call'[v] = call[v] \/ call'[v].step \notin {"import", "commit"}
    BY <1>1, <1>3 DEF StartConversion, ConversionTypeOK, NoCall
  <2> QED
    BY <1>3, <2>1, OnlyCalls DEF StartConversion
<1>4. CASE PartyConverts(w)
  <2>1. ASSUME NEW refs, call' = [call EXCEPT ![w].step = "crm", ![w].refs = refs]
        PROVE  \A v \in Windows : call'[v] = call[v] \/ call'[v].step \notin {"import", "commit"}
    BY <1>1, <2>1 DEF ConversionTypeOK, CallRecord
  <2>2. \A v \in Windows : call'[v] = call[v] \/ call'[v].step \notin {"import", "commit"}
    BY <1>2, <1>4, <2>1 DEF PartyConverts
  <2> QED
    BY <1>4, <2>2, OnlyCalls DEF PartyConverts
<1>5. CASE CrmMarksConverted(w)
  <2> DEFINE l == call[w].lead  refs == call[w].refs
             new == IF AlreadyConverted(l, refs) THEN lead ELSE Converted(lead, l, refs)
  <2>1. /\ UNCHANGED jobVars
        /\ \/ UNCHANGED <<crmVars, lostWrites>>
           \/ LeadsStored(new) \/ LeadsWriteLost(new)
    BY <1>5 DEF CrmMarksConverted
  <2>2. \A v \in Windows : call'[v] = call[v] \/ call'[v].step \notin {"import", "commit"}
    BY <1>2, <1>5 DEF CrmMarksConverted
  <2>3. l \in Leads
    BY <1>5 DEF CrmMarksConverted, IInv, CallIsBacked
  <2>4. \A k \in Leads : /\ Converted(lead, l, refs)[k].email = lead[k].email
                         /\ k # l => Converted(lead, l, refs)[k] = lead[k]
    BY <1>1, <2>3 DEF Converted, ConversionTypeOK, LeadRecord
  <2>5. Converted(lead, l, refs)[l].status = "converted"
    BY <1>1, <2>3 DEF Converted, ConversionTypeOK, LeadRecord
  <2>6. KeepsLeads(lead, new) /\ NoLeadNoAddress(new)
    BY <2>4, <2>5 DEF ImportInv, KeepsLeads, NoLeadNoAddress
  <2> HIDE DEF new
  <2> QED
    BY <2>1, <2>2, <2>6, LeadsWritten, OnlyCalls
<1>6. CASE StartImport(w)
  <2>1. \A v \in Windows : call'[v] = call[v] \/ call'[v].step = "import"
    BY <1>1, <1>6 DEF StartImport, ConversionTypeOK, NoCall
  <2> QED
    BY <1>6, <2>1, OnlyCalls DEF StartImport
<1>7. CASE CrmImports(w)
  <2>1. PICK new \in Imported(job.rows) :
          \/ LeadsStored(new) /\ call' = [call EXCEPT ![w].step = "commit"]
          \/ LeadsWriteLost(new) /\ Answered(w, "failed")
    BY <1>7 DEF CrmImports
  <2>2. Holds(new, job.rows) /\ KeepsLeads(lead, new) /\ NoLeadNoAddress(new)
    BY ImportedHolds
  <2>3. job.status # "none" /\ UNCHANGED jobVars
    BY <1>7 DEF CrmImports, ImportInv, ImportIsBacked
  <2>4. ASSUME NEW v \in Windows
        PROVE  \/ call'[v] = call[v]
               \/ call'[v].step \notin {"import", "commit"}
               \/ LeadsStored(new)
    BY <1>2, <2>1
  <2> QED
    BY <2>1, <2>2, <2>3, <2>4, LeadsWritten
<1>8. CASE CommitImport(w)
  <2> DEFINE new == [job EXCEPT !.status = "committed"]
  <2>1. /\ UNCHANGED crmVars
        /\ JobStored(new) \/ JobWriteLost(new) \/ UNCHANGED jobVars
    BY <1>8 DEF CommitImport
  <2>2. \A v \in Windows : call'[v] = call[v] \/ call'[v].step \notin {"import", "commit"}
    BY <1>2, <1>8 DEF CommitImport
  <2>3. Holds(leadDisk, job.rows)
    BY <1>8 DEF CommitImport, ImportInv, ImportIsBacked
  <2>4. new.rows = job.rows /\ new.status = "committed"
    BY <1>1 DEF ConversionTypeOK, JobRecord
  <2>5. Holds(leadDisk, new.rows)
    BY <2>3, <2>4
  <2> HIDE DEF new
  <2> QED
    BY <2>1, <2>2, <2>4, <2>5, JobWritten, OnlyCalls
<1> QED
  BY <1>3, <1>4, <1>5, <1>6, <1>7, <1>8 DEF WindowStep

LEMMA ImportStep ==
    ASSUME IInv, ImportInv, [ConversionNext]_conversionVars
    PROVE  ImportInv'
<1>1. ASSUME NEW l \in Leads, NEW e \in Emails, AddLead(l, e)
      PROVE  ImportInv'
  <2>1. /\ \A k \in Leads : k # l => Added(lead, l, e)[k] = lead[k]
        /\ Added(lead, l, e)[l].status = "new"
    BY DEF IInv, ConversionTypeOK, Added, NoLead
  <2>2. KeepsLeads(lead, Added(lead, l, e)) /\ NoLeadNoAddress(Added(lead, l, e))
    BY <1>1, <2>1 DEF AddLead, ImportInv, KeepsLeads, NoLeadNoAddress
  <2> QED
    BY <1>1, <2>2, LeadsWritten DEF AddLead
<1>2. ASSUME NEW rows \in SUBSET Emails, PreviewLeadImport(rows)
      PROVE  ImportInv'
  BY <1>2, JobWritten DEF PreviewLeadImport
<1>3. ASSUME NEW w \in Windows, WindowStep(w)
      PROVE  ImportInv'
  BY <1>3, WindowImports
<1>4. CASE CrashAndRestart
  <2>1. /\ lead' = leadDisk /\ leadDisk' = leadDisk /\ job' = jobDisk /\ jobDisk' = jobDisk
        /\ \A w \in Windows : call'[w] = NoCall
    BY <1>4 DEF CrashAndRestart
  <2>2. \A w \in Windows : ImportIsBacked(call[w])'
    BY <2>1 DEF ImportIsBacked, NoCall
  <2> QED
    BY <2>1, <2>2 DEF ImportInv, KeepsLeads, NoLeadNoAddress, Holds
<1>5. CASE UNCHANGED <<crmVars, jobVars, call>>
  BY <1>5, OnlyCalls
<1> QED
  BY <1>1, <1>2, <1>3, <1>4, <1>5 DEF ConversionNext, PartyStep, conversionVars

LEMMA ImportInitially == ConversionInit => ImportInv
BY DEF ConversionInit, ImportInv, NoLead, NoJob, NoCall, KeepsLeads, NoLeadNoAddress, Holds,
       ImportIsBacked

(* crmDepthCommitImport writes the leads before the job: an import that is *)
(* recorded as committed has a stored lead for each of its rows, however   *)
(* writes fail and wherever the process stops.                             *)
THEOREM CommittedImportsAreStored == ConversionSpec => []CommittedImportIsStored
<1>1. ImportInv => CommittedImportIsStored
  BY DEF ImportInv, Holds, CommittedImportIsStored
<1> QED
  BY <1>1, ImportInitially, ImportStep, ConversionInvariant, PTL DEF ConversionSpec

-----------------------------------------------------------------------------
(* Receivables.                                                            *)

LEMMA AllocatedIsTotal ==
    ASSUME NEW to \in [Invoices -> Nat]
    PROVE  /\ Terms(to, Invoices) /\ Allocated(to) = Total(to, Invoices)
           /\ Allocated(to) \in Nat
<1> DEFINE Eq(h) == h = [s \in SUBSET Invoices |-> IF s = {} THEN 0
                         ELSE LET x == CHOOSE x \in s : TRUE IN to[x] + h[s \ {x}]]
<1>0. Terms(to, Invoices)
  BY ReceivablesAssumption DEF Terms
<1>1. PICK g : Adds(g, to, Invoices)
  BY <1>0, AddsExists
<1>2. Eq(g)
  BY <1>1 DEF Adds, Pick
<1>3. Eq(CHOOSE h : Eq(h))
  <2> HIDE DEF Eq
  <2> QED
    BY <1>2
<1>4. \A h : Eq(h) => Adds(h, to, Invoices)
  BY DEF Adds, Pick
<1>5. Allocated(to) = (CHOOSE h : Eq(h))[Invoices]
  BY DEF Allocated, MapThenSumSet, MapThenFoldSet
<1> HIDE DEF Eq
<1>6. Allocated(to) = Total(to, Invoices)
  BY <1>0, <1>3, <1>4, <1>5, TotalIs
<1>7. Total(to, Invoices) \in Int /\ Total(to, Invoices) >= 0
  BY <1>0, TotalType, TotalCovers
<1> QED
  BY <1>0, <1>6, <1>7

(* The three totals of BalancesAgree, as totals of functions. *)
OwedTerms(r) == [i \in Invoices |-> r[i].outstanding]
OwedOf(r) == MapThenSumSet(LAMBDA i : r[i].outstanding, Invoices)
CashTerms(j) == [p \in Receipts |-> j[p].allocated]
CashOf(j) == MapThenSumSet(LAMBDA p : j[p].allocated, Receipts)
PaidTerms(r, i) == [p \in Receipts |-> r[p].to[i]]
PaidOf(r, i) == MapThenSumSet(LAMBDA p : r[p].to[i], Receipts)

LEMMA OwedIsTotal ==
    ASSUME NEW r, \A i \in Invoices : r[i].outstanding \in Int
    PROVE  Terms(OwedTerms(r), Invoices) /\ OwedOf(r) = Total(OwedTerms(r), Invoices)
<1> DEFINE Eq(h) == h = [s \in SUBSET Invoices |-> IF s = {} THEN 0
                         ELSE LET x == CHOOSE x \in s : TRUE IN r[x].outstanding + h[s \ {x}]]
<1>0. Terms(OwedTerms(r), Invoices)
  BY ReceivablesAssumption DEF Terms, OwedTerms
<1>1. PICK g : Adds(g, OwedTerms(r), Invoices)
  BY <1>0, AddsExists
<1>2. Eq(g)
  BY <1>1, PickIsMember DEF Adds, Pick, OwedTerms
<1>3. Eq(CHOOSE h : Eq(h))
  <2> HIDE DEF Eq
  <2> QED
    BY <1>2
<1>4. \A h : Eq(h) => Adds(h, OwedTerms(r), Invoices)
  BY PickIsMember DEF Adds, Pick, OwedTerms
<1>5. OwedOf(r) = (CHOOSE h : Eq(h))[Invoices]
  BY DEF OwedOf, MapThenSumSet, MapThenFoldSet
<1> HIDE DEF Eq
<1> QED
  BY <1>0, <1>3, <1>4, <1>5, TotalIs

LEMMA CashIsTotal ==
    ASSUME NEW j, \A p \in Receipts : j[p].allocated \in Int
    PROVE  Terms(CashTerms(j), Receipts) /\ CashOf(j) = Total(CashTerms(j), Receipts)
<1> DEFINE Eq(h) == h = [s \in SUBSET Receipts |-> IF s = {} THEN 0
                         ELSE LET x == CHOOSE x \in s : TRUE IN j[x].allocated + h[s \ {x}]]
<1>0. Terms(CashTerms(j), Receipts)
  BY ReceivablesAssumption DEF Terms, CashTerms
<1>1. PICK g : Adds(g, CashTerms(j), Receipts)
  BY <1>0, AddsExists
<1>2. Eq(g)
  BY <1>1, PickIsMember DEF Adds, Pick, CashTerms
<1>3. Eq(CHOOSE h : Eq(h))
  <2> HIDE DEF Eq
  <2> QED
    BY <1>2
<1>4. \A h : Eq(h) => Adds(h, CashTerms(j), Receipts)
  BY PickIsMember DEF Adds, Pick, CashTerms
<1>5. CashOf(j) = (CHOOSE h : Eq(h))[Receipts]
  BY DEF CashOf, MapThenSumSet, MapThenFoldSet
<1> HIDE DEF Eq
<1> QED
  BY <1>0, <1>3, <1>4, <1>5, TotalIs

LEMMA PaidIsTotal ==
    ASSUME NEW r, NEW i, \A p \in Receipts : r[p].to[i] \in Int
    PROVE  Terms(PaidTerms(r, i), Receipts) /\ PaidOf(r, i) = Total(PaidTerms(r, i), Receipts)
<1> DEFINE Eq(h) == h = [s \in SUBSET Receipts |-> IF s = {} THEN 0
                         ELSE LET x == CHOOSE x \in s : TRUE IN r[x].to[i] + h[s \ {x}]]
<1>0. Terms(PaidTerms(r, i), Receipts)
  BY ReceivablesAssumption DEF Terms, PaidTerms
<1>1. PICK g : Adds(g, PaidTerms(r, i), Receipts)
  BY <1>0, AddsExists
<1>2. Eq(g)
  BY <1>1, PickIsMember DEF Adds, Pick, PaidTerms
<1>3. Eq(CHOOSE h : Eq(h))
  <2> HIDE DEF Eq
  <2> QED
    BY <1>2
<1>4. \A h : Eq(h) => Adds(h, PaidTerms(r, i), Receipts)
  BY PickIsMember DEF Adds, Pick, PaidTerms
<1>5. PaidOf(r, i) = (CHOOSE h : Eq(h))[Receipts]
  BY DEF PaidOf, MapThenSumSet, MapThenFoldSet
<1> HIDE DEF Eq
<1> QED
  BY <1>0, <1>3, <1>4, <1>5, TotalIs

(* What changes with one receivable, one journal, one receipt. *)
LEMMA OwedChanges ==
    ASSUME NEW r, NEW q, \A i \in Invoices : r[i].outstanding \in Int /\ q[i].outstanding \in Int,
           NEW i \in Invoices, \A k \in Invoices : k # i => q[k].outstanding = r[k].outstanding
    PROVE  OwedOf(q) = OwedOf(r) - r[i].outstanding + q[i].outstanding
<1>1. /\ Terms(OwedTerms(r), Invoices) /\ OwedOf(r) = Total(OwedTerms(r), Invoices)
      /\ Terms(OwedTerms(q), Invoices) /\ OwedOf(q) = Total(OwedTerms(q), Invoices)
  BY OwedIsTotal
<1>2. /\ \A k \in Invoices : k # i => OwedTerms(q)[k] = OwedTerms(r)[k]
      /\ OwedTerms(q)[i] = q[i].outstanding /\ OwedTerms(r)[i] = r[i].outstanding
  BY DEF OwedTerms
<1> QED
  BY <1>1, <1>2, TotalChange

LEMMA CashChanges ==
    ASSUME NEW j, NEW k, \A p \in Receipts : j[p].allocated \in Int /\ k[p].allocated \in Int,
           NEW p \in Receipts, \A q \in Receipts : q # p => k[q].allocated = j[q].allocated
    PROVE  CashOf(k) = CashOf(j) - j[p].allocated + k[p].allocated
<1>1. /\ Terms(CashTerms(j), Receipts) /\ CashOf(j) = Total(CashTerms(j), Receipts)
      /\ Terms(CashTerms(k), Receipts) /\ CashOf(k) = Total(CashTerms(k), Receipts)
  BY CashIsTotal
<1>2. /\ \A q \in Receipts : q # p => CashTerms(k)[q] = CashTerms(j)[q]
      /\ CashTerms(k)[p] = k[p].allocated /\ CashTerms(j)[p] = j[p].allocated
  BY DEF CashTerms
<1> QED
  BY <1>1, <1>2, TotalChange

LEMMA PaidChanges ==
    ASSUME NEW r, NEW q, NEW i, \A p \in Receipts : r[p].to[i] \in Int /\ q[p].to[i] \in Int,
           NEW p \in Receipts, \A x \in Receipts : x # p => q[x].to[i] = r[x].to[i]
    PROVE  PaidOf(q, i) = PaidOf(r, i) - r[p].to[i] + q[p].to[i]
<1>1. /\ Terms(PaidTerms(r, i), Receipts) /\ PaidOf(r, i) = Total(PaidTerms(r, i), Receipts)
      /\ Terms(PaidTerms(q, i), Receipts) /\ PaidOf(q, i) = Total(PaidTerms(q, i), Receipts)
  BY PaidIsTotal
<1>2. /\ \A x \in Receipts : x # p => PaidTerms(q, i)[x] = PaidTerms(r, i)[x]
      /\ PaidTerms(q, i)[p] = q[p].to[i] /\ PaidTerms(r, i)[p] = r[p].to[i]
  BY DEF PaidTerms
<1> QED
  BY <1>1, <1>2, TotalChange

(* Payments on several receivables take their total off what is owed. *)
LEMMA OwedFalls ==
    ASSUME NEW r, NEW q, NEW to \in [Invoices -> Nat],
           \A i \in Invoices : r[i].outstanding \in Int,
           \A i \in Invoices : q[i].outstanding = r[i].outstanding - to[i]
    PROVE  OwedOf(q) = OwedOf(r) - Allocated(to)
<1>0. \A i \in Invoices : q[i].outstanding \in Int
  OBVIOUS
<1>1. /\ Terms(OwedTerms(r), Invoices) /\ OwedOf(r) = Total(OwedTerms(r), Invoices)
      /\ Terms(OwedTerms(q), Invoices) /\ OwedOf(q) = Total(OwedTerms(q), Invoices)
  BY <1>0, OwedIsTotal
<1>2. Terms(to, Invoices) /\ Allocated(to) = Total(to, Invoices)
  BY AllocatedIsTotal
<1>3. \A i \in Invoices : OwedTerms(r)[i] = OwedTerms(q)[i] + to[i]
  BY DEF OwedTerms
<1>4. Total(OwedTerms(r), Invoices) = Total(OwedTerms(q), Invoices) + Total(to, Invoices)
  BY <1>1, <1>2, <1>3, TotalPlus
<1>5. Total(OwedTerms(q), Invoices) \in Int /\ Total(to, Invoices) \in Int
  BY <1>1, <1>2, TotalType
<1> QED
  BY <1>1, <1>2, <1>4, <1>5

LEMMA AllocatedAdds ==
    ASSUME NEW f \in [Invoices -> Nat], NEW g \in [Invoices -> Nat],
           NEW h \in [Invoices -> Nat], \A i \in Invoices : h[i] = f[i] + g[i]
    PROVE  Allocated(h) = Allocated(f) + Allocated(g)
BY AllocatedIsTotal, TotalPlus

-----------------------------------------------------------------------------
(* The operations on one receivable.                                       *)

Balanced(r) ==
    /\ r.outstanding = r.original + r.adjustment - r.paid - r.withheld - r.writtenOff
    /\ r.outstanding >= 0

(* What r may become when money is added to it or taken off it. *)
Follows(q, r, change) ==
    /\ q \in ReceivableRecord
    /\ q.status # "none" /\ (q.status = "disputed" => r.status = "disputed")
    /\ q.outstanding = r.outstanding + change
    /\ Balanced(r) /\ r.outstanding + change >= 0 => Balanced(q)

LEMMA AdjustedFollows ==
    ASSUME NEW r \in ReceivableRecord, NEW change \in Int, r.status # "none"
    PROVE  Follows(Adjusted(r, change), r, change) /\ Adjusted(r, change).paid = r.paid
<1> DEFINE s == CASE r.outstanding + change = 0 -> "paid"
                  [] r.outstanding + change # 0 /\ r.paid # 0 -> "partially-paid"
                  [] OTHER -> r.status
<1>1. s \in {"paid", "partially-paid", r.status}
  BY DEF ReceivableRecord
<1> HIDE DEF s
<1> DEFINE q == [r EXCEPT !.adjustment = r.adjustment + change,
                          !.outstanding = r.outstanding + change, !.status = s]
<1>2. Adjusted(r, change) = q
  BY DEF Adjusted, s, ReceivableRecord
<1>3. /\ q.status = s /\ q.adjustment = r.adjustment + change
      /\ q.outstanding = r.outstanding + change
      /\ q.original = r.original /\ q.paid = r.paid /\ q.withheld = r.withheld
      /\ q.writtenOff = r.writtenOff
  BY DEF ReceivableRecord
<1>4. q \in ReceivableRecord
  <2>1. r.adjustment + change \in Int /\ r.outstanding + change \in Int
    BY DEF ReceivableRecord
  <2>2. s \in {"none", "open", "partially-paid", "paid", "disputed", "written-off"}
    BY <1>1 DEF ReceivableRecord
  <2>3. [r EXCEPT !.adjustment = r.adjustment + change,
                  !.outstanding = r.outstanding + change] \in ReceivableRecord
    BY <2>1 DEF ReceivableRecord
  <2> QED
    BY <2>2, <2>3 DEF ReceivableRecord
<1> HIDE DEF q
<1>5. Balanced(r) /\ r.outstanding + change >= 0 => Balanced(q)
  BY <1>3 DEF Balanced, ReceivableRecord
<1> QED
  BY <1>1, <1>2, <1>3, <1>4, <1>5 DEF Follows

LEMMA ReducedTyped ==
    ASSUME NEW r \in ReceivableRecord, NEW a \in Nat, NEW settled \in {"paid", "written-off"}
    PROVE  LET q == Reduced(r, a, settled) IN
           /\ q \in ReceivableRecord /\ q.status \in {settled, "partially-paid"}
           /\ q.outstanding = r.outstanding - a
           /\ q.original = r.original /\ q.adjustment = r.adjustment
           /\ q.paid = r.paid /\ q.withheld = r.withheld /\ q.writtenOff = r.writtenOff
<1> DEFINE s == IF r.outstanding = a THEN settled ELSE "partially-paid"
           q == [r EXCEPT !.outstanding = r.outstanding - a, !.status = s]
<1>1. s \in {settled, "partially-paid"}
  OBVIOUS
<1> HIDE DEF s
<1>2. q \in ReceivableRecord
  <2>1. [r EXCEPT !.outstanding = r.outstanding - a] \in ReceivableRecord
    BY DEF ReceivableRecord
  <2> QED
    BY <1>1, <2>1 DEF ReceivableRecord
<1>3. Reduced(r, a, settled) = q
  BY DEF Reduced, s, ReceivableRecord
<1>4. /\ q.status = s /\ q.outstanding = r.outstanding - a
      /\ q.original = r.original /\ q.adjustment = r.adjustment
      /\ q.paid = r.paid /\ q.withheld = r.withheld /\ q.writtenOff = r.writtenOff
  BY DEF ReceivableRecord
<1> HIDE DEF q
<1> QED
  BY <1>1, <1>2, <1>3, <1>4

LEMMA PaidFollows ==
    ASSUME NEW r \in ReceivableRecord, NEW a \in Nat
    PROVE  LET q == [Reduced(r, a, "paid") EXCEPT !.paid = @ + a] IN
           Follows(q, r, -a) /\ q.paid = r.paid + a
<1> DEFINE m == Reduced(r, a, "paid")
           q == [m EXCEPT !.paid = @ + a]
<1>1. /\ m \in ReceivableRecord /\ m.status \in {"paid", "partially-paid"}
      /\ m.outstanding = r.outstanding - a
      /\ m.original = r.original /\ m.adjustment = r.adjustment
      /\ m.paid = r.paid /\ m.withheld = r.withheld /\ m.writtenOff = r.writtenOff
  BY ReducedTyped
<1> HIDE DEF m
<1>2. /\ q \in ReceivableRecord /\ q.paid = m.paid + a /\ q.status = m.status
      /\ q.outstanding = m.outstanding /\ q.original = m.original
      /\ q.adjustment = m.adjustment /\ q.withheld = m.withheld /\ q.writtenOff = m.writtenOff
  BY <1>1 DEF ReceivableRecord
<1> HIDE DEF q
<1>3. q.outstanding = r.outstanding + (-a) /\ q.paid = r.paid + a
  BY <1>1, <1>2 DEF ReceivableRecord
<1>4. Balanced(r) /\ r.outstanding + (-a) >= 0 => Balanced(q)
  BY <1>1, <1>2 DEF Balanced, ReceivableRecord
<1>5. Follows(q, r, -a) /\ q.paid = r.paid + a
  BY <1>1, <1>2, <1>3, <1>4 DEF Follows
<1> QED
  BY <1>5 DEF q, m

LEMMA WrittenOffFollows ==
    ASSUME NEW r \in ReceivableRecord, NEW a \in Nat
    PROVE  LET q == [Reduced(r, a, "written-off") EXCEPT !.writtenOff = @ + a] IN
           Follows(q, r, -a) /\ q.paid = r.paid
<1> DEFINE m == Reduced(r, a, "written-off")
           q == [m EXCEPT !.writtenOff = @ + a]
<1>1. /\ m \in ReceivableRecord /\ m.status \in {"written-off", "partially-paid"}
      /\ m.outstanding = r.outstanding - a
      /\ m.original = r.original /\ m.adjustment = r.adjustment
      /\ m.paid = r.paid /\ m.withheld = r.withheld /\ m.writtenOff = r.writtenOff
  BY ReducedTyped
<1> HIDE DEF m
<1>2. /\ q \in ReceivableRecord /\ q.paid = m.paid /\ q.status = m.status
      /\ q.outstanding = m.outstanding /\ q.original = m.original
      /\ q.adjustment = m.adjustment /\ q.withheld = m.withheld
      /\ q.writtenOff = m.writtenOff + a
  BY <1>1 DEF ReceivableRecord
<1> HIDE DEF q
<1>3. q.outstanding = r.outstanding + (-a) /\ q.paid = r.paid
  BY <1>1, <1>2 DEF ReceivableRecord
<1>4. Balanced(r) /\ r.outstanding + (-a) >= 0 => Balanced(q)
  BY <1>1, <1>2 DEF Balanced, ReceivableRecord
<1>5. Follows(q, r, -a) /\ q.paid = r.paid
  BY <1>1, <1>2, <1>3, <1>4 DEF Follows
<1> QED
  BY <1>5 DEF q, m

LEMMA WithheldFollows ==
    ASSUME NEW r \in ReceivableRecord, NEW a \in Nat
    PROVE  LET q == [Reduced(r, a, "paid") EXCEPT !.withheld = @ + a] IN
           Follows(q, r, -a) /\ q.paid = r.paid
<1> DEFINE m == Reduced(r, a, "paid")
           q == [m EXCEPT !.withheld = @ + a]
<1>1. /\ m \in ReceivableRecord /\ m.status \in {"paid", "partially-paid"}
      /\ m.outstanding = r.outstanding - a
      /\ m.original = r.original /\ m.adjustment = r.adjustment
      /\ m.paid = r.paid /\ m.withheld = r.withheld /\ m.writtenOff = r.writtenOff
  BY ReducedTyped
<1> HIDE DEF m
<1>2. /\ q \in ReceivableRecord /\ q.paid = m.paid /\ q.status = m.status
      /\ q.outstanding = m.outstanding /\ q.original = m.original
      /\ q.adjustment = m.adjustment /\ q.withheld = m.withheld + a
      /\ q.writtenOff = m.writtenOff
  BY <1>1 DEF ReceivableRecord
<1> HIDE DEF q
<1>3. q.outstanding = r.outstanding + (-a) /\ q.paid = r.paid
  BY <1>1, <1>2 DEF ReceivableRecord
<1>4. Balanced(r) /\ r.outstanding + (-a) >= 0 => Balanced(q)
  BY <1>1, <1>2 DEF Balanced, ReceivableRecord
<1>5. Follows(q, r, -a) /\ q.paid = r.paid
  BY <1>1, <1>2, <1>3, <1>4 DEF Follows
<1> QED
  BY <1>5 DEF q, m

LEMMA CollectedFollows ==
    ASSUME NEW r \in ReceivableRecord, NEW a \in Nat, r.status # "none"
    PROVE  LET q == [r EXCEPT !.adjustment = @ + a, !.outstanding = @ + a] IN
           Follows(q, r, a) /\ q.paid = r.paid
<1> DEFINE q == [r EXCEPT !.adjustment = r.adjustment + a, !.outstanding = r.outstanding + a]
<1>1. /\ q.status = r.status /\ q.adjustment = r.adjustment + a
      /\ q.outstanding = r.outstanding + a /\ q.original = r.original
      /\ q.paid = r.paid /\ q.withheld = r.withheld /\ q.writtenOff = r.writtenOff
  BY DEF ReceivableRecord
<1>2. q \in ReceivableRecord
  <2>1. [r EXCEPT !.adjustment = r.adjustment + a] \in ReceivableRecord
        /\ r.outstanding + a \in Int
    BY DEF ReceivableRecord
  <2> QED
    BY <2>1 DEF ReceivableRecord
<1> HIDE DEF q
<1>3. Balanced(r) => Balanced(q)
  BY <1>1 DEF Balanced, ReceivableRecord
<1>4. Follows(q, r, a) /\ q.paid = r.paid
  BY <1>1, <1>2, <1>3 DEF Follows
<1> QED
  BY <1>4 DEF q

(* A change of the status alone. *)
Remarked(q, r) ==
    /\ q \in ReceivableRecord /\ q.status # "none"
    /\ q.outstanding = r.outstanding /\ q.paid = r.paid
    /\ Balanced(r) => Balanced(q)

LEMMA MarkedIsRemarked ==
    ASSUME NEW r \in ReceivableRecord,
           NEW s \in {"open", "partially-paid", "paid", "written-off", "disputed"}
    PROVE  LET q == [r EXCEPT !.status = s] IN Remarked(q, r) /\ q.status = s
<1> DEFINE q == [r EXCEPT !.status = s]
<1>1. /\ q \in ReceivableRecord /\ q.status = s /\ q.paid = r.paid
      /\ q.outstanding = r.outstanding /\ q.original = r.original
      /\ q.adjustment = r.adjustment /\ q.withheld = r.withheld /\ q.writtenOff = r.writtenOff
  BY DEF ReceivableRecord
<1> HIDE DEF q
<1>2. Remarked(q, r)
  BY <1>1 DEF Remarked, Balanced, ReceivableRecord
<1> QED
  BY <1>1, <1>2 DEF q

LEMMA PlainStatusTyped ==
    ASSUME NEW r \in ReceivableRecord
    PROVE  PlainStatus(r) \in {"open", "partially-paid", "paid", "written-off"}
BY DEF PlainStatus, ReceivableRecord

-----------------------------------------------------------------------------
(* The shape of the receivables.                                           *)

(* A draft has no receivable yet, a receipt not recorded is blank, and     *)
(* claims are on what was issued.                                          *)
RecordsInv ==
    /\ ReceivablesTypeOK
    /\ \A i \in Invoices :
         /\ receivable[i].status = "none" => receivable[i] = NoReceivable
         /\ invoice[i].status \in {"none", "draft"} => receivable[i].status = "none"
    /\ \A p \in Receipts : receipt[p].status = "none" =>
         receipt[p] = NoReceipt /\ cashJournal[p] = NoJournal
    /\ \A d \in Disputes : dispute[d].status # "none" => dispute[d].on \in Issued
    /\ \A w \in WriteOffs : writeOff[w].status # "none" => writeOff[w].on \in Issued

LEMMA ReceivablesInitially == ReceivablesInit => RecordsInv
<1> SUFFICES ASSUME ReceivablesInit PROVE RecordsInv
  OBVIOUS
<1>1. /\ NoInvoice \in InvoiceRecord /\ NoReceivable \in ReceivableRecord
      /\ NoReceipt \in ReceiptRecord /\ NoJournal \in JournalRecord
      /\ NoClaim \in ClaimRecord /\ NoLine \in LineRecord
  BY DEF NoInvoice, NoReceivable, NoReceipt, NoJournal, NoClaim, NoLine, InvoiceRecord,
         ReceivableRecord, ReceiptRecord, JournalRecord, ClaimRecord, LineRecord
<1>2. ReceivablesTypeOK
  BY <1>1 DEF ReceivablesInit, ReceivablesTypeOK
<1> QED
  BY <1>2 DEF RecordsInv, ReceivablesInit, NoReceivable, NoClaim, NoReceipt, NoJournal

(* Everything that is not the invoice, the receivable, a receipt or its    *)
(* journal, or a claim, only has a type.                                   *)
RestTyped ==
    /\ posted' \in Int /\ dunning' \in [Invoices -> {"none", "open", "paused", "resolved"}]
    /\ bankLine' \in [BankLines -> LineRecord]
    /\ creditNotes' \subseteq Invoices \X Nat /\ adjustments' \in Nat

(* A step that turns receivables into others that are issued when they     *)
(* were, with invoices that are no drafts again.                           *)
LEMMA RecordsStep ==
    ASSUME RecordsInv, RestTyped,
           invoice' \in [Invoices -> InvoiceRecord],
           receivable' \in [Invoices -> ReceivableRecord],
           receipt' \in [Receipts -> ReceiptRecord], cashJournal' \in [Receipts -> JournalRecord],
           dispute' \in [Disputes -> ClaimRecord], writeOff' \in [WriteOffs -> ClaimRecord],
           \A i \in Invoices :
             /\ receivable'[i] = receivable[i] \/ receivable'[i].status # "none"
             /\ \/ receivable'[i].status # "none" /\ invoice'[i].status \notin {"none", "draft"}
                \/ receivable'[i] = receivable[i] /\ invoice'[i] = invoice[i]
                \/ receivable'[i] = receivable[i] /\ receivable[i].status = "none"
                \/ receivable[i].status # "none" /\ invoice'[i] = invoice[i],
           \A p \in Receipts : \/ receipt'[p].status # "none"
                               \/ receipt'[p] = receipt[p] /\ cashJournal'[p] = cashJournal[p],
           \A d \in Disputes :
             \/ dispute'[d].status = "none"
             \/ dispute'[d].on = dispute[d].on /\ dispute[d].status # "none"
             \/ dispute'[d].on \in Issued,
           \A w \in WriteOffs :
             \/ writeOff'[w].status = "none"
             \/ writeOff'[w].on = writeOff[w].on /\ writeOff[w].status # "none"
             \/ writeOff'[w].on \in Issued
    PROVE  RecordsInv'
<1>1. ReceivablesTypeOK'
  BY DEF ReceivablesTypeOK, RestTyped
<1>2. Issued \subseteq Issued'
  BY DEF Issued
<1>3. ASSUME NEW i \in Invoices
      PROVE  (/\ receivable[i].status = "none" => receivable[i] = NoReceivable
              /\ invoice[i].status \in {"none", "draft"} => receivable[i].status = "none")'
  BY DEF RecordsInv
<1>4. ASSUME NEW p \in Receipts, receipt'[p].status = "none"
      PROVE  receipt'[p] = NoReceipt /\ cashJournal'[p] = NoJournal
  BY <1>4 DEF RecordsInv
<1>5. /\ \A d \in Disputes : dispute'[d].status # "none" => dispute'[d].on \in Issued'
      /\ \A w \in WriteOffs : writeOff'[w].status # "none" => writeOff'[w].on \in Issued'
  BY <1>2 DEF RecordsInv
<1> QED
  BY <1>1, <1>3, <1>4, <1>5 DEF RecordsInv

LEMMA SameTotals ==
    ASSUME RecordsInv, receivable' \in [Invoices -> ReceivableRecord],
           receipt' \in [Receipts -> ReceiptRecord], cashJournal' \in [Receipts -> JournalRecord]
    PROVE  /\ (\A i \in Invoices : receivable'[i].outstanding = receivable[i].outstanding)
                => OwedOf(receivable') = OwedOf(receivable)
           /\ (\A p \in Receipts : cashJournal'[p].allocated = cashJournal[p].allocated)
                => CashOf(cashJournal') = CashOf(cashJournal)
           /\ \A i \in Invoices : (\A p \in Receipts : receipt'[p].to[i] = receipt[p].to[i])
                => PaidOf(receipt', i) = PaidOf(receipt, i)
           /\ OwedOf(receivable) \in Int /\ CashOf(cashJournal) \in Int
<1>1. /\ \A i \in Invoices : receivable[i].outstanding \in Int /\ receivable'[i].outstanding \in Int
      /\ \A p \in Receipts : cashJournal[p].allocated \in Int /\ cashJournal'[p].allocated \in Int
      /\ \A i \in Invoices : \A p \in Receipts :
           receipt[p].to[i] \in Int /\ receipt'[p].to[i] \in Int
  BY DEF RecordsInv, ReceivablesTypeOK, ReceivableRecord, JournalRecord, ReceiptRecord
<1>2. /\ Terms(OwedTerms(receivable), Invoices)
      /\ OwedOf(receivable) = Total(OwedTerms(receivable), Invoices)
      /\ OwedOf(receivable') = Total(OwedTerms(receivable'), Invoices)
  BY <1>1, OwedIsTotal
<1>3. /\ Terms(CashTerms(cashJournal), Receipts)
      /\ CashOf(cashJournal) = Total(CashTerms(cashJournal), Receipts)
      /\ CashOf(cashJournal') = Total(CashTerms(cashJournal'), Receipts)
  BY <1>1, CashIsTotal
<1>4. ASSUME \A i \in Invoices : receivable'[i].outstanding = receivable[i].outstanding
      PROVE  OwedOf(receivable') = OwedOf(receivable)
  <2>1. \A i \in Invoices : OwedTerms(receivable')[i] = OwedTerms(receivable)[i]
    BY <1>4 DEF OwedTerms
  <2> QED
    BY <1>2, <2>1, TotalSame
<1>5. ASSUME \A p \in Receipts : cashJournal'[p].allocated = cashJournal[p].allocated
      PROVE  CashOf(cashJournal') = CashOf(cashJournal)
  <2>1. \A p \in Receipts : CashTerms(cashJournal')[p] = CashTerms(cashJournal)[p]
    BY <1>5 DEF CashTerms
  <2> QED
    BY <1>3, <2>1, TotalSame
<1>6. ASSUME NEW i \in Invoices, \A p \in Receipts : receipt'[p].to[i] = receipt[p].to[i]
      PROVE  PaidOf(receipt', i) = PaidOf(receipt, i)
  <2>1. /\ Terms(PaidTerms(receipt, i), Receipts)
        /\ PaidOf(receipt, i) = Total(PaidTerms(receipt, i), Receipts)
        /\ PaidOf(receipt', i) = Total(PaidTerms(receipt', i), Receipts)
    BY <1>1, PaidIsTotal
  <2>2. \A p \in Receipts : PaidTerms(receipt', i)[p] = PaidTerms(receipt, i)[p]
    BY <1>6 DEF PaidTerms
  <2> QED
    BY <2>1, <2>2, TotalSame
<1>7. OwedOf(receivable) \in Int /\ CashOf(cashJournal) \in Int
  BY <1>2, <1>3, TotalType
<1> QED
  BY <1>4, <1>5, <1>6, <1>7

-----------------------------------------------------------------------------
(* The balances.                                                           *)

BalancesInv ==
    /\ \A i \in Invoices : Balanced(receivable[i]) /\ receivable[i].paid = PaidOf(receipt, i)
    /\ OwedOf(receivable) = posted - CashOf(cashJournal)

(* A step that moves no money. *)
LEMMA NoMoneyMoves ==
    ASSUME RecordsInv, BalancesInv, RecordsInv',
           \A i \in Invoices : \/ receivable'[i] = receivable[i]
                               \/ Remarked(receivable'[i], receivable[i]),
           \A p \in Receipts : /\ receipt'[p].to = receipt[p].to
                               /\ cashJournal'[p].allocated = cashJournal[p].allocated,
           posted' = posted
    PROVE  BalancesInv'
<1>1. /\ receivable' \in [Invoices -> ReceivableRecord]
      /\ receipt' \in [Receipts -> ReceiptRecord] /\ cashJournal' \in [Receipts -> JournalRecord]
  BY DEF RecordsInv, ReceivablesTypeOK
<1>2. ASSUME NEW i \in Invoices
      PROVE  /\ receivable'[i].outstanding = receivable[i].outstanding
             /\ Balanced(receivable'[i]) /\ receivable'[i].paid = receivable[i].paid
  <2>1. Balanced(receivable[i]) /\ receivable[i] \in ReceivableRecord
    BY DEF BalancesInv, RecordsInv, ReceivablesTypeOK
  <2>2. CASE receivable'[i] = receivable[i]
    BY <2>1, <2>2
  <2>3. CASE Remarked(receivable'[i], receivable[i])
    BY <2>1, <2>3 DEF Remarked
  <2> QED
    BY <2>2, <2>3
<1>3. /\ OwedOf(receivable') = OwedOf(receivable) /\ CashOf(cashJournal') = CashOf(cashJournal)
      /\ \A i \in Invoices : PaidOf(receipt', i) = PaidOf(receipt, i)
  BY <1>1, <1>2, SameTotals
<1> QED
  BY <1>2, <1>3 DEF BalancesInv

(* A step that adds to or takes off one receivable, as the journals do. *)
LEMMA OneReceivableMoves ==
    ASSUME RecordsInv, BalancesInv, RecordsInv', NEW i \in Invoices, NEW change \in Int,
           \A k \in Invoices : k # i => receivable'[k] = receivable[k],
           \/ Follows(receivable'[i], receivable[i], change)
           \/ /\ Balanced(receivable'[i])
              /\ receivable'[i].outstanding = receivable[i].outstanding + change,
           receivable[i].outstanding + change >= 0,
           receivable'[i].paid = receivable[i].paid,
           receipt' = receipt, cashJournal' = cashJournal, posted' = posted + change
    PROVE  BalancesInv'
<1>1. /\ receivable' \in [Invoices -> ReceivableRecord]
      /\ receivable \in [Invoices -> ReceivableRecord]
      /\ receipt' \in [Receipts -> ReceiptRecord] /\ cashJournal' \in [Receipts -> JournalRecord]
      /\ posted \in Int
  BY DEF RecordsInv, ReceivablesTypeOK
<1>2. receivable'[i].outstanding = receivable[i].outstanding + change
  BY DEF Follows
<1>3. Balanced(receivable'[i])
  BY DEF BalancesInv, Follows
<1>4. \A k \in Invoices : Balanced(receivable'[k]) /\ receivable'[k].paid = receivable[k].paid
  BY <1>3 DEF BalancesInv
<1>5. \A k \in Invoices : receivable[k].outstanding \in Int /\ receivable'[k].outstanding \in Int
  BY <1>1 DEF ReceivableRecord
<1>6. OwedOf(receivable') =
        OwedOf(receivable) - receivable[i].outstanding + receivable'[i].outstanding
  BY <1>5, OwedChanges
<1>7. /\ \A k \in Invoices : PaidOf(receipt', k) = PaidOf(receipt, k)
      /\ CashOf(cashJournal') = CashOf(cashJournal)
      /\ OwedOf(receivable) \in Int /\ CashOf(cashJournal) \in Int
  BY <1>1, SameTotals
<1>8. OwedOf(receivable) = posted - CashOf(cashJournal)
  BY DEF BalancesInv
<1>9. OwedOf(receivable') = posted' - CashOf(cashJournal')
  BY <1>1, <1>2, <1>5, <1>6, <1>7, <1>8
<1> QED
  BY <1>4, <1>7, <1>9 DEF BalancesInv

(* A receipt p takes more allocations, of which its journal knows. *)
LEMMA MoneyIsAllocated ==
    ASSUME RecordsInv, BalancesInv, RecordsInv', NEW p \in Receipts,
           NEW to \in [Invoices -> Nat],
           \A i \in Invoices : \/ to[i] = 0 /\ receivable'[i] = receivable[i]
                               \/ /\ Follows(receivable'[i], receivable[i], -to[i])
                                  /\ receivable'[i].paid = receivable[i].paid + to[i]
                                  /\ to[i] <= receivable[i].outstanding,
           \A q \in Receipts : q # p => receipt'[q] = receipt[q] /\ cashJournal'[q] = cashJournal[q],
           \A i \in Invoices : receipt'[p].to[i] = receipt[p].to[i] + to[i],
           cashJournal'[p].allocated = cashJournal[p].allocated + Allocated(to),
           posted' = posted
    PROVE  BalancesInv'
<1>1. /\ receivable' \in [Invoices -> ReceivableRecord]
      /\ receivable \in [Invoices -> ReceivableRecord]
      /\ receipt' \in [Receipts -> ReceiptRecord] /\ receipt \in [Receipts -> ReceiptRecord]
      /\ cashJournal' \in [Receipts -> JournalRecord] /\ cashJournal \in [Receipts -> JournalRecord]
      /\ posted \in Int
  BY DEF RecordsInv, ReceivablesTypeOK
<1>2. ASSUME NEW i \in Invoices
      PROVE  /\ receivable'[i].outstanding = receivable[i].outstanding - to[i]
             /\ Balanced(receivable'[i])
             /\ receivable'[i].paid = receivable[i].paid + to[i]
  <2>1. /\ Balanced(receivable[i]) /\ receivable[i].outstanding \in Int
        /\ receivable[i].paid \in Nat
    BY <1>1 DEF BalancesInv, ReceivableRecord
  <2>2. CASE to[i] = 0 /\ receivable'[i] = receivable[i]
    BY <2>1, <2>2
  <2>3. CASE /\ Follows(receivable'[i], receivable[i], -to[i])
             /\ receivable'[i].paid = receivable[i].paid + to[i]
             /\ to[i] <= receivable[i].outstanding
    <3>1. receivable[i].outstanding + (-to[i]) = receivable[i].outstanding - to[i]
          /\ receivable[i].outstanding + (-to[i]) >= 0
      BY <2>1, <2>3
    <3> QED
      BY <2>1, <2>3, <3>1 DEF Follows
  <2> QED
    BY <2>2, <2>3
<1>3. \A i \in Invoices : receivable[i].outstanding \in Int
  BY <1>1 DEF ReceivableRecord
<1>4. OwedOf(receivable') = OwedOf(receivable) - Allocated(to)
  BY <1>2, <1>3, OwedFalls
<1>5. \A q \in Receipts : cashJournal[q].allocated \in Int /\ cashJournal'[q].allocated \in Int
  BY <1>1 DEF JournalRecord
<1>6. CashOf(cashJournal') =
        CashOf(cashJournal) - cashJournal[p].allocated + cashJournal'[p].allocated
  BY <1>5, CashChanges
<1>7. ASSUME NEW i \in Invoices
      PROVE  receivable'[i].paid = PaidOf(receipt', i)
  <2>1. \A q \in Receipts : receipt[q].to[i] \in Int /\ receipt'[q].to[i] \in Int
    BY <1>1 DEF ReceiptRecord
  <2>2. PaidOf(receipt', i) = PaidOf(receipt, i) - receipt[p].to[i] + receipt'[p].to[i]
    BY <2>1, PaidChanges
  <2>3. receivable[i].paid = PaidOf(receipt, i) /\ receivable[i].paid \in Int
    BY <1>1 DEF BalancesInv, ReceivableRecord
  <2>4. receipt'[p].to[i] = receipt[p].to[i] + to[i]
    OBVIOUS
  <2> QED
    BY <1>2, <2>1, <2>2, <2>3, <2>4
<1>8. OwedOf(receivable) \in Int /\ CashOf(cashJournal) \in Int
  BY <1>1, SameTotals
<1>9. Allocated(to) \in Int
  BY AllocatedIsTotal
<1>10. OwedOf(receivable) = posted - CashOf(cashJournal)
  BY DEF BalancesInv
<1>11. OwedOf(receivable') = posted' - CashOf(cashJournal')
  BY <1>1, <1>4, <1>5, <1>6, <1>8, <1>9, <1>10
<1> QED
  BY <1>2, <1>7, <1>11 DEF BalancesInv

-----------------------------------------------------------------------------
(* The steps, one by one.                                                  *)

ReceivablesInv == RecordsInv /\ BalancesInv /\ DisputedMeansInDispute

(* Who is in dispute stays so while the disputes are what they were. *)
LEMMA StillInDispute ==
    ASSUME DisputedMeansInDispute, dispute' = dispute,
           \A i \in Invoices : receivable'[i].status = "disputed"
                                  => receivable[i].status = "disputed"
    PROVE  DisputedMeansInDispute'
<1>1. \A i \in Invoices : ActiveDisputes(i)' = ActiveDisputes(i)
  BY DEF ActiveDisputes
<1> QED
  BY <1>1 DEF DisputedMeansInDispute

LEMMA DraftStep ==
    ASSUME ReceivablesInv, NEW u \in Users, NEW i \in Invoices, NEW a \in Amounts,
           CreateInvoiceDraft(u, i, a)
    PROVE  ReceivablesInv'
<1>1. /\ RecordsInv /\ BalancesInv /\ DisputedMeansInDispute /\ a \in Nat
      /\ invoice \in [Invoices -> InvoiceRecord]
  BY ReceivablesAssumption DEF ReceivablesInv, RecordsInv, ReceivablesTypeOK
<1>2. /\ receivable' = receivable /\ receipt' = receipt /\ cashJournal' = cashJournal
      /\ posted' = posted /\ dispute' = dispute /\ writeOff' = writeOff /\ dunning' = dunning
      /\ bankLine' = bankLine /\ creditNotes' = creditNotes /\ adjustments' = adjustments
  BY DEF CreateInvoiceDraft, cash, claims
<1> DEFINE n == [status |-> "draft", amount |-> a, by |-> u]
<1>3. invoice' = [invoice EXCEPT ![i] = n] /\ n \in InvoiceRecord /\ invoice[i].status = "none"
  BY <1>1 DEF CreateInvoiceDraft, InvoiceRecord
<1> HIDE DEF n
<1>4. invoice' \in [Invoices -> InvoiceRecord]
      /\ \A k \in Invoices : k # i => invoice'[k] = invoice[k]
  BY <1>1, <1>3
<1>5. receivable[i].status = "none"
  BY <1>1, <1>3 DEF RecordsInv
<1>6. RestTyped
  BY <1>1, <1>2 DEF RestTyped, RecordsInv, ReceivablesTypeOK
<1>7. RecordsInv'
  <2>1. /\ receivable' \in [Invoices -> ReceivableRecord]
        /\ receipt' \in [Receipts -> ReceiptRecord] /\ cashJournal' \in [Receipts -> JournalRecord]
        /\ dispute' \in [Disputes -> ClaimRecord] /\ writeOff' \in [WriteOffs -> ClaimRecord]
    BY <1>1, <1>2 DEF RecordsInv, ReceivablesTypeOK
  <2> QED
    BY <1>1, <1>2, <1>4, <1>5, <1>6, <2>1, RecordsStep
<1>8. BalancesInv'
  BY <1>1, <1>2, <1>7, NoMoneyMoves
<1>9. DisputedMeansInDispute'
  BY <1>1, <1>2, StillInDispute
<1> QED
  BY <1>7, <1>8, <1>9 DEF ReceivablesInv

(* A step that changes one invoice that was issued, or is now, and adds    *)
(* to its receivable or takes off it what the journals post.               *)
LEMMA OneInvoiceMoves ==
    ASSUME ReceivablesInv, NEW i \in Invoices, NEW change \in Int, NEW q, NEW n,
           receivable' = [receivable EXCEPT ![i] = q],
           invoice' = [invoice EXCEPT ![i] = n], n \in InvoiceRecord,
           \/ Follows(q, receivable[i], change)
           \/ /\ q \in ReceivableRecord /\ q.status = "open" /\ Balanced(q)
              /\ q.outstanding = receivable[i].outstanding + change,
           q.paid = receivable[i].paid, receivable[i].outstanding + change >= 0,
           \/ n.status \notin {"none", "draft"}
           \/ n = invoice[i] /\ i \in Issued,
           receipt' = receipt, cashJournal' = cashJournal, posted' = posted + change,
           dispute' = dispute, RestTyped, writeOff' \in [WriteOffs -> ClaimRecord],
           \A w \in WriteOffs : writeOff'[w].on = writeOff[w].on
                                  /\ (writeOff'[w].status # "none" => writeOff[w].status # "none")
    PROVE  ReceivablesInv'
<1>1. /\ RecordsInv /\ BalancesInv /\ DisputedMeansInDispute
      /\ invoice \in [Invoices -> InvoiceRecord] /\ receivable \in [Invoices -> ReceivableRecord]
      /\ receipt \in [Receipts -> ReceiptRecord] /\ cashJournal \in [Receipts -> JournalRecord]
      /\ dispute \in [Disputes -> ClaimRecord]
  BY DEF ReceivablesInv, RecordsInv, ReceivablesTypeOK
<1>2. q \in ReceivableRecord /\ q.status # "none"
      /\ (q.status = "disputed" => receivable[i].status = "disputed")
  BY DEF Follows
<1>3. /\ receivable' \in [Invoices -> ReceivableRecord] /\ receivable'[i] = q
      /\ \A k \in Invoices : k # i => receivable'[k] = receivable[k]
  BY <1>1, <1>2
<1>4. /\ invoice' \in [Invoices -> InvoiceRecord] /\ invoice'[i] = n
      /\ \A k \in Invoices : k # i => invoice'[k] = invoice[k]
  BY <1>1
<1>5. RecordsInv'
  <2>1. \A k \in Invoices :
          /\ receivable'[k] = receivable[k] \/ receivable'[k].status # "none"
          /\ \/ receivable'[k].status # "none" /\ invoice'[k].status \notin {"none", "draft"}
             \/ receivable'[k] = receivable[k] /\ invoice'[k] = invoice[k]
             \/ receivable'[k] = receivable[k] /\ receivable[k].status = "none"
             \/ receivable[k].status # "none" /\ invoice'[k] = invoice[k]
    BY <1>2, <1>3, <1>4 DEF Issued
  <2>2. \A d \in Disputes :
          \/ dispute'[d].status = "none"
          \/ dispute'[d].on = dispute[d].on /\ dispute[d].status # "none"
          \/ dispute'[d].on \in Issued
    OBVIOUS
  <2>3. \A w \in WriteOffs :
          \/ writeOff'[w].status = "none"
          \/ writeOff'[w].on = writeOff[w].on /\ writeOff[w].status # "none"
          \/ writeOff'[w].on \in Issued
    OBVIOUS
  <2>4. /\ receipt' \in [Receipts -> ReceiptRecord] /\ cashJournal' \in [Receipts -> JournalRecord]
        /\ dispute' \in [Disputes -> ClaimRecord]
        /\ \A p \in Receipts : \/ receipt'[p].status # "none"
                               \/ receipt'[p] = receipt[p] /\ cashJournal'[p] = cashJournal[p]
    BY <1>1
  <2> QED
    BY <1>1, <1>3, <1>4, <2>1, <2>2, <2>3, <2>4, RecordsStep
<1>6. \/ Follows(receivable'[i], receivable[i], change)
      \/ /\ Balanced(receivable'[i])
         /\ receivable'[i].outstanding = receivable[i].outstanding + change
  BY <1>3
<1>7. BalancesInv'
  BY <1>1, <1>3, <1>5, <1>6, OneReceivableMoves
<1>8. DisputedMeansInDispute'
  BY <1>1, <1>2, <1>3, StillInDispute
<1> QED
  BY <1>5, <1>7, <1>8 DEF ReceivablesInv

LEMMA IssueStep ==
    ASSUME ReceivablesInv, NEW u \in Users, NEW i \in Invoices, IssueInvoice(u, i)
    PROVE  ReceivablesInv'
<1>1. /\ RecordsInv /\ BalancesInv
      /\ invoice[i] \in InvoiceRecord /\ receivable[i] \in ReceivableRecord
  BY DEF ReceivablesInv, RecordsInv, ReceivablesTypeOK
<1> DEFINE a == invoice[i].amount
           q == [NoReceivable EXCEPT !.status = "open", !.original = a, !.outstanding = a]
           n == [invoice[i] EXCEPT !.status = "issued"]
<1>2. /\ receipt' = receipt /\ cashJournal' = cashJournal /\ posted' = posted + a
      /\ dispute' = dispute /\ writeOff' = writeOff /\ dunning' = dunning
      /\ bankLine' = bankLine /\ creditNotes' = creditNotes /\ adjustments' = adjustments
      /\ invoice' = [invoice EXCEPT ![i] = n] /\ receivable' = [receivable EXCEPT ![i] = q]
      /\ invoice[i].status = "draft"
  BY DEF IssueInvoice, cash, claims
<1>3. receivable[i] = NoReceivable
  BY <1>1, <1>2 DEF RecordsInv
<1>4. a \in Nat
  BY <1>1 DEF InvoiceRecord
<1>5. n \in InvoiceRecord /\ n.status = "issued"
  BY <1>1 DEF InvoiceRecord
<1>6. /\ q \in ReceivableRecord /\ q.status = "open" /\ Balanced(q) /\ q.paid = receivable[i].paid
      /\ q.outstanding = receivable[i].outstanding + a /\ receivable[i].outstanding + a >= 0
  <2> HIDE DEF a
  <2>1. /\ q.status = "open" /\ q.original = a /\ q.adjustment = 0 /\ q.paid = 0
        /\ q.withheld = 0 /\ q.writtenOff = 0 /\ q.outstanding = a
    BY DEF NoReceivable
  <2>2. q \in ReceivableRecord
    <3>1. [NoReceivable EXCEPT !.status = "open"] \in ReceivableRecord
      BY DEF NoReceivable, ReceivableRecord
    <3> DEFINE m == [NoReceivable EXCEPT !.status = "open", !.original = a]
    <3>2. m \in ReceivableRecord
      BY <1>4, <3>1 DEF ReceivableRecord
    <3>3. q = [m EXCEPT !.outstanding = a]
      OBVIOUS
    <3> HIDE DEF m, q
    <3> QED
      BY <1>4, <3>2, <3>3 DEF ReceivableRecord
  <2> HIDE DEF q
  <2>3. receivable[i].paid = 0 /\ receivable[i].outstanding = 0
    BY <1>3 DEF NoReceivable
  <2> QED
    BY <1>4, <2>1, <2>2, <2>3 DEF Balanced
<1> HIDE DEF q, n, a
<1>7. RestTyped
  BY <1>1, <1>2, <1>4 DEF RestTyped, RecordsInv, ReceivablesTypeOK
<1>8. writeOff' \in [WriteOffs -> ClaimRecord]
  BY <1>1, <1>2 DEF RecordsInv, ReceivablesTypeOK
<1>9. \A w \in WriteOffs : writeOff'[w].on = writeOff[w].on
        /\ (writeOff'[w].status # "none" => writeOff[w].status # "none")
  BY <1>2
<1>10. a \in Int /\ n.status \notin {"none", "draft"}
  BY <1>4, <1>5
<1> QED
  BY <1>2, <1>5, <1>6, <1>7, <1>8, <1>9, <1>10, OneInvoiceMoves

LEMMA NoteStep ==
    ASSUME ReceivablesInv, NEW i \in Invoices, NEW kind \in {"credit", "debit"},
           NEW a \in Amounts, CreateCreditDebitNote(i, kind, a)
    PROVE  ReceivablesInv'
<1>1. /\ RecordsInv /\ BalancesInv /\ a \in Nat
      /\ invoice[i] \in InvoiceRecord /\ receivable[i] \in ReceivableRecord
      /\ invoice \in [Invoices -> InvoiceRecord]
  BY ReceivablesAssumption DEF ReceivablesInv, RecordsInv, ReceivablesTypeOK
<1> DEFINE change == IF kind = "debit" THEN a ELSE -a
           q == Adjusted(receivable[i], change)
<1>2. /\ receipt' = receipt /\ cashJournal' = cashJournal /\ posted' = posted + change
      /\ dispute' = dispute /\ writeOff' = writeOff /\ dunning' = dunning /\ bankLine' = bankLine
      /\ invoice' = invoice /\ receivable' = [receivable EXCEPT ![i] = q]
      /\ i \in Issued /\ (kind = "credit" => a <= receivable[i].outstanding)
      /\ adjustments' = adjustments + 1
      /\ creditNotes' = creditNotes \cup (IF kind = "credit" THEN {<<i, a>>} ELSE {})
  BY DEF CreateCreditDebitNote, cash, claims, Owed
<1>3. change \in Int
  BY <1>1
<1>4. receivable[i].outstanding \in Int /\ receivable[i].outstanding >= 0
  BY <1>1 DEF BalancesInv, Balanced, ReceivableRecord
<1>5. receivable[i].outstanding + change >= 0
  BY <1>1, <1>2, <1>4
<1>6. receivable[i].status # "none"
  BY <1>2 DEF Issued
<1> HIDE DEF change
<1>7. Follows(q, receivable[i], change) /\ q.paid = receivable[i].paid
  BY <1>1, <1>3, <1>6, AdjustedFollows
<1> HIDE DEF q
<1>8. RestTyped
  <2>1. {<<i, a>>} \subseteq Invoices \X Nat
    BY <1>1
  <2> QED
    BY <1>1, <1>2, <1>3, <2>1 DEF RestTyped, RecordsInv, ReceivablesTypeOK
<1>9. writeOff' \in [WriteOffs -> ClaimRecord]
  BY <1>1, <1>2 DEF RecordsInv, ReceivablesTypeOK
<1>10. invoice' = [invoice EXCEPT ![i] = invoice[i]]
  BY <1>1, <1>2
<1> QED
  BY <1>1, <1>2, <1>3, <1>5, <1>7, <1>8, <1>9, <1>10, OneInvoiceMoves

LEMMA DeductedTaxStep ==
    ASSUME ReceivablesInv, NEW i \in Invoices, NEW a \in Amounts, RecordDeductedTax(i, a)
    PROVE  ReceivablesInv'
<1>1. /\ RecordsInv /\ BalancesInv /\ a \in Nat
      /\ invoice[i] \in InvoiceRecord /\ receivable[i] \in ReceivableRecord
  BY ReceivablesAssumption DEF ReceivablesInv, RecordsInv, ReceivablesTypeOK
<1> DEFINE q == [Reduced(receivable[i], a, "paid") EXCEPT !.withheld = @ + a]
           s == IF Owed(i) = a THEN "paid" ELSE "partially-paid"
           n == [invoice[i] EXCEPT !.status = s]
<1>2. /\ receipt' = receipt /\ cashJournal' = cashJournal /\ posted' = posted - a
      /\ dispute' = dispute /\ writeOff' = writeOff /\ dunning' = dunning /\ bankLine' = bankLine
      /\ invoice' = [invoice EXCEPT ![i] = n] /\ receivable' = [receivable EXCEPT ![i] = q]
      /\ a <= receivable[i].outstanding
      /\ adjustments' = adjustments + 1 /\ creditNotes' = creditNotes
  BY DEF RecordDeductedTax, cash, claims, Owed
<1>3. Follows(q, receivable[i], -a) /\ q.paid = receivable[i].paid
  BY <1>1, WithheldFollows
<1>4. n \in InvoiceRecord /\ n.status \notin {"none", "draft"}
  <2>1. s \in {"paid", "partially-paid"}
    OBVIOUS
  <2> HIDE DEF s
  <2> QED
    BY <1>1, <2>1 DEF InvoiceRecord
<1> HIDE DEF q, n
<1>5. receivable[i].outstanding \in Int /\ posted \in Int
  BY <1>1 DEF RecordsInv, ReceivablesTypeOK, ReceivableRecord
<1>6. -a \in Int /\ posted' = posted + (-a) /\ receivable[i].outstanding + (-a) >= 0
  BY <1>1, <1>2, <1>5
<1>7. RestTyped /\ writeOff' \in [WriteOffs -> ClaimRecord]
  BY <1>1, <1>2, <1>6 DEF RestTyped, RecordsInv, ReceivablesTypeOK
<1> QED
  BY <1>2, <1>3, <1>4, <1>6, <1>7, OneInvoiceMoves

LEMMA CollectedTaxStep ==
    ASSUME ReceivablesInv, NEW i \in Invoices, NEW a \in Amounts, RecordCollectedTax(i, a)
    PROVE  ReceivablesInv'
<1>1. /\ RecordsInv /\ BalancesInv /\ a \in Nat
      /\ invoice \in [Invoices -> InvoiceRecord]
      /\ invoice[i] \in InvoiceRecord /\ receivable[i] \in ReceivableRecord
  BY ReceivablesAssumption DEF ReceivablesInv, RecordsInv, ReceivablesTypeOK
<1> DEFINE q == [receivable[i] EXCEPT !.adjustment = @ + a, !.outstanding = @ + a]
<1>2. /\ receipt' = receipt /\ cashJournal' = cashJournal /\ posted' = posted + a
      /\ dispute' = dispute /\ writeOff' = writeOff /\ dunning' = dunning /\ bankLine' = bankLine
      /\ invoice' = invoice /\ receivable' = [receivable EXCEPT ![i] = q]
      /\ i \in Issued
      /\ adjustments' = adjustments + 1 /\ creditNotes' = creditNotes
  BY DEF RecordCollectedTax, cash, claims
<1>3. receivable[i].status # "none"
  BY <1>2 DEF Issued
<1>4. Follows(q, receivable[i], a) /\ q.paid = receivable[i].paid
  BY <1>1, <1>3, CollectedFollows
<1> HIDE DEF q
<1>5. receivable[i].outstanding + a >= 0
  BY <1>1 DEF BalancesInv, Balanced, ReceivableRecord
<1>6. RestTyped /\ writeOff' \in [WriteOffs -> ClaimRecord]
  BY <1>1, <1>2 DEF RestTyped, RecordsInv, ReceivablesTypeOK
<1>7. invoice' = [invoice EXCEPT ![i] = invoice[i]]
  BY <1>1, <1>2
<1>8. \A w \in WriteOffs : writeOff'[w].on = writeOff[w].on
        /\ (writeOff'[w].status # "none" => writeOff[w].status # "none")
  BY <1>2
<1>9. a \in Int /\ invoice[i] = invoice[i] /\ i \in Issued /\ invoice[i] \in InvoiceRecord
  BY <1>1, <1>2
<1> QED
  BY <1>2, <1>4, <1>5, <1>6, <1>7, <1>8, <1>9, OneInvoiceMoves

(* A step that leaves the invoices alone and moves no money. *)
LEMMA QuietStep ==
    ASSUME ReceivablesInv, RestTyped, invoice' = invoice, posted' = posted,
           receivable' \in [Invoices -> ReceivableRecord],
           \A i \in Invoices : \/ receivable'[i] = receivable[i]
                               \/ Remarked(receivable'[i], receivable[i]) /\ i \in Issued,
           receipt' \in [Receipts -> ReceiptRecord], cashJournal' \in [Receipts -> JournalRecord],
           \A p \in Receipts : /\ receipt'[p].to = receipt[p].to
                               /\ cashJournal'[p].allocated = cashJournal[p].allocated
                               /\ \/ receipt'[p].status # "none"
                                  \/ receipt'[p] = receipt[p] /\ cashJournal'[p] = cashJournal[p],
           dispute' \in [Disputes -> ClaimRecord], writeOff' \in [WriteOffs -> ClaimRecord],
           \A d \in Disputes :
             \/ dispute'[d].status = "none"
             \/ dispute'[d].on = dispute[d].on /\ dispute[d].status # "none"
             \/ dispute'[d].on \in Issued,
           \A w \in WriteOffs :
             \/ writeOff'[w].status = "none"
             \/ writeOff'[w].on = writeOff[w].on /\ writeOff[w].status # "none"
             \/ writeOff'[w].on \in Issued,
           DisputedMeansInDispute'
    PROVE  ReceivablesInv'
<1>1. RecordsInv /\ BalancesInv
  BY DEF ReceivablesInv
<1>2. invoice' \in [Invoices -> InvoiceRecord]
  BY <1>1 DEF RecordsInv, ReceivablesTypeOK
<1>3. \A i \in Invoices :
        /\ receivable'[i] = receivable[i] \/ receivable'[i].status # "none"
        /\ \/ receivable'[i].status # "none" /\ invoice'[i].status \notin {"none", "draft"}
           \/ receivable'[i] = receivable[i] /\ invoice'[i] = invoice[i]
           \/ receivable'[i] = receivable[i] /\ receivable[i].status = "none"
           \/ receivable[i].status # "none" /\ invoice'[i] = invoice[i]
  BY DEF Remarked, Issued
<1>4. \A p \in Receipts : \/ receipt'[p].status # "none"
                          \/ receipt'[p] = receipt[p] /\ cashJournal'[p] = cashJournal[p]
  OBVIOUS
<1>5. RecordsInv'
  BY <1>1, <1>2, <1>3, <1>4, RecordsStep
<1>6. BalancesInv'
  BY <1>1, <1>5, NoMoneyMoves
<1> QED
  BY <1>5, <1>6 DEF ReceivablesInv

(* What every quiet step that leaves a part alone needs to say of it. *)
LEMMA PartsStay ==
    ASSUME ReceivablesInv
    PROVE  /\ receivable' = receivable =>
                 receivable' \in [Invoices -> ReceivableRecord]
                 /\ \A i \in Invoices : receivable'[i] = receivable[i]
           /\ receipt' = receipt /\ cashJournal' = cashJournal =>
                 /\ receipt' \in [Receipts -> ReceiptRecord]
                 /\ cashJournal' \in [Receipts -> JournalRecord]
                 /\ \A p \in Receipts :
                      /\ receipt'[p].to = receipt[p].to
                      /\ cashJournal'[p].allocated = cashJournal[p].allocated
                      /\ receipt'[p] = receipt[p] /\ cashJournal'[p] = cashJournal[p]
           /\ dispute' = dispute =>
                 /\ dispute' \in [Disputes -> ClaimRecord]
                 /\ \A d \in Disputes :
                      \/ dispute'[d].status = "none"
                      \/ dispute'[d].on = dispute[d].on /\ dispute[d].status # "none"
           /\ writeOff' = writeOff =>
                 /\ writeOff' \in [WriteOffs -> ClaimRecord]
                 /\ \A w \in WriteOffs :
                      \/ writeOff'[w].status = "none"
                      \/ writeOff'[w].on = writeOff[w].on /\ writeOff[w].status # "none"
           /\ receivable' = receivable /\ dispute' = dispute => DisputedMeansInDispute'
<1>1. /\ receivable \in [Invoices -> ReceivableRecord] /\ receipt \in [Receipts -> ReceiptRecord]
      /\ cashJournal \in [Receipts -> JournalRecord] /\ dispute \in [Disputes -> ClaimRecord]
      /\ writeOff \in [WriteOffs -> ClaimRecord] /\ DisputedMeansInDispute
  BY DEF ReceivablesInv, RecordsInv, ReceivablesTypeOK
<1>2. ASSUME receivable' = receivable, dispute' = dispute PROVE DisputedMeansInDispute'
  BY <1>1, <1>2, StillInDispute
<1> QED
  BY <1>1, <1>2

LEMMA BankSteps ==
    ASSUME ReceivablesInv, BankStep
    PROVE  ReceivablesInv'
<1>1. /\ receivable' = receivable /\ receipt' = receipt /\ cashJournal' = cashJournal
      /\ dispute' = dispute /\ writeOff' = writeOff /\ dunning' = dunning /\ posted' = posted
      /\ creditNotes' = creditNotes /\ adjustments' = adjustments /\ invoice' = invoice
  BY DEF BankStep, PreviewBankStatement, CommitBankStatement, ExcludeBankLine, claims
<1>2. ReceivablesTypeOK
  BY DEF ReceivablesInv, RecordsInv
<1>3. bankLine' \in [BankLines -> LineRecord]
  <2>1. PICK b \in BankLines : \/ \E a \in Amounts : PreviewBankStatement(b, a)
                               \/ CommitBankStatement(b) \/ ExcludeBankLine(b)
    BY DEF BankStep
  <2>2. bankLine[b] \in LineRecord /\ bankLine \in [BankLines -> LineRecord]
    BY <1>2 DEF ReceivablesTypeOK
  <2>3. ASSUME NEW a \in Amounts, PreviewBankStatement(b, a)
        PROVE  bankLine' \in [BankLines -> LineRecord]
    <3> DEFINE n == [status |-> "preview", credit |-> a, receipt |-> None]
    <3>1. n \in LineRecord
      BY ReceivablesAssumption DEF LineRecord
    <3>2. bankLine' = [bankLine EXCEPT ![b] = n]
      BY <2>3 DEF PreviewBankStatement
    <3> HIDE DEF n
    <3> QED
      BY <2>2, <3>1, <3>2
  <2>4. ASSUME NEW s \in {"committed", "excluded"},
               bankLine' = [bankLine EXCEPT ![b] = [bankLine[b] EXCEPT !.status = s]]
        PROVE  bankLine' \in [BankLines -> LineRecord]
    <3>1. [bankLine[b] EXCEPT !.status = s] \in LineRecord
      BY <2>2 DEF LineRecord
    <3> QED
      BY <2>2, <2>4, <3>1
  <2> QED
    BY <2>1, <2>3, <2>4 DEF CommitBankStatement, ExcludeBankLine
<1>4. RestTyped
  BY <1>1, <1>2, <1>3 DEF RestTyped, ReceivablesTypeOK
<1> QED
  BY <1>1, <1>4, PartsStay, QuietStep

LEMMA CollectionActivityStep ==
    ASSUME ReceivablesInv, NEW i \in Invoices, NEW o \in Outcomes, RecordCollectionActivity(i, o)
    PROVE  ReceivablesInv'
<1>1. /\ receivable' = receivable /\ receipt' = receipt /\ cashJournal' = cashJournal
      /\ dispute' = dispute /\ writeOff' = writeOff /\ bankLine' = bankLine /\ posted' = posted
      /\ creditNotes' = creditNotes /\ adjustments' = adjustments /\ invoice' = invoice
  BY DEF RecordCollectionActivity, cash
<1>2. ReceivablesTypeOK
  BY DEF ReceivablesInv, RecordsInv
<1>3. dunning' \in [Invoices -> {"none", "open", "paused", "resolved"}]
  BY <1>2 DEF RecordCollectionActivity, ReceivablesTypeOK
<1>4. RestTyped
  BY <1>1, <1>2, <1>3 DEF RestTyped, ReceivablesTypeOK
<1> QED
  BY <1>1, <1>4, PartsStay, QuietStep

LEMMA RequestWriteOffStep ==
    ASSUME ReceivablesInv, NEW u \in Users, NEW w \in WriteOffs, NEW i \in Invoices,
           NEW a \in Amounts, RequestWriteOff(u, w, i, a)
    PROVE  ReceivablesInv'
<1> DEFINE n == [status |-> "pending", on |-> i, amount |-> a, by |-> u]
<1>1. /\ receivable' = receivable /\ receipt' = receipt /\ cashJournal' = cashJournal
      /\ dispute' = dispute /\ dunning' = dunning /\ bankLine' = bankLine /\ posted' = posted
      /\ creditNotes' = creditNotes /\ adjustments' = adjustments /\ invoice' = invoice
      /\ writeOff' = [writeOff EXCEPT ![w] = n] /\ i \in Issued
  BY DEF RequestWriteOff, cash
<1>2. ReceivablesTypeOK
  BY DEF ReceivablesInv, RecordsInv
<1>3. n \in ClaimRecord /\ n.on = i
  BY ReceivablesAssumption DEF ClaimRecord
<1> HIDE DEF n
<1>4. /\ writeOff' \in [WriteOffs -> ClaimRecord]
      /\ \A x \in WriteOffs : \/ writeOff'[x].status = "none"
                              \/ writeOff'[x].on = writeOff[x].on /\ writeOff[x].status # "none"
                              \/ writeOff'[x].on \in Issued
  BY <1>1, <1>2, <1>3 DEF ReceivablesTypeOK
<1>5. RestTyped
  BY <1>1, <1>2 DEF RestTyped, ReceivablesTypeOK
<1> QED
  BY <1>1, <1>4, <1>5, PartsStay, QuietStep

LEMMA DecideWriteOffStep ==
    ASSUME ReceivablesInv, NEW u \in Users, NEW w \in WriteOffs,
           NEW decision \in {"approved", "rejected"}, DecideWriteOff(u, w, decision)
    PROVE  ReceivablesInv'
<1> DEFINE i == writeOff[w].on
           a == writeOff[w].amount
           v == [writeOff[w] EXCEPT !.status = decision]
<1>1. /\ RecordsInv /\ BalancesInv /\ ReceivablesTypeOK
  BY DEF ReceivablesInv, RecordsInv
<1>2. /\ receipt' = receipt /\ cashJournal' = cashJournal /\ bankLine' = bankLine
      /\ dispute' = dispute /\ dunning' = dunning
      /\ creditNotes' = creditNotes /\ adjustments' = adjustments
      /\ writeOff' = [writeOff EXCEPT ![w] = v] /\ writeOff[w].status = "pending"
  BY DEF DecideWriteOff, cash
<1>3. i \in Issued /\ i \in Invoices /\ a \in Nat /\ v \in ClaimRecord /\ v.on = i
  BY <1>1, <1>2 DEF RecordsInv, ReceivablesTypeOK, ClaimRecord, Issued
<1>4. /\ writeOff' \in [WriteOffs -> ClaimRecord]
      /\ \A x \in WriteOffs : writeOff'[x].on = writeOff[x].on
           /\ (writeOff'[x].status # "none" => writeOff[x].status # "none")
  BY <1>1, <1>2, <1>3 DEF ReceivablesTypeOK
<1>5. CASE receivable' = receivable /\ invoice' = invoice /\ posted' = posted
  <2>1. RestTyped
    BY <1>1, <1>2, <1>5 DEF RestTyped, ReceivablesTypeOK
  <2>2. \A x \in WriteOffs :
          \/ writeOff'[x].status = "none"
          \/ writeOff'[x].on = writeOff[x].on /\ writeOff[x].status # "none"
    BY <1>4
  <2> QED
    BY <1>2, <1>4, <1>5, <2>1, <2>2, PartsStay, QuietStep
<1>6. CASE /\ StillOwed(w) /\ posted' = posted - a
           /\ receivable' = [receivable EXCEPT ![i] =
                [Reduced(receivable[i], a, "written-off") EXCEPT !.writtenOff = @ + a]]
           /\ invoice' = [invoice EXCEPT ![i].status =
                IF Owed(i) = a THEN "written-off" ELSE @]
  <2> DEFINE q == [Reduced(receivable[i], a, "written-off") EXCEPT !.writtenOff = @ + a]
             s == IF Owed(i) = a THEN "written-off" ELSE invoice[i].status
             n == [invoice[i] EXCEPT !.status = s]
  <2>1. receivable[i] \in ReceivableRecord /\ invoice[i] \in InvoiceRecord
    BY <1>1, <1>3 DEF ReceivablesTypeOK
  <2>2. Follows(q, receivable[i], -a) /\ q.paid = receivable[i].paid
    BY <1>3, <2>1, WrittenOffFollows
  <2>3. n \in InvoiceRecord /\ n.status \notin {"none", "draft"}
    <3>1. s \in {"issued", "partially-paid", "paid", "written-off"}
      BY <1>1, <1>3, <2>1 DEF RecordsInv, Issued, InvoiceRecord
    <3> HIDE DEF s
    <3> QED
      BY <2>1, <3>1 DEF InvoiceRecord
  <2>4. receivable' = [receivable EXCEPT ![i] = q] /\ invoice' = [invoice EXCEPT ![i] = n]
    BY <1>6
  <2>5. /\ a <= receivable[i].outstanding /\ receivable[i].outstanding \in Int /\ posted \in Int
    BY <1>1, <1>6, <2>1 DEF StillOwed, Owed, ReceivablesTypeOK, ReceivableRecord
  <2> HIDE DEF q, n, s
  <2>6. -a \in Int /\ posted' = posted + (-a) /\ receivable[i].outstanding + (-a) >= 0
    BY <1>3, <1>6, <2>5
  <2>7. RestTyped
    BY <1>1, <1>2, <2>5, <2>6 DEF RestTyped, ReceivablesTypeOK
  <2> HIDE DEF i, a, v
  <2> QED
    BY <1>2, <1>3, <1>4, <2>2, <2>3, <2>4, <2>6, <2>7, OneInvoiceMoves
<1> QED
  BY <1>5, <1>6 DEF DecideWriteOff

LEMMA DunningStep ==
    ASSUME ReceivablesInv, NEW late \in SUBSET Invoices, RunDunning(late)
    PROVE  ReceivablesInv'
<1>1. /\ receipt' = receipt /\ cashJournal' = cashJournal /\ bankLine' = bankLine
      /\ dispute' = dispute /\ writeOff' = writeOff /\ posted' = posted
      /\ creditNotes' = creditNotes /\ adjustments' = adjustments /\ invoice' = invoice
  BY DEF RunDunning, cash
<1>2. RecordsInv /\ ReceivablesTypeOK /\ DisputedMeansInDispute
  BY DEF ReceivablesInv, RecordsInv
<1>3. ASSUME NEW i \in Invoices
      PROVE  /\ receivable'[i] \in ReceivableRecord
             /\ receivable'[i].status = "disputed" => receivable[i].status = "disputed"
             /\ \/ receivable'[i] = receivable[i]
                \/ Remarked(receivable'[i], receivable[i]) /\ i \in Issued
  <2>1. receivable[i] \in ReceivableRecord
    BY <1>2 DEF ReceivablesTypeOK
  <2>2. CASE i \in Issued
    <3> DEFINE s == PlainStatus(receivable[i])
               q == [receivable[i] EXCEPT !.status = s]
    <3>1. s \in {"open", "partially-paid", "paid", "written-off"}
      BY <2>1, PlainStatusTyped
    <3> HIDE DEF s
    <3>2. Remarked(q, receivable[i]) /\ q.status = s
      BY <2>1, <3>1, MarkedIsRemarked
    <3>4. receivable'[i] = q
      BY <2>2 DEF RunDunning, s
    <3> HIDE DEF q
    <3> QED
      BY <2>2, <3>1, <3>2, <3>4 DEF Remarked
  <2>3. CASE i \notin Issued
    BY <2>1, <2>3 DEF RunDunning
  <2> QED
    BY <2>2, <2>3
<1>4. receivable' \in [Invoices -> ReceivableRecord]
  <2>1. receivable' = [i \in Invoices |-> receivable'[i]]
    BY DEF RunDunning
  <2> QED
    BY <1>3, <2>1
<1>5. RestTyped
  BY <1>1, <1>2 DEF RestTyped, ReceivablesTypeOK, RunDunning
<1>6. DisputedMeansInDispute'
  BY <1>1, <1>2, <1>3, StillInDispute
<1> QED
  BY <1>1, <1>3, <1>4, <1>5, <1>6, PartsStay, QuietStep

LEMMA OpenDisputeStep ==
    ASSUME ReceivablesInv, NEW u \in Users, NEW d \in Disputes, NEW i \in Invoices,
           NEW a \in Amounts, OpenReceivableDispute(u, d, i, a)
    PROVE  ReceivablesInv'
<1> DEFINE n == [status |-> "open", on |-> i, amount |-> a, by |-> u]
           q == [receivable[i] EXCEPT !.status = "disputed"]
<1>1. /\ receipt' = receipt /\ cashJournal' = cashJournal /\ bankLine' = bankLine
      /\ writeOff' = writeOff /\ posted' = posted
      /\ creditNotes' = creditNotes /\ adjustments' = adjustments /\ invoice' = invoice
      /\ dispute' = [dispute EXCEPT ![d] = n] /\ receivable' = [receivable EXCEPT ![i] = q]
      /\ dunning' = [dunning EXCEPT ![i] = IF dunning[i] = "open" THEN "paused" ELSE dunning[i]]
      /\ i \in Issued /\ dispute[d].status = "none"
  BY DEF OpenReceivableDispute, cash
<1>2. ReceivablesTypeOK /\ DisputedMeansInDispute
  BY DEF ReceivablesInv, RecordsInv
<1>3. n \in ClaimRecord /\ n.on = i /\ n.status = "open"
  BY ReceivablesAssumption DEF ClaimRecord
<1>4. Remarked(q, receivable[i])
  BY <1>2, MarkedIsRemarked DEF ReceivablesTypeOK
<1> HIDE DEF n, q
<1>5. /\ receivable' \in [Invoices -> ReceivableRecord]
      /\ \A k \in Invoices : \/ receivable'[k] = receivable[k]
                             \/ Remarked(receivable'[k], receivable[k]) /\ k \in Issued
      /\ \A k \in Invoices : k # i => receivable'[k] = receivable[k]
  BY <1>1, <1>2, <1>4 DEF ReceivablesTypeOK, Remarked
<1>6. /\ dispute' \in [Disputes -> ClaimRecord] /\ dispute'[d] = n
      /\ \A e \in Disputes : e # d => dispute'[e] = dispute[e]
  BY <1>1, <1>2, <1>3 DEF ReceivablesTypeOK
<1>7. \A e \in Disputes :
        \/ dispute'[e].status = "none"
        \/ dispute'[e].on = dispute[e].on /\ dispute[e].status # "none"
        \/ dispute'[e].on \in Issued
  BY <1>1, <1>3, <1>6
<1>8. RestTyped
  <2>1. dunning' \in [Invoices -> {"none", "open", "paused", "resolved"}]
    BY <1>1, <1>2 DEF ReceivablesTypeOK
  <2> QED
    BY <1>1, <1>2, <2>1 DEF RestTyped, ReceivablesTypeOK
<1>9. DisputedMeansInDispute'
  <2>1. ASSUME NEW k \in Invoices, receivable'[k].status = "disputed"
        PROVE  \E e \in Disputes : dispute'[e].on = k /\ dispute'[e].status = "open"
    <3>1. CASE k = i
      BY <1>3, <1>6, <3>1
    <3>2. CASE k # i
      <4>1. ActiveDisputes(k) # {}
        BY <1>2, <1>5, <2>1, <3>2 DEF DisputedMeansInDispute
      <4>2. PICK e \in Disputes : dispute[e].on = k /\ dispute[e].status = "open"
        BY <4>1 DEF ActiveDisputes
      <4>3. e # d
        BY <1>1, <4>2
      <4> QED
        BY <1>6, <4>2, <4>3
    <3> QED
      BY <3>1, <3>2
  <2> QED
    BY <2>1 DEF DisputedMeansInDispute, ActiveDisputes
<1> QED
  BY <1>1, <1>5, <1>6, <1>7, <1>8, <1>9, PartsStay, QuietStep

LEMMA ResolveDisputeStep ==
    ASSUME ReceivablesInv, NEW u \in Users, NEW d \in Disputes, NEW r \in Resolutions,
           ResolveReceivableDispute(u, d, r)
    PROVE  ReceivablesInv'
<1> DEFINE i == dispute[d].on
           n == [dispute[d] EXCEPT !.status = "closed"]
           q == Lifted(i, d)
<1>1. /\ receipt' = receipt /\ cashJournal' = cashJournal /\ bankLine' = bankLine
      /\ writeOff' = writeOff /\ posted' = posted /\ dunning' = dunning
      /\ creditNotes' = creditNotes /\ adjustments' = adjustments /\ invoice' = invoice
      /\ dispute' = [dispute EXCEPT ![d] = n] /\ receivable' = [receivable EXCEPT ![i] = q]
      /\ dispute[d].status = "open"
  BY DEF ResolveReceivableDispute, cash
<1>2. RecordsInv /\ ReceivablesTypeOK /\ DisputedMeansInDispute
  BY DEF ReceivablesInv, RecordsInv
<1>3. /\ i \in Issued /\ i \in Invoices
      /\ n \in ClaimRecord /\ n.on = i /\ n.status = "closed" /\ i = dispute[d].on
  BY <1>1, <1>2 DEF RecordsInv, ReceivablesTypeOK, ClaimRecord, Issued
<1>4. receivable[i] \in ReceivableRecord
  BY <1>2, <1>3 DEF ReceivablesTypeOK
<1>5. /\ q = receivable[i] \/ Remarked(q, receivable[i])
      /\ ActiveDisputes(i) \subseteq {d} => q.status # "disputed"
      /\ ~(ActiveDisputes(i) \subseteq {d}) => q = receivable[i]
  <2> DEFINE s == PlainStatus(receivable[i])
  <2>1. s \in {"open", "partially-paid", "paid", "written-off"}
    BY <1>4, PlainStatusTyped
  <2>2. q = IF ActiveDisputes(i) \subseteq {d} THEN [receivable[i] EXCEPT !.status = s]
            ELSE receivable[i]
    BY DEF Lifted
  <2> HIDE DEF s, q, i
  <2> QED
    BY <1>4, <2>1, <2>2, MarkedIsRemarked
<1> HIDE DEF n, q, i
<1>6. /\ receivable' \in [Invoices -> ReceivableRecord] /\ receivable'[i] = q
      /\ \A k \in Invoices : \/ receivable'[k] = receivable[k]
                             \/ Remarked(receivable'[k], receivable[k]) /\ k \in Issued
      /\ \A k \in Invoices : k # i => receivable'[k] = receivable[k]
  BY <1>1, <1>2, <1>3, <1>4, <1>5 DEF ReceivablesTypeOK, Remarked
<1>7. /\ dispute' \in [Disputes -> ClaimRecord] /\ dispute'[d] = n
      /\ \A e \in Disputes : e # d => dispute'[e] = dispute[e]
  BY <1>1, <1>2, <1>3 DEF ReceivablesTypeOK
<1>8. \A e \in Disputes :
        \/ dispute'[e].status = "none"
        \/ dispute'[e].on = dispute[e].on /\ dispute[e].status # "none"
        \/ dispute'[e].on \in Issued
  BY <1>1, <1>3, <1>7
<1>9. RestTyped
  BY <1>1, <1>2 DEF RestTyped, ReceivablesTypeOK
<1>10. DisputedMeansInDispute'
  <2>1. ASSUME NEW k \in Invoices, receivable'[k].status = "disputed"
        PROVE  \E e \in Disputes : dispute'[e].on = k /\ dispute'[e].status = "open"
    <3>1. CASE k = i
      <4>1. ~(ActiveDisputes(i) \subseteq {d})
        BY <1>5, <1>6, <2>1, <3>1
      <4>2. PICK e \in Disputes : e # d /\ dispute[e].on = i /\ dispute[e].status = "open"
        BY <4>1 DEF ActiveDisputes
      <4> QED
        BY <1>7, <3>1, <4>2
    <3>2. CASE k # i
      <4>1. ActiveDisputes(k) # {}
        BY <1>2, <1>6, <2>1, <3>2 DEF DisputedMeansInDispute
      <4>2. PICK e \in Disputes : dispute[e].on = k /\ dispute[e].status = "open"
        BY <4>1 DEF ActiveDisputes
      <4>3. e # d
        BY <1>3, <3>2, <4>2
      <4> QED
        BY <1>7, <4>2, <4>3
    <3> QED
      BY <3>1, <3>2
  <2> QED
    BY <2>1 DEF DisputedMeansInDispute, ActiveDisputes
<1> QED
  BY <1>1, <1>6, <1>7, <1>8, <1>9, <1>10, PartsStay, QuietStep

(* Reconciling and exporting change the status of cash, never the amounts. *)
LEMMA CashStatusStep ==
    ASSUME ReceivablesInv, NEW p \in Receipts,
           NEW rs \in {"recorded", "reconciled"}, NEW js \in {"draft", "ready", "exported"},
           receipt[p].status # "none" \/ cashJournal[p].status # "none",
           receipt' = [receipt EXCEPT ![p].status = rs] \/ receipt' = receipt,
           cashJournal' = [cashJournal EXCEPT ![p].status = js],
           bankLine' \in [BankLines -> LineRecord],
           UNCHANGED <<invoice, receivable, posted, claims, creditNotes, adjustments>>
    PROVE  ReceivablesInv'
<1>1. /\ receivable' = receivable /\ invoice' = invoice /\ posted' = posted
      /\ dispute' = dispute /\ dunning' = dunning /\ writeOff' = writeOff
      /\ creditNotes' = creditNotes /\ adjustments' = adjustments
  BY DEF claims
<1>2. RecordsInv /\ ReceivablesTypeOK
  BY DEF ReceivablesInv, RecordsInv
<1>3. receipt[p] \in ReceiptRecord /\ cashJournal[p] \in JournalRecord
      /\ receipt \in [Receipts -> ReceiptRecord] /\ cashJournal \in [Receipts -> JournalRecord]
  BY <1>2 DEF ReceivablesTypeOK
<1>4. receipt[p].status # "none"
  BY <1>2 DEF RecordsInv, NoJournal
<1> DEFINE q == [receipt[p] EXCEPT !.status = rs]
           j == [cashJournal[p] EXCEPT !.status = js]
<1>5. /\ q \in ReceiptRecord /\ q.status = rs /\ q.to = receipt[p].to
      /\ j \in JournalRecord /\ j.allocated = cashJournal[p].allocated
  BY <1>3 DEF ReceiptRecord, JournalRecord
<1>6. /\ receipt' = [receipt EXCEPT ![p] = q] \/ receipt' = receipt
      /\ cashJournal' = [cashJournal EXCEPT ![p] = j]
  OBVIOUS
<1> HIDE DEF q, j
<1>7. /\ receipt' \in [Receipts -> ReceiptRecord] /\ cashJournal' \in [Receipts -> JournalRecord]
      /\ \A x \in Receipts : /\ receipt'[x].to = receipt[x].to
                             /\ cashJournal'[x].allocated = cashJournal[x].allocated
                             /\ \/ receipt'[x].status # "none"
                                \/ receipt'[x] = receipt[x] /\ cashJournal'[x] = cashJournal[x]
  <2>1. \A x \in Receipts : x # p => receipt'[x] = receipt[x] /\ cashJournal'[x] = cashJournal[x]
    BY <1>3, <1>6
  <2>2. /\ receipt'[p] = q \/ receipt'[p] = receipt[p]
        /\ cashJournal'[p] = j
    BY <1>3, <1>6
  <2>3. receipt'[p].status # "none" /\ receipt'[p].to = receipt[p].to
        /\ cashJournal'[p].allocated = cashJournal[p].allocated
    BY <1>4, <1>5, <2>2
  <2>4. receipt' \in [Receipts -> ReceiptRecord] /\ cashJournal' \in [Receipts -> JournalRecord]
    BY <1>3, <1>5, <1>6
  <2> QED
    BY <2>1, <2>3, <2>4
<1>8. RestTyped
  BY <1>1, <1>2 DEF RestTyped, ReceivablesTypeOK
<1> QED
  BY <1>1, <1>7, <1>8, PartsStay, QuietStep

LEMMA BankMatchStep ==
    ASSUME ReceivablesInv, NEW u \in Users, NEW b \in BankLines, NEW p \in Receipts,
           ConfirmBankMatch(u, b, p)
    PROVE  ReceivablesInv'
<1>1. bankLine[b] \in LineRecord /\ bankLine \in [BankLines -> LineRecord]
  BY DEF ReceivablesInv, RecordsInv, ReceivablesTypeOK
<1> DEFINE m == [bankLine[b] EXCEPT !.status = "matched"]
           n == [m EXCEPT !.receipt = p]
<1>2. bankLine' = [bankLine EXCEPT ![b] = n]
  BY <1>1 DEF ConfirmBankMatch
<1>3. n \in LineRecord
  <2>1. m \in LineRecord
    BY <1>1 DEF LineRecord
  <2> HIDE DEF m
  <2> QED
    BY <2>1 DEF LineRecord
<1> HIDE DEF n
<1>4. bankLine' \in [BankLines -> LineRecord]
  BY <1>1, <1>2, <1>3
<1>5. /\ receipt' = [receipt EXCEPT ![p].status = "reconciled"]
      /\ cashJournal' = [cashJournal EXCEPT ![p].status = "ready"]
      /\ UNCHANGED <<invoice, receivable, posted, claims, creditNotes, adjustments>>
      /\ receipt[p].status # "none"
  BY DEF ConfirmBankMatch, Reconciled, MayMatch
<1> QED
  BY <1>4, <1>5, CashStatusStep

LEMMA ReconcileStep ==
    ASSUME ReceivablesInv, NEW p \in Receipts, ReconcilePayment(p) \/ ExportJournal(p)
    PROVE  ReceivablesInv'
<1>1. bankLine \in [BankLines -> LineRecord]
  BY DEF ReceivablesInv, RecordsInv, ReceivablesTypeOK
<1>2. CASE ReconcilePayment(p)
  <2>1. /\ receipt' = [receipt EXCEPT ![p].status = "reconciled"]
        /\ cashJournal' = [cashJournal EXCEPT ![p].status = "ready"]
        /\ UNCHANGED <<invoice, receivable, posted, claims, creditNotes, adjustments>>
        /\ bankLine' = bankLine /\ receipt[p].status # "none"
    BY <1>2 DEF ReconcilePayment, Reconciled
  <2> QED
    BY <1>1, <2>1, CashStatusStep
<1>3. CASE ExportJournal(p)
  <2>1. /\ receipt' = receipt
        /\ cashJournal' = [cashJournal EXCEPT ![p].status = "exported"]
        /\ UNCHANGED <<invoice, receivable, posted, claims, creditNotes, adjustments>>
        /\ bankLine' = bankLine /\ cashJournal[p].status # "none"
    BY <1>3 DEF ExportJournal
  <2> QED
    BY <1>1, <2>1, CashStatusStep
<1> QED
  BY <1>2, <1>3

(* Money is allocated to open receivables: by a payment, or out of the     *)
(* unapplied cash of a receipt.                                            *)
LEMMA AllocationStep ==
    ASSUME ReceivablesInv, NEW p \in Receipts, NEW to \in [Invoices -> Nat], Payable(to),
           NEW among \in SUBSET Invoices, \A i \in Invoices : to[i] > 0 => i \in among,
           receivable' = AfterPayment(to), invoice' = InvoicesAfter(AfterPayment(to), among),
           NEW q \in ReceiptRecord, NEW j \in JournalRecord, q.status # "none",
           receipt' = [receipt EXCEPT ![p] = q], cashJournal' = [cashJournal EXCEPT ![p] = j],
           \A i \in Invoices : q.to[i] = receipt[p].to[i] + to[i],
           j.allocated = cashJournal[p].allocated + Allocated(to),
           UNCHANGED <<posted, claims, bankLine, creditNotes, adjustments>>
    PROVE  ReceivablesInv'
<1>1. /\ RecordsInv /\ BalancesInv /\ ReceivablesTypeOK /\ DisputedMeansInDispute
      /\ invoice \in [Invoices -> InvoiceRecord] /\ receivable \in [Invoices -> ReceivableRecord]
      /\ receipt \in [Receipts -> ReceiptRecord] /\ cashJournal \in [Receipts -> JournalRecord]
      /\ dispute \in [Disputes -> ClaimRecord] /\ writeOff \in [WriteOffs -> ClaimRecord]
  BY DEF ReceivablesInv, RecordsInv, ReceivablesTypeOK
<1>2. /\ dispute' = dispute /\ dunning' = dunning /\ writeOff' = writeOff /\ posted' = posted
      /\ creditNotes' = creditNotes /\ adjustments' = adjustments /\ bankLine' = bankLine
  BY DEF claims
<1>3. ASSUME NEW i \in Invoices
      PROVE  /\ receivable'[i] \in ReceivableRecord
             /\ \/ to[i] = 0 /\ receivable'[i] = receivable[i]
                \/ /\ Follows(receivable'[i], receivable[i], -to[i])
                   /\ receivable'[i].paid = receivable[i].paid + to[i]
                   /\ to[i] <= receivable[i].outstanding
                   /\ i \in Issued /\ to[i] > 0
  <2>1. receivable[i] \in ReceivableRecord /\ to[i] \in Nat
    BY <1>1
  <2>2. CASE to[i] = 0
    BY <2>1, <2>2 DEF AfterPayment
  <2>3. CASE to[i] # 0
    <3> DEFINE r == [Reduced(receivable[i], to[i], "paid") EXCEPT !.paid = @ + to[i]]
    <3>1. receivable'[i] = r
      BY <2>3 DEF AfterPayment
    <3>2. Follows(r, receivable[i], -to[i]) /\ r.paid = receivable[i].paid + to[i]
      BY <2>1, PaidFollows
    <3>3. to[i] > 0 /\ i \in Issued /\ to[i] <= receivable[i].outstanding
      BY <2>1, <2>3 DEF Payable, Owed
    <3> HIDE DEF r
    <3> QED
      BY <3>1, <3>2, <3>3 DEF Follows
  <2> QED
    BY <2>2, <2>3
<1>4. receivable' \in [Invoices -> ReceivableRecord]
  <2>1. receivable' = [i \in Invoices |-> receivable'[i]]
    BY DEF AfterPayment
  <2> QED
    BY <1>3, <2>1
<1>5. ASSUME NEW i \in Invoices
      PROVE  /\ invoice'[i] \in InvoiceRecord
             /\ \/ invoice'[i] = invoice[i]
                \/ receivable'[i].status # "none" /\ invoice'[i].status \notin {"none", "draft"}
  <2>1. invoice[i] \in InvoiceRecord
    BY <1>1
  <2>2. CASE i \in among /\ receivable'[i].status \in {"paid", "partially-paid"}
    <3> DEFINE s == receivable'[i].status
    <3>1. invoice'[i] = [invoice[i] EXCEPT !.status = s]
      BY <2>2 DEF InvoicesAfter
    <3>2. s \in {"paid", "partially-paid"}
      BY <2>2
    <3> HIDE DEF s
    <3>3. invoice'[i] \in InvoiceRecord /\ invoice'[i].status = s
      BY <2>1, <3>1, <3>2 DEF InvoiceRecord
    <3> QED
      BY <2>2, <3>2, <3>3
  <2>3. CASE ~(i \in among /\ receivable'[i].status \in {"paid", "partially-paid"})
    <3>1. invoice'[i] = invoice[i]
      BY <2>3 DEF InvoicesAfter
    <3> QED
      BY <2>1, <3>1
  <2> QED
    BY <2>2, <2>3
<1>6. invoice' \in [Invoices -> InvoiceRecord]
  <2>1. invoice' = [i \in Invoices |-> invoice'[i]]
    BY DEF InvoicesAfter
  <2> QED
    BY <1>5, <2>1
<1>7. /\ receipt' \in [Receipts -> ReceiptRecord] /\ cashJournal' \in [Receipts -> JournalRecord]
      /\ receipt'[p] = q /\ cashJournal'[p] = j
      /\ \A x \in Receipts : x # p => receipt'[x] = receipt[x] /\ cashJournal'[x] = cashJournal[x]
  BY <1>1
<1>8. RestTyped
  BY <1>1, <1>2 DEF RestTyped, ReceivablesTypeOK
<1>9. RecordsInv'
  <2>1. \A i \in Invoices :
          /\ receivable'[i] = receivable[i] \/ receivable'[i].status # "none"
          /\ \/ receivable'[i].status # "none" /\ invoice'[i].status \notin {"none", "draft"}
             \/ receivable'[i] = receivable[i] /\ invoice'[i] = invoice[i]
             \/ receivable'[i] = receivable[i] /\ receivable[i].status = "none"
             \/ receivable[i].status # "none" /\ invoice'[i] = invoice[i]
    BY <1>3, <1>5 DEF Follows, Issued
  <2>2. /\ dispute' \in [Disputes -> ClaimRecord] /\ writeOff' \in [WriteOffs -> ClaimRecord]
        /\ \A d \in Disputes : \/ dispute'[d].status = "none"
                               \/ dispute'[d].on = dispute[d].on /\ dispute[d].status # "none"
                               \/ dispute'[d].on \in Issued
        /\ \A w \in WriteOffs : \/ writeOff'[w].status = "none"
                                \/ writeOff'[w].on = writeOff[w].on /\ writeOff[w].status # "none"
                                \/ writeOff'[w].on \in Issued
    BY <1>1, <1>2
  <2>3. \A x \in Receipts : \/ receipt'[x].status # "none"
                            \/ receipt'[x] = receipt[x] /\ cashJournal'[x] = cashJournal[x]
    BY <1>7
  <2> QED
    BY <1>1, <1>4, <1>6, <1>7, <1>8, <2>1, <2>2, <2>3, RecordsStep
<1>10. BalancesInv'
  BY <1>1, <1>2, <1>3, <1>7, <1>9, MoneyIsAllocated
<1>11. DisputedMeansInDispute'
  BY <1>1, <1>2, <1>3, StillInDispute DEF Follows
<1> QED
  BY <1>9, <1>10, <1>11 DEF ReceivablesInv

LEMMA PaymentStep ==
    ASSUME ReceivablesInv, NEW u \in Users, NEW p \in Receipts, NEW m \in {"cash", "bank"},
           NEW a \in Amounts, NEW to \in Allocations, RecordPayment(u, p, m, a, to)
    PROVE  ReceivablesInv'
<1>1. RecordsInv /\ a \in Nat /\ to \in [Invoices -> Nat]
  <2>1. {0} \cup Amounts \subseteq Nat
    BY ReceivablesAssumption
  <2> QED
    BY <2>1 DEF ReceivablesInv, Allocations
<1>2. Allocated(to) \in Nat
  BY <1>1, AllocatedIsTotal
<1> DEFINE rest == a - Allocated(to)
           q == [status |-> "recorded", method |-> m, amount |-> a, by |-> u, to |-> to,
                 unapplied |-> rest]
           j == [status |-> "draft", allocated |-> Allocated(to), unapplied |-> rest]
<1>3. /\ receipt' = [receipt EXCEPT ![p] = q] /\ cashJournal' = [cashJournal EXCEPT ![p] = j]
      /\ receivable' = AfterPayment(to) /\ invoice' = InvoicesAfter(AfterPayment(to), Invoices)
      /\ UNCHANGED <<posted, claims, bankLine, creditNotes, adjustments>>
      /\ Payable(to) /\ receipt[p].status = "none" /\ rest >= 0
  BY DEF RecordPayment
<1>4. rest \in Nat
  BY <1>1, <1>2, <1>3
<1>5. q \in ReceiptRecord /\ q.status = "recorded" /\ q.to = to
      /\ j \in JournalRecord /\ j.allocated = Allocated(to)
  BY <1>1, <1>2, <1>4 DEF ReceiptRecord, JournalRecord
<1> HIDE DEF rest, q, j
<1>6. receipt[p] = NoReceipt /\ cashJournal[p] = NoJournal
  BY <1>1, <1>3 DEF RecordsInv
<1>7. /\ \A i \in Invoices : q.to[i] = receipt[p].to[i] + to[i]
      /\ j.allocated = cashJournal[p].allocated + Allocated(to)
  BY <1>1, <1>2, <1>5, <1>6 DEF NoReceipt, NoJournal
<1> QED
  BY <1>1, <1>3, <1>5, <1>7, AllocationStep

LEMMA ApplicationStep ==
    ASSUME ReceivablesInv, NEW p \in Receipts, NEW to \in Allocations,
           ApplyUnappliedReceipt(p, to)
    PROVE  ReceivablesInv'
<1>1. /\ receipt[p] \in ReceiptRecord /\ cashJournal[p] \in JournalRecord
      /\ to \in [Invoices -> Nat]
  <2>1. {0} \cup Amounts \subseteq Nat
    BY ReceivablesAssumption
  <2> QED
    BY <2>1 DEF ReceivablesInv, RecordsInv, ReceivablesTypeOK, Allocations
<1> DEFINE sum == [i \in Invoices |-> receipt[p].to[i] + to[i]]
           rest == receipt[p].unapplied - Allocated(to)
           q == AppliedCash(receipt[p], to)
           j == [cashJournal[p] EXCEPT !.allocated = Allocated(q.to), !.unapplied = q.unapplied]
           targets == {i \in Invoices : to[i] > 0}
<1>2. /\ receipt' = [receipt EXCEPT ![p] = q] /\ cashJournal' = [cashJournal EXCEPT ![p] = j]
      /\ receivable' = AfterPayment(to) /\ invoice' = InvoicesAfter(AfterPayment(to), targets)
      /\ UNCHANGED <<posted, claims, bankLine, creditNotes, adjustments>>
      /\ Payable(to) /\ Allocated(to) <= receipt[p].unapplied
      /\ Applicable(p)
  BY DEF ApplyUnappliedReceipt
<1>3. /\ receipt[p].status = "recorded" /\ cashJournal[p].allocated = Allocated(receipt[p].to)
      /\ receipt[p].to \in [Invoices -> Nat] /\ receipt[p].unapplied \in Nat
  BY <1>1, <1>2 DEF Applicable, Canonical, ReceiptRecord
<1>4. Allocated(to) \in Nat /\ sum \in [Invoices -> Nat]
  BY <1>1, <1>3, AllocatedIsTotal
<1>5. Allocated(sum) = Allocated(receipt[p].to) + Allocated(to) /\ Allocated(sum) \in Nat
  BY <1>1, <1>3, <1>4, AllocatedAdds, AllocatedIsTotal
<1>6. rest \in Nat
  BY <1>2, <1>3, <1>4
<1>7. \A i \in Invoices : sum[i] = receipt[p].to[i] + to[i]
  OBVIOUS
<1>8. q = [receipt[p] EXCEPT !.to = sum, !.unapplied = rest]
  BY <1>1 DEF AppliedCash, ReceiptRecord
<1> HIDE DEF sum, rest, q
<1>9. q \in ReceiptRecord /\ q.status = "recorded" /\ q.to = sum /\ q.unapplied = rest
  <2> DEFINE r == [receipt[p] EXCEPT !.to = sum]
  <2>1. r \in ReceiptRecord /\ r.status = "recorded" /\ r.to = sum
    BY <1>1, <1>3, <1>4 DEF ReceiptRecord
  <2>2. q = [r EXCEPT !.unapplied = rest]
    BY <1>8
  <2> HIDE DEF r
  <2> QED
    BY <1>6, <2>1, <2>2 DEF ReceiptRecord
<1>10. j \in JournalRecord /\ j.allocated = Allocated(sum)
  <2>1. j = [cashJournal[p] EXCEPT !.allocated = Allocated(sum), !.unapplied = rest]
    BY <1>9
  <2> HIDE DEF j
  <2> QED
    BY <1>1, <1>5, <1>6, <2>1 DEF JournalRecord
<1> HIDE DEF j
<1>11. /\ \A i \in Invoices : q.to[i] = receipt[p].to[i] + to[i]
       /\ j.allocated = cashJournal[p].allocated + Allocated(to)
  BY <1>3, <1>5, <1>7, <1>9, <1>10
<1>12. targets \in SUBSET Invoices /\ \A i \in Invoices : to[i] > 0 => i \in targets
  OBVIOUS
<1> HIDE DEF targets
<1> QED
  BY <1>1, <1>2, <1>9, <1>10, <1>11, <1>12, AllocationStep

(* The books are blank, and so in agreement, at first. *)
LEMMA BooksInitiallyAgree == ReceivablesInit => ReceivablesInv
<1> SUFFICES ASSUME ReceivablesInit PROVE ReceivablesInv
  OBVIOUS
<1>1. RecordsInv
  BY ReceivablesInitially
<1>2. /\ \A i \in Invoices : receivable[i].outstanding = 0 /\ receivable[i].paid = 0
           /\ Balanced(receivable[i]) /\ receivable[i].status = "none"
      /\ \A p \in Receipts : cashJournal[p].allocated = 0
      /\ \A p \in Receipts, i \in Invoices : receipt[p].to[i] = 0
      /\ posted = 0
  BY DEF ReceivablesInit, NoReceivable, NoJournal, NoReceipt, Balanced
<1>3. OwedOf(receivable) = 0
  <2>1. /\ Terms(OwedTerms(receivable), Invoices)
        /\ OwedOf(receivable) = Total(OwedTerms(receivable), Invoices)
    BY <1>2, OwedIsTotal
  <2>2. \A i \in Invoices : OwedTerms(receivable)[i] = 0
    BY <1>2 DEF OwedTerms
  <2> QED
    BY <2>1, <2>2, TotalZero, ReceivablesAssumption
<1>4. CashOf(cashJournal) = 0
  <2>1. /\ Terms(CashTerms(cashJournal), Receipts)
        /\ CashOf(cashJournal) = Total(CashTerms(cashJournal), Receipts)
    BY <1>2, CashIsTotal
  <2>2. \A p \in Receipts : CashTerms(cashJournal)[p] = 0
    BY <1>2 DEF CashTerms
  <2> QED
    BY <2>1, <2>2, TotalZero, ReceivablesAssumption
<1>5. ASSUME NEW i \in Invoices PROVE PaidOf(receipt, i) = 0
  <2>1. /\ Terms(PaidTerms(receipt, i), Receipts)
        /\ PaidOf(receipt, i) = Total(PaidTerms(receipt, i), Receipts)
    BY <1>2, PaidIsTotal
  <2>2. \A p \in Receipts : PaidTerms(receipt, i)[p] = 0
    BY <1>2 DEF PaidTerms
  <2> QED
    BY <2>1, <2>2, TotalZero, ReceivablesAssumption
<1>6. BalancesInv
  BY <1>2, <1>3, <1>4, <1>5 DEF BalancesInv
<1>7. DisputedMeansInDispute
  BY <1>2 DEF DisputedMeansInDispute
<1> QED
  BY <1>1, <1>6, <1>7 DEF ReceivablesInv

LEMMA ReceivablesStep == ReceivablesInv /\ [ReceivablesNext]_receivablesVars => ReceivablesInv'
<1> SUFFICES ASSUME ReceivablesInv, [ReceivablesNext]_receivablesVars PROVE ReceivablesInv'
  OBVIOUS
<1>1. ASSUME NEW i \in Invoices, NEW u \in Users, NEW a \in Amounts, CreateInvoiceDraft(u, i, a)
      PROVE  ReceivablesInv'
  BY <1>1, DraftStep
<1>2. ASSUME NEW i \in Invoices, NEW u \in Users, IssueInvoice(u, i) PROVE ReceivablesInv'
  BY <1>2, IssueStep
<1>3. ASSUME NEW i \in Invoices, NEW k \in {"credit", "debit"}, NEW a \in Amounts,
             CreateCreditDebitNote(i, k, a)
      PROVE  ReceivablesInv'
  BY <1>3, NoteStep
<1>4. ASSUME NEW i \in Invoices, NEW a \in Amounts, RecordDeductedTax(i, a)
      PROVE  ReceivablesInv'
  BY <1>4, DeductedTaxStep
<1>5. ASSUME NEW i \in Invoices, NEW a \in Amounts, RecordCollectedTax(i, a)
      PROVE  ReceivablesInv'
  BY <1>5, CollectedTaxStep
<1>6. CASE InvoiceStep
  BY <1>1, <1>2, <1>3, <1>4, <1>5, <1>6 DEF InvoiceStep
<1>7. ASSUME NEW p \in Receipts, NEW u \in Users, NEW m \in {"cash", "bank"}, NEW a \in Amounts,
             NEW to \in Allocations, RecordPayment(u, p, m, a, to)
      PROVE  ReceivablesInv'
  BY <1>7, PaymentStep
<1>8. ASSUME NEW p \in Receipts, NEW to \in Allocations, ApplyUnappliedReceipt(p, to)
      PROVE  ReceivablesInv'
  BY <1>8, ApplicationStep
<1>9. ASSUME NEW p \in Receipts, ReconcilePayment(p) \/ ExportJournal(p) PROVE ReceivablesInv'
  BY <1>9, ReconcileStep
<1>10. ASSUME NEW p \in Receipts, NEW u \in Users, NEW b \in BankLines, ConfirmBankMatch(u, b, p)
       PROVE  ReceivablesInv'
  BY <1>10, BankMatchStep
<1>11. CASE CashStep
  BY <1>7, <1>8, <1>9, <1>10, <1>11 DEF CashStep
<1>12. CASE BankStep
  BY <1>12, BankSteps
<1>13. ASSUME NEW late \in SUBSET Invoices, RunDunning(late) PROVE ReceivablesInv'
  BY <1>13, DunningStep
<1>14. ASSUME NEW i \in Invoices, NEW o \in Outcomes, RecordCollectionActivity(i, o)
       PROVE  ReceivablesInv'
  BY <1>14, CollectionActivityStep
<1>15. ASSUME NEW u \in Users, NEW d \in Disputes, NEW i \in Invoices, NEW a \in Amounts,
              OpenReceivableDispute(u, d, i, a)
       PROVE  ReceivablesInv'
  BY <1>15, OpenDisputeStep
<1>16. ASSUME NEW u \in Users, NEW d \in Disputes, NEW r \in Resolutions,
              ResolveReceivableDispute(u, d, r)
       PROVE  ReceivablesInv'
  BY <1>16, ResolveDisputeStep
<1>17. ASSUME NEW u \in Users, NEW w \in WriteOffs, NEW i \in Invoices, NEW a \in Amounts,
              RequestWriteOff(u, w, i, a)
       PROVE  ReceivablesInv'
  BY <1>17, RequestWriteOffStep
<1>18. ASSUME NEW u \in Users, NEW w \in WriteOffs, NEW d \in {"approved", "rejected"},
              DecideWriteOff(u, w, d)
       PROVE  ReceivablesInv'
  BY <1>18, DecideWriteOffStep
<1>19. CASE ClaimStep
  BY <1>13, <1>14, <1>15, <1>16, <1>17, <1>18, <1>19 DEF ClaimStep
<1>20. CASE UNCHANGED receivablesVars
  <2>1. RestTyped
    BY <1>20 DEF receivablesVars, RestTyped, ReceivablesInv, RecordsInv, ReceivablesTypeOK
  <2> QED
    BY <1>20, <2>1, PartsStay, QuietStep DEF receivablesVars
<1> QED
  BY <1>6, <1>11, <1>12, <1>19, <1>20 DEF ReceivablesNext

LEMMA ReceivablesThroughout == ReceivablesSpec => []ReceivablesInv
  BY BooksInitiallyAgree, ReceivablesStep, PTL DEF ReceivablesSpec

(* Every record of order to cash and collections is well-formed. *)
THEOREM ReceivablesTyping == ReceivablesSpec => []ReceivablesTypeOK
<1>1. ReceivablesInv => ReceivablesTypeOK
  BY DEF ReceivablesInv, RecordsInv
<1> QED
  BY <1>1, ReceivablesThroughout, PTL

(* What is owed on the invoices is what the receivable's own amounts, the  *)
(* receipts allocated to it and the journals say, after any sequence of    *)
(* notes, payments, applications, taxes and write-offs.                    *)
THEOREM BalancesAlwaysAgree == ReceivablesSpec => []BalancesAgree
<1>1. ReceivablesInv => BalancesAgree
  <2> SUFFICES ASSUME ReceivablesInv PROVE BalancesAgree
    OBVIOUS
  <2>1. BalancesInv
    BY DEF ReceivablesInv
  <2>2. \A i \in Invoices : PaidOf(receipt, i) = AllocatedTo(i)
    BY DEF PaidOf, AllocatedTo
  <2>3. MapThenSumSet(Owed, Invoices) = OwedOf(receivable)
    BY DEF Owed, OwedOf, MapThenSumSet, MapThenFoldSet
  <2>4. MapThenSumSet(LAMBDA p : cashJournal[p].allocated, Receipts) = CashOf(cashJournal)
    BY DEF CashOf
  <2> QED
    BY <2>1, <2>2, <2>3, <2>4 DEF BalancesInv, BalancesAgree, Balanced, Issued
<1> QED
  BY <1>1, ReceivablesThroughout, PTL

(* No receivable keeps the mark of a dispute after its last one is closed. *)
THEOREM DisputesMarkWhatTheyHold == ReceivablesSpec => []DisputedMeansInDispute
<1>1. ReceivablesInv => DisputedMeansInDispute
  BY DEF ReceivablesInv
<1> QED
  BY <1>1, ReceivablesThroughout, PTL

(* Reconciled cash, and what its journal posts, is settled for good: no    *)
(* step changes it, and no other bank line comes to pay it.                *)
SettledCashStays ==
    \A p \in Receipts : receipt[p].status = "reconciled" =>
      /\ receipt'[p] = receipt[p]
      /\ cashJournal'[p].allocated = cashJournal[p].allocated
      /\ \A b \in BankLines : bankLine'[b].receipt = p => bankLine[b].receipt = p

LEMMA OtherCashStays ==
    ASSUME RecordsInv, NEW p \in Receipts, receipt[p].status # "reconciled",
           \A x \in Receipts : x # p => /\ receipt'[x] = receipt[x]
                                        /\ cashJournal'[x].allocated = cashJournal[x].allocated,
           \A b \in BankLines : bankLine'[b].receipt \in {bankLine[b].receipt, p}
    PROVE  SettledCashStays
BY DEF SettledCashStays

LEMMA SettledCashStep ==
    ASSUME RecordsInv, ReceivablesNext
    PROVE  SettledCashStays
<1>1. /\ receipt \in [Receipts -> ReceiptRecord] /\ cashJournal \in [Receipts -> JournalRecord]
      /\ bankLine \in [BankLines -> LineRecord]
  BY DEF RecordsInv, ReceivablesTypeOK
<1>2. ASSUME UNCHANGED cash PROVE SettledCashStays
  BY <1>2 DEF cash, SettledCashStays
<1>3. CASE InvoiceStep \/ ClaimStep
  <2>1. UNCHANGED cash
    BY <1>3 DEF InvoiceStep, ClaimStep, CreateInvoiceDraft, IssueInvoice, CreateCreditDebitNote,
       RecordDeductedTax, RecordCollectedTax, RunDunning, RecordCollectionActivity,
       OpenReceivableDispute, ResolveReceivableDispute, RequestWriteOff, DecideWriteOff
  <2> QED
    BY <1>2, <2>1
<1>4. CASE BankStep
  <2>1. receipt' = receipt /\ cashJournal' = cashJournal
    BY <1>4 DEF BankStep, PreviewBankStatement, CommitBankStatement, ExcludeBankLine
  <2>2. \A b \in BankLines : bankLine'[b].receipt \in {bankLine[b].receipt, None}
    <3>1. PICK b \in BankLines : \/ \E a \in Amounts : PreviewBankStatement(b, a)
                                 \/ CommitBankStatement(b) \/ ExcludeBankLine(b)
      BY <1>4 DEF BankStep
    <3>2. bankLine[b] \in LineRecord
      BY <1>1
    <3>3. bankLine'[b].receipt \in {bankLine[b].receipt, None}
      <4>1. ASSUME NEW a \in Amounts, PreviewBankStatement(b, a)
            PROVE  bankLine'[b].receipt = None
        <5> DEFINE n == [status |-> "preview", credit |-> a, receipt |-> None]
        <5>1. bankLine'[b] = n /\ n.receipt = None
          BY <1>1, <4>1 DEF PreviewBankStatement
        <5> QED
          BY <5>1
      <4>2. ASSUME NEW s, bankLine' = [bankLine EXCEPT ![b] = [bankLine[b] EXCEPT !.status = s]]
            PROVE  bankLine'[b].receipt = bankLine[b].receipt
        BY <1>1, <3>2, <4>2 DEF LineRecord
      <4> QED
        BY <3>1, <4>1, <4>2 DEF CommitBankStatement, ExcludeBankLine
    <3>4. \A x \in BankLines : x # b => bankLine'[x] = bankLine[x]
      BY <1>1, <3>1 DEF PreviewBankStatement, CommitBankStatement, ExcludeBankLine
    <3> QED
      BY <3>3, <3>4
  <2> QED
    BY <2>1, <2>2, ReceivablesAssumption DEF SettledCashStays
<1>5. CASE CashStep
  <2>1. PICK p \in Receipts :
          \/ \E u \in Users, m \in {"cash", "bank"}, a \in Amounts, to \in Allocations :
                 RecordPayment(u, p, m, a, to)
          \/ \E to \in Allocations : ApplyUnappliedReceipt(p, to)
          \/ ReconcilePayment(p)
          \/ ExportJournal(p)
          \/ \E u \in Users, b \in BankLines : ConfirmBankMatch(u, b, p)
    BY <1>5 DEF CashStep
  <2>2. \A x \in Receipts : x # p => receipt'[x] = receipt[x] /\ cashJournal'[x] = cashJournal[x]
    BY <1>1, <2>1 DEF RecordPayment, ApplyUnappliedReceipt, ReconcilePayment, ExportJournal,
       ConfirmBankMatch, Reconciled
  <2>3. \A b \in BankLines : bankLine'[b].receipt \in {bankLine[b].receipt, p}
    <3>1. ASSUME NEW u \in Users, NEW b \in BankLines, ConfirmBankMatch(u, b, p)
          PROVE  \A x \in BankLines : bankLine'[x].receipt \in {bankLine[x].receipt, p}
      <4>1. bankLine[b] \in LineRecord
        BY <1>1
      <4>2. bankLine' = [bankLine EXCEPT ![b] =
               [[bankLine[b] EXCEPT !.status = "matched"] EXCEPT !.receipt = p]]
        BY <1>1, <3>1 DEF ConfirmBankMatch
      <4>3. bankLine'[b].receipt = p
        BY <1>1, <4>1, <4>2 DEF LineRecord
      <4>4. \A x \in BankLines : x # b => bankLine'[x] = bankLine[x]
        BY <1>1, <4>2
      <4> QED
        BY <4>3, <4>4
    <3> QED
      BY <2>1, <3>1 DEF RecordPayment, ApplyUnappliedReceipt, ReconcilePayment, ExportJournal
  <2>4. CASE ExportJournal(p)
    <3>1. cashJournal[p] \in JournalRecord
      BY <1>1
    <3>2. receipt' = receipt /\ bankLine' = bankLine
          /\ cashJournal' = [cashJournal EXCEPT ![p] = [cashJournal[p] EXCEPT !.status = "exported"]]
      BY <2>4 DEF ExportJournal
    <3>3. cashJournal'[p].allocated = cashJournal[p].allocated
      BY <1>1, <3>1, <3>2 DEF JournalRecord
    <3> QED
      BY <2>2, <3>2, <3>3 DEF SettledCashStays
  <2>5. CASE ~ExportJournal(p)
    <3>1. receipt[p].status # "reconciled"
      BY <2>1, <2>5 DEF RecordPayment, ApplyUnappliedReceipt, Applicable, ReconcilePayment,
         ConfirmBankMatch, MayMatch
    <3> QED
      BY <2>2, <2>3, <3>1, OtherCashStays
  <2> QED
    BY <2>4, <2>5
<1> QED
  BY <1>3, <1>4, <1>5 DEF ReceivablesNext

(* Cash that was reconciled is settled, whatever is paid, matched, applied *)
(* or exported afterwards.                                                 *)
THEOREM ReconciledCashStaysSettled == ReceivablesSpec => ReconciledCashIsSettled
<1>1. ReceivablesInv /\ [ReceivablesNext]_receivablesVars => [SettledCashStays]_receivablesVars
  BY SettledCashStep DEF ReceivablesInv
<1>2. [SettledCashStays]_receivablesVars
        => [\A p \in Receipts : receipt[p].status = "reconciled" =>
             /\ receipt'[p] = receipt[p]
             /\ cashJournal'[p].allocated = cashJournal[p].allocated
             /\ \A b \in BankLines : bankLine'[b].receipt = p => bankLine[b].receipt = p
           ]_receivablesVars
  BY DEF SettledCashStays
<1> QED
  BY <1>1, <1>2, ReceivablesThroughout, PTL DEF ReceivablesSpec, ReconciledCashIsSettled

=============================================================================
