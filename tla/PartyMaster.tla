---------------------------- MODULE PartyMaster -----------------------------
(***************************************************************************)
(* The party master (src/domain/party.ts, src/main/party-store.ts):        *)
(* accounts, contacts, what is attached to them, consents, duplicates,     *)
(* merges and lead conversions, in one document that PartyStore keeps in   *)
(* memory and in the database.                                             *)
(*                                                                         *)
(* Optimistic versions are not numbers here: a command whose expected      *)
(* version is out of date changes nothing, so only commands that are up to *)
(* date are actions.  Addresses and contact points are Holdings; kinds,    *)
(* labels and primary flags are left out.                                  *)
(***************************************************************************)
EXTENDS Shared, Naturals, Sequences, FiniteSets

CONSTANTS
    Accounts, Contacts, Leads, Holdings,
    Emails, Channels,
    DomainOf,        \* the web domain an account would be created with
    MaxConsents,     \* bound on the consents recorded
    MaxLostWrites    \* bound on the database writes that fail

ASSUME NoneIsNoRecord == None \notin Accounts \cup Contacts

VARIABLES
    party,       \* PartyStore.state
    partyDisk,   \* the party document in the database
    lostWrites   \* history: database writes that failed so far

partyVars == <<party, partyDisk, lostWrites>>

NoAccount == "none"
NoContact == [status |-> "none", account |-> None, email |-> None]
NoConversion == [account |-> None, contact |-> None]

(* createCleanPartyState. *)
CleanParty ==
    [account |-> [a \in Accounts |-> NoAccount],
     contact |-> [c \in Contacts |-> NoContact],
     holder |-> [h \in Holdings |-> None],
     related |-> {},
     consents |-> << >>,
     duplicates |-> {},
     conversion |-> [l \in Leads |-> NoConversion],
     merges |-> {}]

PartyInit ==
    /\ party = CleanParty
    /\ partyDisk = CleanParty
    /\ lostWrites = 0

ActiveAccounts(p) == {a \in Accounts : p.account[a] = "active"}
ActiveContacts(p) == {c \in Contacts : p.contact[c].status = "active"}

(* mutate: memory takes the new document before it is written, and keeps   *)
(* it when the write fails.                                                *)
PartyStored(new) ==
    party' = new /\ partyDisk' = new /\ UNCHANGED lostWrites
PartyWriteLost(new) ==
    /\ lostWrites < MaxLostWrites
    /\ party' = new /\ lostWrites' = lostWrites + 1 /\ UNCHANGED partyDisk
PartyMutated(new) == PartyStored(new) \/ PartyWriteLost(new)

-----------------------------------------------------------------------------
(* A new account is compared with every account, active or not.            *)
WithAccount(p, a) ==
    [p EXCEPT !.account[a] = "active",
              !.duplicates = @ \cup {<<b, a>> : b \in {b \in Accounts :
                  p.account[b] # "none" /\ DomainOf[b] = DomainOf[a]}}]

CreateAccount(a) ==
    /\ party.account[a] = "none"
    /\ PartyMutated(WithAccount(party, a))

EmailTaken(p, e) == \E c \in Contacts : p.contact[c].email = e

WithContact(p, c, account, e) ==
    [p EXCEPT !.contact[c] = [status |-> "active", account |-> account, email |-> e]]

(* The account must exist; it need not be active.                          *)
CreateContact(c, account, e) ==
    /\ party.contact[c].status = "none"
    /\ ~ EmailTaken(party, e)
    /\ account \in {None} \cup {a \in Accounts : party.account[a] # "none"}
    /\ PartyMutated(WithContact(party, c, account, e))

(* Any contact on file may be asked, also one that was merged away.        *)
RecordConsent(c, channel, status) ==
    /\ party.contact[c].status # "none"
    /\ Len(party.consents) < MaxConsents
    /\ PartyMutated([party EXCEPT !.consents =
         Append(@, [contact |-> c, channel |-> channel, status |-> status])])

ResolveDuplicate(pair) ==
    /\ pair \in party.duplicates
    /\ PartyMutated([party EXCEPT !.duplicates = @ \ {pair}])

(* addAddress: exactly one owner, who is active.  addContactPoint: a       *)
(* contact who is active.                                                  *)
AddHolding(h, owner) ==
    /\ party.holder[h] = None
    /\ owner \in ActiveAccounts(party) \cup ActiveContacts(party)
    /\ PartyMutated([party EXCEPT !.holder[h] = owner])

CreateRelationship(a, b) ==
    /\ a # b
    /\ {a, b} \subseteq ActiveAccounts(party)
    /\ <<a, b>> \notin party.related
    /\ PartyMutated([party EXCEPT !.related = @ \cup {<<a, b>>}])

-----------------------------------------------------------------------------
Renamed(x, survivor, merged) == IF x = merged THEN survivor ELSE x

MovedHoldings(p, survivor, merged) ==
    [h \in Holdings |-> Renamed(p.holder[h], survivor, merged)]

(* Duplicates of the merged record are settled with it.                    *)
RemainingDuplicates(p, merged) == {d \in p.duplicates : merged \notin {d[1], d[2]}}

(* Mutant: relationships stay with the account that was merged away. *)
AccountsMergedKeepingRelations(p, survivor, merged) ==
    [p EXCEPT
       !.account[merged] = "inactive",
       !.contact = [c \in Contacts |->
           [p.contact[c] EXCEPT !.account = Renamed(@, survivor, merged)]],
       !.holder = MovedHoldings(p, survivor, merged),
       !.duplicates = RemainingDuplicates(p, merged),
       !.merges = @ \cup {<<survivor, merged>>}]

(* A relationship of the two accounts with each other disappears.          *)
AccountsMerged(p, survivor, merged) ==
    [p EXCEPT
       !.account[merged] = "inactive",
       !.contact = [c \in Contacts |->
           [p.contact[c] EXCEPT !.account = Renamed(@, survivor, merged)]],
       !.holder = MovedHoldings(p, survivor, merged),
       !.related = {r \in {<<Renamed(q[1], survivor, merged), Renamed(q[2], survivor, merged)>> :
                            q \in p.related} : r[1] # r[2]},
       !.duplicates = RemainingDuplicates(p, merged),
       !.merges = @ \cup {<<survivor, merged>>}]

(* Consents follow the person and keep their order.                        *)
ContactsMerged(p, survivor, merged) ==
    [p EXCEPT
       !.contact[merged].status = "inactive",
       !.holder = MovedHoldings(p, survivor, merged),
       !.consents = [i \in DOMAIN p.consents |->
           [p.consents[i] EXCEPT !.contact = Renamed(@, survivor, merged)]],
       !.duplicates = RemainingDuplicates(p, merged),
       !.merges = @ \cup {<<survivor, merged>>}]

(* Mutant: the surviving account need not be active. *)
MergeIntoAnyAccount(survivor, merged) ==
    /\ survivor # merged
    /\ party.account[survivor] # "none" /\ merged \in ActiveAccounts(party)
    /\ PartyMutated(AccountsMerged(party, survivor, merged))

ExecuteAccountMerge(survivor, merged) ==
    /\ survivor # merged
    /\ {survivor, merged} \subseteq ActiveAccounts(party)
    /\ PartyMutated(AccountsMerged(party, survivor, merged))

ExecuteContactMerge(survivor, merged) ==
    /\ survivor # merged
    /\ {survivor, merged} \subseteq ActiveContacts(party)
    /\ PartyMutated(ContactsMerged(party, survivor, merged))

PartyNext ==
    \/ \E a \in Accounts : CreateAccount(a)
    \/ \E c \in Contacts, account \in Accounts \cup {None}, e \in Emails :
         CreateContact(c, account, e)
    \/ \E c \in Contacts, channel \in Channels, status \in {"granted", "withdrawn"} :
         RecordConsent(c, channel, status)
    \/ \E pair \in party.duplicates : ResolveDuplicate(pair)
    \/ \E h \in Holdings, owner \in Accounts \cup Contacts : AddHolding(h, owner)
    \/ \E a, b \in Accounts : CreateRelationship(a, b) \/ ExecuteAccountMerge(a, b)
    \/ \E c, d \in Contacts : ExecuteContactMerge(c, d)

-----------------------------------------------------------------------------
ContactRecord ==
    [status : {"none", "active", "inactive"}, account : Accounts \cup {None},
     email : Emails \cup {None}]

PartyDocument ==
    [account : [Accounts -> {"none", "active", "inactive"}],
     contact : [Contacts -> ContactRecord],
     holder : [Holdings -> Accounts \cup Contacts \cup {None}],
     related : SUBSET (Accounts \X Accounts),
     consents : Seq([contact : Contacts, channel : Channels,
                     status : {"granted", "withdrawn"}]),
     duplicates : SUBSET (Accounts \X Accounts),
     conversion : [Leads -> [account : Accounts \cup {None},
                             contact : Contacts \cup {None}]],
     merges : SUBSET ((Accounts \X Accounts) \cup (Contacts \X Contacts))]

(* The records a merged one lives on in, after any number of merges: those *)
(* of every set that has x and is closed under the merges.                 *)
ClosedUnderMerges(p, S) == \A m \in p.merges : m[2] \in S => m[1] \in S

Survivors(p, x) ==
    {y \in Accounts \cup Contacts :
       \A S \in SUBSET (Accounts \cup Contacts) :
         x \in S /\ ClosedUnderMerges(p, S) => y \in S}

(* executeMerge takes everything attached to a record along: no address,   *)
(* contact point or relationship is left with a record that is no longer   *)
(* active, however merges follow each other.                               *)
NothingIsAstray(p) ==
    /\ \A h \in Holdings : p.holder[h] \in
         {None} \cup ActiveAccounts(p) \cup ActiveContacts(p)
    /\ \A r \in p.related : {r[1], r[2]} \subseteq ActiveAccounts(p)

NothingIsLeftBehind == NothingIsAstray(party)
=============================================================================
