---------------------------- MODULE MCFrontOffice ----------------------------
(* Small instances of the lead conversions, of the party master by itself  *)
(* and of the receivables, which share no state.  Each behaviour stays at  *)
(* one desk: what is not on it keeps its initial state, and the state      *)
(* spaces add up instead of multiplying.                                   *)
EXTENDS LeadConversion, Receivables, TLC

CONSTANTS e1, e2

VARIABLE desk

frontVars == <<conversionVars, receivablesVars, desk>>

MCDomainOf == [a \in Accounts |-> "one domain"]

EmailsInUse ==
    ({lead'[l].email : l \in Leads} \cup {party'.contact[c].email : c \in Contacts}
        \cup job'.rows) \ {None}
WindowsInUse == {w \in Windows : call'[w].step # "idle"}

(* Two windows convert and import leads of one address while one thing     *)
(* goes wrong, or one window does while there are two addresses.  Nothing  *)
(* else is attached to the records they create.                            *)
ConversionDesk ==
    /\ desk = "conversions"
    /\ ConversionNext
    /\ party'.consents = << >> /\ party'.related = {}
    /\ \A h \in Holdings : party'.holder[h] = None
    /\ party'.merges = party.merges => party.duplicates \subseteq party'.duplicates
    /\ lostWrites' + crashes' <= 1
    /\ Cardinality(WindowsInUse) > 1 => lostWrites' + crashes' = 0 \/ party'.merges = {}
    /\ e2 \in EmailsInUse => e1 \in EmailsInUse
    /\ Cardinality(EmailsInUse) > 1 =>
         lostWrites' + crashes' = 0 /\ Cardinality(WindowsInUse) <= 1
    /\ UNCHANGED receivablesVars

PartyDesk ==
    /\ desk = "party"
    /\ PartyNext
    /\ UNCHANGED <<crmVars, jobVars, call, crashes, receivablesVars>>

-----------------------------------------------------------------------------
(* Claims on one invoice, and cash spread over several.  Documents are     *)
(* numbered in the order in which they are made.                           *)

InUse(f) == Cardinality({x \in DOMAIN f : f[x].status # "none"})
Numbered(f) == \A x, y \in DOMAIN f : x < y /\ f'[y].status # "none" => f'[x].status # "none"

ClaimsDesk ==
    /\ desk = "claims"
    /\ InvoiceStep \/ CashStep \/ ClaimStep
    /\ \A p \in Receipts : cashJournal'[p].status # "exported"
    /\ InUse(dispute') + InUse(writeOff') + InUse(receipt') <= 2
    /\ InUse(invoice') <= 1 /\ InUse(receipt') <= 1
    /\ Numbered(invoice) /\ Numbered(receipt) /\ Numbered(dispute)
    /\ UNCHANGED conversionVars

CashDesk ==
    /\ desk = "cash"
    /\ InvoiceStep \/ CashStep \/ BankStep
    /\ InUse(invoice') + InUse(receipt') + adjustments' <= 3
    /\ Cardinality({i \in Invoices : invoice'[i].status = "draft"}) <= 1
    /\ Numbered(invoice) /\ Numbered(receipt)
    /\ UNCHANGED conversionVars

-----------------------------------------------------------------------------
FrontInit ==
    /\ ConversionInit /\ ReceivablesInit
    /\ desk \in {"conversions", "party", "claims", "cash"}
FrontNext == UNCHANGED desk /\ (ConversionDesk \/ PartyDesk \/ ClaimsDesk \/ CashDesk)
FrontSpec == FrontInit /\ [][FrontNext]_frontVars

Symmetry ==
    Permutations(Accounts) \cup Permutations(Contacts) \cup Permutations(Leads)
        \cup Permutations(Windows) \cup Permutations(Users)
=============================================================================
