-------------------------- MODULE ProviderHandoffs --------------------------
(***************************************************************************)
(* Hand-offs to an outside provider (src/domain/provider-control.ts), for  *)
(* one payroll connector: its secret is sealed in a vault, its             *)
(* capabilities are tried in conformance cases, it is approved, and packets *)
(* of finalised payroll runs are prepared under it, handed off by another  *)
(* operator, answered, and compared with what the provider says when asked. *)
(*                                                                         *)
(* The secret is written to the vault before the document that knows its   *)
(* fingerprint (RevenueOpsStore.configureProviderCredentials), so the      *)
(* process may stop between the two.  Expiry and revocation of a secret    *)
(* are called by nothing, and a connector is never deactivated.  What the  *)
(* provider answers is any of its statuses.                                *)
(***************************************************************************)
EXTENDS Payroll, FiniteSets

CONSTANTS
    Fingerprints,    \* of the secrets that may be sealed
    Capabilities,    \* what the connector declares
    Packets,         \* submissions
    MaxRevision, MaxCases   \* bounds on sealings and on conformance cases

ASSUME ProviderAssumption == MaxRevision \in Nat /\ MaxCases \in Nat

VARIABLES
    vault,        \* fingerprint of the secret in the vault
    connector,    \* its fingerprint, credential revision and approver
    cases,        \* conformance cases
    packet        \* submissions

providerVars == <<vault, connector, cases, packet>>

NoPacket == [status |-> "none", run |-> None, revision |-> 0, preparer |-> None, handler |-> None]

ProviderInit ==
    /\ vault = None
    /\ connector = [fingerprint |-> None, revision |-> 0, approver |-> None]
    /\ cases = {}
    /\ packet = [s \in Packets |-> NoPacket]

-----------------------------------------------------------------------------
(* The secret. *)

(* markProviderCredentials: an unchanged secret keeps what was proved of it. *)
Resealed(f) ==
    IF connector.fingerprint = f THEN connector
    ELSE [fingerprint |-> f, revision |-> connector.revision + 1, approver |-> None]

ConfigureCredentials(f) ==
    /\ Resealed(f).revision <= MaxRevision
    /\ vault' = f
    /\ connector' = Resealed(f)
    /\ UNCHANGED <<cases, packet>>

(* The process stops when the vault is written and the document is not. *)
StopAfterVault(f) ==
    /\ vault' = f
    /\ UNCHANGED <<connector, cases, packet>>

-----------------------------------------------------------------------------
(* Conformance and approval. *)

Current == {k \in cases : k.revision = connector.revision}

PlannedCase(capability, officer) ==
    [capability |-> capability, revision |-> connector.revision, result |-> "planned",
     preparer |-> officer, assessor |-> None]

(* One more case for a capability. *)
CreateConformanceCase(capability, officer) ==
    /\ Cardinality(cases) < MaxCases
    /\ cases' = cases \cup {PlannedCase(capability, officer)}
    /\ UNCHANGED <<vault, connector, packet>>

(* A case for every capability that has none planned or passed. *)
PlanConformancePack(officer) ==
    LET open == {k.capability : k \in {k \in Current : k.result \in {"planned", "passed"}}} IN
    /\ cases' = cases \cup {PlannedCase(c, officer) : c \in Capabilities \ open}
    /\ Cardinality(cases') <= MaxCases
    /\ UNCHANGED <<vault, connector, packet>>

RecordConformanceResult(k, officer, result) ==
    /\ connector.fingerprint # None
    /\ k \in Current /\ k.result = "planned" /\ k.preparer # officer
    /\ cases' = (cases \ {k}) \cup {[k EXCEPT !.result = result, !.assessor = officer]}
    /\ UNCHANGED <<vault, connector, packet>>

(* hasCurrentCapabilityCoverage: by evidence of others than those. *)
Covered(without) ==
    \A c \in Capabilities : \E k \in Current :
      k.capability = c /\ k.result = "passed" /\ k.assessor \notin without

ApproveConnector(officer) ==
    /\ connector.fingerprint # None
    /\ Covered({officer})
    /\ connector' = [connector EXCEPT !.approver = officer]
    /\ UNCHANGED <<vault, cases, packet>>

-----------------------------------------------------------------------------
(* Packets. *)

PrepareSubmission(s, r, officer) ==
    /\ packet[s].status = "none"
    /\ connector.fingerprint # None /\ connector.approver # None
    /\ Covered({})
    /\ run[r].status = "finalized"
    /\ packet' = [packet EXCEPT ![s] =
         [status |-> "prepared", run |-> r, revision |-> connector.revision,
          preparer |-> officer, handler |-> None]]
    /\ UNCHANGED <<vault, connector, cases>>

(* Mutant: whatever was prepared may be handed off. *)
AnyPrepared(s) == packet[s].status = "prepared"

(* Prepared under the secret of today. *)
PreparedNow(s) == packet[s].status = "prepared" /\ packet[s].revision = connector.revision

HandOffSubmission(s, officer) ==
    /\ PreparedNow(s)
    /\ connector.fingerprint # None
    /\ packet[s].preparer # officer
    /\ packet' = [packet EXCEPT ![s].status = "handed-off", ![s].handler = officer]
    /\ UNCHANGED <<vault, connector, cases>>

RecordSubmissionResponse(s, officer, outcome) ==
    /\ packet[s].status = "handed-off" /\ packet[s].handler # officer
    /\ packet' = [packet EXCEPT ![s].status = outcome]
    /\ UNCHANGED <<vault, connector, cases>>

(* The provider is asked about some packets and answers acknowledged or    *)
(* failed for some of these; the answer replaces whatever status they had. *)
Reconcile(asked, outcome) ==
    /\ vault # None /\ "status-pull" \in Capabilities
    /\ asked # {} /\ \A s \in asked : packet[s].status # "none"
    /\ packet' = [s \in Packets |->
         IF s \in asked THEN [packet[s] EXCEPT !.status = outcome[s]] ELSE packet[s]]
    /\ UNCHANGED <<vault, connector, cases>>

-----------------------------------------------------------------------------
ProviderStep ==
    \/ \E f \in Fingerprints : ConfigureCredentials(f) \/ StopAfterVault(f)
    \/ \E c \in Capabilities, o \in Officers : CreateConformanceCase(c, o)
    \/ \E o \in Officers : PlanConformancePack(o) \/ ApproveConnector(o)
    \/ \E k \in cases, o \in Officers, v \in {"passed", "failed"} :
         RecordConformanceResult(k, o, v)
    \/ \E s \in Packets, o \in Officers :
         \/ \E r \in Runs : PrepareSubmission(s, r, o)
         \/ HandOffSubmission(s, o)
         \/ \E v \in {"acknowledged", "failed"} : RecordSubmissionResponse(s, o, v)
    \/ \E asked \in SUBSET Packets :
         \E outcome \in [asked -> {"acknowledged", "failed"}] : Reconcile(asked, outcome)

ProviderNext ==
    \/ ProviderStep /\ UNCHANGED payrollVars
    \/ PayrollNext /\ UNCHANGED providerVars

ProviderSpec ==
    PayrollInit /\ ProviderInit /\ [][ProviderNext]_<<payrollVars, providerVars>>

-----------------------------------------------------------------------------
ConformanceRecord ==
    [capability : Capabilities, revision : Nat, result : {"planned", "passed", "failed"},
     preparer : Officers, assessor : Maybe(Officers)]
PacketRecord ==
    [status : {"none", "prepared", "handed-off", "acknowledged", "failed"}, run : Maybe(Runs),
     revision : Nat, preparer : Maybe(Officers), handler : Maybe(Officers)]

(* Secrets, cases and packets keep the shape their handlers give them. *)
ProviderTypeOK ==
    /\ vault \in Maybe(Fingerprints)
    /\ connector \in [fingerprint : Maybe(Fingerprints), revision : Nat,
                      approver : Maybe(Officers)]
    /\ cases \subseteq ConformanceRecord
    /\ packet \in [Packets -> PacketRecord]

(* When wages go out, they go out under a secret that somebody approved,   *)
(* every capability of which was assessed, under that very revision, by    *)
(* somebody else: a hand-off itself looks neither at the approval nor at   *)
(* the evidence, both of which were looked at when the packet was prepared *)
(* and may have been lost to a new secret since (provider-control.ts:300). *)
HandoffIsCertified ==
    [][\A s \in Packets :
         packet[s].status = "prepared" /\ packet'[s].status = "handed-off" =>
           /\ connector.approver # None
           /\ Covered({connector.approver})
           /\ run[packet[s].run].status = "finalized"
      ]_<<payrollVars, providerVars>>
=============================================================================
