----------------------------- MODULE StateStore -----------------------------
(***************************************************************************)
(* The write path every business store of the main process shares (crm,    *)
(* party, crm-depth, kernel, revenue-ops): commands queue on one promise   *)
(* chain; a task replaces the state in memory, then writes the whole       *)
(* document with its audit evidence in one SQLite transaction.             *)
(*                                                                         *)
(* A document is the sequence of the commands whose effects it holds, and  *)
(* its revision is their number.  The write is synchronous, so a task that *)
(* waits for nothing else is one step.  Memory is replaced before the      *)
(* write and is not put back when the write fails (a full disk, a locked   *)
(* file); a crash loses memory, the queue and the windows, which all live  *)
(* and die with the one process that holds the instance lock.  A crash is  *)
(* the process's: a power cut may also lose the last committed writes      *)
(* (WAL with synchronous = NORMAL) and is not modelled.                    *)
(*                                                                         *)
(* The kernel and party documents carry an audit list (Audited); those of  *)
(* crm, crm-depth and revenue-ops do not.                                  *)
(***************************************************************************)
EXTENDS Naturals, Sequences, FiniteSets, SequencesExt

CONSTANTS
    Commands,      \* each sent at most once
    Records,
    RecordOf,      \* the record each command changes
    Audited,       \* the document carries an audit list
    MaxCrashes

ASSUME StoreAssumption ==
    /\ RecordOf \in [Commands -> Records]
    /\ Audited \in BOOLEAN
    /\ MaxCrashes \in Nat

VARIABLES
    memory,   \* this.state
    disk,     \* payload of the store's state document
    ledger,   \* commands with an entry in the audit ledger
    queue,    \* tasks chained on writeQueue, head first
    seen,     \* the effects a command's window had seen on its record
    outcome,  \* how the promise of a command settled
    told,     \* what its window was answered
    running, crashes

vars == <<memory, disk, ledger, queue, seen, outcome, told, running, crashes>>

Init ==
    /\ memory = << >>
    /\ disk = << >>
    /\ ledger = {}
    /\ queue = << >>
    /\ seen = [c \in Commands |-> {}]
    /\ outcome = [c \in Commands |-> "none"]
    /\ told = [c \in Commands |-> "none"]
    /\ running = TRUE
    /\ crashes = 0

(* The effects a state holds on a record; its version is their number.     *)
History(state, r) == {c \in ToSet(state) : RecordOf[c] = r}
Version(history) == Cardinality(history)

(* enqueue: a window sends a command with the version of the record it saw *)
(* last, when the state held its first n effects.                          *)
Enqueue(c, n) ==
    /\ running
    /\ outcome[c] = "none"
    /\ seen' = [seen EXCEPT ![c] = History(SubSeq(memory, 1, n), RecordOf[c])]
    /\ queue' = Append(queue, c)
    /\ outcome' = [outcome EXCEPT ![c] = "queued"]
    /\ UNCHANGED <<memory, disk, ledger, told, running, crashes>>

(* Mutant: versions not compared inside the task. *)
CurrentUnchecked(c) == TRUE

(* The optimistic check every changing operation makes on its record.      *)
Current(c) == Version(seen[c]) = Version(History(memory, RecordOf[c]))

(* The chain goes on whether the task resolved or threw.                   *)
Settled(c, result) ==
    /\ queue' = Tail(queue)
    /\ outcome' = [outcome EXCEPT ![c] = result]
    /\ UNCHANGED <<seen, told, running, crashes>>

(* The operation throws: the version moved on, or a domain rule says no.   *)
Refuse(c) ==
    /\ Settled(c, "refused")
    /\ UNCHANGED <<memory, disk, ledger>>

(* The commands a document's audit list tells of.                          *)
Audit(state) == IF Audited THEN ToSet(state) ELSE {}

(* persistStateDocument: upsert unless the stored revision is newer, and   *)
(* INSERT OR IGNORE of the document's audit entries.                       *)
Store(c) ==
    /\ Current(c)
    /\ memory' = Append(memory, c)
    /\ disk' = IF Len(memory') >= Len(disk) THEN memory' ELSE disk
    /\ ledger' = ledger \cup Audit(memory')
    /\ Settled(c, "stored")

(* Mutant: evidence written outside of the document's transaction. *)
FailToStoreDocument(c) ==
    /\ Current(c)
    /\ memory' = Append(memory, c)
    /\ ledger' = ledger \cup Audit(<<c>>)
    /\ Settled(c, "failed")
    /\ UNCHANGED disk

(* Mutant: a failed write answered like a stored one. *)
FailSilently(c) ==
    /\ Current(c)
    /\ memory' = Append(memory, c)
    /\ Settled(c, "stored")
    /\ UNCHANGED <<disk, ledger>>

(* The transaction is rolled back; memory keeps the effect.                *)
FailToStore(c) ==
    /\ Current(c)
    /\ memory' = Append(memory, c)
    /\ Settled(c, "failed")
    /\ UNCHANGED <<disk, ledger>>

(* Mutant: a task that throws never settles its promise. *)
RunTaskIfAccepted(c) ==
    /\ running
    /\ queue # << >> /\ Head(queue) = c
    /\ outcome[c] = "queued"
    /\ Store(c) \/ FailToStore(c)

RunTask(c) ==
    /\ running
    /\ queue # << >> /\ Head(queue) = c
    /\ outcome[c] = "queued"
    /\ Refuse(c) \/ Store(c) \/ FailToStore(c)

Deliver(c) ==
    /\ running
    /\ told[c] = "none"
    /\ outcome[c] \in {"stored", "refused", "failed"}
    /\ told' = [told EXCEPT ![c] = IF outcome[c] = "stored" THEN "ok" ELSE outcome[c]]
    /\ UNCHANGED <<memory, disk, ledger, queue, seen, outcome, running, crashes>>

Crash ==
    /\ running
    /\ crashes < MaxCrashes
    /\ running' = FALSE
    /\ crashes' = crashes + 1
    /\ memory' = << >>
    /\ queue' = << >>
    /\ outcome' = [c \in Commands |->
         IF outcome[c] # "none" /\ told[c] = "none" THEN "lost" ELSE outcome[c]]
    /\ UNCHANGED <<disk, ledger, seen, told>>

(* initialize: the stored document is the state.                           *)
Restart ==
    /\ ~ running
    /\ running' = TRUE
    /\ memory' = disk
    /\ UNCHANGED <<disk, ledger, queue, seen, outcome, told, crashes>>

Next ==
    \/ \E c \in Commands, n \in 0..Len(memory) : Enqueue(c, n)
    \/ \E c \in Commands : RunTask(c) \/ Deliver(c)
    \/ Crash
    \/ Restart

Spec == Init /\ [][Next]_vars

(* The event loop runs a chained task once its turn has come.              *)
FairSpec == Spec /\ \A c \in Commands : WF_vars(RunTask(c))

-----------------------------------------------------------------------------
Results == {"none", "queued", "stored", "refused", "failed", "lost"}

(* Documents hold commands, and the queue exactly those that wait in it.   *)
TypeOK ==
    /\ memory \in Seq(Commands)
    /\ disk \in Seq(Commands)
    /\ ledger \subseteq Commands
    /\ queue \in Seq(Commands) /\ IsInjective(queue)
    /\ seen \in [Commands -> SUBSET Commands]
    /\ outcome \in [Commands -> Results]
    /\ told \in [Commands -> {"none", "ok", "refused", "failed"}]
    /\ running \in BOOLEAN
    /\ crashes \in 0..MaxCrashes
    /\ ToSet(queue) = {c \in Commands : outcome[c] = "queued"}

(* No update is lost: whatever a state holds was made on exactly the       *)
(* history of its record that its window had seen, through failed writes   *)
(* and restarts (the version checks of the operations, mutate).            *)
NoLostUpdate ==
    \A n \in DOMAIN memory :
      History(SubSeq(memory, 1, n - 1), RecordOf[memory[n]]) = seen[memory[n]]

(* The document and the audit ledger tell the same story at every moment a *)
(* crash can come (saveState's one transaction).                           *)
LedgerMatchesDocument == ledger = Audit(disk)

(* What runs is never behind what is stored, so that the revision guard of *)
(* persistStateDocument never drops a write it answers "ok" for.           *)
MemoryIsAhead == running => IsPrefix(disk, memory)

(* README.md 64: the main process "commits accepted state                  *)
(* transactionally": a command answered with a failure left nothing.       *)
FailureLeavesNothing ==
    \A c \in Commands : told[c] = "failed" => c \notin ToSet(disk)

(* The store keeps the promise of DurableLog.                              *)
Promise == INSTANCE DurableLog WITH log <- disk
KeepsPromise == Promise!LogSpec

(* A rejected task does not stop the ones behind it (enqueue's             *)
(* writeQueue.then(task, task)).                                           *)
QueueMovesOn ==
    \A c \in Commands : outcome[c] = "queued" ~> outcome[c] # "queued"

=============================================================================
