-------------------------- MODULE StateStoreProofs ---------------------------
(***************************************************************************)
(* Theorems about StateStore for every set of commands and records, every  *)
(* number of crashes and every pattern of failing writes: it implements    *)
(* DurableLog and loses no update.                                         *)
(***************************************************************************)
EXTENDS StateStore, FiniteSetTheorems, SequenceTheorems, TLAPS

-----------------------------------------------------------------------------
(* States as sequences of commands.                                        *)

(* What a state holds after one more command. *)
LEMMA AppendState ==
    ASSUME NEW s \in Seq(Commands), NEW c \in Commands
    PROVE  /\ Append(s, c) \in Seq(Commands)
           /\ Len(Append(s, c)) = Len(s) + 1
           /\ ToSet(Append(s, c)) = ToSet(s) \cup {c}
           /\ Append(s, c)[Len(s) + 1] = c
           /\ \A i \in 1..Len(s) : Append(s, c)[i] = s[i]
<1>1. /\ Append(s, c) \in Seq(Commands)
      /\ Len(Append(s, c)) = Len(s) + 1
      /\ Append(s, c)[Len(s) + 1] = c
      /\ \A i \in 1..Len(s) : Append(s, c)[i] = s[i]
  BY AppendProperties
<1>2. DOMAIN s = 1..Len(s) /\ Len(s) \in Nat /\ DOMAIN Append(s, c) = 1..(Len(s) + 1)
  BY <1>1, LenProperties
<1>3. 1..(Len(s) + 1) = 1..Len(s) \cup {Len(s) + 1}
  BY <1>2
<1> QED
  BY <1>1, <1>2, <1>3 DEF ToSet

(* A command a state does not hold yet keeps its commands distinct. *)
LEMMA AppendDistinct ==
    ASSUME NEW s \in Seq(Commands), NEW c \in Commands,
           IsInjective(s), c \notin ToSet(s)
    PROVE  IsInjective(Append(s, c))
<1>1. DOMAIN s = 1..Len(s) /\ Len(s) \in Nat /\ DOMAIN Append(s, c) = 1..(Len(s) + 1)
  BY AppendState, LenProperties
<1>2. \A i \in 1..Len(s) : s[i] # c
  BY <1>1 DEF ToSet
<1> QED
  BY <1>1, <1>2, AppendState DEF IsInjective

(* The head leaves a queue without a trace. *)
LEMMA TailQueue ==
    ASSUME NEW s \in Seq(Commands), s # << >>, IsInjective(s)
    PROVE  /\ Head(s) \in Commands
           /\ Tail(s) \in Seq(Commands)
           /\ IsInjective(Tail(s))
           /\ ToSet(Tail(s)) = ToSet(s) \ {Head(s)}
<1>1. /\ Head(s) \in Commands
      /\ Tail(s) \in Seq(Commands)
      /\ Len(Tail(s)) = Len(s) - 1
      /\ \A i \in 1..Len(Tail(s)) : Tail(s)[i] = s[i + 1]
  BY HeadTailProperties
<1>2. /\ DOMAIN s = 1..Len(s) /\ Len(s) \in Nat \ {0}
      /\ DOMAIN Tail(s) = 1..(Len(s) - 1)
      /\ Head(s) = s[1]
  BY <1>1, LenProperties, EmptySeq
<1>3. IsInjective(Tail(s))
  BY <1>1, <1>2 DEF IsInjective
<1>4. ASSUME NEW x \in ToSet(Tail(s)) PROVE x \in ToSet(s) \ {Head(s)}
  BY <1>1, <1>2 DEF ToSet, IsInjective
<1>5. ASSUME NEW x \in ToSet(s) \ {Head(s)} PROVE x \in ToSet(Tail(s))
  <2>1. PICK i \in 1..Len(s) : s[i] = x
    BY <1>2 DEF ToSet
  <2>2. i - 1 \in 1..(Len(s) - 1) /\ (i - 1) + 1 = i
    BY <2>1, <1>2
  <2>3. Tail(s)[i - 1] = x
    BY <2>1, <2>2, <1>1
  <2> QED
    BY <2>2, <2>3, <1>2 DEF ToSet
<1> QED
  BY <1>1, <1>3, <1>4, <1>5

(* Prefixes, element by element. *)
LEMMA PrefixElements ==
    ASSUME NEW s \in Seq(Commands), NEW t \in Seq(Commands)
    PROVE  IsPrefix(s, t) <=> /\ Len(s) <= Len(t)
                              /\ \A i \in 1..Len(s) : s[i] = t[i]
<1>1. Len(s) \in Nat /\ Len(t) \in Nat
  BY LenProperties
<1>2. CASE Len(s) <= Len(t)
  <2>1. SubSeq(s, 1, Len(s)) = s
    BY SubSeqFull
  <2>2. \A i \in 1..Len(s) : t[i] \in Commands
    BY <1>1, <1>2, ElementOfSeq
  <2>3. /\ SubSeq(t, 1, Len(s)) \in Seq(Commands)
        /\ Len(SubSeq(t, 1, Len(s))) = Len(s)
        /\ \A i \in 1..Len(s) : SubSeq(t, 1, Len(s))[i] = t[i]
    BY <2>2, <1>1, SubSeqProperties
  <2>4. s = SubSeq(t, 1, Len(s)) <=> \A i \in 1..Len(s) : s[i] = SubSeq(t, 1, Len(s))[i]
    BY <2>3, SeqEqual
  <2> QED
    BY <1>2, <2>1, <2>3, <2>4 DEF IsPrefix
<1>3. CASE ~ (Len(s) <= Len(t))
  BY <1>3 DEF IsPrefix
<1> QED
  BY <1>2, <1>3

(* A state with one more command extends what the state extended. *)
LEMMA AppendPrefix ==
    ASSUME NEW s \in Seq(Commands), NEW t \in Seq(Commands), NEW c \in Commands,
           IsPrefix(s, t)
    PROVE  /\ IsPrefix(s, Append(t, c))
           /\ s # Append(t, c)
           /\ Len(s) <= Len(Append(t, c))
           /\ ToSet(s) \subseteq ToSet(t)
<1> DEFINE longer == Append(t, c)
<1>1. Len(s) <= Len(t) /\ \A i \in 1..Len(s) : s[i] = t[i]
  BY PrefixElements
<1>2. Len(s) \in Nat /\ Len(t) \in Nat /\ DOMAIN s = 1..Len(s) /\ DOMAIN t = 1..Len(t)
  BY LenProperties
<1>3. /\ longer \in Seq(Commands)
      /\ Len(longer) = Len(t) + 1
      /\ \A i \in 1..Len(t) : longer[i] = t[i]
  BY AppendState
<1> HIDE DEF longer
<1>4. \A i \in 1..Len(s) : s[i] = longer[i]
  BY <1>1, <1>2, <1>3
<1>5. Len(s) < Len(longer)
  BY <1>1, <1>2, <1>3
<1>6. IsPrefix(s, longer)
  BY <1>2, <1>3, <1>4, <1>5, PrefixElements
<1>7. s # longer /\ Len(s) <= Len(longer)
  BY <1>2, <1>3, <1>5
<1>8. ASSUME NEW x \in ToSet(s) PROVE x \in ToSet(t)
  <2>1. PICK i \in 1..Len(s) : s[i] = x
    BY <1>2 DEF ToSet
  <2>2. i \in 1..Len(t) /\ t[i] = x
    BY <2>1, <1>1, <1>2
  <2> QED
    BY <2>2, <1>2 DEF ToSet
<1> QED
  BY <1>6, <1>7, <1>8 DEF longer

(* The part of a state before its n-th command, when one more is added. *)
LEMMA BeforeAppend ==
    ASSUME NEW s \in Seq(Commands), NEW c \in Commands, NEW n \in 1..(Len(s) + 1)
    PROVE  SubSeq(Append(s, c), 1, n - 1) = SubSeq(s, 1, n - 1)
<1>1. Len(s) \in Nat
  BY LenProperties
<1>2. \A i \in 1..(n - 1) : s[i] \in Commands /\ Append(s, c)[i] = s[i]
  BY <1>1, AppendState, ElementOfSeq
<1>3. /\ SubSeq(s, 1, n - 1) \in Seq(Commands)
      /\ Len(SubSeq(s, 1, n - 1)) = n - 1
      /\ \A i \in 1..(n - 1) : SubSeq(s, 1, n - 1)[i] = s[i]
  BY <1>1, <1>2, SubSeqProperties
<1>4. /\ SubSeq(Append(s, c), 1, n - 1) \in Seq(Commands)
      /\ Len(SubSeq(Append(s, c), 1, n - 1)) = n - 1
      /\ \A i \in 1..(n - 1) : SubSeq(Append(s, c), 1, n - 1)[i] = Append(s, c)[i]
  BY <1>1, <1>2, SubSeqProperties
<1> QED
  BY <1>2, <1>3, <1>4, SeqEqual

(* A state holds finitely many effects, and never less than before. *)
LEMMA Histories ==
    ASSUME NEW s \in Seq(Commands), NEW r
    PROVE  /\ IsFiniteSet(History(s, r))
           /\ History(s, r) \subseteq Commands
           /\ \A n \in 0..Len(s) : History(SubSeq(s, 1, n), r) \subseteq History(s, r)
<1>1. Len(s) \in Nat /\ DOMAIN s = 1..Len(s) /\ s \in [1..Len(s) -> Commands]
  BY LenProperties
<1>2. IsFiniteSet(1..Len(s))
  BY <1>1, FS_Interval
<1>3. IsFiniteSet(ToSet(s))
  <2>1. s \in Surjection(1..Len(s), ToSet(s))
    BY <1>1 DEF Surjection, ToSet
  <2> QED
    BY <2>1, <1>2, FS_Surjection DEF ExistsSurjection
<1>4. IsFiniteSet(History(s, r))
  BY <1>3, FS_Subset DEF History
<1>5. ASSUME NEW n \in 0..Len(s)
      PROVE  ToSet(SubSeq(s, 1, n)) \subseteq ToSet(s)
  <2>1. \A i \in 1..n : s[i] \in Commands
    BY <1>1
  <2>2. /\ SubSeq(s, 1, n) \in Seq(Commands)
        /\ Len(SubSeq(s, 1, n)) = n
        /\ \A i \in 1..n : SubSeq(s, 1, n)[i] = s[i]
    BY <1>1, <2>1, SubSeqProperties
  <2>3. DOMAIN SubSeq(s, 1, n) = 1..n
    BY <2>2, LenProperties
  <2> QED
    BY <1>1, <2>2, <2>3 DEF ToSet
<1> QED
  BY <1>1, <1>4, <1>5 DEF History, ToSet

-----------------------------------------------------------------------------
(* The invariant.                                                          *)

(* What a window was answered is how its command settled. *)
AnswersHold ==
    \A c \in Commands : told[c] # "none" =>
      outcome[c] = (IF told[c] = "ok" THEN "stored" ELSE told[c])

(* Nothing holds a command that has not run or was refused; the document   *)
(* holds every stored one, and only failed ones are in memory alone.       *)
EffectsHold ==
    /\ \A c \in Commands :
         /\ outcome[c] \in {"none", "queued", "refused"} =>
              c \notin ToSet(memory) /\ c \notin ToSet(disk)
         /\ outcome[c] = "stored" => c \in ToSet(disk)
    /\ \A c \in ToSet(memory) \ ToSet(disk) : outcome[c] = "failed"
    /\ IsInjective(memory)
    /\ IsInjective(disk)

(* NoLostUpdate of any state: a crash leaves it to the stored one, and a   *)
(* command that waits saw nothing that memory does not hold.               *)
MadeOnWhatWasSeen(state) ==
    \A n \in DOMAIN state :
      History(SubSeq(state, 1, n - 1), RecordOf[state[n]]) = seen[state[n]]

WaitingSawMemory ==
    \A c \in Commands : outcome[c] = "queued" =>
      seen[c] \subseteq History(memory, RecordOf[c])

StoreInv ==
    /\ TypeOK
    /\ LedgerMatchesDocument
    /\ MemoryIsAhead
    /\ ~ running => memory = << >> /\ queue = << >>
    /\ AnswersHold
    /\ EffectsHold
    /\ MadeOnWhatWasSeen(memory)
    /\ MadeOnWhatWasSeen(disk)
    /\ WaitingSawMemory

-----------------------------------------------------------------------------
(* What each step needs of the variables it does not own.                  *)

(* A record with one more effect was made on what its window had seen. *)
LEMMA AppendMade ==
    ASSUME NEW s \in Seq(Commands), NEW c \in Commands, MadeOnWhatWasSeen(s),
           History(s, RecordOf[c]) = seen[c]
    PROVE  MadeOnWhatWasSeen(Append(s, c))
<1> DEFINE longer == Append(s, c)
<1>1. /\ DOMAIN s = 1..Len(s) /\ Len(s) \in Nat
      /\ longer \in Seq(Commands)
      /\ Len(longer) = Len(s) + 1
      /\ longer[Len(s) + 1] = c
      /\ \A i \in 1..Len(s) : longer[i] = s[i]
  BY AppendState, LenProperties
<1>2. DOMAIN longer = 1..(Len(s) + 1)
  BY <1>1, LenProperties
<1>3. ASSUME NEW n \in 1..(Len(s) + 1)
      PROVE  SubSeq(longer, 1, n - 1) = SubSeq(s, 1, n - 1)
  BY BeforeAppend
<1>4. SubSeq(s, 1, Len(s)) = s
  BY SubSeqFull
<1> HIDE DEF longer
<1>5. ASSUME NEW n \in DOMAIN longer
      PROVE  History(SubSeq(longer, 1, n - 1), RecordOf[longer[n]]) = seen[longer[n]]
  <2>1. CASE n \in 1..Len(s)
    <3>1. n \in DOMAIN s /\ n \in 1..(Len(s) + 1) /\ longer[n] = s[n]
      BY <2>1, <1>1
    <3>2. SubSeq(longer, 1, n - 1) = SubSeq(s, 1, n - 1)
      BY <3>1, <1>3
    <3>3. History(SubSeq(s, 1, n - 1), RecordOf[s[n]]) = seen[s[n]]
      BY <3>1 DEF MadeOnWhatWasSeen
    <3> QED
      BY <3>1, <3>2, <3>3
  <2>2. CASE n = Len(s) + 1
    <3>1. n - 1 = Len(s) /\ longer[n] = c
      BY <2>2, <1>1
    <3>2. SubSeq(longer, 1, n - 1) = s
      BY <3>1, <2>2, <1>1, <1>3, <1>4
    <3> QED
      BY <3>1, <3>2
  <2> QED
    BY <2>1, <2>2, <1>1, <1>2
<1>6. MadeOnWhatWasSeen(longer)
  BY <1>5 DEF MadeOnWhatWasSeen
<1> QED
  BY <1>6 DEF longer

(* The queue after a task has settled. *)
LEMMA SettledQueue ==
    ASSUME TypeOK, NEW c \in Commands, queue # << >>, Head(queue) = c,
           outcome[c] = "queued", NEW result \in {"stored", "refused", "failed"},
           Settled(c, result)
    PROVE  /\ queue' \in Seq(Commands) /\ IsInjective(queue')
           /\ outcome' \in [Commands -> Results]
           /\ ToSet(queue') = {d \in Commands : outcome'[d] = "queued"}
           /\ outcome'[c] = result
           /\ \A d \in Commands \ {c} : outcome'[d] = outcome[d]
           /\ UNCHANGED <<seen, told, running, crashes>>
<1>1. /\ Tail(queue) \in Seq(Commands)
      /\ IsInjective(Tail(queue))
      /\ ToSet(Tail(queue)) = ToSet(queue) \ {c}
  BY TailQueue DEF TypeOK
<1>2. ToSet(queue) = {d \in Commands : outcome[d] = "queued"}
  BY DEF TypeOK
<1>3. /\ queue' = Tail(queue)
      /\ outcome' = [outcome EXCEPT ![c] = result]
      /\ UNCHANGED <<seen, told, running, crashes>>
  BY DEF Settled
<1>4. /\ outcome' \in [Commands -> Results]
      /\ outcome'[c] = result
      /\ \A d \in Commands \ {c} : outcome'[d] = outcome[d]
  BY <1>3 DEF TypeOK, Results
<1> QED
  BY <1>1, <1>2, <1>3, <1>4

(* Nothing waits while the program is down. *)
LEMMA DownMeansIdle ==
    ASSUME StoreInv, ~ running, NEW c \in Commands
    PROVE  outcome[c] # "queued"
<1>1. queue = << >>
  BY DEF StoreInv
<1>2. ToSet(queue) = {}
  BY <1>1, LenProperties, EmptySeq DEF ToSet
<1> QED
  BY <1>2 DEF StoreInv, TypeOK

-----------------------------------------------------------------------------
(* The invariant holds.                                                    *)

LEMMA InitStoreInv == Init => StoreInv
<1> SUFFICES ASSUME Init PROVE StoreInv
  OBVIOUS
<1>1. << >> \in Seq(Commands) /\ IsInjective(<< >>) /\ ToSet(<< >>) = {}
  BY EmptySeq DEF IsInjective, ToSet
<1>2. Audit(<< >>) = {}
  BY <1>1 DEF Audit
<1>3. IsPrefix(<< >>, << >>)
  BY EmptySeq DEF IsPrefix
<1>4. TypeOK
  BY <1>1, StoreAssumption DEF Init, TypeOK, Results
<1>5. MadeOnWhatWasSeen(<< >>)
  BY EmptySeq DEF MadeOnWhatWasSeen
<1> QED
  BY <1>1, <1>2, <1>3, <1>4, <1>5 DEF Init, StoreInv, LedgerMatchesDocument,
     MemoryIsAhead, AnswersHold, EffectsHold, WaitingSawMemory

LEMMA EnqueueKeepsStoreInv ==
    ASSUME StoreInv, NEW c \in Commands, NEW n \in 0..Len(memory), Enqueue(c, n)
    PROVE  StoreInv'
<1>1. /\ running /\ outcome[c] = "none"
      /\ seen' = [seen EXCEPT ![c] = History(SubSeq(memory, 1, n), RecordOf[c])]
      /\ queue' = Append(queue, c)
      /\ outcome' = [outcome EXCEPT ![c] = "queued"]
      /\ UNCHANGED <<memory, disk, ledger, told, running, crashes>>
  BY DEF Enqueue
<1>2. memory \in Seq(Commands) /\ disk \in Seq(Commands) /\ queue \in Seq(Commands)
  BY DEF StoreInv, TypeOK
<1>3. History(SubSeq(memory, 1, n), RecordOf[c]) \subseteq History(memory, RecordOf[c])
  BY <1>2, Histories
<1>4. History(memory, RecordOf[c]) \subseteq Commands
  BY <1>2, Histories
<1>5. c \notin ToSet(queue)
  BY <1>1 DEF StoreInv, TypeOK
<1>6. TypeOK'
  <2>1. queue' \in Seq(Commands) /\ IsInjective(queue')
    BY <1>1, <1>2, <1>5, AppendState, AppendDistinct DEF StoreInv, TypeOK
  <2>2. ToSet(queue') = ToSet(queue) \cup {c}
    BY <1>1, <1>2, AppendState
  <2>3. ToSet(queue') = {d \in Commands : outcome'[d] = "queued"}
    BY <2>2, <1>1 DEF StoreInv, TypeOK
  <2>4. seen' \in [Commands -> SUBSET Commands]
    BY <1>1, <1>3, <1>4 DEF StoreInv, TypeOK
  <2> QED
    BY <2>1, <2>3, <2>4, <1>1 DEF StoreInv, TypeOK, Results
<1>7. \A d \in Commands \ {c} : seen'[d] = seen[d] /\ outcome'[d] = outcome[d]
  BY <1>1 DEF StoreInv, TypeOK
<1>8. c \notin ToSet(memory) /\ c \notin ToSet(disk)
  BY <1>1 DEF StoreInv, EffectsHold
<1>9. MadeOnWhatWasSeen(memory)' /\ MadeOnWhatWasSeen(disk)'
  <2>1. ASSUME NEW m \in DOMAIN memory PROVE memory[m] \in Commands \ {c}
    BY <1>2, <1>8, ElementOfSeq, LenProperties DEF ToSet
  <2>2. ASSUME NEW m \in DOMAIN disk PROVE disk[m] \in Commands \ {c}
    BY <1>2, <1>8, ElementOfSeq, LenProperties DEF ToSet
  <2> QED
    BY <2>1, <2>2, <1>1, <1>7 DEF StoreInv, MadeOnWhatWasSeen, History
<1>10. WaitingSawMemory'
  <2>1. seen'[c] \subseteq History(memory, RecordOf[c])
    BY <1>1, <1>3 DEF StoreInv, TypeOK
  <2> QED
    BY <2>1, <1>1, <1>7 DEF StoreInv, WaitingSawMemory, History
<1>11. AnswersHold'
  BY <1>1, <1>7 DEF StoreInv, AnswersHold, TypeOK
<1>12. EffectsHold'
  <2>1. outcome'[c] = "queued"
    BY <1>1 DEF StoreInv, TypeOK
  <2>2. ToSet(memory) \subseteq Commands
    BY <1>2, ElementOfSeq, LenProperties DEF ToSet
  <2> QED
    BY <2>1, <2>2, <1>1, <1>7, <1>8 DEF StoreInv, EffectsHold
<1> QED
  BY <1>1, <1>6, <1>9, <1>10, <1>11, <1>12
     DEF StoreInv, LedgerMatchesDocument, MemoryIsAhead, Audit

LEMMA RefuseKeepsStoreInv ==
    ASSUME StoreInv, NEW c \in Commands, running, queue # << >>,
           Head(queue) = c, outcome[c] = "queued", Refuse(c)
    PROVE  StoreInv'
<1>1. UNCHANGED <<memory, disk, ledger>> /\ Settled(c, "refused")
  BY DEF Refuse
<1>2. /\ queue' \in Seq(Commands) /\ IsInjective(queue')
      /\ outcome' \in [Commands -> Results]
      /\ ToSet(queue') = {d \in Commands : outcome'[d] = "queued"}
      /\ outcome'[c] = "refused"
      /\ \A d \in Commands \ {c} : outcome'[d] = outcome[d]
      /\ UNCHANGED <<seen, told, running, crashes>>
  BY <1>1, SettledQueue DEF StoreInv
<1>3. TypeOK'
  BY <1>1, <1>2 DEF StoreInv, TypeOK
<1>4. AnswersHold'
  <2>1. told[c] = "none"
    BY DEF StoreInv, AnswersHold, TypeOK
  <2> QED
    BY <2>1, <1>2 DEF StoreInv, AnswersHold
<1>5. EffectsHold'
  <2>1. c \notin ToSet(memory) /\ c \notin ToSet(disk)
    BY DEF StoreInv, EffectsHold
  <2>2. ToSet(memory) \subseteq Commands
    BY ElementOfSeq, LenProperties DEF StoreInv, TypeOK, ToSet
  <2> QED
    BY <2>1, <2>2, <1>1, <1>2 DEF StoreInv, EffectsHold
<1>6. WaitingSawMemory'
  BY <1>1, <1>2 DEF StoreInv, WaitingSawMemory, History
<1>7. MadeOnWhatWasSeen(memory)' /\ MadeOnWhatWasSeen(disk)'
  BY <1>1, <1>2 DEF StoreInv, MadeOnWhatWasSeen, History
<1> QED
  BY <1>1, <1>2, <1>3, <1>4, <1>5, <1>6, <1>7
     DEF StoreInv, LedgerMatchesDocument, MemoryIsAhead, Audit

(* What the version check buys: an equal number of effects is the same set *)
(* of them, because a command waits with less than memory holds.           *)
LEMMA CurrentMeansSame ==
    ASSUME StoreInv, NEW c \in Commands, outcome[c] = "queued", Current(c)
    PROVE  History(memory, RecordOf[c]) = seen[c]
<1>1. memory \in Seq(Commands)
  BY DEF StoreInv, TypeOK
<1>2. IsFiniteSet(History(memory, RecordOf[c]))
  BY <1>1, Histories
<1>3. seen[c] \subseteq History(memory, RecordOf[c])
  BY DEF StoreInv, WaitingSawMemory
<1>4. Cardinality(History(memory, RecordOf[c])) = Cardinality(seen[c])
  BY DEF Current, Version
<1> QED
  BY <1>2, <1>3, <1>4, FS_Subset

(* Memory with one more command, whatever becomes of the write. *)
LEMMA LongerMemory ==
    ASSUME StoreInv, NEW c \in Commands, running, queue # << >>,
           Head(queue) = c, outcome[c] = "queued", Current(c),
           memory' = Append(memory, c), UNCHANGED seen
    PROVE  /\ memory' \in Seq(Commands)
           /\ IsInjective(memory')
           /\ ToSet(memory') = ToSet(memory) \cup {c}
           /\ IsPrefix(disk, memory') /\ disk # memory'
           /\ Len(disk) <= Len(memory')
           /\ ToSet(disk) \subseteq ToSet(memory)
           /\ c \notin ToSet(memory)
           /\ MadeOnWhatWasSeen(memory)'
           /\ \A d \in Commands : History(memory, RecordOf[d]) \subseteq
                                  History(memory', RecordOf[d])
<1>1. /\ memory \in Seq(Commands) /\ disk \in Seq(Commands)
      /\ IsInjective(memory) /\ IsPrefix(disk, memory)
      /\ MadeOnWhatWasSeen(memory)
      /\ c \notin ToSet(memory)
  BY DEF StoreInv, TypeOK, EffectsHold, MemoryIsAhead
<1>2. /\ memory' \in Seq(Commands)
      /\ ToSet(memory') = ToSet(memory) \cup {c}
  BY <1>1, AppendState
<1>3. IsInjective(memory')
  BY <1>1, AppendDistinct
<1>4. /\ IsPrefix(disk, memory') /\ disk # memory'
      /\ Len(disk) <= Len(memory')
      /\ ToSet(disk) \subseteq ToSet(memory)
  BY <1>1, AppendPrefix
<1>5. MadeOnWhatWasSeen(Append(memory, c))
  <2>1. History(memory, RecordOf[c]) = seen[c]
    BY CurrentMeansSame
  <2> QED
    BY <1>1, <2>1, AppendMade
<1>6. MadeOnWhatWasSeen(memory)'
  BY <1>5 DEF MadeOnWhatWasSeen, History
<1> QED
  BY <1>1, <1>2, <1>3, <1>4, <1>6 DEF History

LEMMA StoreKeepsStoreInv ==
    ASSUME StoreInv, NEW c \in Commands, running, queue # << >>,
           Head(queue) = c, outcome[c] = "queued", Store(c)
    PROVE  StoreInv'
<1>1. /\ Current(c) /\ Settled(c, "stored")
      /\ memory' = Append(memory, c)
      /\ disk' = IF Len(memory') >= Len(disk) THEN memory' ELSE disk
      /\ ledger' = ledger \cup Audit(memory')
  BY DEF Store
<1>2. /\ queue' \in Seq(Commands) /\ IsInjective(queue')
      /\ outcome' \in [Commands -> Results]
      /\ ToSet(queue') = {d \in Commands : outcome'[d] = "queued"}
      /\ outcome'[c] = "stored"
      /\ \A d \in Commands \ {c} : outcome'[d] = outcome[d]
      /\ UNCHANGED <<seen, told, running, crashes>>
  BY <1>1, SettledQueue DEF StoreInv
<1>3. /\ memory' \in Seq(Commands) /\ IsInjective(memory')
      /\ ToSet(memory') = ToSet(memory) \cup {c}
      /\ Len(disk) <= Len(memory')
      /\ ToSet(disk) \subseteq ToSet(memory)
      /\ MadeOnWhatWasSeen(memory)'
      /\ \A d \in Commands : History(memory, RecordOf[d]) \subseteq
                             History(memory', RecordOf[d])
  BY <1>1, <1>2, LongerMemory
<1>4. disk' = memory'
  <2>1. Len(disk) \in Nat /\ Len(memory') \in Nat
    BY <1>3, LenProperties DEF StoreInv, TypeOK
  <2> QED
    BY <2>1, <1>1, <1>3
<1>5. ledger' = Audit(disk)' /\ ledger' \subseteq Commands
  <2>1. ledger = Audit(disk) /\ ToSet(memory) \subseteq Commands
    BY ElementOfSeq, LenProperties DEF StoreInv, TypeOK, LedgerMatchesDocument, ToSet
  <2> QED
    BY <2>1, <1>1, <1>3, <1>4 DEF Audit
<1>6. TypeOK'
  BY <1>2, <1>3, <1>4, <1>5 DEF StoreInv, TypeOK
<1>7. AnswersHold'
  <2>1. told[c] = "none"
    BY DEF StoreInv, AnswersHold, TypeOK
  <2> QED
    BY <2>1, <1>2 DEF StoreInv, AnswersHold
<1>8. EffectsHold'
  BY <1>2, <1>3, <1>4 DEF StoreInv, EffectsHold
<1>9. WaitingSawMemory'
  <2>1. ASSUME NEW d \in Commands, outcome'[d] = "queued"
        PROVE  seen[d] \subseteq History(memory', RecordOf[d])
    BY <2>1, <1>2, <1>3 DEF StoreInv, WaitingSawMemory
  <2> QED
    BY <2>1, <1>2 DEF WaitingSawMemory, History
<1>10. MemoryIsAhead'
  <2>1. Len(memory') \in Nat
    BY <1>3, LenProperties
  <2> QED
    BY <2>1, <1>4 DEF MemoryIsAhead, IsPrefix
<1>11. MadeOnWhatWasSeen(disk)'
  BY <1>3, <1>4 DEF MadeOnWhatWasSeen
<1> QED
  BY <1>2, <1>3, <1>5, <1>6, <1>7, <1>8, <1>9, <1>10, <1>11
     DEF StoreInv, LedgerMatchesDocument

LEMMA FailToStoreKeepsStoreInv ==
    ASSUME StoreInv, NEW c \in Commands, running, queue # << >>,
           Head(queue) = c, outcome[c] = "queued", FailToStore(c)
    PROVE  StoreInv'
<1>1. /\ Current(c) /\ Settled(c, "failed")
      /\ memory' = Append(memory, c)
      /\ UNCHANGED <<disk, ledger>>
  BY DEF FailToStore
<1>2. /\ queue' \in Seq(Commands) /\ IsInjective(queue')
      /\ outcome' \in [Commands -> Results]
      /\ ToSet(queue') = {d \in Commands : outcome'[d] = "queued"}
      /\ outcome'[c] = "failed"
      /\ \A d \in Commands \ {c} : outcome'[d] = outcome[d]
      /\ UNCHANGED <<seen, told, running, crashes>>
  BY <1>1, SettledQueue DEF StoreInv
<1>3. /\ memory' \in Seq(Commands) /\ IsInjective(memory')
      /\ ToSet(memory') = ToSet(memory) \cup {c}
      /\ IsPrefix(disk, memory')
      /\ MadeOnWhatWasSeen(memory)'
      /\ \A d \in Commands : History(memory, RecordOf[d]) \subseteq
                             History(memory', RecordOf[d])
  BY <1>1, <1>2, LongerMemory
<1>4. TypeOK'
  BY <1>1, <1>2, <1>3 DEF StoreInv, TypeOK
<1>5. AnswersHold'
  <2>1. told[c] = "none"
    BY DEF StoreInv, AnswersHold, TypeOK
  <2> QED
    BY <2>1, <1>2 DEF StoreInv, AnswersHold
<1>6. EffectsHold'
  <2>1. ToSet(memory) \subseteq Commands
    BY ElementOfSeq, LenProperties DEF StoreInv, TypeOK, ToSet
  <2>2. c \notin ToSet(disk)
    BY DEF StoreInv, EffectsHold
  <2>3. ASSUME NEW d \in ToSet(memory') \ ToSet(disk) PROVE outcome'[d] = "failed"
    BY <2>1, <1>2, <1>3 DEF StoreInv, EffectsHold
  <2> QED
    BY <2>2, <2>3, <1>1, <1>2, <1>3 DEF StoreInv, EffectsHold
<1>7. WaitingSawMemory'
  <2>1. ASSUME NEW d \in Commands, outcome'[d] = "queued"
        PROVE  seen[d] \subseteq History(memory', RecordOf[d])
    BY <2>1, <1>2, <1>3 DEF StoreInv, WaitingSawMemory
  <2> QED
    BY <2>1, <1>2 DEF WaitingSawMemory, History
<1>8. MadeOnWhatWasSeen(disk)'
  BY <1>1, <1>2 DEF StoreInv, MadeOnWhatWasSeen, History
<1> QED
  BY <1>1, <1>2, <1>3, <1>4, <1>5, <1>6, <1>7, <1>8
     DEF StoreInv, LedgerMatchesDocument, MemoryIsAhead, Audit

LEMMA DeliverKeepsStoreInv ==
    ASSUME StoreInv, NEW c \in Commands, Deliver(c)
    PROVE  StoreInv'
<1>1. /\ outcome[c] \in {"stored", "refused", "failed"}
      /\ told' = [told EXCEPT ![c] = IF outcome[c] = "stored" THEN "ok" ELSE outcome[c]]
      /\ UNCHANGED <<memory, disk, ledger, queue, seen, outcome, running, crashes>>
  BY DEF Deliver
<1>2. TypeOK'
  BY <1>1 DEF StoreInv, TypeOK
<1>3. AnswersHold'
  BY <1>1 DEF StoreInv, AnswersHold, TypeOK
<1>4. EffectsHold' /\ WaitingSawMemory'
  BY <1>1 DEF StoreInv, EffectsHold, WaitingSawMemory, History
<1>5. MadeOnWhatWasSeen(memory)' /\ MadeOnWhatWasSeen(disk)'
  BY <1>1 DEF StoreInv, MadeOnWhatWasSeen, History
<1> QED
  BY <1>1, <1>2, <1>3, <1>4, <1>5
     DEF StoreInv, LedgerMatchesDocument, MemoryIsAhead, Audit

LEMMA CrashKeepsStoreInv ==
    ASSUME StoreInv, Crash
    PROVE  StoreInv'
<1>1. /\ running' = FALSE /\ crashes < MaxCrashes /\ crashes' = crashes + 1
      /\ memory' = << >> /\ queue' = << >>
      /\ outcome' = [c \in Commands |->
           IF outcome[c] # "none" /\ told[c] = "none" THEN "lost" ELSE outcome[c]]
      /\ UNCHANGED <<disk, ledger, seen, told>>
  BY DEF Crash
<1>2. << >> \in Seq(Commands) /\ IsInjective(<< >>) /\ ToSet(<< >>) = {}
  BY EmptySeq DEF IsInjective, ToSet
<1>3. \A c \in Commands : outcome'[c] = "lost" \/ outcome'[c] = outcome[c]
  BY <1>1
<1>4. \A c \in Commands : outcome'[c] # "queued"
  BY <1>1 DEF StoreInv, AnswersHold, TypeOK
<1>5. TypeOK'
  <2>1. outcome' \in [Commands -> Results]
    BY <1>1 DEF StoreInv, TypeOK, Results
  <2>2. ToSet(queue') = {c \in Commands : outcome'[c] = "queued"}
    BY <1>1, <1>2, <1>4
  <2>3. crashes' \in 0..MaxCrashes
    BY <1>1, StoreAssumption DEF StoreInv, TypeOK
  <2> QED
    BY <2>1, <2>2, <2>3, <1>1, <1>2 DEF StoreInv, TypeOK
<1>6. AnswersHold'
  BY <1>1 DEF StoreInv, AnswersHold
<1>7. EffectsHold'
  BY <1>1, <1>2, <1>3 DEF StoreInv, EffectsHold
<1>8. WaitingSawMemory'
  BY <1>4 DEF WaitingSawMemory
<1>9. MadeOnWhatWasSeen(memory)'
  BY <1>1, EmptySeq DEF MadeOnWhatWasSeen
<1>10. MadeOnWhatWasSeen(disk)'
  BY <1>1 DEF StoreInv, MadeOnWhatWasSeen, History
<1> QED
  BY <1>1, <1>5, <1>6, <1>7, <1>8, <1>9, <1>10
     DEF StoreInv, LedgerMatchesDocument, MemoryIsAhead, Audit

LEMMA RestartKeepsStoreInv ==
    ASSUME StoreInv, Restart
    PROVE  StoreInv'
<1>1. /\ ~ running /\ running' = TRUE /\ memory' = disk
      /\ UNCHANGED <<disk, ledger, queue, seen, outcome, told, crashes>>
  BY DEF Restart
<1>2. TypeOK'
  BY <1>1 DEF StoreInv, TypeOK
<1>3. AnswersHold' /\ EffectsHold'
  BY <1>1 DEF StoreInv, AnswersHold, EffectsHold
<1>4. WaitingSawMemory'
  BY <1>1, DownMeansIdle DEF WaitingSawMemory
<1>5. MadeOnWhatWasSeen(disk)' /\ MadeOnWhatWasSeen(memory)'
  BY <1>1 DEF StoreInv, MadeOnWhatWasSeen, History
<1>6. MemoryIsAhead'
  <2>1. Len(disk) \in Nat
    BY LenProperties DEF StoreInv, TypeOK
  <2> QED
    BY <2>1, <1>1 DEF MemoryIsAhead, IsPrefix
<1> QED
  BY <1>1, <1>2, <1>3, <1>4, <1>5, <1>6
     DEF StoreInv, LedgerMatchesDocument, Audit

LEMMA StoreInvStutters ==
    ASSUME StoreInv, UNCHANGED vars
    PROVE  StoreInv'
  BY DEF vars, StoreInv, TypeOK, LedgerMatchesDocument, MemoryIsAhead, AnswersHold,
     EffectsHold, MadeOnWhatWasSeen, WaitingSawMemory, History, Audit

LEMMA NextKeepsStoreInv == StoreInv /\ [Next]_vars => StoreInv'
<1> SUFFICES ASSUME StoreInv, [Next]_vars PROVE StoreInv'
  OBVIOUS
<1>1. CASE \E c \in Commands, n \in 0..Len(memory) : Enqueue(c, n)
  BY <1>1, EnqueueKeepsStoreInv
<1>2. ASSUME NEW c \in Commands, RunTask(c) PROVE StoreInv'
  <2>1. /\ running /\ queue # << >> /\ Head(queue) = c /\ outcome[c] = "queued"
        /\ Refuse(c) \/ Store(c) \/ FailToStore(c)
    BY <1>2 DEF RunTask
  <2> QED
    BY <2>1, RefuseKeepsStoreInv, StoreKeepsStoreInv, FailToStoreKeepsStoreInv
<1>3. ASSUME NEW c \in Commands, Deliver(c) PROVE StoreInv'
  BY <1>3, DeliverKeepsStoreInv
<1>4. CASE Crash
  BY <1>4, CrashKeepsStoreInv
<1>5. CASE Restart
  BY <1>5, RestartKeepsStoreInv
<1>6. CASE UNCHANGED vars
  BY <1>6, StoreInvStutters
<1> QED
  BY <1>1, <1>2, <1>3, <1>4, <1>5, <1>6 DEF Next

THEOREM StoreInvHolds == Spec => []StoreInv
  BY InitStoreInv, NextKeepsStoreInv, PTL DEF Spec

(* Documents hold commands, and the queue exactly those that wait in it,   *)
(* whatever fails and however often the process dies (mutate, enqueue).    *)
THEOREM StoreTyping == Spec => []TypeOK
<1>1. StoreInv => TypeOK
  BY DEF StoreInv
<1> QED
  BY <1>1, StoreInvHolds, PTL

(* No update is lost: every effect was made on exactly the history of its  *)
(* record that its window had seen, through failed writes and restarts     *)
(* (the version checks of the operations inside mutate).                   *)
THEOREM UpdatesSurvive == Spec => []NoLostUpdate
<1>1. StoreInv => NoLostUpdate
  BY DEF StoreInv, MadeOnWhatWasSeen, NoLostUpdate
<1> QED
  BY <1>1, StoreInvHolds, PTL

(* The audit ledger tells of exactly the commands of the stored document,  *)
(* whenever the process dies (saveState's one transaction).                *)
THEOREM EvidenceMatches == Spec => []LedgerMatchesDocument
<1>1. StoreInv => LedgerMatchesDocument
  BY DEF StoreInv
<1> QED
  BY <1>1, StoreInvHolds, PTL

(* What runs is never behind what is stored, so the revision guard of      *)
(* persistStateDocument drops no write that is answered "ok".              *)
THEOREM MemoryLeads == Spec => []MemoryIsAhead
<1>1. StoreInv => MemoryIsAhead
  BY DEF StoreInv
<1> QED
  BY <1>1, StoreInvHolds, PTL

-----------------------------------------------------------------------------
(* The store implements DurableLog: a write that succeeds is Take, an      *)
(* answer is Tell, and every other step leaves log and answers alone.      *)

LEMMA StoreTakes ==
    ASSUME StoreInv, StoreInv', NEW c \in Commands, running, queue # << >>,
           Head(queue) = c, outcome[c] = "queued", Store(c)
    PROVE  Promise!Take
<1>1. /\ Current(c) /\ Settled(c, "stored")
      /\ memory' = Append(memory, c)
      /\ disk' = IF Len(memory') >= Len(disk) THEN memory' ELSE disk
  BY DEF Store
<1>2. UNCHANGED <<seen, told>>
  BY <1>1 DEF Settled
<1>3. /\ memory' \in Seq(Commands) /\ IsInjective(memory')
      /\ ToSet(memory') = ToSet(memory) \cup {c}
      /\ IsPrefix(disk, memory') /\ disk # memory'
      /\ Len(disk) <= Len(memory')
  BY <1>1, <1>2, LongerMemory
<1>4. disk' = memory'
  <2>1. Len(disk) \in Nat /\ Len(memory') \in Nat
    BY <1>3, LenProperties DEF StoreInv, TypeOK
  <2> QED
    BY <2>1, <1>1, <1>3
<1>5. ToSet(memory) \subseteq Commands
  BY ElementOfSeq, LenProperties DEF StoreInv, TypeOK, ToSet
<1>6. ASSUME NEW d \in ToSet(disk') \ ToSet(disk)
      PROVE  d \in Commands /\ told[d] \in {"none", "failed"}
  <2>1. CASE d = c
    BY <2>1 DEF StoreInv, AnswersHold, TypeOK
  <2>2. CASE d # c
    <3>1. d \in Commands /\ outcome[d] = "failed"
      BY <2>2, <1>3, <1>4, <1>5, <1>6 DEF StoreInv, EffectsHold
    <3> QED
      BY <3>1 DEF StoreInv, AnswersHold, TypeOK
  <2> QED
    BY <2>1, <2>2
<1> QED
  BY <1>2, <1>3, <1>4, <1>6 DEF Promise!Take, Promise!IsStrictPrefix,
     Promise!IsPrefix, IsPrefix, Promise!IsInjective, IsInjective, Promise!ToSet, ToSet

LEMMA DeliverTells ==
    ASSUME StoreInv, NEW c \in Commands, Deliver(c)
    PROVE  \E answer \in {"ok", "refused", "failed"} : Promise!Tell(c, answer)
<1>1. /\ told[c] = "none" /\ outcome[c] \in {"stored", "refused", "failed"}
      /\ told' = [told EXCEPT ![c] = IF outcome[c] = "stored" THEN "ok" ELSE outcome[c]]
      /\ UNCHANGED disk
  BY DEF Deliver
<1>2. /\ outcome[c] = "stored" => c \in ToSet(disk)
      /\ outcome[c] = "refused" => c \notin ToSet(disk)
  BY DEF StoreInv, EffectsHold
<1>3. CASE outcome[c] = "stored"
  BY <1>1, <1>2, <1>3 DEF Promise!Tell, Promise!ToSet, ToSet
<1>4. CASE outcome[c] # "stored"
  BY <1>1, <1>2, <1>4 DEF Promise!Tell, Promise!ToSet, ToSet
<1> QED
  BY <1>3, <1>4

LEMMA StepKeepsPromise ==
    ASSUME StoreInv, StoreInv', [Next]_vars
    PROVE  [Promise!LogNext]_Promise!logVars
<1>1. ASSUME NEW c \in Commands, NEW n \in 0..Len(memory), Enqueue(c, n)
      PROVE  UNCHANGED <<disk, told>>
  BY <1>1 DEF Enqueue
<1>2. ASSUME NEW c \in Commands, RunTask(c)
      PROVE  Promise!Take \/ UNCHANGED <<disk, told>>
  <2>1. /\ running /\ queue # << >> /\ Head(queue) = c /\ outcome[c] = "queued"
        /\ Refuse(c) \/ Store(c) \/ FailToStore(c)
    BY <1>2 DEF RunTask
  <2>2. CASE Store(c)
    BY <2>1, <2>2, StoreTakes
  <2>3. CASE Refuse(c) \/ FailToStore(c)
    BY <2>3 DEF Refuse, FailToStore, Settled
  <2> QED
    BY <2>1, <2>2, <2>3
<1>3. ASSUME NEW c \in Commands, Deliver(c)
      PROVE  \E answer \in {"ok", "refused", "failed"} : Promise!Tell(c, answer)
  BY <1>3, DeliverTells
<1>4. Crash \/ Restart \/ UNCHANGED vars => UNCHANGED <<disk, told>>
  BY DEF Crash, Restart, vars
<1> QED
  BY <1>1, <1>2, <1>3, <1>4 DEF Next, Promise!LogNext, Promise!logVars

(* Every behaviour of the store, seen through its document and its         *)
(* answers, is one of DurableLog: effects form one growing log, a command  *)
(* answered "ok" is in it and one answered "refused" never will be.        *)
THEOREM StoreKeepsPromise == Spec => KeepsPromise
<1>1. Init => Promise!LogInit
  BY DEF Init, Promise!LogInit
<1>2. StoreInv /\ StoreInv' /\ [Next]_vars => [Promise!LogNext]_Promise!logVars
  BY StepKeepsPromise
<1> QED
  BY <1>1, <1>2, StoreInvHolds, PTL DEF Spec, KeepsPromise, Promise!LogSpec

=============================================================================
