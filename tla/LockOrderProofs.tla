--------------------------- MODULE LockOrderProofs ---------------------------
(***************************************************************************)
(* Proofs about LockOrder for any threads, locks and depth of nesting.     *)
(***************************************************************************)
EXTENDS LockOrder, FiniteSetTheorems, SequenceTheorems, WellFoundedInduction, TLAPS

Entries(s, c) == {i \in DOMAIN s : s[i] = c}
Count(t, c) == Cardinality(Entries(lockstack[t], c))
Held(t, c) == IF holder[c] = t THEN depth[c] ELSE 0
One(b) == IF b THEN 1 ELSE 0

\* The mutexes are free or held.
MutexSound == \A c \in Locks : holder[c] = NoThread <=> depth[c] = 0

\* A lock is wanted outside idle only, and it is alive, like all on the stack.
WantSound(t) ==
    /\ pc[t] # "idle" => want[t] \in alive
    /\ Range(lockstack[t]) \subseteq alive

\* Between bookkeeping and mutex the lock stack is ahead by the lock wanted,
\* or, at the end of a scope, behind by it.
Balanced(t) ==
    \A c \in Locks :
        /\ pc[t] = "idle" => Count(t, c) = Held(t, c)
        /\ pc[t] \in {"lock", "try", "fail", "pop"} =>
              Count(t, c) = Held(t, c) + One(want[t] = c)
        /\ pc[t] = "unlock" => Held(t, c) = Count(t, c) + One(want[t] = c)

\* The lock the stack is ahead by is the last one on it.
WantOnTop(t) ==
    pc[t] \in {"lock", "try", "fail", "pop"} =>
        lockstack[t] # <<>> /\ want[t] = Innermost(t)

\* What a thread that is in lock() has recorded: all the locks on its stack
\* come before the one it wants, unless it has that one already.
Recorded(t) ==
    pc[t] = "lock" =>
        \/ holder[want[t]] = t
        \/ \A a \in Range(lockstack[t]) : a # want[t] => <<a, want[t]>> \in lockorders

ThreadSound(t) == WantSound(t) /\ Balanced(t) /\ WantOnTop(t) /\ Recorded(t)

\* A pair and its reverse are in lockorders only when the program has stopped.
NoInversion ==
    \A a, b \in Locks :
        a # b /\ <<a, b>> \in lockorders /\ <<b, a>> \in lockorders => aborted

\* The inductive invariant.
IInv ==
    /\ TypeOK
    /\ MutexSound
    /\ PairsSound
    /\ NoInversion
    /\ \A t \in Threads : ThreadSound(t)

-----------------------------------------------------------------------------
(***************************************************************************)
(* Lock stacks.                                                            *)
(***************************************************************************)

LEMMA EntriesFinite ==
    ASSUME NEW S, NEW s \in Seq(S), NEW c
    PROVE  IsFiniteSet(Entries(s, c)) /\ Cardinality(Entries(s, c)) \in Nat
<1>1. Entries(s, c) \subseteq 1..Len(s)
    BY DEF Entries
<1>2. IsFiniteSet(1..Len(s))
    BY FS_Interval
<1> QED
    BY <1>1, <1>2, FS_Subset, FS_CardinalityType

\* A pushed lock counts once more, and no other one does.
LEMMA CountAppend ==
    ASSUME NEW S, NEW s \in Seq(S), NEW e \in S, NEW c
    PROVE  Cardinality(Entries(Append(s, e), c)) = Cardinality(Entries(s, c)) + One(e = c)
<1>1. CASE e = c
  <2>1. Entries(Append(s, e), c) = Entries(s, c) \cup {Len(s) + 1}
    BY <1>1 DEF Entries
  <2>2. Len(s) + 1 \notin Entries(s, c)
    BY DEF Entries
  <2> QED
    BY <1>1, <2>1, <2>2, EntriesFinite, FS_AddElement DEF One
<1>2. CASE e # c
  <2>1. Entries(Append(s, e), c) = Entries(s, c)
    BY <1>2 DEF Entries
  <2> QED
    BY <1>2, <2>1, EntriesFinite DEF One
<1> QED
    BY <1>1, <1>2

\* The stack without its top.
Popped(s) == SubSeq(s, 1, Len(s) - 1)

LEMMA PoppedFacts ==
    ASSUME NEW S, NEW s \in Seq(S), s # <<>>
    PROVE  /\ Popped(s) \in Seq(S) /\ s[Len(s)] \in S
           /\ s = Append(Popped(s), s[Len(s)])
           /\ Range(Popped(s)) \subseteq Range(s)
           /\ s[Len(s)] \in Range(s)
<1>1. Len(s) \in Nat \ {0}
    OBVIOUS
<1>2. /\ Popped(s) \in Seq(S)
      /\ Len(Popped(s)) = Len(s) - 1
      /\ \A i \in 1..Len(s) - 1 : Popped(s)[i] = s[i]
  <2> DEFINE n == Len(s) - 1
  <2>1. n \in Nat /\ \A i \in 1..n : s[i] \in S
    BY <1>1
  <2> HIDE DEF n
  <2>2. /\ SubSeq(s, 1, n) \in Seq(S)
        /\ Len(SubSeq(s, 1, n)) = IF 1 <= n THEN n - 1 + 1 ELSE 0
        /\ \A i \in 1..n - 1 + 1 : SubSeq(s, 1, n)[i] = s[1 + i - 1]
    BY <2>1, SubSeqProperties
  <2>3. n = Len(s) - 1
    BY DEF n
  <2> QED
    BY <2>1, <2>2, <2>3 DEF Popped
<1>3. s[Len(s)] \in S
    BY <1>1
<1>4. s = Append(Popped(s), s[Len(s)])
  <2> DEFINE r == Append(Popped(s), s[Len(s)])
  <2>1. r \in Seq(S) /\ Len(r) = Len(s)
    BY <1>1, <1>2, <1>3
  <2>2. \A i \in 1..Len(s) : r[i] = s[i]
    BY <1>1, <1>2, <1>3
  <2> QED
    BY <2>1, <2>2, SeqEqual
<1>5. Range(Popped(s)) \subseteq Range(s)
  <2> SUFFICES ASSUME NEW i \in DOMAIN Popped(s)
               PROVE  Popped(s)[i] \in Range(s)
    BY DEF Range
  <2>1. i \in 1..Len(s) - 1 /\ i \in DOMAIN s
    BY <1>1, <1>2
  <2> QED
    BY <2>1, <1>2 DEF Range
<1>6. s[Len(s)] \in Range(s)
    BY <1>1 DEF Range
<1> QED
    BY <1>2, <1>3, <1>4, <1>5, <1>6

LEMMA CountPopped ==
    ASSUME NEW S, NEW s \in Seq(S), s # <<>>, NEW c
    PROVE  Cardinality(Entries(s, c)) = Cardinality(Entries(Popped(s), c)) + One(s[Len(s)] = c)
<1> DEFINE r == Popped(s)  e == s[Len(s)]
<1>1. r \in Seq(S) /\ e \in S /\ s = Append(r, e)
    BY PoppedFacts
<1>2. Cardinality(Entries(Append(r, e), c)) = Cardinality(Entries(r, c)) + One(e = c)
    BY <1>1, CountAppend
<1> QED
    BY <1>1, <1>2

LEMMA CountPositive ==
    ASSUME NEW S, NEW s \in Seq(S), NEW c
    PROVE  Cardinality(Entries(s, c)) > 0 <=> c \in Range(s)
<1>1. Entries(s, c) = {} <=> Cardinality(Entries(s, c)) = 0
    BY EntriesFinite, FS_EmptySet
<1>2. Entries(s, c) # {} <=> c \in Range(s)
    BY DEF Entries, Range
<1> QED
    BY <1>1, <1>2, EntriesFinite
-----------------------------------------------------------------------------
(***************************************************************************)
(* Mutexes.                                                                *)
(***************************************************************************)
HeldType == \A u \in Threads, d \in Locks : Held(u, d) \in Nat

LEMMA HeldTyped == TypeOK => HeldType
    BY DEF TypeOK, HeldType, Held

\* What a mutex operation leaves of the mutexes for the other threads.
OthersKeep(t) ==
    \A u \in Threads \ {t}, d \in Locks :
        /\ Held(u, d)' = Held(u, d)
        /\ holder[d] = u => holder'[d] = u

LEMMA TakeHeld ==
    ASSUME TypeOK, MutexSound, NEW t \in Threads, NEW c \in Locks, Free(t, c), Take(t, c)
    PROVE  /\ holder' \in [Locks -> Threads \cup {NoThread}]
           /\ depth' \in [Locks -> Nat]
           /\ MutexSound'
           /\ OthersKeep(t)
           /\ \A d \in Locks : Held(t, d)' = Held(t, d) + One(d = c)
<1>1. /\ holder \in [Locks -> Threads \cup {NoThread}]
      /\ depth \in [Locks -> Nat]
      /\ NoThread \notin Threads
    BY LockAssumption DEF TypeOK
<1>2. /\ holder' = [holder EXCEPT ![c] = t]
      /\ depth' = [depth EXCEPT ![c] = @ + 1]
      /\ holder[c] = t \/ holder[c] = NoThread
    BY DEF Take, Free
<1>3. holder[c] = NoThread => depth[c] = 0
    BY DEF MutexSound
<1>4. MutexSound'
    BY <1>1, <1>2 DEF MutexSound
<1>5. OthersKeep(t)
    BY <1>1, <1>2 DEF OthersKeep, Held
<1>6. \A d \in Locks : Held(t, d)' = Held(t, d) + One(d = c)
    BY <1>1, <1>2, <1>3 DEF Held, One
<1> QED
    BY <1>1, <1>2, <1>4, <1>5, <1>6

LEMMA GiveHeld ==
    ASSUME TypeOK, MutexSound, NEW t \in Threads, NEW c \in Locks, Held(t, c) > 0, Give(c)
    PROVE  /\ holder' \in [Locks -> Threads \cup {NoThread}]
           /\ depth' \in [Locks -> Nat]
           /\ MutexSound'
           /\ OthersKeep(t)
           /\ \A d \in Locks : Held(t, d) = Held(t, d)' + One(d = c)
<1>1. /\ holder \in [Locks -> Threads \cup {NoThread}]
      /\ depth \in [Locks -> Nat]
      /\ NoThread \notin Threads
    BY LockAssumption DEF TypeOK
<1>2. holder[c] = t /\ depth[c] > 0
    BY <1>1 DEF Held
<1>3. /\ depth' = [depth EXCEPT ![c] = @ - 1]
      /\ holder' = [holder EXCEPT ![c] = IF depth[c] = 1 THEN NoThread ELSE @]
    BY DEF Give
<1>4. depth' \in [Locks -> Nat] /\ holder' \in [Locks -> Threads \cup {NoThread}]
    BY <1>1, <1>2, <1>3
<1>5. MutexSound'
    BY <1>1, <1>2, <1>3 DEF MutexSound
<1>6. OthersKeep(t)
    BY <1>1, <1>2, <1>3 DEF OthersKeep, Held
<1>7. \A d \in Locks : Held(t, d) = Held(t, d)' + One(d = c)
    BY <1>1, <1>2, <1>3 DEF Held, One
<1> QED
    BY <1>4, <1>5, <1>6, <1>7

-----------------------------------------------------------------------------
(***************************************************************************)
(* Steps of one thread seen by the others.                                 *)
(***************************************************************************)
LEMMA OtherThread ==
    ASSUME NEW u \in Threads, ThreadSound(u), WantSound(u)',
           pc'[u] = pc[u], want'[u] = want[u], lockstack'[u] = lockstack[u],
           \A d \in Locks : Held(u, d)' = Held(u, d),
           pc[u] = "lock" =>
             /\ holder[want[u]] = u => holder'[want[u]] = u
             /\ \A a \in Range(lockstack[u]) :
                  <<a, want[u]>> \in lockorders => <<a, want[u]>> \in lockorders'
    PROVE  ThreadSound(u)'
<1>1. \A d : Count(u, d)' = Count(u, d)
    BY DEF Count
<1>2. Balanced(u)'
    BY <1>1 DEF ThreadSound, Balanced
<1>3. WantOnTop(u)'
    BY DEF ThreadSound, WantOnTop, Innermost
<1>4. Recorded(u)'
    BY DEF ThreadSound, Recorded
<1> QED
    BY <1>2, <1>3, <1>4 DEF ThreadSound

Others(t) ==
    \A u \in Threads \ {t} :
        /\ pc'[u] = pc[u] /\ want'[u] = want[u]
        /\ lockstack'[u] = lockstack[u]

LEMMA StepOfOne ==
    ASSUME IInv, NEW t \in Threads, Others(t), OthersKeep(t),
           TypeOK', MutexSound', PairsSound', NoInversion',
           alive \subseteq alive', lockorders \subseteq lockorders',
           ThreadSound(t)'
    PROVE  IInv'
<1>1. ASSUME NEW u \in Threads \ {t} PROVE ThreadSound(u)'
  <2>1. /\ ThreadSound(u) /\ TypeOK /\ u \in Threads
        /\ pc'[u] = pc[u] /\ want'[u] = want[u] /\ lockstack'[u] = lockstack[u]
    BY DEF IInv, Others
  <2>2. WantSound(u)'
    BY <2>1 DEF ThreadSound, WantSound
  <2>3. \A d \in Locks : /\ Held(u, d)' = Held(u, d)
                         /\ holder[d] = u => holder'[d] = u
    BY DEF OthersKeep
  <2>4. pc[u] = "lock" => want[u] \in Locks
    BY <2>1 DEF ThreadSound, WantSound, TypeOK
  <2> QED
    BY <2>1, <2>2, <2>3, <2>4, OtherThread
<1> QED
    BY <1>1 DEF IInv

\* Steps that leave the pairs alone.
LEMMA QuietStep ==
    ASSUME IInv, NEW t \in Threads, Others(t), OthersKeep(t),
           TypeOK', MutexSound', ThreadSound(t)', UNCHANGED <<alive, plain, orphaned, lockdata>>
    PROVE  IInv'
<1>1. PairsSound' /\ NoInversion'
    BY DEF IInv, PairsSound, Mirror, StaleOnlyIfOrphaned, NoInversion, lockdata
<1> QED
    BY <1>1, StepOfOne DEF lockdata

\* GoTo moves one thread only.
LEMMA GoToFacts ==
    ASSUME TypeOK, NEW t \in Threads, NEW c \in Locks \cup {NoLock},
           NEW l \in {"idle", "lock", "try", "fail", "unlock", "pop"}, GoTo(t, l, c)
    PROVE  /\ pc' \in [Threads -> {"idle", "lock", "try", "fail", "unlock", "pop"}]
           /\ want' \in [Threads -> Locks \cup {NoLock}]
           /\ pc'[t] = l /\ want'[t] = c
           /\ \A u \in Threads \ {t} : pc'[u] = pc[u] /\ want'[u] = want[u]
    BY DEF TypeOK, GoTo

LEMMA MutexesSame ==
    ASSUME NEW t, UNCHANGED mutexes
    PROVE  OthersKeep(t) /\ (MutexSound => MutexSound') /\ UNCHANGED <<alive, plain, orphaned, holder, depth>>
           /\ \A u, d : Held(u, d)' = Held(u, d)
    BY DEF mutexes, lives, OthersKeep, MutexSound, Held

LEMMA StacksSame ==
    ASSUME UNCHANGED lockstack
    PROVE  \A u, d : Count(u, d)' = Count(u, d)
    BY DEF Count
LEMMA PopFacts ==
    ASSUME TypeOK, NEW t \in Threads, lockstack[t] # <<>>, pop_lock(t)
    PROVE  /\ lockstack' \in [Threads -> Seq(Locks)]
           /\ \A u \in Threads \ {t} : lockstack'[u] = lockstack[u]
           /\ Range(lockstack'[t]) \subseteq Range(lockstack[t])
           /\ Innermost(t) \in Range(lockstack[t]) /\ Innermost(t) \in Locks
           /\ \A c : Count(t, c) = Count(t, c)' + One(Innermost(t) = c)
<1> DEFINE s == lockstack[t]
<1>1. s \in Seq(Locks) /\ s # <<>> /\ Innermost(t) = s[Len(s)]
    BY DEF TypeOK, Innermost
<1>2. lockstack' = [lockstack EXCEPT ![t] = Popped(s)]
    BY DEF pop_lock, Popped
<1>3. /\ Popped(s) \in Seq(Locks) /\ s[Len(s)] \in Locks
      /\ Range(Popped(s)) \subseteq Range(s)
      /\ s[Len(s)] \in Range(s)
    BY <1>1, PoppedFacts
<1>4. lockstack' \in [Threads -> Seq(Locks)] /\ lockstack'[t] = Popped(s)
    BY <1>2, <1>3 DEF TypeOK
<1>5. \A c : Cardinality(Entries(s, c)) = Cardinality(Entries(Popped(s), c)) + One(s[Len(s)] = c)
    BY <1>1, CountPopped
<1>6. \A u \in Threads \ {t} : lockstack'[u] = lockstack[u]
    BY <1>2 DEF TypeOK
<1>7. \A c : Count(t, c) = Count(t, c)' + One(Innermost(t) = c)
    BY <1>1, <1>4, <1>5 DEF Count
<1> QED
    BY <1>1, <1>3, <1>4, <1>6, <1>7

LEMMA PushFacts ==
    ASSUME TypeOK, NEW t \in Threads, NEW c \in Locks, push_lock(t, c)
    PROVE  /\ lockstack' \in [Threads -> Seq(Locks)]
           /\ \A u \in Threads \ {t} : lockstack'[u] = lockstack[u]
           /\ Range(lockstack'[t]) = Range(lockstack[t]) \cup {c}
           /\ lockstack'[t] # <<>> /\ Innermost(t)' = c
           /\ \A d : Count(t, d)' = Count(t, d) + One(c = d)
<1> DEFINE s == lockstack[t]
<1>1. s \in Seq(Locks) /\ lockstack' = [lockstack EXCEPT ![t] = Append(s, c)]
    BY DEF TypeOK, push_lock
<1>2. lockstack' \in [Threads -> Seq(Locks)] /\ lockstack'[t] = Append(s, c)
    BY <1>1 DEF TypeOK
<1>3. Range(Append(s, c)) = Range(s) \cup {c}
    BY <1>1, AppendProperties DEF Range
<1>4. Append(s, c) # <<>> /\ Append(s, c)[Len(Append(s, c))] = c
    BY <1>1
<1>5. \A d : Cardinality(Entries(Append(s, c), d)) = Cardinality(Entries(s, d)) + One(c = d)
    BY <1>1, CountAppend
<1>6. \A u \in Threads \ {t} : lockstack'[u] = lockstack[u]
    BY <1>1 DEF TypeOK
<1>7. \A d : Count(t, d)' = Count(t, d) + One(c = d)
    BY <1>2, <1>5 DEF Count
<1> QED
    BY <1>2, <1>3, <1>4, <1>6, <1>7 DEF Innermost

LEMMA CountTyped ==
    ASSUME TypeOK, NEW t \in Threads, NEW c
    PROVE  /\ Count(t, c) \in Nat
           /\ Count(t, c) > 0 <=> c \in Range(lockstack[t])
<1>1. lockstack[t] \in Seq(Locks)
    BY DEF TypeOK
<1> QED
    BY <1>1, EntriesFinite, CountPositive DEF Count

-----------------------------------------------------------------------------
(***************************************************************************)
(* Pairs.                                                                  *)
(***************************************************************************)
LEMMA InverseMember ==
    ASSUME NEW pairs, pairs \subseteq Locks \X Locks
    PROVE  /\ Inverse2(pairs) \subseteq Locks \X Locks
           /\ \A a, b \in Locks : <<a, b>> \in Inverse2(pairs) <=> <<b, a>> \in pairs
<1>1. \A p \in pairs : p \in Locks \X Locks /\ p = <<p[1], p[2]>>
    OBVIOUS
<1>2. \A a, b : <<a, b>> \in Inverse2(pairs) <=> \E p \in pairs : a = p[2] /\ b = p[1]
    BY DEF Inverse2
<1>3. Inverse2(pairs) \subseteq Locks \X Locks
    BY <1>1 DEF Inverse2
<1> QED
    BY <1>1, <1>2, <1>3

\* What push_lock adds: the locks before c, all of the stack if c is new.
LEMMA BeforeFacts ==
    ASSUME NEW s \in Seq(Locks), NEW c
    PROVE  /\ Before(s, c) \subseteq Range(s) \ {c}
           /\ c \notin Range(s) => Before(s, c) = Range(s)
<1>1. \A j \in DOMAIN s : j \in 1..j
    OBVIOUS
<1>2. \A j \in DOMAIN s : 1..j \subseteq DOMAIN s
    OBVIOUS
<1>3. Before(s, c) \subseteq Range(s) \ {c}
    BY <1>1 DEF Before, Range
<1>4. c \notin Range(s) => Before(s, c) = Range(s)
    BY <1>2 DEF Before, Range
<1> QED
    BY <1>3, <1>4

LEMMA PushPairs ==
    ASSUME IInv, ~aborted, NEW t \in Threads, NEW c \in alive, push_lock(t, c),
           UNCHANGED <<alive, plain, orphaned>>
    PROVE  /\ lockorders' \subseteq Locks \X Locks
           /\ invlockorders' \subseteq Locks \X Locks
           /\ aborted' \in BOOLEAN
           /\ PairsSound' /\ NoInversion'
           /\ lockorders \subseteq lockorders'
           /\ \A a \in Before(lockstack[t], c) : <<a, c>> \in lockorders'
<1> DEFINE fresh == {<<a, c>> : a \in Before(lockstack[t], c)} \ lockorders
<1>1. /\ lockorders' = lockorders \cup fresh
      /\ invlockorders' = invlockorders \cup Inverse2(fresh)
      /\ aborted' = (Inverse2(fresh) \cap lockorders # {})
    BY DEF push_lock
<1>2. TypeOK /\ PairsSound /\ NoInversion /\ WantSound(t)
    BY DEF IInv, ThreadSound
<1>3. Before(lockstack[t], c) \subseteq alive \ {c}
  <2>1. lockstack[t] \in Seq(Locks)
    BY <1>2 DEF TypeOK
  <2> QED
    BY <2>1, <1>2, BeforeFacts DEF WantSound
<1>4. alive \subseteq Locks /\ lockorders \subseteq Locks \X Locks
      /\ invlockorders \subseteq Locks \X Locks
    BY <1>2 DEF TypeOK
<1>5. fresh \subseteq Locks \X Locks
    BY <1>3, <1>4
<1>6. /\ Inverse2(fresh) \subseteq Locks \X Locks
      /\ \A a, b \in Locks : <<a, b>> \in Inverse2(fresh) <=> <<b, a>> \in fresh
    BY <1>5, InverseMember
<1>7. \A a, b : <<a, b>> \in fresh => b = c /\ a # c
    BY <1>3
<1>8. Mirror'
  <2>1. Inverse2(lockorders \cup fresh) = Inverse2(lockorders) \cup Inverse2(fresh)
    BY DEF Inverse2
  <2> QED
    BY <1>1, <1>2, <2>1 DEF PairsSound, Mirror
<1>9. StaleOnlyIfOrphaned'
  <2>1. \A p \in fresh : p[1] \in alive /\ p[2] \in alive
    BY <1>3
  <2> QED
    BY <1>1, <1>2, <2>1 DEF PairsSound, StaleOnlyIfOrphaned
<1>10. NoInversion'
  <2> SUFFICES ASSUME NEW a \in Locks, NEW b \in Locks, a # b,
                      <<a, b>> \in lockorders', <<b, a>> \in lockorders'
               PROVE  aborted'
    BY DEF NoInversion
  <2>1. ~(<<a, b>> \in lockorders /\ <<b, a>> \in lockorders)
    BY <1>2 DEF NoInversion
  <2>2. ~(<<a, b>> \in fresh /\ <<b, a>> \in fresh)
    BY <1>7
  <2>3. CASE <<a, b>> \in fresh /\ <<b, a>> \in lockorders
    BY <1>1, <1>6, <2>3
  <2>4. CASE <<b, a>> \in fresh /\ <<a, b>> \in lockorders
    BY <1>1, <1>6, <2>4
  <2> QED
    BY <1>1, <2>1, <2>2, <2>3, <2>4
<1>11. \A a \in Before(lockstack[t], c) : <<a, c>> \in lockorders'
    BY <1>1
<1> HIDE DEF fresh
<1> QED
    BY <1>1, <1>4, <1>5, <1>6, <1>8, <1>9, <1>10, <1>11 DEF PairsSound

\* DeleteLock forgets the pairs of c, in both containers.
LEMMA DeletePairs ==
    ASSUME TypeOK, Mirror, NEW c \in Locks, DeleteLock(c)
    PROVE  /\ lockorders' = {p \in lockorders : p[1] # c /\ p[2] # c}
           /\ Mirror'
           /\ invlockorders' \subseteq Locks \X Locks
<1> DEFINE mine == {p \in lockorders : p[1] = c}
           inv  == invlockorders \ Inverse2(mine)
           his  == {q \in inv : q[1] = c}
           left == {p \in lockorders : p[1] # c /\ p[2] # c}
<1>1. lockorders' = (lockorders \ mine) \ Inverse2(his) /\ invlockorders' = inv \ his
    BY DEF DeleteLock
<1>2. lockorders \subseteq Locks \X Locks /\ invlockorders \subseteq Locks \X Locks
    BY DEF TypeOK
<1>3. mine \subseteq Locks \X Locks /\ his \subseteq Locks \X Locks
      /\ left \subseteq Locks \X Locks
    BY <1>2
<1>4. \A a, b \in Locks :
        /\ <<a, b>> \in invlockorders <=> <<b, a>> \in lockorders
        /\ <<a, b>> \in Inverse2(mine) <=> <<b, a>> \in mine
        /\ <<a, b>> \in Inverse2(his) <=> <<b, a>> \in his
        /\ <<a, b>> \in Inverse2(left) <=> <<b, a>> \in left
    BY <1>2, <1>3, InverseMember DEF Mirror
<1>5. \A a, b \in Locks : <<a, b>> \in mine <=> <<a, b>> \in lockorders /\ a = c
    OBVIOUS
<1>6. \A a, b \in Locks : <<a, b>> \in inv <=> <<b, a>> \in lockorders /\ b # c
    BY <1>4, <1>5
<1>7. \A a, b \in Locks : <<a, b>> \in his <=> <<b, a>> \in lockorders /\ b # c /\ a = c
    BY <1>6
<1>8. \A a, b \in Locks : <<a, b>> \in left <=> <<a, b>> \in lockorders /\ a # c /\ b # c
    OBVIOUS
<1>9. \A a, b \in Locks : <<a, b>> \in lockorders' <=> <<a, b>> \in left
    BY <1>1, <1>4, <1>5, <1>7, <1>8
<1>10. \A a, b \in Locks : <<a, b>> \in invlockorders' <=> <<a, b>> \in Inverse2(left)
    BY <1>1, <1>4, <1>6, <1>7, <1>8
<1>11. lockorders' \subseteq Locks \X Locks /\ invlockorders' \subseteq Locks \X Locks
    BY <1>1, <1>2
<1>12. Inverse2(left) \subseteq Locks \X Locks
    BY <1>3, InverseMember
<1> HIDE DEF mine, inv, his, left
<1>13. lockorders' = left
    BY <1>3, <1>9, <1>11
<1>14. invlockorders' = Inverse2(left)
    BY <1>10, <1>11, <1>12
<1> QED
    BY <1>11, <1>13, <1>14 DEF Mirror, left
-----------------------------------------------------------------------------
(***************************************************************************)
(* The steps of a thread.                                                  *)
(***************************************************************************)
LEMMA EnterStep ==
    ASSUME IInv, ~aborted, NEW t \in Threads, NEW c \in Locks, NEW fTry \in BOOLEAN,
           Enter(t, c, fTry)
    PROVE  IInv'
<1> DEFINE l == IF fTry THEN "try" ELSE "lock"
<1>1. TypeOK /\ MutexSound /\ ThreadSound(t) /\ HeldType
    BY HeldTyped DEF IInv
<1>2. /\ pc[t] = "idle" /\ c \in alive
      /\ push_lock(t, c) /\ GoTo(t, l, c) /\ UNCHANGED mutexes
      /\ l \in {"lock", "try"}
    BY DEF Enter
<1>3. /\ OthersKeep(t) /\ MutexSound' /\ UNCHANGED <<alive, plain, orphaned, holder, depth>>
      /\ \A d : Held(t, d)' = Held(t, d)
    BY <1>1, <1>2, MutexesSame
<1>4. /\ pc' \in [Threads -> {"idle", "lock", "try", "fail", "unlock", "pop"}]
      /\ want' \in [Threads -> Locks \cup {NoLock}]
      /\ pc'[t] = l /\ want'[t] = c
      /\ \A u \in Threads \ {t} : pc'[u] = pc[u] /\ want'[u] = want[u]
    BY <1>1, <1>2, GoToFacts
<1>5. /\ lockstack' \in [Threads -> Seq(Locks)]
      /\ \A u \in Threads \ {t} : lockstack'[u] = lockstack[u]
      /\ Range(lockstack'[t]) = Range(lockstack[t]) \cup {c}
      /\ lockstack'[t] # <<>> /\ Innermost(t)' = c
      /\ \A d : Count(t, d)' = Count(t, d) + One(c = d)
    BY <1>1, <1>2, PushFacts
<1>6. /\ lockorders' \subseteq Locks \X Locks
      /\ invlockorders' \subseteq Locks \X Locks
      /\ aborted' \in BOOLEAN
      /\ PairsSound' /\ NoInversion'
      /\ lockorders \subseteq lockorders'
      /\ \A a \in Before(lockstack[t], c) : <<a, c>> \in lockorders'
    BY <1>2, <1>3, PushPairs
<1>7. TypeOK'
    BY <1>1, <1>3, <1>4, <1>5, <1>6 DEF TypeOK
<1>8. ThreadSound(t)'
  <2>1. WantSound(t)'
    BY <1>1, <1>2, <1>3, <1>4, <1>5 DEF ThreadSound, WantSound
  <2>2. Balanced(t)'
    BY <1>1, <1>2, <1>3, <1>4, <1>5 DEF ThreadSound, Balanced
  <2>3. WantOnTop(t)'
    BY <1>4, <1>5 DEF WantOnTop
  <2>4. Recorded(t)'
    <3> SUFFICES ASSUME holder[c] # t
                 PROVE  \A a \in Range(lockstack'[t]) : a # c => <<a, c>> \in lockorders'
      BY <1>3, <1>4 DEF Recorded
    <3>1. Count(t, c) = 0
      BY <1>1, <1>2 DEF ThreadSound, Balanced, Held
    <3>2. c \notin Range(lockstack[t])
      BY <1>1, <3>1, CountTyped
    <3>3. Before(lockstack[t], c) = Range(lockstack[t])
      BY <1>1, <3>2, BeforeFacts DEF TypeOK
    <3> QED
      BY <1>5, <1>6, <3>3
  <2> QED
    BY <2>1, <2>2, <2>3, <2>4 DEF ThreadSound
<1>9. Others(t)
    BY <1>4, <1>5 DEF Others
<1> QED
    BY <1>3, <1>6, <1>7, <1>8, <1>9, StepOfOne

\* lock(), or try_lock() that succeeds
LEMMA TakeStep ==
    ASSUME IInv, NEW t \in Threads, pc[t] \in {"lock", "try"},
           Free(t, want[t]), Take(t, want[t]), GoTo(t, "idle", NoLock),
           UNCHANGED <<lockstack, lockdata>>
    PROVE  IInv'
<1> DEFINE c == want[t]
<1>1. TypeOK /\ MutexSound /\ ThreadSound(t) /\ HeldType /\ c \in Locks
    BY HeldTyped DEF IInv, ThreadSound, WantSound, TypeOK
<1>2. /\ holder' \in [Locks -> Threads \cup {NoThread}]
      /\ depth' \in [Locks -> Nat]
      /\ MutexSound' /\ OthersKeep(t)
      /\ \A d \in Locks : Held(t, d)' = Held(t, d) + One(d = c)
    BY <1>1, TakeHeld
<1>3. /\ pc' \in [Threads -> {"idle", "lock", "try", "fail", "unlock", "pop"}]
      /\ want' \in [Threads -> Locks \cup {NoLock}]
      /\ pc'[t] = "idle" /\ want'[t] = NoLock
      /\ \A u \in Threads \ {t} : pc'[u] = pc[u] /\ want'[u] = want[u]
    BY <1>1, GoToFacts
<1>4. \A d : Count(t, d)' = Count(t, d)
    BY StacksSame
<1>5. UNCHANGED <<alive, plain, orphaned, lockstack, lockdata>>
    BY DEF Take, lives
<1>6. TypeOK'
    BY <1>1, <1>2, <1>3, <1>5 DEF TypeOK, lockdata
<1>7. Balanced(t)'
    BY <1>1, <1>2, <1>3, <1>4 DEF ThreadSound, Balanced
<1>8. ThreadSound(t)'
    BY <1>1, <1>3, <1>5, <1>7 DEF ThreadSound, WantSound, WantOnTop, Recorded
<1>9. Others(t)
    BY <1>3 DEF Others
<1> QED
    BY <1>2, <1>5, <1>6, <1>8, <1>9, QuietStep

LEMMA TryLockStep ==
    ASSUME IInv, NEW t \in Threads, TryLock(t)
    PROVE  IInv'
<1>1. CASE Free(t, want[t]) /\ Take(t, want[t]) /\ GoTo(t, "idle", NoLock)
    BY <1>1, TakeStep DEF TryLock
<1>2. CASE GoTo(t, "fail", want[t]) /\ UNCHANGED mutexes
  <2>1. TypeOK /\ MutexSound /\ ThreadSound(t) /\ pc[t] = "try"
    BY DEF IInv, TryLock
  <2>2. /\ OthersKeep(t) /\ MutexSound' /\ UNCHANGED <<alive, plain, orphaned, holder, depth>>
        /\ \A d : Held(t, d)' = Held(t, d)
    BY <1>2, <2>1, MutexesSame
  <2>3. want[t] \in Locks \cup {NoLock}
    BY <2>1 DEF TypeOK
  <2>4. /\ pc' \in [Threads -> {"idle", "lock", "try", "fail", "unlock", "pop"}]
        /\ want' \in [Threads -> Locks \cup {NoLock}]
        /\ pc'[t] = "fail" /\ want'[t] = want[t]
        /\ \A u \in Threads \ {t} : pc'[u] = pc[u] /\ want'[u] = want[u]
    BY <1>2, <2>1, <2>3, GoToFacts
  <2>5. UNCHANGED <<lockstack, lockdata>> /\ \A d : Count(t, d)' = Count(t, d)
    BY StacksSame DEF TryLock
  <2>6. TypeOK'
    BY <2>1, <2>2, <2>4, <2>5 DEF TypeOK, lockdata
  <2>7. Balanced(t)'
    BY <2>1, <2>2, <2>4, <2>5 DEF ThreadSound, Balanced
  <2>8. ThreadSound(t)'
    BY <2>1, <2>2, <2>4, <2>5, <2>7
       DEF ThreadSound, WantSound, WantOnTop, Recorded, Innermost
  <2>9. Others(t)
    BY <2>4, <2>5 DEF Others
  <2> QED
    BY <2>2, <2>5, <2>6, <2>8, <2>9, QuietStep
<1> QED
    BY <1>1, <1>2 DEF TryLock

\* LeaveCritical of the lock the stack is ahead by
LEMMA PopStep ==
    ASSUME IInv, NEW t \in Threads, pc[t] \in {"fail", "pop"},
           pop_lock(t), GoTo(t, "idle", NoLock), UNCHANGED mutexes
    PROVE  IInv'
<1>1. TypeOK /\ MutexSound /\ ThreadSound(t) /\ HeldType
    BY HeldTyped DEF IInv
<1>2. /\ OthersKeep(t) /\ MutexSound' /\ UNCHANGED <<alive, plain, orphaned, holder, depth>>
      /\ \A d : Held(t, d)' = Held(t, d)
    BY <1>1, MutexesSame
<1>3. /\ pc' \in [Threads -> {"idle", "lock", "try", "fail", "unlock", "pop"}]
      /\ want' \in [Threads -> Locks \cup {NoLock}]
      /\ pc'[t] = "idle" /\ want'[t] = NoLock
      /\ \A u \in Threads \ {t} : pc'[u] = pc[u] /\ want'[u] = want[u]
    BY <1>1, GoToFacts
<1>4. lockstack[t] # <<>> /\ Innermost(t) = want[t]
    BY <1>1 DEF ThreadSound, WantOnTop
<1>5. /\ lockstack' \in [Threads -> Seq(Locks)]
      /\ \A u \in Threads \ {t} : lockstack'[u] = lockstack[u]
      /\ Range(lockstack'[t]) \subseteq Range(lockstack[t])
      /\ \A d : Count(t, d) = Count(t, d)' + One(Innermost(t) = d)
    BY <1>1, <1>4, PopFacts
<1>6. UNCHANGED lockdata
    BY DEF pop_lock
<1>7. TypeOK'
    BY <1>1, <1>2, <1>3, <1>5, <1>6 DEF TypeOK, lockdata
<1>8. Balanced(t)'
  <2>1. \A d \in Locks : Count(t, d) = Held(t, d) + One(want[t] = d)
    BY <1>1 DEF ThreadSound, Balanced
  <2>2. \A d : Count(t, d)' \in Nat
    BY <1>5, EntriesFinite DEF Count
  <2>3. \A d \in Locks : Count(t, d)' = Held(t, d)
    BY <1>1, <1>4, <1>5, <2>1, <2>2 DEF HeldType, One
  <2> QED
    BY <1>2, <1>3, <2>3 DEF Balanced
<1>9. ThreadSound(t)'
    BY <1>1, <1>2, <1>3, <1>5, <1>8 DEF ThreadSound, WantSound, WantOnTop, Recorded
<1>10. Others(t)
    BY <1>3, <1>5 DEF Others
<1> QED
    BY <1>2, <1>6, <1>7, <1>9, <1>10, QuietStep

LEMMA ScopeEndStep ==
    ASSUME IInv, NEW t \in Threads, ScopeEnd(t)
    PROVE  IInv'
<1>1. TypeOK /\ MutexSound /\ ThreadSound(t) /\ HeldType
    BY HeldTyped DEF IInv
<1>2. /\ pc[t] = "idle" /\ lockstack[t] # <<>> /\ pop_lock(t)
      /\ GoTo(t, "unlock", Innermost(t)) /\ UNCHANGED mutexes
    BY DEF ScopeEnd
<1>3. /\ OthersKeep(t) /\ MutexSound' /\ UNCHANGED <<alive, plain, orphaned, holder, depth>>
      /\ \A d : Held(t, d)' = Held(t, d)
    BY <1>1, <1>2, MutexesSame
<1>4. /\ lockstack' \in [Threads -> Seq(Locks)]
      /\ \A u \in Threads \ {t} : lockstack'[u] = lockstack[u]
      /\ Range(lockstack'[t]) \subseteq Range(lockstack[t])
      /\ Innermost(t) \in Range(lockstack[t]) /\ Innermost(t) \in Locks
      /\ \A d : Count(t, d) = Count(t, d)' + One(Innermost(t) = d)
    BY <1>1, <1>2, PopFacts
<1>5. /\ pc' \in [Threads -> {"idle", "lock", "try", "fail", "unlock", "pop"}]
      /\ want' \in [Threads -> Locks \cup {NoLock}]
      /\ pc'[t] = "unlock" /\ want'[t] = Innermost(t)
      /\ \A u \in Threads \ {t} : pc'[u] = pc[u] /\ want'[u] = want[u]
    BY <1>1, <1>2, <1>4, GoToFacts
<1>6. UNCHANGED lockdata
    BY <1>2 DEF pop_lock
<1>7. TypeOK'
    BY <1>1, <1>3, <1>4, <1>5, <1>6 DEF TypeOK, lockdata
<1>8. Balanced(t)'
    BY <1>1, <1>2, <1>3, <1>4, <1>5 DEF ThreadSound, Balanced
<1>9. ThreadSound(t)'
    BY <1>1, <1>3, <1>4, <1>5, <1>8 DEF ThreadSound, WantSound, WantOnTop, Recorded
<1>10. Others(t)
    BY <1>4, <1>5 DEF Others
<1> QED
    BY <1>3, <1>6, <1>7, <1>9, <1>10, QuietStep

LEMMA ScopeUnlockStep ==
    ASSUME IInv, NEW t \in Threads, ScopeUnlock(t)
    PROVE  IInv'
<1> DEFINE c == want[t]
<1>1. TypeOK /\ MutexSound /\ ThreadSound(t) /\ HeldType
    BY HeldTyped DEF IInv
<1>2. /\ pc[t] = "unlock" /\ Give(c) /\ GoTo(t, "idle", NoLock)
      /\ UNCHANGED <<lockstack, lockdata>>
    BY DEF ScopeUnlock
<1>3. c \in Locks
    BY <1>1, <1>2 DEF ThreadSound, WantSound, TypeOK
<1>4. \A d \in Locks : Held(t, d) = Count(t, d) + One(c = d) /\ Count(t, d) \in Nat
    BY <1>1, <1>2, CountTyped DEF ThreadSound, Balanced
<1>5. Held(t, c) > 0
    BY <1>3, <1>4 DEF One
<1>6. /\ holder' \in [Locks -> Threads \cup {NoThread}]
      /\ depth' \in [Locks -> Nat]
      /\ MutexSound' /\ OthersKeep(t)
      /\ \A d \in Locks : Held(t, d) = Held(t, d)' + One(d = c)
    BY <1>1, <1>2, <1>3, <1>5, GiveHeld
<1>7. /\ pc' \in [Threads -> {"idle", "lock", "try", "fail", "unlock", "pop"}]
      /\ want' \in [Threads -> Locks \cup {NoLock}]
      /\ pc'[t] = "idle" /\ want'[t] = NoLock
      /\ \A u \in Threads \ {t} : pc'[u] = pc[u] /\ want'[u] = want[u]
    BY <1>1, <1>2, GoToFacts
<1>8. UNCHANGED <<alive, plain, orphaned, lockdata>> /\ \A d : Count(t, d)' = Count(t, d)
    BY <1>2, StacksSame DEF Give, lives
<1>9. TypeOK'
    BY <1>1, <1>2, <1>6, <1>7, <1>8 DEF TypeOK, lockdata
<1>10. Balanced(t)'
  <2>1. \A d \in Locks : Held(t, d)' \in Nat
    BY <1>6 DEF Held
  <2>2. \A d \in Locks : Held(t, d)' = Count(t, d)
    BY <1>4, <1>6, <2>1 DEF One
  <2> QED
    BY <1>7, <1>8, <2>2 DEF Balanced
<1>11. ThreadSound(t)'
    BY <1>1, <1>2, <1>7, <1>8, <1>10 DEF ThreadSound, WantSound, WantOnTop, Recorded
<1>12. Others(t)
    BY <1>2, <1>7 DEF Others
<1> QED
    BY <1>6, <1>8, <1>9, <1>11, <1>12, QuietStep

LEMMA LeaveUnlockStep ==
    ASSUME IInv, NEW t \in Threads, LeaveUnlock(t)
    PROVE  IInv'
<1> DEFINE c == Innermost(t)
<1>1. TypeOK /\ MutexSound /\ ThreadSound(t) /\ HeldType
    BY HeldTyped DEF IInv
<1>2. /\ pc[t] = "idle" /\ lockstack[t] # <<>> /\ Give(c) /\ GoTo(t, "pop", c)
      /\ UNCHANGED <<lockstack, lockdata>>
    BY DEF LeaveUnlock
<1>3. c \in Locks /\ c \in Range(lockstack[t])
  <2>1. lockstack[t] \in Seq(Locks) /\ c = lockstack[t][Len(lockstack[t])]
    BY <1>1 DEF TypeOK, Innermost
  <2> QED
    BY <1>2, <2>1, PoppedFacts
<1>4. \A d \in Locks : Held(t, d) = Count(t, d) /\ Count(t, d) \in Nat
    BY <1>1, <1>2, CountTyped DEF ThreadSound, Balanced
<1>5. Held(t, c) > 0
    BY <1>1, <1>3, <1>4, CountTyped
<1>6. /\ holder' \in [Locks -> Threads \cup {NoThread}]
      /\ depth' \in [Locks -> Nat]
      /\ MutexSound' /\ OthersKeep(t)
      /\ \A d \in Locks : Held(t, d) = Held(t, d)' + One(d = c)
    BY <1>1, <1>2, <1>3, <1>5, GiveHeld
<1>7. /\ pc' \in [Threads -> {"idle", "lock", "try", "fail", "unlock", "pop"}]
      /\ want' \in [Threads -> Locks \cup {NoLock}]
      /\ pc'[t] = "pop" /\ want'[t] = c
      /\ \A u \in Threads \ {t} : pc'[u] = pc[u] /\ want'[u] = want[u]
    BY <1>1, <1>2, <1>3, GoToFacts
<1>8. UNCHANGED <<alive, plain, orphaned, lockdata>> /\ \A d : Count(t, d)' = Count(t, d)
    BY <1>2, StacksSame DEF Give, lives
<1>9. TypeOK'
    BY <1>1, <1>2, <1>6, <1>7, <1>8 DEF TypeOK, lockdata
<1>10. Balanced(t)'
    BY <1>4, <1>6, <1>7, <1>8 DEF Balanced, One
<1>11. ThreadSound(t)'
    BY <1>1, <1>2, <1>3, <1>7, <1>8, <1>10
       DEF ThreadSound, WantSound, WantOnTop, Recorded, Innermost
<1>12. Others(t)
    BY <1>2, <1>7 DEF Others
<1> QED
    BY <1>6, <1>8, <1>9, <1>11, <1>12, QuietStep
-----------------------------------------------------------------------------
(***************************************************************************)
(* The lives of locks.                                                     *)
(***************************************************************************)
LEMMA ConstructStep ==
    ASSUME IInv, NEW c \in Locks, NEW fPlain \in BOOLEAN, Construct(c, fPlain)
    PROVE  IInv'
<1>1. TypeOK /\ MutexSound /\ PairsSound /\ NoInversion
    BY DEF IInv
<1>2. /\ alive' = alive \cup {c} /\ plain' \subseteq plain \cup {c}
      /\ UNCHANGED <<orphaned, holder, depth, lockstack, lockdata, pc, want>>
    BY DEF Construct
<1>3. TypeOK' /\ MutexSound' /\ NoInversion'
    BY <1>1, <1>2 DEF TypeOK, MutexSound, NoInversion, lockdata
<1>4. PairsSound'
    BY <1>1, <1>2 DEF PairsSound, Mirror, StaleOnlyIfOrphaned, lockdata
<1>5. ASSUME NEW t \in Threads PROVE ThreadSound(t)'
  <2>1. ThreadSound(t)
    BY DEF IInv
  <2>2. WantSound(t)'
    BY <1>2, <2>1 DEF ThreadSound, WantSound
  <2>3. \A d \in Locks : Held(t, d)' = Held(t, d)
    BY <1>2 DEF Held
  <2> QED
    BY <1>2, <2>1, <2>2, <2>3, OtherThread DEF lockdata
<1> QED
    BY <1>3, <1>4, <1>5 DEF IInv

\* With DeleteLock no pair of c is left; without it all are, and c counts as
\* orphaned. Either way the pairs of the other locks stay.
LEMMA DestructPairs ==
    ASSUME TypeOK, PairsSound, NoInversion, NEW c \in Locks, Destruct(c)
    PROVE  /\ lockorders' \subseteq lockorders
           /\ \A p \in lockorders : p[1] # c /\ p[2] # c => p \in lockorders'
           /\ invlockorders' \subseteq Locks \X Locks
           /\ orphaned' \subseteq Locks
           /\ PairsSound' /\ NoInversion'
<1>1. alive' = alive \ {c} /\ UNCHANGED aborted
    BY DEF Destruct, DeleteLock, lockdata
<1>2. CASE c \notin plain /\ DeleteLock(c) /\ orphaned' = orphaned \ {c}
  <2>1. /\ lockorders' = {p \in lockorders : p[1] # c /\ p[2] # c}
        /\ Mirror' /\ invlockorders' \subseteq Locks \X Locks
    BY <1>2, DeletePairs DEF PairsSound
  <2>2. StaleOnlyIfOrphaned'
    BY <1>1, <1>2, <2>1 DEF PairsSound, StaleOnlyIfOrphaned
  <2>3. NoInversion'
    BY <1>1, <2>1 DEF NoInversion
  <2> QED
    BY <1>2, <2>1, <2>2, <2>3 DEF PairsSound, TypeOK
<1>3. CASE c \in plain /\ orphaned' = orphaned \cup {c} /\ UNCHANGED <<lockdata, lockstack>>
  <2>1. UNCHANGED <<lockorders, invlockorders>>
    BY <1>3 DEF lockdata
  <2>2. Mirror' /\ NoInversion'
    BY <1>1, <2>1 DEF PairsSound, Mirror, NoInversion
  <2>3. StaleOnlyIfOrphaned'
    BY <1>1, <1>3, <2>1 DEF PairsSound, StaleOnlyIfOrphaned
  <2> QED
    BY <1>3, <2>1, <2>2, <2>3 DEF PairsSound, TypeOK
<1> QED
    BY <1>2, <1>3 DEF Destruct

LEMMA DestructStep ==
    ASSUME IInv, NEW c \in Locks, Destruct(c)
    PROVE  IInv'
<1>1. TypeOK /\ MutexSound /\ PairsSound /\ NoInversion
    BY DEF IInv
<1>2. /\ alive' = alive \ {c} /\ plain' = plain \ {c}
      /\ UNCHANGED <<holder, depth, pc, want, aborted, lockstack>>
      /\ \A t \in Threads : c \notin Range(lockstack[t]) /\ want[t] # c
    BY DEF Destruct, DeleteLock, lockdata
<1>3. /\ lockorders' \subseteq lockorders
      /\ \A p \in lockorders : p[1] # c /\ p[2] # c => p \in lockorders'
      /\ invlockorders' \subseteq Locks \X Locks
      /\ orphaned' \subseteq Locks
      /\ PairsSound' /\ NoInversion'
    BY <1>1, DestructPairs
<1>4. TypeOK' /\ MutexSound'
    BY <1>1, <1>2, <1>3 DEF TypeOK, MutexSound
<1>5. ASSUME NEW t \in Threads PROVE ThreadSound(t)'
  <2>1. ThreadSound(t)
    BY DEF IInv
  <2>2. WantSound(t)'
    BY <1>2, <2>1 DEF ThreadSound, WantSound
  <2>3. \A d \in Locks : Held(t, d)' = Held(t, d)
    BY <1>2 DEF Held
  <2>4. \A a \in Range(lockstack[t]) :
          <<a, want[t]>> \in lockorders => <<a, want[t]>> \in lockorders'
    BY <1>2, <1>3
  <2> QED
    BY <1>2, <2>1, <2>2, <2>3, <2>4, OtherThread
<1> QED
    BY <1>3, <1>4, <1>5 DEF IInv

-----------------------------------------------------------------------------
(***************************************************************************)
(* Theorems.                                                               *)
(***************************************************************************)
LEMMA InitIInv == Init => IInv
<1> SUFFICES ASSUME Init PROVE IInv
    OBVIOUS
<1>1. TypeOK /\ MutexSound /\ NoInversion
  <2>1. lockstack \in [Threads -> Seq(Locks)]
    BY EmptySeq DEF Init
  <2>2. TypeOK
    BY <2>1 DEF Init, TypeOK
  <2> QED
    BY <2>2 DEF Init, MutexSound, NoInversion
<1>2. PairsSound
    BY DEF Init, PairsSound, Mirror, StaleOnlyIfOrphaned, Inverse2
<1>3. ASSUME NEW t \in Threads PROVE ThreadSound(t)
  <2>1. pc[t] = "idle" /\ lockstack[t] = <<>>
    BY DEF Init
  <2>2. Range(lockstack[t]) = {}
    BY <2>1 DEF Range
  <2>3. \A c \in Locks : Count(t, c) = 0 /\ Held(t, c) = 0
    <3>1. \A c : Entries(<<>>, c) = {}
      BY DEF Entries
    <3> QED
      BY <2>1, <3>1, FS_EmptySet DEF Count, Held, Init
  <2> QED
    BY <2>1, <2>2, <2>3 DEF ThreadSound, WantSound, Balanced, WantOnTop, Recorded
<1> QED
    BY <1>1, <1>2, <1>3 DEF IInv

LEMMA NextIInv == IInv /\ [Next]_vars => IInv'
<1> SUFFICES ASSUME IInv, [Next]_vars PROVE IInv'
    OBVIOUS
<1>1. ASSUME NEW t \in Threads, NEW c \in Locks, NEW fTry \in BOOLEAN,
             ~aborted, Enter(t, c, fTry)
      PROVE  IInv'
    BY <1>1, EnterStep
<1>2. ASSUME NEW t \in Threads, Lock(t) PROVE IInv'
    BY <1>2, TakeStep DEF Lock
<1>3. ASSUME NEW t \in Threads, TryLock(t) PROVE IInv'
    BY <1>3, TryLockStep
<1>4. ASSUME NEW t \in Threads, TryFailed(t) PROVE IInv'
    BY <1>4, PopStep DEF TryFailed
<1>5. ASSUME NEW t \in Threads, ScopeEnd(t) PROVE IInv'
    BY <1>5, ScopeEndStep
<1>6. ASSUME NEW t \in Threads, ScopeUnlock(t) PROVE IInv'
    BY <1>6, ScopeUnlockStep
<1>7. ASSUME NEW t \in Threads, LeaveUnlock(t) PROVE IInv'
    BY <1>7, LeaveUnlockStep
<1>8. ASSUME NEW t \in Threads, LeaveCritical(t) PROVE IInv'
    BY <1>8, PopStep DEF LeaveCritical
<1>9. ASSUME NEW c \in Locks, NEW fPlain \in BOOLEAN, Construct(c, fPlain) PROVE IInv'
    BY <1>9, ConstructStep
<1>10. ASSUME NEW c \in Locks, Destruct(c) PROVE IInv'
    BY <1>10, DestructStep
<1>11. CASE UNCHANGED vars
  <2>1. \A t, c : Count(t, c)' = Count(t, c) /\ Held(t, c)' = Held(t, c)
    BY <1>11 DEF vars, mutexes, lives, Count, Held
  <2>2. (TypeOK /\ MutexSound /\ PairsSound /\ NoInversion)'
    BY <1>11 DEF vars, mutexes, lives, lockdata, IInv, TypeOK, MutexSound,
                 PairsSound, Mirror, StaleOnlyIfOrphaned, NoInversion
  <2>3. ASSUME NEW t \in Threads PROVE ThreadSound(t)'
    <3>1. /\ ThreadSound(t)
          /\ UNCHANGED <<alive, holder, lockstack, lockorders, pc, want>>
      BY <1>11 DEF vars, mutexes, lives, lockdata, IInv
    <3>2. WantSound(t)'
      BY <3>1 DEF ThreadSound, WantSound
    <3> QED
      BY <2>1, <3>1, <3>2, OtherThread
  <2> QED
    BY <2>2, <2>3 DEF IInv
<1> QED
    BY <1>1, <1>2, <1>3, <1>4, <1>5, <1>6, <1>7, <1>8, <1>9, <1>10, <1>11
       DEF Next, Step

\* What the checker and the mutexes keep at all times, for any threads, locks
\* and depth of nesting.
THEOREM Invariance == Spec => []IInv
<1> QED
    BY InitIInv, NextIInv, PTL DEF Spec

\* The two containers agree, and a pair outlives its locks only where a plain
\* mutex has been destroyed, whatever locks come and go.
THEOREM PairsSoundTheorem == Spec => []PairsSound
<1>1. IInv => PairsSound
    BY DEF IInv
<1> QED
    BY <1>1, Invariance, PTL

\* Between lock operations a thread's lock stack is what it holds, as often
\* as it holds it: AssertLockHeld says what is true.
THEOREM StackIsHeldTheorem == Spec => []StackIsHeld
<1>1. IInv => StackIsHeld
    BY DEF IInv, ThreadSound, Balanced, StackIsHeld, Count, Entries, Held
<1> QED
    BY <1>1, Invariance, PTL

\* What a waiting thread holds is on its stack, before the lock it waits for.
LEMMA WaitsAreRecorded == IInv => WaitsRecorded
<1> SUFFICES ASSUME IInv, NEW t \in Threads, NEW a \in Locks, NEW b \in Locks,
                    Waits(t, b), holder[a] = t
             PROVE  <<a, b>> \in lockorders
    BY DEF WaitsRecorded
<1>1. /\ pc[t] = "lock" /\ want[t] = b /\ holder[b] # t
      /\ TypeOK /\ MutexSound /\ ThreadSound(t)
    BY DEF IInv, Waits
<1>2. a # b
    BY <1>1
<1>3. Held(t, a) > 0
  <2>1. depth[a] \in Nat /\ depth[a] # 0
    BY <1>1, LockAssumption DEF MutexSound, TypeOK
  <2> QED
    BY <2>1 DEF Held
<1>4. Count(t, a) = Held(t, a)
  <2>1. Count(t, a) = Held(t, a) + One(want[t] = a)
    BY <1>1 DEF ThreadSound, Balanced
  <2>2. One(want[t] = a) = 0 /\ Held(t, a) \in Nat
    BY <1>1, <1>2 DEF One, Held, TypeOK
  <2> QED
    BY <2>1, <2>2
<1>5. a \in Range(lockstack[t])
    BY <1>1, <1>3, <1>4, CountTyped
<1> QED
    BY <1>1, <1>2, <1>5 DEF ThreadSound, Recorded

\* Every edge of the wait-for graph is in lockorders.
THEOREM WaitsRecordedTheorem == Spec => []WaitsRecorded
<1> QED
    BY WaitsAreRecorded, Invariance, PTL

\* Two threads deadlock on each other's locks only after the complaint.
THEOREM InversionDetectedTheorem == Spec => []InversionDetected
<1>1. IInv => InversionDetected
  <2> SUFFICES ASSUME IInv, NEW t \in Threads, NEW u \in Threads,
                      NEW a \in Locks, NEW b \in Locks,
                      holder[a] = t, Waits(t, b), holder[b] = u, Waits(u, a)
               PROVE  aborted
    BY DEF InversionDetected
  <2>1. <<a, b>> \in lockorders /\ <<b, a>> \in lockorders
    BY WaitsAreRecorded DEF WaitsRecorded
  <2>2. a # b
    BY DEF Waits
  <2> QED
    BY <2>1, <2>2 DEF IInv, NoInversion
<1> QED
    BY <1>1, Invariance, PTL

-----------------------------------------------------------------------------
(***************************************************************************)
(* Deadlocks of any number of threads.                                     *)
(***************************************************************************)

\* Each thread of a set waits for a lock that another one of the set holds.
DeadlockOf(D) ==
    D # {} /\ \A t \in D : \E u \in D, c \in Locks : Waits(t, c) /\ holder[c] = u

\* The recorded pairs agree with some order in which locks may be taken.
Obeyed(rank) == \A p \in lockorders : rank[p[2]] < rank[p[1]]

\* A set of natural numbers that is not empty has a least element.
LEMMA LeastElement ==
    ASSUME NEW T \in SUBSET Nat, T # {}
    PROVE  \E n \in T : \A m \in T : ~(m < n)
<1> DEFINE Less == OpToRel(<, Nat)
<1>1. IsWellFoundedOn(Less, Nat)
    BY NatLessThanWellFounded
<1>2. \A m, n \in Nat : m < n => <<m, n>> \in Less
    BY DEF OpToRel
<1> HIDE DEF Less
<1>3. PICK n \in T : \A m \in T : <<m, n>> \notin Less
    BY <1>1, WFMin
<1> QED
    BY <1>2, <1>3

\* As long as the orders the checker has recorded are free of cycles, no
\* threads, however many, can be waiting for each other: the checker's data is
\* enough to tell that a program is safe, although potential_deadlock_detected
\* is called for cycles of two only.
THEOREM OrderedIsDeadlockFree ==
    Spec => [](\A rank \in [Locks -> Nat], D \in SUBSET Threads :
                  Obeyed(rank) => ~DeadlockOf(D))
<1>1. ASSUME IInv, NEW rank \in [Locks -> Nat], NEW D \in SUBSET Threads,
             Obeyed(rank), DeadlockOf(D)
      PROVE  FALSE
  <2> DEFINE Ranks == {rank[want[t]] : t \in D}
  <2>1. \A t \in D : want[t] \in Locks
    BY <1>1 DEF DeadlockOf, Waits
  <2>2. Ranks \in SUBSET Nat /\ Ranks # {}
    BY <1>1, <2>1 DEF DeadlockOf
  <2>3. PICK t \in D : \A u \in D : ~(rank[want[u]] < rank[want[t]])
    <3>1. PICK n \in Ranks : \A m \in Ranks : ~(m < n)
      BY <2>2, LeastElement
    <3> QED
      BY <3>1
  <2>4. PICK u \in D : holder[want[t]] = u
    BY <1>1 DEF DeadlockOf, Waits
  <2>5. Waits(u, want[u])
    BY <1>1 DEF DeadlockOf, Waits
  <2>6. <<want[t], want[u]>> \in lockorders
    BY <1>1, <2>1, <2>4, <2>5, WaitsAreRecorded DEF WaitsRecorded
  <2>7. rank[want[u]] < rank[want[t]]
    BY <1>1, <2>6 DEF Obeyed
  <2> QED
    BY <2>3, <2>7
<1>2. IInv => \A rank \in [Locks -> Nat], D \in SUBSET Threads :
                  Obeyed(rank) => ~DeadlockOf(D)
    BY <1>1
<1> QED
    BY <1>2, Invariance, PTL
=============================================================================
