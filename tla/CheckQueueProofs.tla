-------------------------- MODULE CheckQueueProofs --------------------------
(***************************************************************************)
(* Machine-checked proofs about CheckQueue: IInv is inductive, and what    *)
(* follows from it, for any number of threads and checks and any batch     *)
(* size; and about CheckQueueMain, the program on top of it.               *)
(***************************************************************************)
EXTENDS CheckQueueInv, CheckQueueMain, FiniteSetTheorems, SequenceTheorems, TLAPS

(***************************************************************************)
(* Vectors without repetition, and the sets of checks they hold.           *)
(***************************************************************************)

\* A vector of distinct checks holds as many checks as it has entries.
LEMMA DistinctCard ==
    ASSUME NEW s \in Seq(Checks),
           \A i, j \in DOMAIN s : s[i] = s[j] => i = j
    PROVE  /\ IsFiniteSet(Range(s))
           /\ Cardinality(Range(s)) = Len(s)
<1>1. Len(s) \in Nat /\ DOMAIN s = 1..Len(s)
    BY LenProperties
<1>2. s \in Bijection(1..Len(s), Range(s))
    BY <1>1, LenProperties DEF Bijection, Injection, IsInjective,
                                     Surjection, Range
<1>3. IsFiniteSet(1..Len(s)) /\ Cardinality(1..Len(s)) = Len(s)
    BY <1>1, FS_Interval
<1> QED
    BY <1>2, <1>3, FS_Bijection DEF ExistsBijection

\* An integer quotient by a positive number is no larger than the dividend.
LEMMA QuotientBound ==
    ASSUME NEW a \in Nat, NEW b \in Nat \ {0}
    PROVE  a \div b \in Nat /\ a \div b <= a
OBVIOUS

\* A thread never takes more checks than are queued, and at least one.
LEMMA BatchSizeRange ==
    ASSUME NEW len \in Nat \ {0}, NEW total \in Nat, NEW idle \in Nat
    PROVE  BatchSize(len, total, idle) \in 1..len
<1> DEFINE share == len \div (total + idle + 1)
<1>1. share \in Nat /\ share <= len
    BY QuotientBound
<1> HIDE DEF share
<1>2. BatchSize(len, total, idle) =
        LET capped == IF nBatchSize < share THEN nBatchSize ELSE share
        IN  IF capped < 1 THEN 1 ELSE capped
    BY DEF BatchSize, share
<1> QED
    BY <1>1, <1>2, NumbersAssumption

\* Swapping n checks off the back of the queue splits it in two parts.
LEMMA PoppedSplits ==
    ASSUME queue \in Seq(Checks),
           \A i, j \in DOMAIN queue : queue[i] = queue[j] => i = j,
           NEW n \in 1..Len(queue)
    PROVE  LET s == Popped(n)
               r == SubSeq(queue, 1, Len(queue) - n)
           IN  /\ s \in Seq(Checks) /\ Len(s) = n
               /\ r \in Seq(Checks)
               /\ \A i, j \in DOMAIN s : s[i] = s[j] => i = j
               /\ \A i, j \in DOMAIN r : r[i] = r[j] => i = j
               /\ Range(s) \cap Range(r) = {}
               /\ Range(s) \cup Range(r) = Range(queue)
<1> DEFINE L == Len(queue)
           s == Popped(n)
           r == SubSeq(queue, 1, L - n)
<1>1. L \in Nat /\ DOMAIN queue = 1..L /\ n \in 1..L
      /\ \A i \in 1..L : queue[i] \in Checks
    BY LenProperties
<1>2. /\ s \in [1..n -> Checks]
      /\ DOMAIN s = 1..n
      /\ \A i \in 1..n : s[i] = queue[L - i + 1]
    BY <1>1 DEF Popped
<1>3. s \in Seq(Checks) /\ Len(s) = n
    BY <1>1, <1>2, SeqDef
<1>4. /\ r \in Seq(Checks)
      /\ DOMAIN r = 1..(L - n)
      /\ \A i \in 1..(L - n) : r[i] = queue[i]
    BY <1>1
<1>5. \A i, j \in DOMAIN s : s[i] = s[j] => i = j
    BY <1>1, <1>2
<1>6. \A i, j \in DOMAIN r : r[i] = r[j] => i = j
    BY <1>1, <1>4
<1>7. Range(s) \cap Range(r) = {}
  <2>1. SUFFICES ASSUME NEW i \in 1..n, NEW j \in 1..(L - n)
                 PROVE  s[i] # r[j]
    BY <1>2, <1>4 DEF Range
  <2>2. L - i + 1 \in 1..L /\ j \in 1..L /\ L - i + 1 # j
    BY <1>1
  <2> QED
    BY <1>1, <1>2, <1>4, <2>2
<1>8. Range(s) \cup Range(r) = Range(queue)
  <2>1. Range(s) \cup Range(r) \subseteq Range(queue)
    <3>1. ASSUME NEW i \in 1..n PROVE s[i] \in Range(queue)
      <4>1. L - i + 1 \in 1..L /\ s[i] = queue[L - i + 1]
        BY <1>1, <1>2
      <4> QED BY <4>1, <1>1 DEF Range
    <3>2. ASSUME NEW i \in 1..(L - n) PROVE r[i] \in Range(queue)
      <4>1. i \in 1..L /\ r[i] = queue[i]
        BY <1>1, <1>4
      <4> QED BY <4>1, <1>1 DEF Range
    <3> QED BY <3>1, <3>2, <1>2, <1>4 DEF Range
  <2>2. ASSUME NEW i \in 1..L PROVE queue[i] \in Range(s) \cup Range(r)
    <3>1. CASE i <= L - n
      <4>1. i \in 1..(L - n) /\ r[i] = queue[i]
        BY <3>1, <1>1, <1>4
      <4> QED BY <4>1, <1>4 DEF Range
    <3>2. CASE i > L - n
      <4>1. L - i + 1 \in 1..n /\ s[L - i + 1] = queue[i]
        BY <3>2, <1>1, <1>2
      <4> QED BY <4>1, <1>2 DEF Range
    <3> QED BY <3>1, <3>2, <1>1
  <2> QED BY <2>1, <2>2, <1>1 DEF Range
<1> QED
    BY <1>3, <1>4, <1>5, <1>6, <1>7, <1>8

\* Appending a vector of new checks keeps the queue free of repetitions.
LEMMA ConcatDistinct ==
    ASSUME NEW s \in Seq(Checks), NEW r \in Seq(Checks),
           \A i, j \in DOMAIN s : s[i] = s[j] => i = j,
           \A i, j \in DOMAIN r : r[i] = r[j] => i = j,
           Range(s) \cap Range(r) = {}
    PROVE  /\ s \o r \in Seq(Checks)
           /\ \A i, j \in DOMAIN (s \o r) : (s \o r)[i] = (s \o r)[j] => i = j
           /\ Range(s \o r) = Range(s) \cup Range(r)
<1> DEFINE q == s \o r
           L == Len(s)
<1>1. /\ q \in Seq(Checks) /\ L \in Nat /\ Len(r) \in Nat
      /\ DOMAIN q = 1..(L + Len(r)) /\ DOMAIN s = 1..L /\ DOMAIN r = 1..Len(r)
      /\ \A i \in 1..(L + Len(r)) : q[i] = IF i <= L THEN s[i] ELSE r[i - L]
    BY ConcatProperties, LenProperties
<1> HIDE DEF q, L
<1>2. \A i \in DOMAIN q : \/ i \in DOMAIN s /\ q[i] = s[i]
                          \/ i > L /\ i - L \in DOMAIN r /\ q[i] = r[i - L]
    BY <1>1
<1>3. \A i \in DOMAIN s, j \in DOMAIN r : s[i] # r[j]
    BY DEF Range
<1>4. \A i, j \in DOMAIN q : q[i] = q[j] => i = j
  <2> TAKE i, j \in DOMAIN q
  <2> QED BY <1>1, <1>2, <1>3
<1>5. Range(q) \subseteq Range(s) \cup Range(r)
    BY <1>2 DEF Range
<1>6. Range(s) \subseteq Range(q)
    BY <1>1 DEF Range
<1>7. Range(r) \subseteq Range(q)
  <2> SUFFICES ASSUME NEW i \in DOMAIN r PROVE r[i] \in Range(q)
    BY DEF Range
  <2>1. L + i \in DOMAIN q /\ q[L + i] = r[i]
    BY <1>1
  <2> QED BY <2>1 DEF Range
<1> QED
    BY <1>1, <1>4, <1>5, <1>6, <1>7 DEF q

(***************************************************************************)
(* The critical section of Loop.  FirstIteration, CleanUp and WakeUp reach *)
(* `while (queue.empty())' with different values; AtLoopHead is what they  *)
(* have in common there, and all that the rest of the section relies on.   *)
(***************************************************************************)
Idlers == {u \in Threads : pc[u] \in {"wait", "woken"}}
Pool   == {u \in Threads : InPool(u)}

AtLoopHead(t, allOk, todo, total, idle, pcs) ==
    /\ pc[t] \in {"lock", "woken"}
    /\ allOk \in BOOLEAN /\ todo \in Nat /\ total \in Nat /\ idle \in Nat
    /\ pcs \in [Threads -> PC]
    /\ todo = Cardinality(Pending \ Range(vChecks[t]))
    /\ idle = Cardinality(Idlers \ {t})
    /\ total = Cardinality(Pool \cup {t})
    /\ \A u \in Threads : \/ pcs[u] = pc[u]
                          \/ u \in Masters /\ pc[u] = "wait" /\ pcs[u] = "woken"
    /\ todo = 0 /\ t \notin Masters => \A m \in Masters : pcs[m] # "wait"
    /\ fDone \/ ControlMutex = NoOwner => allOk
    /\ ~fDone /\ ~allOk => session \cap Fails # {}
    /\ ~fDone /\ allOk =>
          \A c \in session \ (Pending \ Range(vChecks[t])) :
              c \notin Fails /\ runs[c] = 1

\* Whatever a thread does next, it swaps its old batch for a part of the
\* queue (an empty one when it sleeps or returns).
LEMMA LoopHeadBatch ==
    ASSUME TypeOK, OnePlace, NEW t \in Threads, NEW allOk, NEW todo,
           NEW total \in Nat, NEW idle \in Nat, NEW pcs,
           LoopHead(t, allOk, todo, total, idle, pcs)
    PROVE  \E b \in Seq(Checks) :
              /\ vChecks' = [vChecks EXCEPT ![t] = b]
              /\ \A i, j \in DOMAIN b : b[i] = b[j] => i = j
              /\ queue' \in Seq(Checks)
              /\ \A i, j \in DOMAIN queue' : queue'[i] = queue'[j] => i = j
              /\ Range(b) \cap Range(queue') = {}
              /\ Range(b) \cup Range(queue') = Range(queue)
<1>1. queue \in Seq(Checks)
      /\ \A i, j \in DOMAIN queue : queue[i] = queue[j] => i = j
    BY DEF TypeOK, OnePlace
<1>2. CASE queue = <<>> /\ queue' = queue /\ vChecks' = [vChecks EXCEPT ![t] = <<>>]
  <2>1. <<>> \in Seq(Checks) /\ Range(<<>>) = {} /\ DOMAIN <<>> = {}
    BY EmptySeq DEF Range
  <2> WITNESS <<>> \in Seq(Checks)
  <2> QED
    BY <1>1, <1>2, <2>1
<1>3. CASE Take(t, allOk, todo, total, idle, pcs)
  <2> DEFINE n == BatchSize(Len(queue), total, idle)
  <2>1. queue # <<>> /\ vChecks' = [vChecks EXCEPT ![t] = Popped(n)]
        /\ queue' = SubSeq(queue, 1, Len(queue) - n)
    BY <1>3 DEF Take
  <2>2. n \in 1..Len(queue)
    BY <1>1, <2>1, EmptySeq, BatchSizeRange
  <2> HIDE DEF n
  <2> QED
    BY <1>1, <2>1, <2>2, PoppedSplits
<1> QED
    BY <1>2, <1>3 DEF LoopHead, Return, Sleep

\* Hence no check is lost, duplicated or shared in a critical section: the
\* thread's old batch is all that stops being pending.
LEMMA LoopHeadPlaces ==
    ASSUME TypeOK, OnePlace, NEW t \in Threads, NEW allOk, NEW todo,
           NEW total \in Nat, NEW idle \in Nat, NEW pcs,
           LoopHead(t, allOk, todo, total, idle, pcs)
    PROVE  /\ queue' \in Seq(Checks)
           /\ vChecks' \in [Threads -> Seq(Checks)]
           /\ \A u \in Threads \ {t} : vChecks'[u] = vChecks[u]
           /\ Range(queue') \subseteq Range(queue)
           /\ Range(vChecks'[t]) \subseteq Range(queue)
           /\ OnePlace'
           /\ Pending' = Pending \ Range(vChecks[t])
<1>1. PICK b \in Seq(Checks) :
              /\ vChecks' = [vChecks EXCEPT ![t] = b]
              /\ \A i, j \in DOMAIN b : b[i] = b[j] => i = j
              /\ queue' \in Seq(Checks)
              /\ \A i, j \in DOMAIN queue' : queue'[i] = queue'[j] => i = j
              /\ Range(b) \cap Range(queue') = {}
              /\ Range(b) \cup Range(queue') = Range(queue)
    BY LoopHeadBatch
<1>2. vChecks \in [Threads -> Seq(Checks)]
    BY DEF TypeOK
<1>3. /\ vChecks' \in [Threads -> Seq(Checks)]
      /\ vChecks'[t] = b
      /\ \A u \in Threads \ {t} : vChecks'[u] = vChecks[u]
    BY <1>1, <1>2
<1>4. /\ \A u \in Threads : Range(vChecks[u]) \cap Range(queue) = {}
      /\ \A u \in Threads : \A i, j \in DOMAIN vChecks[u] :
            vChecks[u][i] = vChecks[u][j] => i = j
      /\ \A u, v \in Threads :
            u # v => Range(vChecks[u]) \cap Range(vChecks[v]) = {}
    BY DEF OnePlace
<1>5. OnePlace'
  <2>1. \A u \in Threads : Range(vChecks'[u]) \cap Range(queue') = {}
    <3> TAKE u \in Threads
    <3> QED BY <1>1, <1>3, <1>4
  <2>2. \A u, v \in Threads :
            u # v => Range(vChecks'[u]) \cap Range(vChecks'[v]) = {}
    <3> TAKE u, v \in Threads
    <3>1. CASE u # t /\ v # t
      <4>1. vChecks'[u] = vChecks[u] /\ vChecks'[v] = vChecks[v]
        BY <3>1, <1>3
      <4> QED BY <4>1, <1>4
    <3>2. CASE u = t /\ v # t
      BY <3>2, <1>1, <1>3, <1>4
    <3>3. CASE u # t /\ v = t
      BY <3>3, <1>1, <1>3, <1>4
    <3> QED BY <3>1, <3>2, <3>3
  <2>3. \A u \in Threads : \A i, j \in DOMAIN vChecks'[u] :
            vChecks'[u][i] = vChecks'[u][j] => i = j
    <3> TAKE u \in Threads
    <3>1. CASE u = t
      BY <3>1, <1>1, <1>3
    <3>2. CASE u # t
      BY <3>2, <1>3, <1>4
    <3> QED BY <3>1, <3>2
  <2> QED
    BY <1>1, <2>1, <2>2, <2>3 DEF OnePlace
<1>6. Pending' = Pending \ Range(vChecks[t])
  <2>1. ASSUME NEW c \in Pending' PROVE c \in Pending \ Range(vChecks[t])
    <3>1. CASE c \in Range(queue')
      BY <3>1, <1>1, <1>4 DEF Pending
    <3>2. ASSUME NEW u \in Threads, c \in Range(vChecks'[u])
          PROVE  c \in Pending \ Range(vChecks[t])
      <4>1. CASE u = t
        BY <4>1, <3>2, <1>1, <1>3, <1>4 DEF Pending
      <4>2. CASE u # t
        BY <4>2, <3>2, <1>3, <1>4 DEF Pending
      <4> QED BY <4>1, <4>2
    <3> QED BY <3>1, <3>2, <2>1 DEF Pending
  <2>2. ASSUME NEW c \in Pending, c \notin Range(vChecks[t]) PROVE c \in Pending'
    <3>1. CASE c \in Range(queue)
      BY <3>1, <1>1, <1>3 DEF Pending
    <3>2. ASSUME NEW u \in Threads, c \in Range(vChecks[u]) PROVE c \in Pending'
      BY <3>2, <2>2, <1>3 DEF Pending
    <3> QED BY <3>1, <3>2, <2>2 DEF Pending
  <2> QED BY <2>1, <2>2
<1> QED
    BY <1>1, <1>3, <1>5, <1>6

\* The sets that are counted are finite.
LEMMA FinitePlaces ==
    ASSUME TypeOK
    PROVE  /\ Pending \subseteq Checks /\ IsFiniteSet(Pending)
           /\ Idlers \subseteq Threads /\ IsFiniteSet(Idlers)
           /\ Pool \subseteq Threads /\ IsFiniteSet(Pool)
<1>1. ASSUME NEW s \in Seq(Checks) PROVE Range(s) \subseteq Checks
    BY <1>1, LenProperties DEF Range
<1>2. Pending \subseteq Checks
    BY <1>1 DEF Pending, TypeOK
<1>3. Idlers \subseteq Threads /\ Pool \subseteq Threads
    BY DEF Idlers, Pool
<1> QED
    BY <1>2, <1>3, FS_Subset, ChecksAssumption, ThreadsAssumption

\* A thread's program counter after its critical section.
LEMMA LoopHeadPC ==
    ASSUME TypeOK, NEW t \in Threads, NEW allOk, NEW todo, NEW total, NEW idle,
           NEW pcs, AtLoopHead(t, allOk, todo, total, idle, pcs),
           LoopHead(t, allOk, todo, total, idle, pcs)
    PROVE  /\ pc' \in [Threads -> PC]
           /\ \A u \in Threads \ {t} :
                 \/ pc'[u] = pc[u]
                 \/ u \in Masters /\ pc[u] = "wait" /\ pc'[u] = "woken"
           /\ \A u \in Threads \ {t} :
                 /\ nNow'[u] = nNow[u] /\ next'[u] = next[u] /\ fOk'[u] = fOk[u]
                 /\ HasBatch(u)' = HasBatch(u) /\ InPool(u)' = InPool(u)
           /\ \/ /\ Return(t, allOk, todo, total, idle, pcs)
                 /\ t \in Masters /\ pc'[t] \in {"ctl", "leave"}
                 /\ ~HasBatch(t)' /\ ~InPool(t)'
              \/ /\ Sleep(t, allOk, todo, total, idle, pcs)
                 /\ pc'[t] = "wait"
                 /\ ~HasBatch(t)' /\ InPool(t)'
              \/ /\ Take(t, allOk, todo, total, idle, pcs)
                 /\ pc'[t] = "run"
                 /\ HasBatch(t)' /\ InPool(t)'
<1>1. /\ pcs \in [Threads -> PC]
      /\ \A u \in Threads : \/ pcs[u] = pc[u]
                            \/ u \in Masters /\ pc[u] = "wait" /\ pcs[u] = "woken"
    BY DEF AtLoopHead
<1>2. pc \in [Threads -> PC] /\ nNow \in [Threads -> Nat] /\ next \in [Threads -> Nat]
      /\ fOk \in [Threads -> BOOLEAN]
    BY DEF TypeOK
<1>3. \/ /\ Return(t, allOk, todo, total, idle, pcs) /\ t \in Masters
         /\ pc' = [pcs EXCEPT ![t] = IF inDtor THEN "leave" ELSE "ctl"]
      \/ /\ Sleep(t, allOk, todo, total, idle, pcs)
         /\ pc' = [pcs EXCEPT ![t] = "wait"]
      \/ /\ Take(t, allOk, todo, total, idle, pcs)
         /\ pc' = [pcs EXCEPT ![t] = "run"]
    BY DEF LoopHead, Return, Sleep, Take, fQuit
<1>4. \E p \in PC : pc' = [pcs EXCEPT ![t] = p]
    BY <1>3 DEF PC
<1>5. /\ pc' \in [Threads -> PC]
      /\ \A u \in Threads \ {t} : pc'[u] = pcs[u]
    BY <1>1, <1>4
<1>6. \A u \in Threads \ {t} :
            nNow'[u] = nNow[u] /\ next'[u] = next[u] /\ fOk'[u] = fOk[u]
    BY <1>2, <1>3 DEF Return, Sleep, Take
<1>7. \A u \in Threads \ {t} :
            HasBatch(u)' = HasBatch(u) /\ InPool(u)' = InPool(u)
    BY <1>1, <1>5, <1>6 DEF HasBatch, InPool
<1>8. \/ /\ Return(t, allOk, todo, total, idle, pcs) /\ t \in Masters
         /\ pc'[t] \in {"ctl", "leave"}
      \/ Sleep(t, allOk, todo, total, idle, pcs) /\ pc'[t] = "wait"
      \/ Take(t, allOk, todo, total, idle, pcs) /\ pc'[t] = "run"
    BY <1>1, <1>3
<1> QED
    BY <1>1, <1>5, <1>6, <1>7, <1>8 DEF HasBatch, InPool

\* The counters after a critical section are exact again.
LEMMA LoopHeadCounts ==
    ASSUME IInv, NEW t \in Threads, NEW allOk, NEW todo, NEW total, NEW idle,
           NEW pcs, AtLoopHead(t, allOk, todo, total, idle, pcs),
           LoopHead(t, allOk, todo, total, idle, pcs)
    PROVE  TodoExact' /\ PoolCountsExact' /\ nTotal' \in Nat /\ nIdle' \in Nat
<1> USE DEF IInv
<1>1. /\ total \in Nat /\ idle \in Nat
      /\ todo = Cardinality(Pending \ Range(vChecks[t]))
      /\ idle = Cardinality(Idlers \ {t})
      /\ total = Cardinality(Pool \cup {t})
    BY DEF AtLoopHead
<1>2. TodoExact'
  <2>1. nTodo' = todo
    BY DEF LoopHead, Return, Sleep, Take
  <2> QED
    BY <1>1, <2>1, LoopHeadPlaces DEF TodoExact
<1>3. /\ IsFiniteSet(Idlers \ {t}) /\ IsFiniteSet(Pool \cup {t})
      /\ IsFiniteSet((Pool \cup {t}) \ {t})
    BY FinitePlaces, FS_RemoveElement, FS_AddElement
<1>4. Cardinality((Idlers \ {t}) \cup {t}) = idle + 1
    BY <1>1, <1>3, FS_AddElement
<1>5. Cardinality((Pool \cup {t}) \ {t}) = total - 1
    BY <1>1, <1>3, FS_RemoveElement
<1>6. Cardinality((Pool \cup {t}) \ {t}) \in Nat
    BY <1>3, FS_CardinalityType
<1>counts. PoolCountsExact' <=> /\ nIdle' = Cardinality(Idlers')
                                /\ nTotal' = Cardinality(Pool')
    BY DEF PoolCountsExact, Idlers, Pool
<1>7. CASE Return(t, allOk, todo, total, idle, pcs) /\ pc'[t] \in {"ctl", "leave"}
           /\ ~InPool(t)'
  <2>1. nIdle' = idle /\ nTotal' = total - 1
    BY <1>7 DEF Return
  <2>2. Idlers' = Idlers \ {t}
    BY <1>7, LoopHeadPC DEF Idlers
  <2>3. Pool' = (Pool \cup {t}) \ {t}
    BY <1>7, LoopHeadPC DEF Pool
  <2> QED
    BY <1>1, <1>5, <1>6, <2>1, <2>2, <2>3, <1>2, <1>counts
<1>8. CASE Sleep(t, allOk, todo, total, idle, pcs) /\ pc'[t] = "wait" /\ InPool(t)'
  <2>1. nIdle' = idle + 1 /\ nTotal' = total
    BY <1>8 DEF Sleep
  <2>2. Idlers' = (Idlers \ {t}) \cup {t}
    BY <1>8, LoopHeadPC DEF Idlers
  <2>3. Pool' = Pool \cup {t}
    BY <1>8, LoopHeadPC DEF Pool
  <2> QED
    BY <1>1, <1>4, <2>1, <2>2, <2>3, <1>2, <1>counts
<1>9. CASE Take(t, allOk, todo, total, idle, pcs) /\ pc'[t] = "run" /\ InPool(t)'
  <2>1. nIdle' = idle /\ nTotal' = total
    BY <1>9 DEF Take
  <2>2. Idlers' = Idlers \ {t}
    BY <1>9, LoopHeadPC DEF Idlers
  <2>3. Pool' = Pool \cup {t}
    BY <1>9, LoopHeadPC DEF Pool
  <2> QED
    BY <1>1, <2>1, <2>2, <2>3, <1>2, <1>counts
<1> QED
    BY <1>2, <1>7, <1>8, <1>9, LoopHeadPC

\* A master that is inside Loop owns ControlMutex, has no verdict yet and is
\* the only master that is not "off".
LEMMA MasterInLoop ==
    ASSUME Ownership, NEW m \in Masters, pc[m] \in {"lock", "wait", "woken", "run"}
    PROVE  /\ ControlMutex = m /\ ~fDone
           /\ \A u \in Masters \ {m} : pc[u] = "off"
BY DEF Ownership

\* Types, ownership and the shape of the batches after a critical section.
LEMMA LoopHeadShape ==
    ASSUME IInv, NEW t \in Threads, NEW allOk, NEW todo, NEW total, NEW idle,
           NEW pcs, AtLoopHead(t, allOk, todo, total, idle, pcs),
           LoopHead(t, allOk, todo, total, idle, pcs)
    PROVE  TypeOK' /\ Ownership' /\ BatchShape'
<1> USE DEF IInv
<1>1. /\ total \in Nat /\ idle \in Nat /\ todo \in Nat /\ allOk \in BOOLEAN
      /\ pc[t] \in {"lock", "woken"}
    BY DEF AtLoopHead
<1>2. /\ queue' \in Seq(Checks) /\ vChecks' \in [Threads -> Seq(Checks)]
      /\ \A u \in Threads \ {t} : vChecks'[u] = vChecks[u]
    BY <1>1, LoopHeadPlaces
<1>3. TypeOK'
  <2>1. nTodo' = todo /\ fAllOk' \in BOOLEAN /\ result' \in BOOLEAN
        /\ fDone' \in BOOLEAN
    BY <1>1 DEF LoopHead, Return, Sleep, Take, TypeOK, control
  <2>2. next' \in [Threads -> Nat]
    <3>1. next' = [next EXCEPT ![t] = 0]
      BY DEF LoopHead, Return, Sleep, Take
    <3> QED BY <3>1 DEF TypeOK
  <2>3. nNow' \in [Threads -> Nat] /\ fOk' \in [Threads -> BOOLEAN]
    <3>1. CASE Take(t, allOk, todo, total, idle, pcs)
      <4>1. BatchSize(Len(queue), total, idle) \in 1..Len(queue)
        BY <1>1, <3>1, EmptySeq, BatchSizeRange DEF Take, TypeOK
      <4>2. BatchSize(Len(queue), total, idle) \in Nat
        BY <4>1
      <4> QED BY <1>1, <3>1, <4>2 DEF Take, TypeOK
    <3>2. CASE UNCHANGED <<nNow, fOk>>
      BY <3>2 DEF TypeOK
    <3> QED BY <3>1, <3>2 DEF LoopHead, Return, Sleep
  <2>4. ControlMutex' = ControlMutex /\ inDtor' = inDtor /\ session' = session
        /\ runs' = runs
    BY DEF LoopHead, Return, Sleep, Take, control
  <2> QED
    BY <1>1, <1>2, <2>1, <2>2, <2>3, <2>4, LoopHeadPC, LoopHeadCounts DEF TypeOK
<1>4. ControlMutex' = ControlMutex
    BY DEF LoopHead, Return, Sleep, Take, control
<1>5. Ownership'
  <2>1. ASSUME NEW w \in Workers PROVE pc'[w] \notin {"ctl", "leave", "ret"}
    <3>1. w \in Threads /\ w \notin Masters
      BY ThreadsAssumption DEF Threads
    <3>2. pc[w] \notin {"ctl", "leave", "ret"}
      BY DEF Ownership
    <3>3. CASE w = t
      BY <3>1, <3>3, LoopHeadPC
    <3>4. CASE w # t
      BY <3>1, <3>2, <3>4, LoopHeadPC
    <3> QED BY <3>3, <3>4
  <2>2. ASSUME NEW m \in Masters, m # t
        PROVE  /\ pc'[m] # "off" <=> ControlMutex = m
               /\ pc'[m] # "ret"
               /\ pc'[m] \in {"lock", "wait", "woken", "run"} => ~fDone'
               /\ pc'[m] = "leave" => fDone'
    <3>1. m \in Threads \ {t}
      BY <2>2 DEF Threads
    <3>2. \/ pc'[m] = pc[m]
          \/ pc[m] = "wait" /\ pc'[m] = "woken"
      BY <3>1, LoopHeadPC
    <3>3. /\ pc[m] # "off" <=> ControlMutex = m
          /\ pc[m] # "ret"
          /\ pc[m] \in {"lock", "wait", "woken", "run"} => ~fDone
          /\ pc[m] = "leave" => fDone
      BY DEF Ownership
    <3>4. fDone' = fDone \/ pc[m] = "off"
      <4>1. CASE t \in Masters
        BY <4>1, <1>1, <2>2, MasterInLoop
      <4>2. CASE t \notin Masters
        BY <4>2 DEF LoopHead, Return, Sleep, Take, control, fQuit
      <4> QED BY <4>1, <4>2
    <3> QED BY <3>2, <3>3, <3>4
  <2>3. ASSUME t \in Masters
        PROVE  /\ pc'[t] # "off" /\ ControlMutex = t
               /\ pc'[t] # "ret"
               /\ pc'[t] \in {"lock", "wait", "woken", "run"} => ~fDone'
               /\ pc'[t] = "leave" => fDone'
    <3>1. ControlMutex = t /\ ~fDone
      BY <1>1, <2>3, MasterInLoop
    <3>2. CASE Return(t, allOk, todo, total, idle, pcs) /\ pc'[t] \in {"ctl", "leave"}
      BY <3>1, <3>2, <2>3 DEF Return
    <3>3. CASE Sleep(t, allOk, todo, total, idle, pcs) /\ pc'[t] = "wait"
      BY <3>1, <3>3 DEF Sleep, control
    <3>4. CASE Take(t, allOk, todo, total, idle, pcs) /\ pc'[t] = "run"
      BY <3>1, <3>4 DEF Take, control
    <3> QED BY <3>2, <3>3, <3>4, LoopHeadPC
  <2> QED
    BY <1>4, <2>1, <2>2, <2>3 DEF Ownership
<1>6. BatchShape'
  <2>1. ASSUME NEW u \in Threads, u # t
        PROVE  /\ pc'[u] = "run" => Len(vChecks'[u]) = nNow'[u] /\ next'[u] < nNow'[u]
               /\ pc'[u] = "lock" /\ nNow'[u] # 0 =>
                     Len(vChecks'[u]) = nNow'[u] /\ next'[u] = nNow'[u]
               /\ ~HasBatch(u)' => vChecks'[u] = <<>>
    BY <1>2, <2>1, LoopHeadPC DEF BatchShape
  <2>2. CASE vChecks'[t] = <<>> /\ pc'[t] \notin {"run", "lock"}
    BY <2>1, <2>2 DEF BatchShape
  <2>3. CASE Take(t, allOk, todo, total, idle, pcs) /\ pc'[t] = "run" /\ HasBatch(t)'
    <3> DEFINE n == BatchSize(Len(queue), total, idle)
    <3>1. n \in 1..Len(queue)
      BY <1>1, <2>3, EmptySeq, BatchSizeRange DEF Take, TypeOK
    <3>2. nNow'[t] = n /\ next'[t] = 0 /\ vChecks'[t] = Popped(n)
      BY <2>3 DEF Take, TypeOK
    <3>3. Len(Popped(n)) = n
      BY <3>1, PoppedSplits DEF TypeOK, OnePlace
    <3> HIDE DEF n
    <3> QED BY <2>1, <2>3, <3>1, <3>2, <3>3 DEF BatchShape
  <2>4. \/ vChecks'[t] = <<>> /\ pc'[t] \notin {"run", "lock"}
        \/ Take(t, allOk, todo, total, idle, pcs) /\ pc'[t] = "run" /\ HasBatch(t)'
    BY LoopHeadPC DEF Return, Sleep, TypeOK
  <2> QED
    BY <2>2, <2>3, <2>4
<1> QED
    BY <1>3, <1>5, <1>6

\* The verdict: what fAllOk, the batches and a returned result say is still
\* true after a critical section.
LEMMA LoopHeadStatus ==
    ASSUME IInv, NEW t \in Threads, NEW allOk, NEW todo, NEW total, NEW idle,
           NEW pcs, AtLoopHead(t, allOk, todo, total, idle, pcs),
           LoopHead(t, allOk, todo, total, idle, pcs)
    PROVE  StatusSound' /\ BatchSound' /\ AtMostOnce' /\ VerdictCorrect'
<1> USE DEF IInv
<1>1. /\ total \in Nat /\ idle \in Nat /\ todo \in Nat /\ allOk \in BOOLEAN
      /\ pc[t] \in {"lock", "woken"}
      /\ todo = Cardinality(Pending \ Range(vChecks[t]))
      /\ fDone \/ ControlMutex = NoOwner => allOk
      /\ ~fDone /\ ~allOk => session \cap Fails # {}
      /\ ~fDone /\ allOk =>
            \A c \in session \ (Pending \ Range(vChecks[t])) :
                c \notin Fails /\ runs[c] = 1
    BY DEF AtLoopHead
<1>2. /\ Pending' = Pending \ Range(vChecks[t])
      /\ \A u \in Threads \ {t} : vChecks'[u] = vChecks[u]
      /\ Range(queue') \subseteq Range(queue)
      /\ Range(vChecks'[t]) \subseteq Range(queue)
    BY <1>1, LoopHeadPlaces
<1>3. /\ runs' = runs /\ session' = session /\ ControlMutex' = ControlMutex
    BY DEF LoopHead, Return, Sleep, Take, control
<1>4. AtMostOnce'
    BY <1>3 DEF AtMostOnce
<1>5. ASSUME Return(t, allOk, todo, total, idle, pcs), t \in Masters
      PROVE  StatusSound' /\ VerdictCorrect'
  <2>1. fDone' = TRUE /\ fAllOk' = TRUE /\ result' = allOk /\ todo = 0
    BY <1>5 DEF Return
  <2>2. ~fDone
    BY <1>1, <1>5, MasterInLoop
  <2>3. Pending' = {}
    BY <1>1, <1>2, <2>1, FinitePlaces, FS_EmptySet, FS_Subset
  <2>4. StatusSound'
    BY <1>3, <2>1, <2>3 DEF StatusSound
  <2>5. result' <=> session \cap Fails = {}
    BY <1>1, <1>2, <2>1, <2>2, <2>3
  <2>6. result' => \A c \in session : runs[c] = 1
    BY <1>1, <1>2, <2>1, <2>2, <2>3
  <2> QED
    BY <1>3, <2>4, <2>5, <2>6 DEF VerdictCorrect
<1>6. ASSUME fDone' = fDone, result' = result, fAllOk' = allOk
      PROVE  StatusSound' /\ VerdictCorrect'
  <2>1. StatusSound'
    <3>1. Pending' \subseteq session
      BY <1>2 DEF StatusSound
    <3>2. fDone \/ ControlMutex = NoOwner => Pending' = {} /\ allOk
      BY <1>1, <1>2 DEF StatusSound
    <3> QED
      BY <1>1, <1>2, <1>3, <1>6, <3>1, <3>2 DEF StatusSound, Finished
  <2>2. VerdictCorrect'
    BY <1>3, <1>6 DEF VerdictCorrect
  <2> QED BY <2>1, <2>2
<1>7. BatchSound'
  <2>1. \A c \in Range(queue') : runs'[c] = 0
    BY <1>2, <1>3 DEF BatchSound
  <2>2. ASSUME NEW u \in Threads, u # t, HasBatch(u)'
        PROVE  /\ ~fOk'[u] => session' \cap Fails # {}
               /\ fOk'[u] => \A i \in 1..next'[u] :
                     vChecks'[u][i] \notin Fails /\ runs'[vChecks'[u][i]] = 1
               /\ \A i \in (next'[u] + 1)..Len(vChecks'[u]) :
                     runs'[vChecks'[u][i]] = 0
    <3>1. /\ HasBatch(u) /\ fOk'[u] = fOk[u] /\ next'[u] = next[u]
          /\ vChecks'[u] = vChecks[u]
      BY <1>2, <2>2, LoopHeadPC
    <3> QED BY <1>3, <3>1 DEF BatchSound
  <2>3. ASSUME HasBatch(t)'
        PROVE  /\ ~fOk'[t] => session' \cap Fails # {}
               /\ fOk'[t] => \A i \in 1..next'[t] :
                     vChecks'[t][i] \notin Fails /\ runs'[vChecks'[t][i]] = 1
               /\ \A i \in (next'[t] + 1)..Len(vChecks'[t]) :
                     runs'[vChecks'[t][i]] = 0
    <3>1. Take(t, allOk, todo, total, idle, pcs)
      BY <2>3, LoopHeadPC
    <3>2. fOk'[t] = allOk /\ next'[t] = 0 /\ queue # <<>>
      BY <3>1 DEF Take, TypeOK
    <3>3. queue[1] \in Pending
      BY <3>2, EmptySeq, LenProperties DEF TypeOK, Pending, Range
    <3>4. ~fDone
      BY <3>3 DEF StatusSound
    <3>5. vChecks'[t] \in Seq(Checks)
      BY <1>1, LoopHeadPlaces
    <3>6. \A i \in 1..Len(vChecks'[t]) : vChecks'[t][i] \in Range(queue)
      BY <3>5, <1>2, LenProperties DEF Range
    <3>7. \A i \in 1..Len(vChecks'[t]) : runs'[vChecks'[t][i]] = 0
      BY <3>6, <1>3 DEF BatchSound
    <3> QED BY <1>1, <1>3, <3>2, <3>4, <3>7
  <2> QED
    BY <2>1, <2>2, <2>3 DEF BatchSound
<1> QED
    BY <1>4, <1>5, <1>6, <1>7 DEF LoopHead, Return, Sleep, Take, control, fQuit

\* No wake-up gets lost in a critical section: a thread that goes to sleep,
\* or that leaves the queue empty, leaves somebody to carry on.
LEMMA LoopHeadWakeUps ==
    ASSUME IInv, NEW t \in Threads, NEW allOk, NEW todo, NEW total, NEW idle,
           NEW pcs, AtLoopHead(t, allOk, todo, total, idle, pcs),
           LoopHead(t, allOk, todo, total, idle, pcs)
    PROVE  NoLostWorkerWakeUp' /\ NoLostMasterWakeUp'
<1> USE DEF IInv
<1>1. /\ total \in Nat /\ idle \in Nat /\ todo \in Nat
      /\ pc[t] \in {"lock", "woken"} /\ pcs \in [Threads -> PC]
      /\ todo = Cardinality(Pending \ Range(vChecks[t]))
      /\ \A u \in Threads : \/ pcs[u] = pc[u]
                            \/ u \in Masters /\ pc[u] = "wait" /\ pcs[u] = "woken"
      /\ todo = 0 /\ t \notin Masters => \A m \in Masters : pcs[m] # "wait"
    BY DEF AtLoopHead
<1>2. Masters \subseteq Threads /\ Workers \subseteq Threads
      /\ Workers \cap Masters = {} /\ Threads = Workers \cup Masters
    BY ThreadsAssumption DEF Threads
<1>3. NoLostWorkerWakeUp'
  <2>1. CASE queue' = <<>>
    BY <2>1 DEF NoLostWorkerWakeUp
  <2>2. CASE Take(t, allOk, todo, total, idle, pcs) /\ pc'[t] = "run" /\ t \in Workers
    BY <2>2 DEF NoLostWorkerWakeUp
  <2>3. CASE Take(t, allOk, todo, total, idle, pcs) /\ t \in Masters
    <3>1. queue # <<>>
      BY <2>3 DEF Take
    <3>2. \A w \in Workers : pc'[w] = pc[w]
      BY <1>2, <2>3, LoopHeadPC
    <3> QED BY <3>1, <3>2, <1>2 DEF NoLostWorkerWakeUp, Asleep
  <2> QED
    BY <1>2, <2>1, <2>2, <2>3, LoopHeadPC DEF Return, Sleep
<1>4. NoLostMasterWakeUp'
  <2> SUFFICES ASSUME NEW m \in Masters, pc'[m] = "wait"
               PROVE  nTodo' > 0 /\ queue' = <<>> /\ \E w \in Workers : HasBatch(w)'
    BY DEF NoLostMasterWakeUp, Asleep
  <2>1. m \in Threads /\ (m = t \/ (pc[m] = "wait" /\ pcs[m] = "wait"))
    <3>1. \E p : pc' = [pcs EXCEPT ![t] = p]
      BY DEF LoopHead, Return, Sleep, Take
    <3> QED BY <1>1, <1>2, <3>1, LoopHeadPC
  <2>2. \A u \in Masters \ {m} : pc[u] = "off"
    BY <1>1, <2>1, MasterInLoop
  <2>3. Sleep(t, allOk, todo, total, idle, pcs)
    <3>1. CASE m = t
      BY <3>1, LoopHeadPC
    <3>2. CASE m # t
      <4>1. queue = <<>> /\ t \notin Masters
        BY <1>1, <2>1, <2>2, <3>2 DEF NoLostMasterWakeUp, Asleep
      <4> QED BY <4>1 DEF LoopHead, Return, Take, fQuit
    <3> QED BY <3>1, <3>2
  <2>4. queue = <<>> /\ queue' = <<>> /\ nTodo' = todo
    BY <2>3 DEF Sleep
  <2>5. todo # 0
    BY <1>1, <2>1, <2>3 DEF Sleep
  <2>6. PICK c \in Pending' : TRUE
    <3>1. Pending' = Pending \ Range(vChecks[t])
      BY <1>1, LoopHeadPlaces
    <3>2. Pending' # {}
      BY <1>1, <2>5, <3>1, FS_EmptySet
    <3> QED BY <3>2
  <2>7. PICK u \in Threads : c \in Range(vChecks'[u])
    <3>1. Range(queue') = {}
      BY <2>4 DEF Range
    <3> QED BY <2>6, <3>1 DEF Pending
  <2>8. vChecks'[u] # <<>>
    BY <2>7 DEF Range
  <2>9. HasBatch(u)'
    BY <2>8, LoopHeadShape DEF BatchShape
  <2>10. u # t
    BY <2>3, <2>8 DEF Sleep, TypeOK
  <2>11. HasBatch(u)
    BY <2>9, <2>10, LoopHeadPC
  <2>12. u \in Workers
    BY <1>2, <2>1, <2>2, <2>10, <2>11 DEF HasBatch
  <2> QED
    BY <1>1, <2>4, <2>5, <2>9, <2>12
<1> QED
    BY <1>3, <1>4

\* The rest of a critical section preserves the invariant.
LEMMA LoopHeadInv ==
    ASSUME IInv, NEW t \in Threads, NEW allOk, NEW todo, NEW total, NEW idle,
           NEW pcs, AtLoopHead(t, allOk, todo, total, idle, pcs),
           LoopHead(t, allOk, todo, total, idle, pcs)
    PROVE  IInv'
<1>1. total \in Nat /\ idle \in Nat
    BY DEF AtLoopHead
<1>2. OnePlace'
    BY <1>1, LoopHeadPlaces DEF IInv
<1> QED
    BY <1>2, LoopHeadShape, LoopHeadCounts, LoopHeadStatus, LoopHeadWakeUps DEF IInv

(***************************************************************************)
(* The three ways to the loop head.                                        *)
(***************************************************************************)

\* A thread without a batch: its first iteration, or the end of cond.wait.
LEMMA NoBatchAtLoopHead ==
    ASSUME IInv, NEW t \in Threads, pc[t] \in {"lock", "woken"}, ~HasBatch(t),
           NEW total \in Nat, total = Cardinality(Pool \cup {t}),
           NEW idle \in Nat, idle = Cardinality(Idlers \ {t})
    PROVE  AtLoopHead(t, fAllOk, nTodo, total, idle, pc)
<1> USE DEF IInv
<1>1. Pending \ Range(vChecks[t]) = Pending
  <2>1. vChecks[t] = <<>>
    BY DEF BatchShape
  <2> QED BY <2>1 DEF Range
<1>2. \A m \in Masters : pc[m] = "wait" => nTodo > 0
    BY DEF NoLostMasterWakeUp, Asleep
<1>3. ~fDone /\ fAllOk => \A c \in session \ Pending : c \notin Fails /\ runs[c] = 1
    BY DEF StatusSound, Finished
<1>4. /\ fAllOk \in BOOLEAN /\ nTodo \in Nat /\ pc \in [Threads -> PC]
      /\ nTodo = Cardinality(Pending)
    BY DEF TypeOK, TodoExact
<1>5. /\ fDone \/ ControlMutex = NoOwner => fAllOk
      /\ ~fDone /\ ~fAllOk => session \cap Fails # {}
    BY DEF StatusSound
<1>6. nTodo = 0 => \A m \in Masters : pc[m] # "wait"
    BY <1>2, <1>4
<1> QED
    BY <1>1, <1>3, <1>4, <1>5, <1>6 DEF AtLoopHead

LEMMA FirstIterationAtLoopHead ==
    ASSUME IInv, NEW t \in Threads, pc[t] = "lock", nNow[t] = 0
    PROVE  AtLoopHead(t, fAllOk, nTodo, nTotal + 1, nIdle, pc)
<1> USE DEF IInv
<1>1. ~HasBatch(t) /\ t \notin Pool /\ Idlers \ {t} = Idlers
    BY DEF HasBatch, InPool, Pool, Idlers
<1>2. Cardinality(Pool \cup {t}) = nTotal + 1
    BY <1>1, FinitePlaces, FS_AddElement DEF PoolCountsExact, Pool
<1>3. Cardinality(Idlers \ {t}) = nIdle
    BY <1>1 DEF PoolCountsExact, Idlers
<1>4. nTotal + 1 \in Nat /\ nIdle \in Nat
    BY DEF TypeOK
<1> QED
    BY <1>1, <1>2, <1>3, <1>4, NoBatchAtLoopHead

LEMMA WakeUpAtLoopHead ==
    ASSUME IInv, NEW t \in Threads, pc[t] = "woken"
    PROVE  AtLoopHead(t, fAllOk, nTodo, nTotal, nIdle - 1, pc)
<1> USE DEF IInv
<1>1. ~HasBatch(t) /\ Pool \cup {t} = Pool /\ t \in Idlers
    BY DEF HasBatch, InPool, Pool, Idlers
<1>2. Cardinality(Pool \cup {t}) = nTotal
    BY <1>1 DEF PoolCountsExact, Pool
<1>3. Cardinality(Idlers \ {t}) = nIdle - 1
    BY <1>1, FinitePlaces, FS_RemoveElement DEF PoolCountsExact, Idlers
<1>4. nTotal \in Nat /\ nIdle - 1 \in Nat
  <2>1. Cardinality(Idlers \ {t}) \in Nat
    BY FinitePlaces, FS_RemoveElement, FS_CardinalityType
  <2> QED BY <1>3, <2>1 DEF TypeOK
<1> QED
    BY <1>1, <1>2, <1>3, <1>4, NoBatchAtLoopHead

\* After a batch: nTodo - nNow does not wrap, the results of the batch are
\* merged, and the master is woken by the worker that did the last check.
LEMMA CleanUpAtLoopHead ==
    ASSUME IInv, NEW t \in Threads, pc[t] = "lock", nNow[t] # 0, NEW pcs,
           pcs \in IF nTodo - nNow[t] = 0 /\ t \notin Masters
                   THEN NotifyOne(Masters) ELSE {pc}
    PROVE  AtLoopHead(t, fAllOk /\ fOk[t], nTodo - nNow[t], nTotal, nIdle, pcs)
<1> USE DEF IInv
<1> DEFINE R == Range(vChecks[t])
<1>1. HasBatch(t)
    BY DEF HasBatch
<1>2. vChecks[t] \in Seq(Checks) /\ Len(vChecks[t]) = nNow[t]
      /\ next[t] = nNow[t] /\ nNow[t] \in Nat
    BY DEF TypeOK, BatchShape
<1>3. IsFiniteSet(R) /\ Cardinality(R) = nNow[t]
    BY <1>2, DistinctCard DEF OnePlace
<1>4. R \subseteq Pending
    BY DEF Pending
<1>5. nTodo - nNow[t] \in Nat /\ nTodo - nNow[t] = Cardinality(Pending \ R)
  <2>1. IsFiniteSet(Pending \ R) /\ Cardinality(Pending \ R) \in Nat
    BY FinitePlaces, FS_Subset, FS_CardinalityType
  <2>2. (Pending \ R) \cap R = {} /\ (Pending \ R) \cup R = Pending
    BY <1>4
  <2>3. Cardinality(Pending) =
          Cardinality(Pending \ R) + Cardinality(R) - Cardinality({})
    BY <1>3, <2>1, <2>2, FS_Union
  <2> QED
    BY <1>2, <1>3, <2>1, <2>3, FS_EmptySet DEF TodoExact
<1>6. nIdle = Cardinality(Idlers \ {t}) /\ nTotal = Cardinality(Pool \cup {t})
  <2>1. Idlers \ {t} = Idlers /\ Pool \cup {t} = Pool
    BY <1>1 DEF Idlers, Pool, InPool
  <2> QED BY <2>1 DEF PoolCountsExact, Idlers, Pool
<1>7. R # {}
  <2>1. 1 \in DOMAIN vChecks[t]
    BY <1>2, LenProperties
  <2> QED BY <2>1 DEF Range
<1>8. ~fDone /\ ControlMutex # NoOwner
    BY <1>4, <1>7 DEF StatusSound
<1>9. /\ pcs \in [Threads -> PC]
      /\ \A u \in Threads : \/ pcs[u] = pc[u]
                            \/ u \in Masters /\ pc[u] = "wait" /\ pcs[u] = "woken"
      /\ nTodo - nNow[t] = 0 /\ t \notin Masters =>
            \A m \in Masters : pcs[m] # "wait"
  <2>1. pc \in [Threads -> PC] /\ Masters \subseteq Threads
    BY DEF TypeOK, Threads
  <2>2. CASE pcs = pc /\ ~(nTodo - nNow[t] = 0 /\ t \notin Masters)
    BY <2>1, <2>2
  <2>3. CASE pcs = pc /\ Asleep(Masters) = {}
    BY <2>1, <2>3 DEF Asleep
  <2>4. ASSUME NEW m \in Masters, pc[m] = "wait",
               pcs = [pc EXCEPT ![m] = "woken"]
        PROVE  <1>9!1 /\ <1>9!2 /\ \A u \in Masters : pcs[u] # "wait"
    <3>1. \A u \in Masters \ {m} : pc[u] = "off"
      BY <2>4, MasterInLoop
    <3> QED BY <2>1, <2>4, <3>1 DEF PC
  <2> QED
    BY <2>2, <2>3, <2>4 DEF NotifyOne, Asleep
<1>11. ~(fAllOk /\ fOk[t]) => session \cap Fails # {}
  <2>1. ~fAllOk => session \cap Fails # {}
    BY <1>8 DEF StatusSound
  <2>2. ~fOk[t] => session \cap Fails # {}
    BY <1>1 DEF BatchSound
  <2> QED BY <2>1, <2>2
<1>12. ASSUME fAllOk, fOk[t], NEW c \in session \ (Pending \ R)
       PROVE  c \notin Fails /\ runs[c] = 1
  <2>1. CASE c \in R
    <3>1. PICK i \in 1..nNow[t] : c = vChecks[t][i]
      BY <1>2, <2>1, LenProperties DEF Range
    <3> QED BY <1>1, <1>2, <1>12, <3>1 DEF BatchSound
  <2>2. CASE c \notin R
    BY <1>8, <1>12, <2>2 DEF StatusSound, Finished
  <2> QED BY <2>1, <2>2
<1> QED
    BY <1>5, <1>6, <1>8, <1>9, <1>11, <1>12 DEF AtLoopHead, TypeOK

(***************************************************************************)
(* Steps that leave the checks alone: a thread enters Loop, is woken, or   *)
(* comes to and goes from a controller.                                    *)
(***************************************************************************)
LEMMA QuietStep ==
    ASSUME IInv,
           UNCHANGED <<queue, nIdle, nTotal, fAllOk, nTodo, vChecks, runs,
                       session, fDone, result>>,
           \A u \in Threads :
              \/ /\ pc'[u] = pc[u] /\ nNow'[u] = nNow[u]
                 /\ next'[u] = next[u] /\ fOk'[u] = fOk[u]
              \/ /\ ~HasBatch(u) /\ ~HasBatch(u)'
                 /\ pc'[u] \in {"wait", "woken"} <=> pc[u] \in {"wait", "woken"}
                 /\ pc'[u] = "wait" => pc[u] = "wait"
                 /\ pc[u] \in {"lock", "woken"} => pc'[u] \in {"lock", "woken"},
           ControlMutex' = ControlMutex \/ (ControlMutex' = NoOwner /\ fDone),
           TypeOK', Ownership'
    PROVE  IInv'
<1> USE DEF IInv
<1>1. \A u \in Threads : /\ HasBatch(u)' = HasBatch(u)
                         /\ InPool(u)' = InPool(u)
                         /\ HasBatch(u) => /\ pc'[u] = pc[u] /\ nNow'[u] = nNow[u]
                                           /\ next'[u] = next[u] /\ fOk'[u] = fOk[u]
    BY DEF HasBatch, InPool
<1>2. Workers \subseteq Threads /\ Masters \subseteq Threads
    BY DEF Threads
<1>3. BatchShape'
    BY <1>1 DEF BatchShape, HasBatch
<1>4. OnePlace' /\ TodoExact' /\ AtMostOnce' /\ VerdictCorrect'
    BY DEF OnePlace, TodoExact, Pending, AtMostOnce, VerdictCorrect
<1>5. PoolCountsExact'
  <2>1. Pool' = Pool
    BY <1>1 DEF Pool
  <2>2. Idlers' = Idlers
    BY DEF Idlers
  <2> QED BY <2>1, <2>2 DEF PoolCountsExact, Pool, Idlers
<1>6. StatusSound'
    BY DEF StatusSound, Pending, Finished
<1>7. BatchSound'
    BY <1>1 DEF BatchSound
<1>8. NoLostWorkerWakeUp'
    BY <1>2 DEF NoLostWorkerWakeUp, Asleep, HasBatch
<1>9. NoLostMasterWakeUp'
    BY <1>1, <1>2 DEF NoLostMasterWakeUp, Asleep
<1> QED
    BY <1>3, <1>4, <1>5, <1>6, <1>7, <1>8, <1>9

\* A thread outside Loop has no batch: entering Loop clears nothing.
LEMMA EnterLoopFacts ==
    ASSUME IInv, NEW t \in Threads, pc[t] \in {"off", "ctl"}, EnterLoop(t)
    PROVE  /\ vChecks' = vChecks /\ pc' = [pc EXCEPT ![t] = "lock"]
           /\ next' \in [Threads -> Nat] /\ nNow' \in [Threads -> Nat]
           /\ fOk' \in [Threads -> BOOLEAN]
           /\ ~HasBatch(t) /\ ~HasBatch(t)'
           /\ \A u \in Threads \ {t} :
                 /\ pc'[u] = pc[u] /\ nNow'[u] = nNow[u]
                 /\ next'[u] = next[u] /\ fOk'[u] = fOk[u]
<1> USE DEF IInv
<1>1. ~HasBatch(t)
    BY DEF HasBatch
<1>2. vChecks[t] = <<>>
    BY <1>1 DEF BatchShape
<1> QED
    BY <1>1, <1>2 DEF EnterLoop, TypeOK, HasBatch

LEMMA SpuriousWakeUpInv ==
    ASSUME IInv, NEW t \in Threads, SpuriousWakeUp(t)
    PROVE  IInv'
<1> USE DEF IInv, SpuriousWakeUp, shared, locals, control
<1>1. TypeOK'
    BY DEF TypeOK, PC
<1>2. Ownership'
    BY ThreadsAssumption DEF Ownership, TypeOK, Threads
<1>3. \A u \in Threads : u # t => pc'[u] = pc[u]
    BY DEF TypeOK
<1>4. pc[t] = "wait" /\ pc'[t] = "woken" /\ ~HasBatch(t) /\ ~HasBatch(t)'
    BY DEF TypeOK, HasBatch
<1> QED
    BY <1>1, <1>2, <1>3, <1>4, QuietStep

\* A worker that starts, or a master without a verdict that waits.
LEMMA EnterLoopInv ==
    ASSUME IInv, NEW t \in Threads, EnterLoop(t),
           \/ t \in Workers /\ pc[t] = "off"
           \/ t \in Masters /\ pc[t] = "ctl" /\ ~fDone,
           UNCHANGED <<shared, ControlMutex, fDone, result, session, runs>>,
           inDtor' \in BOOLEAN
    PROVE  IInv'
<1> USE DEF shared
<1>1. /\ vChecks' = vChecks /\ pc' = [pc EXCEPT ![t] = "lock"]
      /\ next' \in [Threads -> Nat] /\ nNow' \in [Threads -> Nat]
      /\ fOk' \in [Threads -> BOOLEAN]
      /\ ~HasBatch(t) /\ ~HasBatch(t)'
      /\ \A u \in Threads \ {t} :
            /\ pc'[u] = pc[u] /\ nNow'[u] = nNow[u]
            /\ next'[u] = next[u] /\ fOk'[u] = fOk[u]
    BY EnterLoopFacts
<1>2. TypeOK'
    BY <1>1 DEF IInv, TypeOK, PC
<1>3. pc'[t] = "lock"
    BY <1>1 DEF IInv, TypeOK
<1>4. Workers \subseteq Threads /\ Masters \subseteq Threads
      /\ Workers \cap Masters = {}
    BY ThreadsAssumption DEF Threads
<1>5. Ownership'
  <2>1. Ownership
    BY DEF IInv
  <2>2. \A w \in Workers : pc'[w] \notin {"ctl", "leave", "ret"}
    BY <1>1, <1>3, <1>4, <2>1 DEF Ownership
  <2>3. ASSUME NEW m \in Masters
        PROVE  /\ pc'[m] # "off" <=> ControlMutex' = m
               /\ pc'[m] # "ret"
               /\ pc'[m] \in {"lock", "wait", "woken", "run"} => ~fDone'
               /\ pc'[m] = "leave" => fDone'
    <3>1. CASE m = t
      BY <1>3, <1>4, <2>1, <3>1 DEF Ownership
    <3>2. CASE m # t
      BY <1>1, <1>4, <2>1, <3>2 DEF Ownership
    <3> QED BY <3>1, <3>2
  <2> QED BY <2>2, <2>3 DEF Ownership
<1>6. \A u \in Threads :
         \/ /\ pc'[u] = pc[u] /\ nNow'[u] = nNow[u]
            /\ next'[u] = next[u] /\ fOk'[u] = fOk[u]
         \/ /\ ~HasBatch(u) /\ ~HasBatch(u)'
            /\ pc'[u] \in {"wait", "woken"} <=> pc[u] \in {"wait", "woken"}
            /\ pc'[u] = "wait" => pc[u] = "wait"
            /\ pc[u] \in {"lock", "woken"} => pc'[u] \in {"lock", "woken"}
    BY <1>1, <1>3
<1> QED
    BY <1>1, <1>2, <1>5, <1>6, QuietStep

LEMMA ThreadInv ==
    ASSUME IInv, NEW w \in Workers, Thread(w)
    PROVE  IInv'
<1>1. w \in Threads
    BY DEF Threads
<1>2. inDtor' \in BOOLEAN
    BY DEF Thread, control, IInv, TypeOK
<1> QED
    BY <1>1, <1>2, EnterLoopInv DEF Thread, control, shared

LEMMA WaitInv ==
    ASSUME IInv, NEW m \in Masters, Wait(m), ~fDone
    PROVE  IInv'
<1>1. m \in Threads
    BY DEF Threads
<1>2. inDtor' \in BOOLEAN
    BY DEF Wait, control, IInv, TypeOK
<1> QED
    BY <1>1, <1>2, EnterLoopInv DEF Wait, control, shared

LEMMA DestroyInv ==
    ASSUME IInv, NEW m \in Masters, Destroy(m)
    PROVE  IInv'
<1> USE DEF IInv, Destroy, shared
<1>1. m \in Threads /\ m \notin Workers
    BY ThreadsAssumption DEF Threads
<1>2. CASE fDone
  <2>1. TypeOK'
    BY <1>2 DEF TypeOK, PC, locals
  <2>2. Ownership'
    BY <1>1, <1>2 DEF Ownership, TypeOK, Threads, locals
  <2>3. ~HasBatch(m) /\ ~HasBatch(m)' /\ pc[m] = "ctl" /\ pc'[m] = "leave"
    BY <1>1, <1>2 DEF HasBatch, TypeOK
  <2>4. \A u \in Threads : u # m => pc'[u] = pc[u]
    BY <1>2 DEF TypeOK
  <2> QED
    BY <1>1, <1>2, <2>1, <2>2, <2>3, <2>4, QuietStep DEF locals
<1>3. CASE ~fDone
    BY <1>1, <1>3, EnterLoopInv
<1> QED
    BY <1>2, <1>3

LEMMA LeaveInv ==
    ASSUME IInv, NEW m \in Masters, Leave(m)
    PROVE  IInv'
<1> USE DEF IInv, Leave, shared, locals
<1>1. m \in Threads /\ m \notin Workers
    BY ThreadsAssumption DEF Threads
<1>2. fDone /\ ControlMutex = m
    BY DEF Ownership
<1>3. TypeOK'
    BY DEF TypeOK, PC
<1>4. pc'[m] = "off" /\ \A u \in Threads : u # m => pc'[u] = pc[u]
    BY <1>1 DEF TypeOK
<1>5. Ownership'
    BY <1>1, <1>2, <1>4, ThreadsAssumption DEF Ownership, Threads
<1>6. ~HasBatch(m) /\ ~HasBatch(m)'
    BY <1>4 DEF HasBatch
<1> QED
    BY <1>1, <1>2, <1>3, <1>4, <1>5, <1>6, QuietStep

\* A thread that has a batch has checks in it.
LEMMA BatchIsPending ==
    ASSUME TypeOK, BatchShape, NEW t \in Threads, HasBatch(t)
    PROVE  Pending # {}
<1>1. vChecks[t] \in Seq(Checks) /\ Len(vChecks[t]) # 0
    BY DEF TypeOK, BatchShape, HasBatch
<1>2. 1 \in DOMAIN vChecks[t]
    BY <1>1, LenProperties
<1> QED
    BY <1>2 DEF Pending, Range

LEMMA ConstructInv ==
    ASSUME IInv, NEW m \in Masters, Construct(m)
    PROVE  IInv'
<1>1. /\ TypeOK /\ Ownership /\ BatchShape /\ OnePlace /\ TodoExact
      /\ PoolCountsExact /\ StatusSound /\ BatchSound /\ AtMostOnce
      /\ NoLostWorkerWakeUp /\ NoLostMasterWakeUp
    BY DEF IInv
<1>2. /\ m \in Threads /\ m \notin Workers /\ m # NoOwner
      /\ Workers \subseteq Threads /\ Masters \subseteq Threads
    BY ThreadsAssumption DEF Threads
<1>3. /\ UNCHANGED <<queue, nIdle, nTotal, fAllOk, nTodo>>
      /\ UNCHANGED <<vChecks, next, nNow, fOk, result, runs>>
      /\ fDone' = FALSE /\ session' = {} /\ ControlMutex' = m /\ inDtor' = FALSE
      /\ pc[m] = "off" /\ pc'[m] = "ctl" /\ ControlMutex = NoOwner
      /\ pc' \in [Threads -> PC]
      /\ \A u \in Threads : u # m => pc'[u] = pc[u]
    BY <1>1, <1>2 DEF Construct, TypeOK, PC, shared, locals
<1>4. Pending = {} /\ fAllOk
    BY <1>1, <1>3 DEF StatusSound
<1>5. Pending' = {} /\ Range(queue') = {}
    BY <1>3, <1>4 DEF Pending
<1>6. \A u \in Threads : ~HasBatch(u) /\ ~HasBatch(u)' /\ InPool(u)' = InPool(u)
    BY <1>1, <1>2, <1>3, <1>4, BatchIsPending DEF HasBatch, InPool
<1>7. TypeOK'
    BY <1>1, <1>3 DEF TypeOK
<1>8. Ownership'
  <2>1. \A u \in Masters : pc[u] = "off"
    BY <1>1, <1>3, ThreadsAssumption DEF Ownership
  <2>2. \A u \in Masters : u # m => pc'[u] = "off"
    BY <1>2, <1>3, <2>1
  <2>3. \A w \in Workers : pc'[w] = pc[w]
    BY <1>2, <1>3
  <2> QED BY <1>1, <1>2, <1>3, <2>2, <2>3 DEF Ownership
<1>9. BatchShape'
    BY <1>1, <1>3, <1>6 DEF BatchShape, HasBatch
<1>10. OnePlace' /\ AtMostOnce' /\ VerdictCorrect' /\ TodoExact'
    BY <1>1, <1>3, <1>4, <1>5 DEF OnePlace, AtMostOnce, VerdictCorrect, TodoExact
<1>11. PoolCountsExact'
  <2>1. Pool' = Pool
    BY <1>6 DEF Pool
  <2>2. Idlers' = Idlers
    BY <1>3 DEF Idlers
  <2> QED BY <1>1, <1>3, <2>1, <2>2 DEF PoolCountsExact, Pool, Idlers
<1>12. StatusSound' /\ BatchSound'
    BY <1>2, <1>3, <1>4, <1>5, <1>6 DEF StatusSound, BatchSound, Finished
<1>13. NoLostWorkerWakeUp' /\ NoLostMasterWakeUp'
    BY <1>1, <1>2, <1>3, <1>6 DEF NoLostWorkerWakeUp, NoLostMasterWakeUp, Asleep
<1> QED
    BY <1>7, <1>8, <1>9, <1>10, <1>11, <1>12, <1>13 DEF IInv

LEMMA AddInv ==
    ASSUME IInv, NEW m \in Masters, NEW checks \in AddInputs, Add(m, checks), ~fDone
    PROVE  IInv'
<1> DEFINE R == Range(checks)
<1>1. /\ TypeOK /\ Ownership /\ BatchShape /\ OnePlace /\ TodoExact
      /\ PoolCountsExact /\ StatusSound /\ BatchSound /\ AtMostOnce
      /\ NoLostWorkerWakeUp /\ NoLostMasterWakeUp
    BY DEF IInv
<1>2. /\ m \in Threads /\ m # NoOwner
      /\ Workers \subseteq Threads /\ Masters \subseteq Threads
      /\ Workers \cap Masters = {}
    BY ThreadsAssumption DEF Threads
<1>3. /\ checks \in Seq(Checks)
      /\ \A i, j \in DOMAIN checks : checks[i] = checks[j] => i = j
      /\ R \cap Pending = {} /\ R \cap session = {}
    BY NumbersAssumption, SeqDef DEF AddInputs
<1>4. /\ queue' = queue \o checks /\ nTodo' = nTodo + Len(checks)
      /\ session' = session \cup R
      /\ UNCHANGED <<nIdle, nTotal, fAllOk, ControlMutex, fDone, inDtor, result>>
      /\ UNCHANGED <<vChecks, next, nNow, fOk>>
      /\ pc[m] = "ctl"
    BY DEF Add, locals
<1>5. /\ runs' = [c \in Checks |-> IF c \in R THEN 0 ELSE runs[c]]
    BY DEF Add
<1>6. /\ pc' \in [Threads -> PC]
      /\ \A u \in Threads : \/ pc'[u] = pc[u]
                            \/ u \in Workers /\ pc[u] = "wait" /\ pc'[u] = "woken"
      /\ Len(checks) > 0 =>
            \/ \A w \in Workers : pc'[w] # "wait"
            \/ \E w \in Workers : pc'[w] = "woken"
  <2>1. pc \in [Threads -> PC]
    BY <1>1 DEF TypeOK
  <2>2. CASE pc' = pc /\ (Len(checks) = 0 \/ Asleep(Workers) = {})
    BY <1>2, <1>3, <2>1, <2>2 DEF Asleep
  <2>3. ASSUME NEW w \in Workers, pc[w] = "wait", pc' = [pc EXCEPT ![w] = "woken"]
        PROVE  <1>6!1 /\ <1>6!2 /\ pc'[w] = "woken"
    BY <1>2, <2>1, <2>3 DEF PC
  <2>4. CASE pc' = NotifyAll(Workers)
    BY <1>2, <2>1, <2>4 DEF NotifyAll, Asleep, PC
  <2>5. pc' \in IF Len(checks) = 0 THEN {pc}
               ELSE IF Len(checks) = 1 THEN NotifyOne(Workers)
               ELSE {NotifyAll(Workers)}
    BY DEF Add
  <2> QED
    BY <2>2, <2>3, <2>4, <2>5 DEF NotifyOne, Asleep
<1>7. \A u \in Threads : HasBatch(u)' = HasBatch(u) /\ InPool(u)' = InPool(u)
    BY <1>4, <1>6 DEF HasBatch, InPool
<1>8. /\ queue \in Seq(Checks) /\ Range(queue) \cap R = {}
      /\ \A i, j \in DOMAIN queue : queue[i] = queue[j] => i = j
      /\ Len(checks) \in Nat
    BY <1>1, <1>3, LenProperties DEF TypeOK, OnePlace, Pending
<1>9. /\ queue' \in Seq(Checks) /\ Range(queue') = Range(queue) \cup R
      /\ \A i, j \in DOMAIN queue' : queue'[i] = queue'[j] => i = j
    BY <1>3, <1>4, <1>8, ConcatDistinct
<1>10. Pending' = Pending \cup R
    BY <1>4, <1>9 DEF Pending
<1>11. TypeOK'
  <2>1. R \subseteq Checks
    BY <1>3, LenProperties DEF Range
  <2>2. runs' \in [Checks -> Nat]
    BY <1>1, <1>5 DEF TypeOK
  <2> QED BY <1>1, <1>4, <1>6, <1>9, <2>1, <2>2 DEF TypeOK
<1>12. Ownership'
    BY <1>1, <1>2, <1>4, <1>6 DEF Ownership
<1>13. BatchShape'
    BY <1>1, <1>4, <1>6, <1>7 DEF BatchShape
<1>14. OnePlace'
  <2>1. \A u \in Threads : Range(vChecks[u]) \cap R = {}
    BY <1>3 DEF Pending
  <2>2. \A u \in Threads : Range(vChecks'[u]) \cap Range(queue') = {}
    BY <1>1, <1>4, <1>9, <2>1 DEF OnePlace
  <2> QED BY <1>1, <1>4, <1>9, <2>2 DEF OnePlace
<1>15. TodoExact'
  <2>1. IsFiniteSet(R) /\ Cardinality(R) = Len(checks)
    BY <1>3, DistinctCard
  <2>2. Cardinality(Pending \cup R) =
          Cardinality(Pending) + Cardinality(R) - Cardinality(Pending \cap R)
    BY <1>1, <2>1, FinitePlaces, FS_Union
  <2>3. Cardinality(Pending \cap R) = 0 /\ Cardinality(Pending) \in Nat
    BY <1>1, <1>3, FinitePlaces, FS_EmptySet, FS_CardinalityType
  <2> QED BY <1>1, <1>4, <1>8, <1>10, <2>1, <2>2, <2>3 DEF TodoExact
<1>16. PoolCountsExact'
  <2>1. Pool' = Pool
    BY <1>7 DEF Pool
  <2>2. Idlers' = Idlers
    BY <1>6 DEF Idlers
  <2> QED BY <1>1, <1>4, <2>1, <2>2 DEF PoolCountsExact, Pool, Idlers
<1>17. ControlMutex = m
    BY <1>1, <1>4 DEF Ownership
<1>18. StatusSound'
  <2>1. \A c \in Finished' : c \in Finished /\ c \notin R
    BY <1>4, <1>10 DEF Finished
  <2>2. \A c \in Finished' : runs'[c] = runs[c]
    BY <1>1, <1>5, <2>1 DEF Finished, TypeOK
  <2> QED BY <1>1, <1>2, <1>4, <1>10, <1>17, <2>1, <2>2 DEF StatusSound
<1>19. AtMostOnce'
    BY <1>1, <1>5 DEF AtMostOnce
<1>20. BatchSound'
  <2>1. \A c \in Range(queue') : runs'[c] = 0
    <3>1. R \subseteq Checks /\ Range(queue) \subseteq Checks
      BY <1>1, <1>3, LenProperties DEF Range, TypeOK
    <3> QED BY <1>1, <1>5, <1>9, <3>1 DEF BatchSound
  <2>2. ASSUME NEW u \in Threads, NEW i \in 1..Len(vChecks[u])
        PROVE  runs'[vChecks[u][i]] = runs[vChecks[u][i]]
    <3>1. vChecks[u][i] \in Checks /\ vChecks[u][i] \in Pending
      BY <1>1, LenProperties DEF TypeOK, Pending, Range
    <3> QED BY <1>3, <1>5, <3>1
  <2>3. \A u \in Threads : HasBatch(u) =>
           next[u] \in Nat /\ next[u] <= Len(vChecks[u]) /\ Len(vChecks[u]) \in Nat
    BY <1>1, LenProperties DEF BatchShape, HasBatch, TypeOK
  <2>4. \A u \in Threads : HasBatch(u) =>
           /\ \A i \in 1..next[u] : i \in 1..Len(vChecks[u])
           /\ \A i \in (next[u] + 1)..Len(vChecks[u]) : i \in 1..Len(vChecks[u])
    BY <2>3
  <2>5. ASSUME NEW u \in Threads, HasBatch(u)
        PROVE  /\ ~fOk[u] => session' \cap Fails # {}
               /\ fOk[u] => \A i \in 1..next[u] :
                     vChecks[u][i] \notin Fails /\ runs'[vChecks[u][i]] = 1
               /\ \A i \in (next[u] + 1)..Len(vChecks[u]) :
                     runs'[vChecks[u][i]] = 0
    <3>1. /\ ~fOk[u] => session \cap Fails # {}
          /\ fOk[u] => \A i \in 1..next[u] :
                vChecks[u][i] \notin Fails /\ runs[vChecks[u][i]] = 1
          /\ \A i \in (next[u] + 1)..Len(vChecks[u]) : runs[vChecks[u][i]] = 0
      BY <1>1, <2>5 DEF BatchSound
    <3>2. ~fOk[u] => session' \cap Fails # {}
      BY <1>4, <3>1
    <3>3. ASSUME fOk[u], NEW i \in 1..next[u]
          PROVE  vChecks[u][i] \notin Fails /\ runs'[vChecks[u][i]] = 1
      BY <2>2, <2>4, <2>5, <3>1, <3>3
    <3>4. ASSUME NEW i \in (next[u] + 1)..Len(vChecks[u])
          PROVE  runs'[vChecks[u][i]] = 0
      BY <2>2, <2>4, <2>5, <3>1, <3>4
    <3> QED BY <3>2, <3>3, <3>4
  <2> QED BY <1>4, <1>7, <2>1, <2>5 DEF BatchSound
<1>21. VerdictCorrect'
    BY <1>4 DEF VerdictCorrect
<1>22. NoLostWorkerWakeUp'
  <2>1. CASE Len(checks) = 0
    <3>1. queue' = queue
      BY <1>1, <1>3, <1>4, <2>1, EmptySeq, ConcatEmptySeq DEF TypeOK
    <3> QED BY <1>1, <1>2, <1>6, <3>1 DEF NoLostWorkerWakeUp, Asleep
  <2>2. CASE Len(checks) > 0
    BY <1>2, <1>6, <2>2 DEF NoLostWorkerWakeUp, Asleep
  <2> QED BY <1>8, <2>1, <2>2
<1>23. NoLostMasterWakeUp'
  <2>1. \A u \in Masters : pc'[u] # "wait"
    BY <1>1, <1>2, <1>4, <1>6, <1>17 DEF Ownership
  <2> QED BY <2>1 DEF NoLostMasterWakeUp, Asleep
<1> QED
    BY <1>11, <1>12, <1>13, <1>14, <1>15, <1>16, <1>18, <1>19, <1>20, <1>21,
       <1>22, <1>23 DEF IInv

\* One turn of the for loop.  The check it executes is in no other place,
\* so no other batch and nothing that is finished sees runs change.
LEMMA RunCheckInv ==
    ASSUME IInv, NEW t \in Threads, RunCheck(t)
    PROVE  IInv'
<1> DEFINE k == next[t] + 1
           c == vChecks[t][k]
           n == Len(vChecks[t])
<1>1. /\ TypeOK /\ Ownership /\ BatchShape /\ OnePlace /\ TodoExact
      /\ PoolCountsExact /\ StatusSound /\ BatchSound /\ AtMostOnce
      /\ VerdictCorrect /\ NoLostWorkerWakeUp /\ NoLostMasterWakeUp
    BY DEF IInv
<1>2. /\ vChecks[t] \in Seq(Checks) /\ n = nNow[t] /\ pc[t] = "run"
      /\ next[t] \in Nat /\ nNow[t] \in Nat /\ next[t] < nNow[t]
      /\ DOMAIN vChecks[t] = 1..n /\ k \in 1..n
    BY <1>1, LenProperties DEF RunCheck, TypeOK, BatchShape
<1>3. c \in Range(vChecks[t]) /\ c \in Checks /\ c \in Pending
    BY <1>2, ElementOfSeq DEF Range, Pending
<1>4. ~fDone /\ ControlMutex # NoOwner /\ c \in session
    BY <1>1, <1>3 DEF StatusSound
<1>5. /\ UNCHANGED <<queue, nIdle, nTotal, fAllOk, nTodo, vChecks, nNow>>
      /\ UNCHANGED <<ControlMutex, fDone, inDtor, result, session>>
    BY DEF RunCheck, shared, control
<1>6. /\ next'[t] = k /\ next' \in [Threads -> Nat]
      /\ \A u \in Threads : u # t => next'[u] = next[u]
    BY <1>1, <1>2 DEF RunCheck, TypeOK
<1>7. /\ pc' \in [Threads -> PC]
      /\ pc'[t] = IF k = n THEN "lock" ELSE "run"
      /\ \A u \in Threads : u # t => pc'[u] = pc[u]
    BY <1>1, <1>2 DEF RunCheck, TypeOK, PC
<1>8. HasBatch(t) /\ runs[c] = 0
  <2>1. HasBatch(t)
    BY <1>2 DEF HasBatch
  <2> QED BY <1>1, <1>2, <2>1 DEF BatchSound
<1>9. /\ runs' \in [Checks -> Nat] /\ fOk' \in [Threads -> BOOLEAN]
      /\ \A d \in Checks : d # c => runs'[d] = runs[d]
      /\ \A u \in Threads : u # t => fOk'[u] = fOk[u]
      /\ runs'[c] <= 1
  <2>1. /\ runs \in [Checks -> Nat] /\ fOk \in [Threads -> BOOLEAN]
    BY <1>1 DEF TypeOK
  <2>2. CASE fOk[t]
    <3>1. runs' = [runs EXCEPT ![c] = @ + 1] /\ fOk' = [fOk EXCEPT ![t] = c \notin Fails]
      BY <2>2 DEF RunCheck
    <3> QED BY <1>3, <1>8, <2>1, <3>1
  <2>3. CASE ~fOk[t]
    <3>1. runs' = runs /\ fOk' = fOk
      BY <2>3 DEF RunCheck
    <3> QED BY <1>3, <1>8, <2>1, <3>1
  <2> QED BY <2>2, <2>3
<1>10. \A u \in Threads : HasBatch(u)' = HasBatch(u) /\ InPool(u)' = InPool(u)
  <2>1. HasBatch(t)' /\ HasBatch(t)
    BY <1>2, <1>5, <1>7, <1>8 DEF HasBatch
  <2> QED BY <1>5, <1>7, <2>1 DEF HasBatch, InPool
<1>11. Pending' = Pending
    BY <1>5 DEF Pending
<1>12. TypeOK'
    BY <1>1, <1>5, <1>6, <1>7, <1>9 DEF TypeOK
<1>13. Ownership'
    BY <1>1, <1>2, <1>5, <1>7 DEF Ownership, Threads
<1>14. BatchShape'
  <2>1. ASSUME NEW u \in Threads, u # t
        PROVE  /\ pc'[u] = "run" => Len(vChecks[u]) = nNow[u] /\ next'[u] < nNow[u]
               /\ pc'[u] = "lock" /\ nNow[u] # 0 =>
                     Len(vChecks[u]) = nNow[u] /\ next'[u] = nNow[u]
               /\ ~HasBatch(u)' => vChecks[u] = <<>>
    BY <1>1, <1>6, <1>7, <1>10, <2>1 DEF BatchShape
  <2>2. /\ pc'[t] = "run" => Len(vChecks[t]) = nNow[t] /\ next'[t] < nNow[t]
        /\ pc'[t] = "lock" /\ nNow[t] # 0 =>
              Len(vChecks[t]) = nNow[t] /\ next'[t] = nNow[t]
        /\ HasBatch(t)'
    BY <1>2, <1>6, <1>7, <1>8, <1>10
  <2> QED BY <1>5, <2>1, <2>2 DEF BatchShape
<1>15. OnePlace' /\ TodoExact'
    BY <1>1, <1>5, <1>11 DEF OnePlace, TodoExact
<1>16. PoolCountsExact'
  <2>1. Pool' = Pool
    BY <1>10 DEF Pool
  <2>2. Idlers' = Idlers
    BY <1>2, <1>7 DEF Idlers
  <2> QED BY <1>1, <1>5, <2>1, <2>2 DEF PoolCountsExact, Pool, Idlers
<1>17. StatusSound'
  <2>1. Finished' = Finished /\ c \notin Finished
    BY <1>3, <1>5, <1>11 DEF Finished
  <2>2. \A d \in Finished : runs'[d] = runs[d]
    BY <1>1, <1>9, <2>1 DEF Finished, TypeOK
  <2> QED BY <1>1, <1>5, <1>11, <2>1, <2>2 DEF StatusSound
<1>18. AtMostOnce'
    BY <1>1, <1>9 DEF AtMostOnce
<1>19. VerdictCorrect'
    BY <1>4, <1>5 DEF VerdictCorrect
<1>20. NoLostWorkerWakeUp'
    BY <1>1, <1>2, <1>5, <1>7 DEF NoLostWorkerWakeUp, Asleep, Threads
<1>21. NoLostMasterWakeUp'
    BY <1>1, <1>2, <1>5, <1>7, <1>10 DEF NoLostMasterWakeUp, Asleep, Threads
<1>22. BatchSound'
  <2>1. \A d \in Range(queue') : runs'[d] = 0
    <3>1. Range(queue) \subseteq Checks
      BY <1>1, LenProperties DEF Range, TypeOK
    <3>2. c \notin Range(queue)
      BY <1>1, <1>3 DEF OnePlace
    <3> QED BY <1>1, <1>5, <1>9, <3>1, <3>2 DEF BatchSound
  <2>2. ASSUME NEW u \in Threads, u # t, HasBatch(u)
        PROVE  /\ ~fOk'[u] => session \cap Fails # {}
               /\ fOk'[u] => \A i \in 1..next'[u] :
                     vChecks[u][i] \notin Fails /\ runs'[vChecks[u][i]] = 1
               /\ \A i \in (next'[u] + 1)..Len(vChecks[u]) :
                     runs'[vChecks[u][i]] = 0
    <3>1. /\ ~fOk[u] => session \cap Fails # {}
          /\ fOk[u] => \A i \in 1..next[u] :
                vChecks[u][i] \notin Fails /\ runs[vChecks[u][i]] = 1
          /\ \A i \in (next[u] + 1)..Len(vChecks[u]) : runs[vChecks[u][i]] = 0
      BY <1>1, <2>2 DEF BatchSound
    <3>2. /\ Len(vChecks[u]) \in Nat /\ next[u] \in Nat
          /\ next[u] <= Len(vChecks[u]) /\ vChecks[u] \in Seq(Checks)
          /\ DOMAIN vChecks[u] = 1..Len(vChecks[u])
      BY <1>1, <2>2, LenProperties DEF TypeOK, BatchShape, HasBatch
    <3>3. \A i \in 1..Len(vChecks[u]) :
             vChecks[u][i] \in Range(vChecks[u]) /\ vChecks[u][i] \in Checks
      BY <3>2, ElementOfSeq DEF Range
    <3>4. \A i \in 1..Len(vChecks[u]) : vChecks[u][i] # c
      BY <1>1, <1>3, <2>2, <3>3 DEF OnePlace
    <3>5. \A i \in 1..Len(vChecks[u]) : runs'[vChecks[u][i]] = runs[vChecks[u][i]]
      BY <1>9, <3>3, <3>4
    <3>6. fOk'[u] = fOk[u] /\ next'[u] = next[u]
      BY <1>6, <1>9, <2>2
    <3>7. /\ \A i \in 1..next[u] : i \in 1..Len(vChecks[u])
          /\ \A i \in (next[u] + 1)..Len(vChecks[u]) : i \in 1..Len(vChecks[u])
      BY <3>2
    <3> QED BY <3>1, <3>5, <3>6, <3>7
  <2>3. /\ ~fOk'[t] => session \cap Fails # {}
        /\ fOk'[t] => \A i \in 1..next'[t] :
              vChecks[t][i] \notin Fails /\ runs'[vChecks[t][i]] = 1
        /\ \A i \in (next'[t] + 1)..Len(vChecks[t]) : runs'[vChecks[t][i]] = 0
    <3>1. /\ ~fOk[t] => session \cap Fails # {}
          /\ fOk[t] => \A i \in 1..next[t] :
                vChecks[t][i] \notin Fails /\ runs[vChecks[t][i]] = 1
          /\ \A i \in (next[t] + 1)..n : runs[vChecks[t][i]] = 0
      BY <1>1, <1>8 DEF BatchSound
    <3>2. \A i \in 1..n : vChecks[t][i] \in Checks /\ (i # k => vChecks[t][i] # c)
      BY <1>1, <1>2, ElementOfSeq DEF OnePlace
    <3>3. \A i \in 1..n : i # k => runs'[vChecks[t][i]] = runs[vChecks[t][i]]
      BY <1>9, <3>2
    <3>4. ASSUME NEW i \in (k + 1)..n PROVE runs'[vChecks[t][i]] = 0
      BY <1>2, <3>1, <3>3
    <3>5. CASE fOk[t]
      <4>1. runs'[c] = 1 /\ fOk'[t] = (c \notin Fails)
        BY <1>1, <1>3, <1>8, <3>5 DEF RunCheck, TypeOK
      <4>2. ~fOk'[t] => session \cap Fails # {}
        BY <1>4, <4>1
      <4>3. ASSUME fOk'[t], NEW i \in 1..k
            PROVE  vChecks[t][i] \notin Fails /\ runs'[vChecks[t][i]] = 1
        <5>1. CASE i = k
          BY <4>1, <4>3, <5>1
        <5>2. CASE i # k
          <6>1. i \in 1..next[t] /\ i \in 1..n
            BY <1>2, <5>2
          <6> QED BY <3>1, <3>3, <3>5, <5>2, <6>1
        <5> QED BY <5>1, <5>2
      <4> QED BY <1>6, <3>4, <4>2, <4>3
    <3>6. CASE ~fOk[t]
      <4>1. fOk'[t] = fOk[t]
        BY <3>6 DEF RunCheck
      <4> QED BY <1>6, <3>1, <3>4, <3>6, <4>1
    <3> QED BY <3>5, <3>6
  <2> QED BY <1>5, <1>10, <2>1, <2>2, <2>3 DEF BatchSound
<1> QED
    BY <1>12, <1>13, <1>14, <1>15, <1>16, <1>17, <1>18, <1>19, <1>20, <1>21,
       <1>22 DEF IInv

(***************************************************************************)
(* The invariant.                                                          *)
(***************************************************************************)
LEMMA InitInv ==
    ASSUME Init
    PROVE  IInv
<1>1. Masters \subseteq Threads /\ Workers \subseteq Threads
    BY DEF Threads
<1>2. TypeOK
    BY EmptySeq DEF Init, TypeOK, PC
<1>3. \A t \in Threads : ~HasBatch(t) /\ ~InPool(t) /\ vChecks[t] = <<>>
                         /\ pc[t] = "off"
    BY DEF Init, HasBatch, InPool
<1>4. Range(<<>>) = {} /\ DOMAIN <<>> = {}
    BY DEF Range
<1>5. Pending = {}
    BY <1>3, <1>4 DEF Init, Pending
<1>6. Ownership
    BY <1>1, <1>3, ThreadsAssumption DEF Init, Ownership
<1>7. BatchShape
    BY <1>3 DEF BatchShape
<1>8. OnePlace
    BY <1>3, <1>4 DEF Init, OnePlace
<1>9. TodoExact
    BY <1>5, FS_EmptySet DEF Init, TodoExact
<1>10. PoolCountsExact
  <2>1. {t \in Threads : pc[t] \in {"wait", "woken"}} = {}
    BY <1>3
  <2>2. {t \in Threads : InPool(t)} = {}
    BY <1>3
  <2> QED BY <2>1, <2>2, FS_EmptySet DEF Init, PoolCountsExact
<1>11. StatusSound
    BY <1>5 DEF Init, StatusSound, Finished
<1>12. BatchSound
    BY <1>3, <1>4 DEF Init, BatchSound
<1>13. AtMostOnce /\ VerdictCorrect
    BY DEF Init, AtMostOnce, VerdictCorrect
<1>14. NoLostWorkerWakeUp /\ NoLostMasterWakeUp
    BY <1>1, <1>3 DEF NoLostWorkerWakeUp, NoLostMasterWakeUp, Asleep
<1> QED
    BY <1>2, <1>6, <1>7, <1>8, <1>9, <1>10, <1>11, <1>12, <1>13, <1>14 DEF IInv

LEMMA StepInv ==
    ASSUME IInv, NEW t \in Threads, Step(t)
    PROVE  IInv'
<1>1. CASE FirstIteration(t)
    BY <1>1, FirstIterationAtLoopHead, LoopHeadInv DEF FirstIteration
<1>2. CASE CleanUp(t)
    BY <1>2, CleanUpAtLoopHead, LoopHeadInv DEF CleanUp
<1>3. CASE WakeUp(t)
    BY <1>3, WakeUpAtLoopHead, LoopHeadInv DEF WakeUp
<1>4. CASE RunCheck(t)
    BY <1>4, RunCheckInv
<1> QED
    BY <1>1, <1>2, <1>3, <1>4 DEF Step

LEMMA NextInv ==
    ASSUME ReuseAfterWait = FALSE, IInv, [Next]_vars
    PROVE  IInv'
<1>1. ASSUME NEW t \in Threads, Step(t) PROVE IInv'
    BY <1>1, StepInv
<1>2. ASSUME NEW t \in Threads, SpuriousWakeUp(t) PROVE IInv'
    BY <1>2, SpuriousWakeUpInv
<1>3. ASSUME NEW w \in Workers, Thread(w) PROVE IInv'
    BY <1>3, ThreadInv
<1>4. ASSUME NEW m \in Masters, Client(m) PROVE IInv'
    BY <1>4, ConstructInv, DestroyInv, WaitInv, AddInv DEF Client
<1>5. ASSUME NEW m \in Masters, Leave(m) PROVE IInv'
    BY <1>5, LeaveInv
<1>6. CASE UNCHANGED vars
  <2>1. UNCHANGED <<queue, nIdle, nTotal, fAllOk, nTodo, pc, vChecks, next, nNow,
                    fOk, ControlMutex, fDone, inDtor, result, session, runs>>
    BY <1>6 DEF vars, shared, locals, control
  <2>2. TypeOK' /\ Ownership'
    BY <2>1 DEF IInv, TypeOK, Ownership
  <2> QED BY <2>1, <2>2, QuietStep
<1> QED
    BY <1>1, <1>2, <1>3, <1>4, <1>5, <1>6 DEF Next

-----------------------------------------------------------------------------
(***************************************************************************)
(* Theorems.                                                               *)
(***************************************************************************)

\* The inductive invariant holds in every reachable state, for clients that
\* do not go on using a controller whose Wait has returned.
THEOREM Invariance ==
    ASSUME ReuseAfterWait = FALSE
    PROVE  Spec => []IInv
<1>1. Init => IInv
    BY InitInv
<1>2. IInv /\ [Next]_vars => IInv'
    BY NextInv
<1> QED
    BY <1>1, <1>2, PTL DEF Spec

\* The fields of the queue have their types; unsigned nTodo and the counters
\* never go below zero.
THEOREM TypeCorrect ==
    ASSUME ReuseAfterWait = FALSE
    PROVE  Spec => []TypeOK
<1>1. IInv => TypeOK
    BY DEF IInv
<1> QED
    BY <1>1, Invariance, PTL

\* Wait returns true iff all checks of the session succeed, for any number of
\* workers, masters and checks and any nBatchSize.
THEOREM VerdictTheorem ==
    ASSUME ReuseAfterWait = FALSE
    PROVE  Spec => []VerdictCorrect
<1>1. IInv => VerdictCorrect
    BY DEF IInv
<1> QED
    BY <1>1, Invariance, PTL

\* No check gets lost, duplicated or executed twice by racing threads, and
\* nTodo counts exactly the checks that are not cleaned up yet.
THEOREM ChecksConserved ==
    ASSUME ReuseAfterWait = FALSE
    PROVE  Spec => []ChecksKept
<1>1. IInv => ChecksKept
    BY DEF IInv, ChecksKept
<1> QED
    BY <1>1, Invariance, PTL

\* nIdle and nTotal, the divisors of the batch size, are exact.
THEOREM PoolCounted ==
    ASSUME ReuseAfterWait = FALSE
    PROVE  Spec => []PoolCountsExact
<1>1. IInv => PoolCountsExact
    BY DEF IInv
<1> QED
    BY <1>1, Invariance, PTL

\* The two condition variables lose no wake-up, whichever waiter notify_one
\* picks and whatever wakes up spuriously.
THEOREM NoLostWakeUps ==
    ASSUME ReuseAfterWait = FALSE
    PROVE  Spec => []NoLostWakeUp
<1>1. IInv => NoLostWakeUp
    BY DEF IInv, NoLostWakeUp
<1> QED
    BY <1>1, Invariance, PTL

\* Once its controller is gone the queue is finished, as the comment on
\* CCheckQueueControl says.
THEOREM ReleasedIsFinished ==
    ASSUME ReuseAfterWait = FALSE
    PROVE  Spec => []FinishedOnRelease
<1>1. ASSUME IInv PROVE FinishedOnRelease
  <2>1. ControlMutex = NoOwner => Pending = {} /\ fAllOk
    BY <1>1 DEF IInv, StatusSound
  <2>2. nTodo = Cardinality(Pending)
    BY <1>1 DEF IInv, TodoExact
  <2> QED BY <2>1, <2>2, FS_EmptySet DEF FinishedOnRelease
<1>2. IInv => FinishedOnRelease
    BY <1>1
<1> QED
    BY <1>2, Invariance, PTL

\* A critical section of Loop decides the session or is invisible.
LEMMA LoopHeadRefines ==
    ASSUME IInv, NEW t \in Threads, NEW allOk, NEW todo, NEW total, NEW idle,
           NEW pcs, AtLoopHead(t, allOk, todo, total, idle, pcs),
           LoopHead(t, allOk, todo, total, idle, pcs)
    PROVE  Service!Decide \/ UNCHANGED Service!svars
<1>1. session' = session /\ ControlMutex' = ControlMutex
    BY DEF LoopHead, Return, Sleep, Take, control
<1>2. CASE Return(t, allOk, todo, total, idle, pcs) /\ t \in Masters
  <2>1. fDone' = TRUE
    BY <1>2 DEF Return
  <2>2. ControlMutex = t /\ ~fDone
    BY <1>2, MasterInLoop DEF IInv, AtLoopHead
  <2>3. VerdictCorrect' /\ TypeOK'
    BY LoopHeadInv DEF IInv
  <2>4. result' = (session \cap Fails = {})
    BY <1>1, <2>1, <2>3 DEF VerdictCorrect, TypeOK
  <2>5. ControlMutex # NoOwner
    BY <1>2, <2>2, ThreadsAssumption
  <2> QED
    BY <1>1, <2>1, <2>2, <2>4, <2>5 DEF Service!Decide
<1>3. CASE fDone' = fDone /\ result' = result
    BY <1>1, <1>3 DEF Service!svars
<1> QED
    BY <1>2, <1>3 DEF LoopHead, Return, Sleep, Take, control, fQuit

\* Every step of the queue is a step of the service or invisible to clients.
LEMMA NextRefines ==
    ASSUME ReuseAfterWait = FALSE, IInv, [Next]_vars
    PROVE  [Service!Next]_(Service!svars)
<1>1. ASSUME NEW t \in Threads, Step(t)
      PROVE  Service!Decide \/ UNCHANGED Service!svars
  <2>1. CASE FirstIteration(t)
    BY <2>1, FirstIterationAtLoopHead, LoopHeadRefines DEF FirstIteration
  <2>2. CASE CleanUp(t)
    BY <2>2, CleanUpAtLoopHead, LoopHeadRefines DEF CleanUp
  <2>3. CASE WakeUp(t)
    BY <2>3, WakeUpAtLoopHead, LoopHeadRefines DEF WakeUp
  <2>4. CASE RunCheck(t)
    BY <2>4 DEF RunCheck, control, Service!svars
  <2> QED BY <1>1, <2>1, <2>2, <2>3, <2>4 DEF Step
<1>2. ASSUME NEW t \in Threads, SpuriousWakeUp(t) PROVE UNCHANGED Service!svars
    BY <1>2 DEF SpuriousWakeUp, control, Service!svars
<1>3. ASSUME NEW w \in Workers, Thread(w) PROVE UNCHANGED Service!svars
    BY <1>3 DEF Thread, control, Service!svars
<1>4. ASSUME NEW m \in Masters, Construct(m) PROVE Service!Open(m)
    BY <1>4 DEF Construct, Service!Open
<1>5. ASSUME NEW m \in Masters, Destroy(m) \/ Wait(m) PROVE UNCHANGED Service!svars
    BY <1>5 DEF Destroy, Wait, control, Service!svars
<1>6. ASSUME NEW m \in Masters, NEW checks \in AddInputs, Add(m, checks), ~fDone
      PROVE  Service!Submit(Range(checks)) /\ Range(checks) \in SUBSET Checks
  <2>1. ControlMutex # NoOwner
    BY <1>6, ThreadsAssumption DEF Add, IInv, Ownership
  <2>2. Range(checks) \subseteq Checks
    BY DEF AddInputs, Range
  <2> QED BY <1>6, <2>1, <2>2 DEF Add, Service!Submit
<1>7. ASSUME NEW m \in Masters, Leave(m) PROVE Service!Close
  <2>1. ControlMutex = m /\ fDone /\ m # NoOwner
    BY <1>7, ThreadsAssumption DEF Leave, IInv, Ownership
  <2> QED BY <1>7, <2>1 DEF Leave, Service!Close
<1>8. CASE UNCHANGED vars
    BY <1>8 DEF vars, control, Service!svars
<1>9. ASSUME NEW m \in Masters, Client(m)
      PROVE  Service!Next \/ UNCHANGED Service!svars
    BY <1>4, <1>5, <1>6, <1>9 DEF Client, Service!Next
<1> QED
    BY <1>1, <1>2, <1>3, <1>7, <1>8, <1>9 DEF Next, Service!Next

\* CCheckQueue with CCheckQueueControl implements VerificationService: its
\* clients cannot tell it from a service that decides each session at once.
THEOREM Refinement ==
    ASSUME ReuseAfterWait = FALSE
    PROVE  Spec => ImplementsService
<1>1. Init => Service!Init
    BY DEF Init, Service!Init
<1>2. IInv /\ [Next]_vars => [Service!Next]_(Service!svars)
    BY NextRefines
<1> QED
    BY <1>1, <1>2, Invariance, PTL DEF Spec, ImplementsService, Service!Spec

-----------------------------------------------------------------------------
(***************************************************************************)
(* The return of Wait, in rounds.  Each of them lowers nTodo, the queue's  *)
(* length or what is left of a batch, and while a master waits none of     *)
(* these rises.                                                            *)
(***************************************************************************)
InLoop(t) == pc[t] \in {"lock", "wait", "woken", "run"}
Running(t) == pc[t] \in {"lock", "woken", "run"}

\* The place of another thread, which only its own steps change.
Kept(u) == pc'[u] = pc[u] /\ nNow'[u] = nNow[u] /\ next'[u] = next[u]

\* What a critical section, entered with todo checks left, does to the work.
LEMMA SectionWorks ==
    ASSUME IInv, NEW t \in Threads, NEW allOk, NEW todo, NEW total, NEW idle,
           NEW pcs, AtLoopHead(t, allOk, todo, total, idle, pcs),
           LoopHead(t, allOk, todo, total, idle, pcs)
    PROVE  /\ nTodo' = todo
           /\ Len(queue') <= Len(queue)
           /\ queue # <<>> => Len(queue') < Len(queue)
           /\ queue = <<>> /\ todo = 0 /\ t \in Masters => pc'[t] \in {"ctl", "leave"}
           /\ InLoop(t)' \/ (queue = <<>> /\ todo = 0 /\ pc'[t] \in {"ctl", "leave"})
           /\ \A u \in Threads \ {t} : /\ Running(u) => Kept(u)
                                       /\ InLoop(u) => InLoop(u)'
<1>1. TypeOK /\ queue \in Seq(Checks) /\ Len(queue) \in Nat
      /\ total \in Nat /\ idle \in Nat
    BY DEF IInv, TypeOK, AtLoopHead
<1>2. \A u \in Threads \ {t} :
         /\ \/ pc'[u] = pc[u]
            \/ pc[u] = "wait" /\ pc'[u] = "woken"
         /\ nNow'[u] = nNow[u] /\ next'[u] = next[u]
    BY <1>1, LoopHeadPC
<1>3. \A u \in Threads \ {t} : /\ Running(u) => Kept(u)
                               /\ InLoop(u) => InLoop(u)'
    BY <1>2 DEF Running, Kept, InLoop
<1>4. CASE Return(t, allOk, todo, total, idle, pcs) /\ pc'[t] \in {"ctl", "leave"}
    BY <1>1, <1>3, <1>4 DEF Return
<1>5. CASE Sleep(t, allOk, todo, total, idle, pcs) /\ pc'[t] = "wait"
    BY <1>1, <1>3, <1>5 DEF Sleep, InLoop
<1>6. CASE Take(t, allOk, todo, total, idle, pcs) /\ pc'[t] = "run"
  <2> DEFINE n == BatchSize(Len(queue), total, idle)
  <2>1. queue # <<>> /\ queue' = SubSeq(queue, 1, Len(queue) - n) /\ nTodo' = todo
    BY <1>6 DEF Take
  <2>2. n \in 1..Len(queue)
    BY <1>1, <2>1, EmptySeq, BatchSizeRange
  <2> HIDE DEF n
  <2>3. Len(queue') = Len(queue) - n
    BY <1>1, <2>1, <2>2
  <2> QED
    BY <1>1, <1>3, <1>6, <2>1, <2>2, <2>3 DEF InLoop
<1> QED
    BY <1>1, <1>4, <1>5, <1>6, LoopHeadPC

\* What a step of a thread in Loop does to the work.
StepWork(t) ==
    /\ nTodo' <= nTodo /\ Len(queue') <= Len(queue)
    /\ pc[t] = "run" => next'[t] = next[t] + 1 /\ HasBatch(t)'
    /\ pc[t] = "lock" /\ nNow[t] # 0 => nTodo' < nTodo
    /\ pc[t] \in {"lock", "woken"} /\ queue # <<>> => Len(queue') < Len(queue)
    /\ pc[t] \in {"lock", "woken"} /\ nTodo = 0 /\ t \in Masters =>
          pc'[t] \in {"ctl", "leave"}
    /\ InLoop(t)' \/ (queue = <<>> /\ nTodo' = 0 /\ pc'[t] \in {"ctl", "leave"})
    /\ \A u \in Threads \ {t} : /\ Running(u) => Kept(u)
                                /\ InLoop(u) => InLoop(u)'

\* With nothing left to do the queue is empty and no thread has a batch.
LEMMA NothingLeft ==
    ASSUME IInv, nTodo = 0
    PROVE  queue = <<>> /\ \A t \in Threads : ~HasBatch(t)
<1>1. TypeOK /\ BatchShape /\ Pending = {}
  <2>1. IsFiniteSet(Pending) /\ Cardinality(Pending) = 0
    BY FinitePlaces DEF IInv, TodoExact
  <2> QED
    BY <2>1, FS_EmptySet DEF IInv
<1>2. queue \in Seq(Checks) /\ Range(queue) = {}
    BY <1>1 DEF Pending, TypeOK
<1>3. queue = <<>>
  <2>1. ASSUME NEW i \in DOMAIN queue PROVE FALSE
    BY <1>2, <2>1 DEF Range
  <2>2. DOMAIN queue = {} /\ DOMAIN queue = 1..Len(queue) /\ Len(queue) \in Nat
    BY <1>2, <2>1, LenProperties
  <2>3. Len(queue) = 0
    BY <2>2
  <2> QED
    BY <1>2, <2>3, EmptySeq
<1> QED
    BY <1>1, <1>3, BatchIsPending

LEMMA StepWorks ==
    ASSUME IInv, NEW t \in Threads, Step(t)
    PROVE  StepWork(t) /\ Running(t)
<1>1. /\ nTodo \in Nat /\ Len(queue) \in Nat /\ nNow[t] \in Nat /\ next[t] \in Nat
      /\ pc \in [Threads -> PC] /\ next \in [Threads -> Nat]
    BY DEF IInv, TypeOK
<1>2. nTodo = 0 => queue = <<>> /\ ~HasBatch(t)
    BY NothingLeft
<1>3. CASE FirstIteration(t)
    BY <1>1, <1>2, <1>3, FirstIterationAtLoopHead, SectionWorks
       DEF FirstIteration, StepWork, Running
<1>4. CASE CleanUp(t)
  <2>1. pc[t] = "lock" /\ nNow[t] # 0 /\ HasBatch(t)
    BY <1>4 DEF CleanUp, HasBatch
  <2>2. PICK pcs \in IF nTodo - nNow[t] = 0 /\ t \notin Masters
                     THEN NotifyOne(Masters) ELSE {pc} :
            LoopHead(t, fAllOk /\ fOk[t], nTodo - nNow[t], nTotal, nIdle, pcs)
    BY <1>4 DEF CleanUp
  <2>3. AtLoopHead(t, fAllOk /\ fOk[t], nTodo - nNow[t], nTotal, nIdle, pcs)
    BY <2>1, <2>2, CleanUpAtLoopHead
  <2>4. nTodo - nNow[t] <= nTodo /\ nTodo - nNow[t] < nTodo
    BY <1>1, <2>1
  <2> QED
    BY <1>1, <1>2, <2>1, <2>2, <2>3, <2>4, SectionWorks DEF StepWork, Running
<1>5. CASE WakeUp(t)
    BY <1>1, <1>2, <1>5, WakeUpAtLoopHead, SectionWorks DEF WakeUp, StepWork, Running
<1>6. CASE RunCheck(t)
  <2>1. /\ pc[t] = "run" /\ UNCHANGED <<queue, nTodo, nNow>>
        /\ next' = [next EXCEPT ![t] = @ + 1]
        /\ pc' \in {[pc EXCEPT ![t] = "lock"], pc}
    BY <1>6 DEF RunCheck, shared
  <2>2. nNow[t] # 0
    BY <1>1, <2>1 DEF IInv, BatchShape
  <2>3. next'[t] = next[t] + 1 /\ pc'[t] \in {"lock", "run"}
        /\ \A u \in Threads \ {t} : next'[u] = next[u] /\ pc'[u] = pc[u]
    BY <1>1, <2>1
  <2> QED
    BY <1>1, <2>1, <2>2, <2>3 DEF StepWork, Running, InLoop, Kept, HasBatch
<1> QED
    BY <1>3, <1>4, <1>5, <1>6 DEF Step

\* A thread that can run is moved by nothing but its own step.
LEMMA OthersKeep ==
    ASSUME IInv, [Next]_vars, NEW t \in Threads, Running(t)
    PROVE  Step(t) \/ Kept(t)
<1>1. ASSUME NEW u \in Threads, Step(u) PROVE Step(t) \/ Kept(t)
  <2>1. CASE u = t
    BY <1>1, <2>1
  <2>2. CASE u # t
    BY <1>1, <2>2, StepWorks DEF StepWork
  <2> QED
    BY <2>1, <2>2
<1>2. /\ pc \in [Threads -> PC] /\ nNow \in [Threads -> Nat] /\ next \in [Threads -> Nat]
    BY DEF IInv, TypeOK
<1>3. pc[t] \notin {"off", "ctl", "wait", "leave"}
    BY DEF Running
<1> USE DEF Kept, locals
<1>4. ASSUME NEW u \in Threads, SpuriousWakeUp(u) PROVE Kept(t)
    BY <1>2, <1>3, <1>4 DEF SpuriousWakeUp
<1>5. ASSUME NEW u \in Threads, pc[u] \in {"off", "ctl"}, EnterLoop(u) PROVE Kept(t)
    BY <1>2, <1>3, <1>5 DEF EnterLoop
<1>6. ASSUME NEW u \in Workers, Thread(u) PROVE Kept(t)
    BY <1>5, <1>6 DEF Thread, Threads
<1>7. ASSUME NEW u \in Masters, Construct(u) \/ Leave(u) PROVE Kept(t)
    BY <1>2, <1>3, <1>7 DEF Construct, Leave
<1>8. ASSUME NEW u \in Masters, Wait(u) PROVE Kept(t)
    BY <1>5, <1>8 DEF Wait, Threads
<1>9. ASSUME NEW u \in Masters, Destroy(u) PROVE Kept(t)
  <2>1. u \in Threads /\ pc[u] = "ctl"
    BY <1>9 DEF Destroy, Threads
  <2>2. CASE fDone
    BY <1>2, <1>3, <1>9, <2>1, <2>2 DEF Destroy
  <2>3. CASE ~fDone
    BY <1>5, <1>9, <2>1, <2>3 DEF Destroy
  <2> QED
    BY <2>2, <2>3
<1>10. ASSUME NEW u \in Masters, NEW checks \in AddInputs, Add(u, checks) PROVE Kept(t)
  <2>1. nNow' = nNow /\ next' = next
    BY <1>10 DEF Add
  <2>2. pc' = pc \/ pc' \in NotifyOne(Workers) \/ pc' = NotifyAll(Workers)
    BY <1>10 DEF Add
  <2>3. pc'[t] = pc[t]
    BY <1>2, <1>3, <2>2 DEF NotifyOne, NotifyAll, Asleep
  <2> QED
    BY <2>1, <2>3
<1>11. CASE UNCHANGED vars
    BY <1>11 DEF vars
<1> QED
    BY <1>1, <1>4, <1>6, <1>7, <1>8, <1>9, <1>10, <1>11 DEF Next, Client

\* While a master waits nothing is added, so no step makes more work, and it
\* stays in Loop until all is done.
WorkFalls(m) ==
    /\ nTodo' <= nTodo /\ Len(queue') <= Len(queue)
    /\ InLoop(m)' \/ (queue = <<>> /\ nTodo' = 0 /\ pc'[m] \in {"ctl", "leave"})

LEMMA NextWorks ==
    ASSUME IInv, [Next]_vars, NEW m \in Masters, InLoop(m)
    PROVE  WorkFalls(m)
<1>1. m \in Threads /\ nTodo \in Nat /\ Len(queue) \in Nat /\ pc \in [Threads -> PC]
    BY DEF Threads, IInv, TypeOK
<1>2. ControlMutex = m /\ m # NoOwner /\ \A u \in Masters \ {m} : pc[u] = "off"
    BY MasterInLoop, ThreadsAssumption DEF InLoop, IInv
<1>3. ASSUME NEW u \in Threads, Step(u) PROVE WorkFalls(m)
    BY <1>1, <1>3, StepWorks DEF StepWork, WorkFalls
<1>4. ASSUME NEW u \in Threads, SpuriousWakeUp(u) PROVE WorkFalls(m)
    BY <1>1, <1>4 DEF SpuriousWakeUp, shared, InLoop, WorkFalls
<1>5. ASSUME NEW u \in Workers, Thread(u) PROVE WorkFalls(m)
    BY <1>1, <1>5, ThreadsAssumption DEF Thread, EnterLoop, shared, InLoop, WorkFalls
<1>6. ASSUME NEW u \in Masters, Client(u) \/ Leave(u) PROVE FALSE
    BY <1>2, <1>6 DEF Client, Leave, Construct, Destroy, Wait, Add, InLoop
<1>7. CASE UNCHANGED vars
    BY <1>1, <1>7 DEF vars, shared, InLoop, WorkFalls
<1> QED
    BY <1>3, <1>4, <1>5, <1>6, <1>7 DEF Next

\* The fairness of FairSpec for thread t, with the guard of Step(t) in the
\* place of ENABLED.
Scheduled(t) == []<>~Running(t) \/ []<><<Step(t)>>_vars

LEMMA FairIsScheduled ==
    ASSUME NEW t \in Threads
    PROVE  /\ [](Running(t) => ENABLED <<Step(t)>>_vars)
           /\ WF_vars(Step(t))
           => Scheduled(t)
    BY PTL DEF Scheduled

\* While a master waits and something is left to do, some thread is able to
\* get on with it: it has a batch, or is about to take one from the queue.
THEOREM WorkInHand ==
    ASSUME ReuseAfterWait = FALSE, NEW m \in Masters
    PROVE  Spec => [](InLoop(m) /\ nTodo > 0 =>
                  \E t \in Threads : HasBatch(t) \/ (queue # <<>> /\ Running(t)))
<1>1. ASSUME IInv, InLoop(m), nTodo > 0
      PROVE  \E t \in Threads : HasBatch(t) \/ (queue # <<>> /\ Running(t))
  <2>1. TypeOK /\ BatchShape /\ m \in Threads /\ Pending # {}
    <3>1. nTodo = Cardinality(Pending) /\ nTodo # 0
      BY <1>1 DEF IInv, TodoExact, TypeOK
    <3> QED
      BY <1>1, <3>1, FS_EmptySet DEF IInv, Threads
  <2>2. CASE queue # <<>>
    <3>1. pc[m] # "wait"
      BY <1>1, <2>2 DEF IInv, NoLostMasterWakeUp, Asleep
    <3> QED
      BY <1>1, <2>1, <2>2, <3>1 DEF InLoop, Running
  <2>3. CASE queue = <<>>
    <3>1. Range(queue) = {}
      BY <2>3 DEF Range
    <3>2. PICK t \in Threads : Range(vChecks[t]) # {}
      BY <2>1, <3>1 DEF Pending
    <3>3. vChecks[t] # <<>>
      BY <3>2 DEF Range
    <3> QED
      BY <2>1, <3>3 DEF BatchShape
  <2> QED
    BY <2>2, <2>3
<1>2. IInv => (InLoop(m) /\ nTodo > 0 =>
                  \E t \in Threads : HasBatch(t) \/ (queue # <<>> /\ Running(t)))
    BY <1>1
<1> QED
    BY <1>2, Invariance, PTL

\* A thread gets through its batch, check by check.
THEOREM CheckExecuted ==
    ASSUME ReuseAfterWait = FALSE, NEW t \in Threads, NEW k \in Nat
    PROVE  Spec /\ Scheduled(t) =>
              (pc[t] = "run" /\ next[t] = k ~> HasBatch(t) /\ next[t] = k + 1)
<1> DEFINE At == pc[t] = "run" /\ next[t] = k
           After == HasBatch(t) /\ next[t] = k + 1
<1>1. IInv /\ At => Running(t)
    BY DEF Running
<1>2. IInv /\ [Next]_vars /\ At => At' \/ After'
    BY OthersKeep, StepWorks DEF Running, Kept, StepWork
<1>3. IInv /\ <<Step(t)>>_vars /\ At => After'
    BY StepWorks DEF StepWork
<1> HIDE DEF At, After
<1>4. Spec /\ Scheduled(t) => (At ~> After)
    BY <1>1, <1>2, <1>3, Invariance, PTL DEF Spec, Scheduled
<1>5. (pc[t] = "run" /\ next[t] = k <=> At) /\ (HasBatch(t) /\ next[t] = k + 1 <=> After)
    BY DEF At, After
<1> QED
    BY <1>4, <1>5, PTL

\* While a master waits a batch that is done is taken off nTodo, which
\* nothing raises meanwhile.
THEOREM BatchCleanedUp ==
    ASSUME ReuseAfterWait = FALSE, NEW m \in Masters, NEW t \in Threads, NEW n \in Nat
    PROVE  Spec /\ Scheduled(t) =>
              (InLoop(m) /\ nTodo = n /\ pc[t] = "lock" /\ HasBatch(t) ~> nTodo < n)
<1> DEFINE At == InLoop(m) /\ nTodo = n /\ pc[t] = "lock" /\ HasBatch(t)
           Less == nTodo < n
<1>1. IInv /\ At => Running(t)
    BY DEF Running
<1>2. IInv /\ [Next]_vars /\ At => At' \/ Less'
  <2> SUFFICES ASSUME IInv, [Next]_vars, At PROVE At' \/ Less'
    OBVIOUS
  <2>1. nTodo' <= nTodo /\ (InLoop(m)' \/ nTodo' = 0)
    BY NextWorks DEF WorkFalls
  <2>2. nTodo \in Nat /\ nTodo' \in Nat /\ n # 0
    <3>1. IInv'
      BY NextInv
    <3> QED
      BY <3>1, NothingLeft DEF IInv, TypeOK
  <2>3. CASE Kept(t)
    BY <2>1, <2>2, <2>3 DEF Kept, HasBatch
  <2>4. CASE Step(t)
    BY <2>4, StepWorks DEF StepWork, HasBatch
  <2> QED
    BY <2>3, <2>4, OthersKeep DEF Running
<1>3. IInv /\ <<Step(t)>>_vars /\ At => Less'
    BY StepWorks DEF StepWork, HasBatch
<1> HIDE DEF At, Less
<1>4. Spec /\ Scheduled(t) => (At ~> Less)
    BY <1>1, <1>2, <1>3, Invariance, PTL DEF Spec, Scheduled
<1>5. /\ InLoop(m) /\ nTodo = n /\ pc[t] = "lock" /\ HasBatch(t) <=> At
      /\ nTodo < n <=> Less
    BY DEF At, Less
<1> QED
    BY <1>4, <1>5, PTL

\* While a master waits the queue gets shorter, as long as a thread that is
\* not asleep comes for work: the master itself, if there is no other.
THEOREM QueueDrains ==
    ASSUME ReuseAfterWait = FALSE, NEW m \in Masters, NEW t \in Threads, NEW n \in Nat
    PROVE  Spec /\ Scheduled(t) =>
              (InLoop(m) /\ Len(queue) = n /\ n # 0 /\ pc[t] \in {"lock", "woken"}
                  ~> Len(queue) < n)
<1> DEFINE At == InLoop(m) /\ Len(queue) = n /\ n # 0 /\ pc[t] \in {"lock", "woken"}
           Less == Len(queue) < n
<1>1. IInv /\ At => Running(t)
    BY DEF Running
<1>2. IInv => queue \in Seq(Checks) /\ Len(queue) \in Nat /\ (Len(queue) # 0 => queue # <<>>)
    BY EmptySeq DEF IInv, TypeOK
<1>3. IInv /\ [Next]_vars /\ At => At' \/ Less'
  <2> SUFFICES ASSUME IInv, [Next]_vars, At PROVE At' \/ Less'
    OBVIOUS
  <2>1. Len(queue') <= Len(queue) /\ InLoop(m)'
    BY <1>2, NextWorks DEF WorkFalls
  <2>2. Len(queue') \in Nat
    <3>1. IInv'
      BY NextInv
    <3> QED
      BY <3>1 DEF IInv, TypeOK
  <2>3. CASE Kept(t)
    BY <2>1, <2>2, <2>3 DEF Kept
  <2>4. CASE Step(t)
    BY <1>2, <2>4, StepWorks DEF StepWork
  <2> QED
    BY <2>3, <2>4, OthersKeep DEF Running
<1>4. IInv /\ <<Step(t)>>_vars /\ At => Less'
    BY <1>2, StepWorks DEF StepWork
<1> HIDE DEF At, Less
<1>5. Spec /\ Scheduled(t) => (At ~> Less)
    BY <1>1, <1>3, <1>4, Invariance, PTL DEF Spec, Scheduled
<1>6. /\ InLoop(m) /\ Len(queue) = n /\ n # 0 /\ pc[t] \in {"lock", "woken"} <=> At
      /\ Len(queue) < n <=> Less
    BY DEF At, Less
<1> QED
    BY <1>5, <1>6, PTL

\* With nothing left to do Wait returns: the master is not asleep then, or it
\* would stay so, and no other thread can give it work again.
THEOREM VerdictReturned ==
    ASSUME ReuseAfterWait = FALSE, NEW m \in Masters
    PROVE  Spec /\ Scheduled(m) =>
              (InLoop(m) /\ nTodo = 0 ~> pc[m] \in {"ctl", "leave"})
<1> DEFINE At == InLoop(m) /\ nTodo = 0
           Out == pc[m] \in {"ctl", "leave"}
<1>1. m \in Threads
    BY DEF Threads
<1>2. IInv /\ At => Running(m) /\ pc[m] \in {"lock", "woken"}
  <2> SUFFICES ASSUME IInv, At PROVE pc[m] \in {"lock", "woken"}
    BY DEF Running
  <2>1. ~HasBatch(m)
    BY <1>1, NothingLeft
  <2>2. pc[m] # "wait"
    BY <1>1 DEF IInv, NoLostMasterWakeUp, Asleep
  <2> QED
    BY <2>1, <2>2 DEF InLoop, HasBatch
<1>3. IInv /\ [Next]_vars /\ At => At' \/ Out'
  <2> SUFFICES ASSUME IInv, [Next]_vars, At PROVE At' \/ Out'
    OBVIOUS
  <2>1. IInv'
    BY NextInv
  <2>2. nTodo' = 0
    BY <2>1, NextWorks DEF WorkFalls, IInv, TypeOK
  <2> QED
    BY <2>2, NextWorks DEF WorkFalls
<1>4. IInv /\ <<Step(m)>>_vars /\ At => Out'
    BY <1>1, <1>2, StepWorks DEF StepWork
<1> HIDE DEF At, Out
<1>5. Spec /\ Scheduled(m) => (At ~> Out)
    BY <1>2, <1>3, <1>4, Invariance, PTL DEF Spec, Scheduled
<1>6. (InLoop(m) /\ nTodo = 0 <=> At) /\ (pc[m] \in {"ctl", "leave"} <=> Out)
    BY DEF At, Out
<1> QED
    BY <1>5, <1>6, PTL

-----------------------------------------------------------------------------
(***************************************************************************)
(* The program of main.cpp.                                                *)
(***************************************************************************)

\* What main has done when it is at a statement, and where Loop can be.
ScriptSound ==
    /\ script \in Script
    /\ script = "control" => pc[Main] = "off"
    /\ script \in {"threads", "add", "wait"} => pc[Main] = "ctl" /\ ~fDone /\ ~inDtor
    /\ script \notin {"control", "threads", "add"} => session = Checks
    /\ script = "dtor" =>
          /\ ~inDtor
          /\ pc[Main] \in {"ctl", "lock", "wait", "woken", "run"}
          /\ pc[Main] = "ctl" => fDone
    /\ script = "unlock" => pc[Main] = "leave" /\ fDone
    /\ script \in {"queue", "exit"} => pc[Main] = "off" /\ fDone

\* A critical section of a worker wakes the master up or leaves it alone.
LEMMA WorkerSection ==
    ASSUME MainAssumption, TypeOK, NEW t \in Workers, Step(t)
    PROVE  /\ pc'[Main] = pc[Main] \/ (pc[Main] = "wait" /\ pc'[Main] = "woken")
           /\ UNCHANGED control
<1>1. t # Main /\ Main \in Threads /\ Main \in Masters /\ t \notin Masters /\ t \in Threads
    BY ThreadsAssumption DEF MainAssumption, Threads
<1>2. ASSUME NEW allOk, NEW todo, NEW total, NEW idle, NEW pcs \in [Threads -> PC],
             pcs[Main] = pc[Main] \/ (pc[Main] = "wait" /\ pcs[Main] = "woken"),
             LoopHead(t, allOk, todo, total, idle, pcs)
      PROVE  /\ pc'[Main] = pc[Main] \/ (pc[Main] = "wait" /\ pc'[Main] = "woken")
             /\ UNCHANGED control
  <2>1. pc'[Main] = pcs[Main] /\ UNCHANGED control
    BY <1>1, <1>2 DEF LoopHead, Return, Sleep, Take, fQuit, control
  <2> QED
    BY <1>2, <2>1
<1>3. pc \in [Threads -> PC]
    BY DEF TypeOK
<1>4. CASE FirstIteration(t)
    BY <1>2, <1>3, <1>4 DEF FirstIteration
<1>5. CASE WakeUp(t)
    BY <1>2, <1>3, <1>5 DEF WakeUp
<1>6. CASE CleanUp(t)
  <2>1. ASSUME NEW pcs \in NotifyOne(Masters)
        PROVE  /\ pcs \in [Threads -> PC]
               /\ pcs[Main] = pc[Main] \/ (pc[Main] = "wait" /\ pcs[Main] = "woken")
    BY <1>1, <1>3 DEF NotifyOne, Asleep, PC, Threads
  <2>2. PICK pcs \in [Threads -> PC] :
            /\ pcs[Main] = pc[Main] \/ (pc[Main] = "wait" /\ pcs[Main] = "woken")
            /\ LoopHead(t, fAllOk /\ fOk[t], nTodo - nNow[t], nTotal, nIdle, pcs)
    BY <1>3, <1>6, <2>1 DEF CleanUp
  <2> QED
    BY <1>2, <2>2
<1>7. CASE RunCheck(t)
    BY <1>1, <1>3, <1>7 DEF RunCheck, control
<1> QED
    BY <1>4, <1>5, <1>6, <1>7 DEF Step

\* Inside Wait the main thread comes back with a verdict or stays in Loop.
LEMMA MasterSection ==
    ASSUME MainAssumption, TypeOK, ~inDtor, Step(Main)
    PROVE  /\ pc[Main] \in {"lock", "woken", "run"}
           /\ UNCHANGED <<inDtor, session>>
           /\ pc'[Main] \in {"ctl", "lock", "wait", "run"}
           /\ pc'[Main] = "ctl" => fDone'
<1>1. Main \in Threads /\ Main \in Masters
    BY DEF MainAssumption, Threads
<1>2. ASSUME NEW allOk, NEW todo, NEW total, NEW idle, NEW pcs \in [Threads -> PC],
             LoopHead(Main, allOk, todo, total, idle, pcs)
      PROVE  /\ UNCHANGED <<inDtor, session>>
             /\ pc'[Main] \in {"ctl", "wait", "run"}
             /\ pc'[Main] = "ctl" => fDone'
    BY <1>1, <1>2 DEF LoopHead, Return, Sleep, Take, control
<1>3. pc \in [Threads -> PC]
    BY DEF TypeOK
<1>4. CASE FirstIteration(Main)
    BY <1>2, <1>3, <1>4 DEF FirstIteration
<1>5. CASE WakeUp(Main)
    BY <1>2, <1>3, <1>5 DEF WakeUp
<1>6. CASE CleanUp(Main)
    BY <1>1, <1>2, <1>3, <1>6 DEF CleanUp
<1>7. CASE RunCheck(Main)
    BY <1>1, <1>3, <1>7 DEF RunCheck, control
<1> QED
    BY <1>4, <1>5, <1>6, <1>7 DEF Step

\* main uses the queue as CheckQueue lets its clients.
LEMMA MainIsClient ==
    ASSUME MainAssumption, IInv, ScriptSound, [MainNext]_mvars
    PROVE  [Next]_vars
<1>1. Main \in Masters
    BY DEF MainAssumption
<1>2. ASSUME NEW c \in Checks \ session, Add(Main, <<c>>), script = "add"
      PROVE  Client(Main)
  <2>1. Range(<<c>>) = {c} /\ Pending \subseteq session
    BY DEF Range, IInv, StatusSound
  <2>2. 1 \in 0..MaxAdd /\ <<c>> \in [1..1 -> Checks]
    BY NumbersAssumption DEF MainAssumption
  <2>3. <<c>> \in UNION {[1..n -> Checks] : n \in 0..MaxAdd}
    BY <2>2
  <2>4. \A i, j \in DOMAIN <<c>> : <<c>>[i] = <<c>>[j] => i = j
    OBVIOUS
  <2>5. <<c>> \in AddInputs
    BY <2>1, <2>3, <2>4 DEF AddInputs
  <2> QED
    BY <1>2, <2>5 DEF Client, ScriptSound
<1>3. ASSUME MainThread PROVE [Next]_vars
    BY <1>1, <1>2, <1>3 DEF MainThread, DeclareControl, CreateThread, AddCheck, CallWait,
        DestroyControl, UnlockControl, DestroyQueue, ScriptSound, Client, Next
<1>4. CASE \E t \in Threads : PoolThread(t) \/ Spurious(t)
    BY <1>4 DEF PoolThread, Spurious, Next
<1>5. CASE UNCHANGED mvars
    BY <1>5 DEF mvars
<1> QED
    BY <1>3, <1>4, <1>5 DEF MainNext

LEMMA ScriptSoundNext ==
    ASSUME MainAssumption, IInv, ScriptSound, [MainNext]_mvars
    PROVE  ScriptSound'
<1>1. /\ Main \in Threads /\ Main \in Masters /\ Main \notin Workers
      /\ pc \in [Threads -> PC] /\ session \subseteq Checks /\ TypeOK
    BY ThreadsAssumption DEF MainAssumption, Threads, IInv, TypeOK
<1> USE DEF ScriptSound, Script
<1>2. CASE DeclareControl
    BY <1>1, <1>2 DEF DeclareControl, Construct
<1>3. CASE CreateThread
    BY <1>1, <1>3 DEF CreateThread, Thread, EnterLoop, control
<1>4. CASE AddCheck
  <2>1. PICK c \in Checks \ session :
            /\ Add(Main, <<c>>)
            /\ script' = IF Checks \subseteq session \cup {c} THEN "wait" ELSE "add"
    BY <1>4 DEF AddCheck
  <2>2. Range(<<c>>) = {c}
    BY DEF Range
  <2>3. pc'[Main] = pc[Main]
    <3>1. Len(<<c>>) = 1
      OBVIOUS
    <3>2. pc' \in NotifyOne(Workers)
      BY <2>1, <3>1 DEF Add
    <3> QED
      BY <1>1, <3>2 DEF NotifyOne, Asleep
  <2>4. session' = session \cup {c} /\ UNCHANGED <<fDone, inDtor>> /\ script = "add"
    BY <1>4, <2>1, <2>2 DEF Add, AddCheck
  <2> QED
    BY <1>1, <2>1, <2>3, <2>4
<1>5. CASE CallWait
    BY <1>1, <1>5 DEF CallWait, Wait, EnterLoop, control
<1>6. CASE DestroyControl
    BY <1>1, <1>6 DEF DestroyControl, Destroy
<1>7. CASE UnlockControl
    BY <1>1, <1>7 DEF UnlockControl, Leave
<1>8. CASE DestroyQueue
    BY <1>8 DEF DestroyQueue, vars, control
<1>9. ASSUME NEW t \in Threads, PoolThread(t) PROVE ScriptSound'
  <2>1. CASE t = Main
    <3>1. pc[Main] \in {"lock", "woken", "run"}
      BY <1>9, <2>1 DEF PoolThread, Step, FirstIteration, CleanUp, WakeUp, RunCheck
    <3>2. script = "dtor" /\ ~inDtor /\ script' = script
      BY <1>9, <3>1 DEF PoolThread
    <3> QED
      BY <1>1, <1>9, <2>1, <3>2, MasterSection DEF PoolThread
  <2>2. CASE t \in Workers
    <3>1. /\ pc'[Main] = pc[Main] \/ (pc[Main] = "wait" /\ pc'[Main] = "woken")
          /\ UNCHANGED <<fDone, inDtor, session, script>>
      BY <1>1, <1>9, <2>2, WorkerSection DEF PoolThread, control
    <3> QED
      BY <3>1
  <2> QED
    BY <2>1, <2>2 DEF MainAssumption, Threads
<1>10. ASSUME NEW t \in Threads, Spurious(t) PROVE ScriptSound'
    BY <1>1, <1>10 DEF Spurious, SpuriousWakeUp, control
<1>11. CASE UNCHANGED mvars
    BY <1>11 DEF mvars, vars, control
<1> QED
    BY <1>2, <1>3, <1>4, <1>5, <1>6, <1>7, <1>8, <1>9, <1>10, <1>11
       DEF MainNext, MainThread

\* The invariant of the queue and the progress of main, together.
THEOREM ProgramInvariance ==
    ASSUME MainAssumption
    PROVE  MainSpec => [](IInv /\ ScriptSound)
<1>1. MainInit => IInv /\ ScriptSound
  <2>1. Main \in Threads
    BY DEF MainAssumption, Threads
  <2> QED
    BY <2>1, InitInv DEF MainInit, Init, ScriptSound, Script
<1>2. IInv /\ ScriptSound /\ [MainNext]_mvars => (IInv /\ ScriptSound)'
  <2>1. ReuseAfterWait = FALSE
    BY NumbersAssumption DEF MainAssumption
  <2> QED
    BY <2>1, MainIsClient, ScriptSoundNext, NextInv
<1> QED
    BY <1>1, <1>2, PTL DEF MainSpec

\* main.cpp is one of the clients that CheckQueue is about: what is proved of
\* the queue holds of the program.
THEOREM ProgramIsClient ==
    ASSUME MainAssumption
    PROVE  MainSpec => Spec
<1>1. MainInit => Init
    BY DEF MainInit
<1>2. IInv /\ ScriptSound /\ [MainNext]_mvars => [Next]_vars
    BY MainIsClient
<1> QED
    BY <1>1, <1>2, ProgramInvariance, PTL DEF MainSpec, Spec

\* When main comes to destroy the queue each of its checks has been executed
\* once, and none is left in the queue or in a thread, with any number of
\* workers and checks.
THEOREM AllChecksRunTheorem ==
    ASSUME MainAssumption
    PROVE  MainSpec => []AllChecksRun
<1>1. ASSUME IInv, ScriptSound, script \in {"queue", "exit"}
      PROVE  result /\ (\A c \in Checks : runs[c] = 1) /\ Pending = {}
  <2>1. fDone /\ session = Checks /\ Fails = {}
    BY <1>1 DEF ScriptSound, MainAssumption, TaskCheck
  <2> QED
    BY <1>1, <2>1 DEF IInv, VerdictCorrect, StatusSound
<1>2. IInv /\ ScriptSound => AllChecksRun
    BY <1>1 DEF AllChecksRun
<1> QED
    BY <1>2, ProgramInvariance, PTL

\* The fairness of MainSpec for the main thread, outside Loop and inside it,
\* with the guards in the place of ENABLED.
MainCan == script \in {"unlock", "queue"} \/ (script = "dtor" /\ pc[Main] = "ctl")
MainInLoop == script # "exit" /\ Running(Main)

MainScheduled ==
    /\ []<>~MainCan \/ []<><<MainThread>>_mvars
    /\ []<>~MainInLoop \/ []<><<PoolThread(Main)>>_mvars

LEMMA MainFairIsScheduled ==
    /\ [](MainCan => ENABLED <<MainThread>>_mvars) /\ WF_mvars(MainThread)
    /\ [](MainInLoop => ENABLED <<PoolThread(Main)>>_mvars) /\ WF_mvars(PoolThread(Main))
    => MainScheduled
    BY PTL DEF MainScheduled

\* When the pool has done its work main comes to its end: Wait returns, the
\* destructor has nothing to wait for, and the queue is destroyed.
THEOREM MainEnds ==
    ASSUME MainAssumption
    PROVE  MainSpec /\ MainScheduled => (script = "dtor" /\ nTodo = 0 ~> script = "exit")
<1> DEFINE Waits == script = "dtor" /\ InLoop(Main) /\ nTodo = 0
           Back == script = "dtor" /\ pc[Main] = "ctl"
           Unlocks == script = "unlock"
           Last == script = "queue"
           Exit == script = "exit"
           Inv == IInv /\ ScriptSound
<1>1. /\ ReuseAfterWait = FALSE
      /\ Main \in Masters /\ Main \in Threads /\ Main \notin Workers
    BY ThreadsAssumption, NumbersAssumption DEF MainAssumption, Threads
<1>2. Inv => /\ script = "dtor" /\ nTodo = 0 => Waits \/ Back
             /\ Waits => MainInLoop /\ pc[Main] \in {"lock", "woken"}
             /\ Back \/ Unlocks \/ Last => MainCan
  <2> SUFFICES ASSUME Inv
               PROVE  /\ script = "dtor" /\ nTodo = 0 => Waits \/ Back
                      /\ Waits => MainInLoop /\ pc[Main] \in {"lock", "woken"}
                      /\ Back \/ Unlocks \/ Last => MainCan
    OBVIOUS
  <2>1. script = "dtor" /\ nTodo = 0 => Waits \/ Back
    BY DEF ScriptSound, InLoop
  <2>2. ASSUME Waits PROVE MainInLoop /\ pc[Main] \in {"lock", "woken"}
    <3>1. ~HasBatch(Main) /\ pc[Main] # "wait"
      BY <1>1, <2>2, NothingLeft DEF IInv, NoLostMasterWakeUp, Asleep
    <3> QED
      BY <2>2, <3>1 DEF InLoop, HasBatch, MainInLoop, Running
  <2> QED
    BY <2>1, <2>2 DEF MainCan
<1>3. Inv /\ [MainNext]_mvars => [Next]_vars /\ Inv'
    BY <1>1, MainIsClient, ScriptSoundNext, NextInv
<1>4. ASSUME Inv, [MainNext]_mvars, Waits PROVE Waits' \/ Back'
  <2>1. [Next]_vars /\ Inv'
    BY <1>3, <1>4
  <2>2. nTodo' = 0
    BY <1>1, <1>4, <2>1, NextWorks DEF WorkFalls, IInv, TypeOK
  <2>3. script' = "dtor"
    BY <1>2, <1>4 DEF MainNext, MainThread, DeclareControl, CreateThread, AddCheck,
          CallWait, DestroyControl, Destroy, UnlockControl, DestroyQueue, PoolThread,
          Spurious, mvars
  <2> QED
    BY <2>1, <2>2, <2>3 DEF ScriptSound, InLoop
<1>5. ASSUME Inv, <<PoolThread(Main)>>_mvars, Waits PROVE Back'
  <2>1. Step(Main) /\ script' = "dtor" /\ [MainNext]_mvars
    BY <1>1, <1>5 DEF PoolThread, MainNext
  <2>2. pc'[Main] \in {"ctl", "leave"}
    BY <1>1, <1>2, <1>5, <2>1, StepWorks DEF StepWork
  <2>3. ScriptSound'
    BY <1>3, <1>5, <2>1
  <2> QED
    BY <2>1, <2>2, <2>3 DEF ScriptSound
<1>6. ASSUME Inv, [MainNext]_mvars
      PROVE  /\ Back => Back' \/ Unlocks'
             /\ Unlocks => Unlocks' \/ Last'
             /\ Last => Last' \/ Exit'
  <2>1. ScriptSound' /\ [Next]_vars /\ IInv'
    BY <1>3, <1>6
  <2>2. script = "dtor" => \/ DestroyControl
                           \/ /\ script' = "dtor"
                              /\ \/ \E t \in Threads : Step(t) \/ SpuriousWakeUp(t)
                                 \/ UNCHANGED vars
    BY <1>6 DEF MainNext, MainThread, DeclareControl, CreateThread, AddCheck, CallWait,
          UnlockControl, DestroyQueue, PoolThread, Spurious, mvars
  <2>3. ASSUME Back, NEW t \in Threads, Step(t) \/ SpuriousWakeUp(t), script' = "dtor"
        PROVE  pc'[Main] = "ctl"
    <3>1. t # Main
      BY <1>6, <2>3, StepWorks DEF Running, SpuriousWakeUp
    <3>2. t \in Workers
      BY <3>1 DEF Threads, MainAssumption
    <3> QED
      BY <1>1, <1>6, <2>3, <3>1, <3>2, WorkerSection DEF SpuriousWakeUp, IInv, TypeOK
  <2>4. Back => Back' \/ Unlocks'
    BY <2>2, <2>3 DEF DestroyControl, vars
  <2>5. Unlocks => Unlocks' \/ Last'
    BY <1>6 DEF MainNext, MainThread, DeclareControl, CreateThread, AddCheck, CallWait,
          DestroyControl, UnlockControl, DestroyQueue, PoolThread, Spurious, mvars
  <2>6. Last => Last' \/ Exit'
    BY <1>6 DEF MainNext, MainThread, DeclareControl, CreateThread, AddCheck, CallWait,
          DestroyControl, UnlockControl, DestroyQueue, PoolThread, Spurious, mvars
  <2> QED
    BY <2>4, <2>5, <2>6
<1>7. ASSUME Inv, <<MainThread>>_mvars
      PROVE  (Back => Unlocks') /\ (Unlocks => Last') /\ (Last => Exit')
    BY <1>7 DEF MainThread, DeclareControl, CreateThread, AddCheck, CallWait,
          DestroyControl, UnlockControl, DestroyQueue
<1>8. /\ Inv /\ [MainNext]_mvars =>
            /\ Waits => Waits' \/ Back'
            /\ Back => Back' \/ Unlocks'
            /\ Unlocks => Unlocks' \/ Last'
            /\ Last => Last' \/ Exit'
      /\ Inv /\ <<PoolThread(Main)>>_mvars => (Waits => Back')
      /\ Inv /\ <<MainThread>>_mvars => (Back => Unlocks') /\ (Unlocks => Last') /\ (Last => Exit')
    BY <1>4, <1>5, <1>6, <1>7
<1>9. MainSpec => []Inv
    BY ProgramInvariance
<1>10. Exit <=> script = "exit"
    OBVIOUS
<1> HIDE DEF Waits, Back, Unlocks, Last, Exit, Inv
<1> QED
    BY <1>2, <1>8, <1>9, <1>10, PTL DEF MainSpec, MainScheduled
=============================================================================
