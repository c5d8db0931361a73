--------------------------- MODULE SemaphoreProofs ---------------------------
(***************************************************************************)
(* Machine-checked proofs about Semaphore: units are conserved and no      *)
(* notification is lost, for any number of threads, semaphores and grants. *)
(***************************************************************************)
EXTENDS Semaphore, FiniteSetTheorems, TLAPS

\* A thread inside wait() or post() works on a live grant of its own that has
\* a semaphore: in wait() the grant is not yet noted, in post() it still is.
CallShape ==
    \A t \in Threads :
        LET g == call[t].grant
        IN  /\ pc[t] \in {"lock", "wait", "woken"} =>
                 g \in live /\ Owner[g] = t /\ sem[g] \in Sems /\ ~fHaveGrant[g]
            /\ pc[t] = "notify" =>
                 /\ g \in live /\ Owner[g] = t /\ sem[g] \in Sems /\ fHaveGrant[g]
                 /\ call[t].op = "move" =>
                        call[t].from \in live /\ Owner[call[t].from] = t

\* Only a grant with a semaphore holds a unit.
HeldHasSem == \A g \in live : fHaveGrant[g] => sem[g] \in Sems

\* The inductive invariant.
SInv == TypeOK /\ CallShape /\ HeldHasSem /\ Conserved /\ NoLostWakeUp

-----------------------------------------------------------------------------
(***************************************************************************)
(* Counting.                                                               *)
(***************************************************************************)

\* The sets that the invariant counts are finite.
LEMMA Countable ==
    ASSUME TypeOK, NEW s
    PROVE  /\ IsFiniteSet(Held(s)) /\ Cardinality(Held(s)) \in Nat
           /\ IsFiniteSet(Posting(s)) /\ Cardinality(Posting(s)) \in Nat
           /\ IsFiniteSet(Waking(s)) /\ Cardinality(Waking(s)) \in Nat
<1>1. Held(s) \in SUBSET Grants /\ Posting(s) \in SUBSET Threads
                                /\ Waking(s) \in SUBSET Threads
    BY DEF TypeOK, Held, Posting, Waking
<1> QED
    BY <1>1, SetsAssumption, FS_Subset, FS_CardinalityType

\* The grants that hold a unit of s when `have' says which grants hold one.
HeldWith(have, s) == {g \in live : have[g] /\ sem[g] = s}

\* Moving a grant to one that holds nothing changes no semaphore's holdings.
LEMMA HandCounts ==
    ASSUME TypeOK, NEW have \in [Grants -> BOOLEAN],
           NEW g \in live, NEW d \in live, ~have[d], NEW s,
           Hand(g, d, have), UNCHANGED live
    PROVE  Cardinality(Held(s)') = Cardinality(HeldWith(have, s))
<1> DEFINE old == {x \in live : have[x] /\ sem[x] = s}
           new == {x \in live : fHaveGrant'[x] /\ sem'[x] = s}
<1>0. old = HeldWith(have, s) /\ new = Held(s)'
    BY DEF HeldWith, Held
<1>1. g \in Grants /\ d \in Grants /\ live \subseteq Grants
    BY DEF TypeOK
<1>2. IsFiniteSet(old)
    <2>1. old \in SUBSET Grants
        BY <1>1
    <2> QED
        BY <2>1, SetsAssumption, FS_Subset
<1>3. \A x \in Grants : x # d /\ x # g => fHaveGrant'[x] = have[x] /\ sem'[x] = sem[x]
    BY DEF TypeOK, Hand
<1>4. fHaveGrant'[g] = FALSE
    BY <1>1 DEF TypeOK, Hand
<1>5. g # d => fHaveGrant'[d] = have[g] /\ sem'[d] = sem[g]
    BY <1>1 DEF TypeOK, Hand
<1>6. CASE g \in old
    <2>1. g # d
        BY <1>6
    <2>2. new = (old \ {g}) \cup {d}
        BY <1>1, <1>3, <1>4, <1>5, <1>6, <2>1
    <2>3. d \notin old
        OBVIOUS
    <2> HIDE DEF old, new
    <2>4. IsFiniteSet(old \ {g}) /\ Cardinality(old \ {g}) = Cardinality(old) - 1
        BY <1>2, <1>6, FS_RemoveElement
    <2>5. Cardinality(new) = Cardinality(old) - 1 + 1
        BY <2>2, <2>3, <2>4, FS_AddElement
    <2>6. Cardinality(old) \in Nat
        BY <1>2, FS_CardinalityType
    <2>7. Cardinality(new) = Cardinality(old)
        BY <2>5, <2>6
    <2> QED
        BY <1>0, <2>7
<1>7. CASE g \notin old
    <2>1. new = old
        BY <1>1, <1>3, <1>4, <1>5, <1>7
    <2> HIDE DEF old, new
    <2> QED
        BY <1>0, <2>1
<1> QED
    BY <1>6, <1>7

-----------------------------------------------------------------------------
(***************************************************************************)
(* Types and shape.                                                        *)
(***************************************************************************)

\* The part of the invariant that does not count.
Shape == TypeOK /\ CallShape /\ HeldHasSem

\* The loop of wait(): the thread sleeps, or its grant is noted.
LEMMA WaitLoopShape ==
    ASSUME Shape, NEW t \in Threads, WaitLoop(t)
    PROVE  Shape'
<1> DEFINE g == call[t].grant
           s == SemOf(t)
<1>1. /\ pc[t] \in {"lock", "woken"} /\ UNCHANGED <<live, sem>>
      /\ g \in live /\ Owner[g] = t /\ s \in Sems /\ s = sem[g] /\ ~fHaveGrant[g]
    BY DEF Shape, CallShape, WaitLoop, SemOf
<1>2. CASE value[s] < 1 /\ pc' = [pc EXCEPT ![t] = "wait"]
            /\ UNCHANGED <<value, fHaveGrant, call>>
    <2>1. TypeOK'
        BY <1>1, <1>2 DEF Shape, TypeOK, PC
    <2>2. CallShape'
        BY <1>1, <1>2 DEF Shape, TypeOK, CallShape
    <2> QED
        BY <1>1, <1>2, <2>1, <2>2 DEF Shape, HeldHasSem
<1>3. CASE /\ value[s] >= 1
           /\ value' = [value EXCEPT ![s] = @ - 1]
           /\ fHaveGrant' = [fHaveGrant EXCEPT ![g] = TRUE]
           /\ pc' = [pc EXCEPT ![t] = "idle"]
           /\ call' = [call EXCEPT ![t] = NoCall]
    <2>1. TypeOK'
        BY <1>1, <1>3 DEF Shape, TypeOK, PC, NoCall, Calls
    <2>2. CallShape'
        BY <1>1, <1>3 DEF Shape, TypeOK, CallShape
    <2>3. HeldHasSem'
        BY <1>1, <1>3 DEF Shape, TypeOK, HeldHasSem
    <2> QED
        BY <2>1, <2>2, <2>3 DEF Shape
<1> QED
    BY <1>2, <1>3 DEF WaitLoop

\* A sleeper wakes up by itself, still inside wait().
LEMMA SpuriousShape ==
    ASSUME Shape, NEW t \in Threads, SpuriousWakeUp(t)
    PROVE  Shape'
<1>1. TypeOK'
    BY DEF Shape, TypeOK, SpuriousWakeUp, PC
<1>2. CallShape'
    BY DEF Shape, TypeOK, CallShape, SpuriousWakeUp
<1> QED
    BY <1>1, <1>2 DEF Shape, HeldHasSem, SpuriousWakeUp

\* The three operations that call post().
LEMMA PostShape ==
    ASSUME Shape, NEW t \in Threads, NEW g \in Grants, Usable(t, g), fHaveGrant[g],
           NEW op \in {"release", "destroy", "move"},
           NEW from \in Grants \cup {Null},
           op = "move" => from \in live /\ Owner[from] = t,
           Post(t, g, op, from)
    PROVE  Shape'
<1>1. g \in live /\ Owner[g] = t /\ sem[g] \in Sems
    BY DEF Usable, Shape, HeldHasSem
<1>2. TypeOK'
    BY <1>1 DEF Shape, TypeOK, Post, PC, Calls
<1>3. CallShape'
    BY <1>1 DEF Shape, TypeOK, CallShape, Post
<1> QED
    BY <1>2, <1>3 DEF Shape, HeldHasSem, Post

\* The operations that call wait().
LEMMA EnterWaitShape ==
    ASSUME Shape, NEW t \in Threads, NEW g \in Grants, Usable(t, g), ~fHaveGrant[g],
           sem[g] \in Sems, EnterWait(t, g), UNCHANGED <<value, live, sem, fHaveGrant>>
    PROVE  Shape'
<1>1. TypeOK'
    BY DEF Shape, TypeOK, EnterWait, PC, Calls
<1>2. CallShape'
    BY DEF Shape, TypeOK, CallShape, EnterWait, Usable
<1> QED
    BY <1>1, <1>2 DEF Shape, HeldHasSem

\* A grant is constructed by a thread that has no call under way.
LEMMA ConstructShape ==
    ASSUME Shape, NEW t \in Threads, NEW g \in Grants,
           \/ DefaultConstruct(t, g)
           \/ \E s \in Sems, fTry \in BOOLEAN : Construct(t, g, s, fTry)
    PROVE  Shape'
<1>1. TypeOK'
    <2>1. CASE DefaultConstruct(t, g)
        BY <2>1 DEF Shape, TypeOK, DefaultConstruct
    <2>2. ASSUME NEW s \in Sems, Construct(t, g, s, TRUE)
          PROVE  TypeOK'
        <3>1. (value[s] >= 1) \in BOOLEAN
            OBVIOUS
        <3>2. fHaveGrant' \in [Grants -> BOOLEAN]
            BY <2>2, <3>1, Zenon DEF Shape, TypeOK, Construct
        <3>3. value' \in [Sems -> Nat]
            BY <2>2 DEF Shape, TypeOK, Construct
        <3> QED
            BY <2>2, <3>2, <3>3 DEF Shape, TypeOK, Construct
    <2>3. ASSUME NEW s \in Sems, Construct(t, g, s, FALSE)
          PROVE  TypeOK'
        <3>1. EnterWait(t, g) /\ UNCHANGED value
            BY <2>3 DEF Construct
        <3>2. pc' \in [Threads -> PC] /\ call' \in [Threads -> Calls]
            BY <3>1 DEF Shape, TypeOK, EnterWait, PC, Calls
        <3> QED
            BY <2>3, <3>1, <3>2 DEF Shape, TypeOK, Construct
    <2> QED
        BY <2>1, <2>2, <2>3
<1>2. CallShape'
    BY DEF Shape, TypeOK, CallShape, DefaultConstruct, Construct, EnterWait
<1>3. HeldHasSem'
    BY DEF Shape, TypeOK, HeldHasSem, DefaultConstruct, Construct, EnterWait
<1> QED
    BY <1>1, <1>2, <1>3 DEF Shape

\* try_wait() took a unit, and the grant is noted at once.
LEMMA TryAcquireShape ==
    ASSUME Shape, NEW t \in Threads, NEW g \in Grants, TryAcquire(t, g)
    PROVE  Shape'
<1>1. TypeOK'
    BY DEF Shape, TypeOK, TryAcquire
<1>2. CallShape'
    BY DEF Shape, TypeOK, CallShape, TryAcquire, Usable
<1>3. HeldHasSem'
    BY DEF Shape, TypeOK, HeldHasSem, TryAcquire, Usable
<1> QED
    BY <1>1, <1>2, <1>3 DEF Shape

\* Handing a grant over, with no call of its owner under way.
LEMMA HandShape ==
    ASSUME Shape, NEW t \in Threads, NEW g \in live, NEW d \in live,
           Owner[g] = t, Owner[d] = t,
           NEW have \in [Grants -> BOOLEAN],
           have = fHaveGrant \/ have = [fHaveGrant EXCEPT ![d] = FALSE],
           Hand(g, d, have), pc'[t] = "idle", TypeOK', UNCHANGED live,
           \A u \in Threads \ {t} : call'[u] = call[u] /\
                (pc'[u] = pc[u] \/ (pc[u] = "wait" /\ pc'[u] = "woken"))
    PROVE  Shape'
<1>1. g \in Grants /\ d \in Grants
    BY DEF Shape, TypeOK
<1>2. \A x \in Grants : x # d /\ x # g =>
            fHaveGrant'[x] = fHaveGrant[x] /\ sem'[x] = sem[x]
    BY <1>1 DEF Shape, TypeOK, Hand
<1>3. CallShape'
    BY <1>1, <1>2 DEF Shape, TypeOK, CallShape
<1>4. HeldHasSem'
    BY <1>1, <1>2 DEF Shape, TypeOK, HeldHasSem, Hand
<1> QED
    BY <1>3, <1>4 DEF Shape

\* The end of a call of post().
LEMMA NotifyShape ==
    ASSUME Shape, NEW t \in Threads, Notify(t)
    PROVE  Shape'
<1> DEFINE g == call[t].grant
           from == call[t].from
           released == [fHaveGrant EXCEPT ![g] = FALSE]
<1>1. g \in live /\ Owner[g] = t /\ sem[g] \in Sems /\ g \in Grants
    BY DEF Shape, TypeOK, CallShape, Notify
<1>2. /\ pc'[t] = "idle" /\ pc' \in [Threads -> PC]
      /\ \A u \in Threads \ {t} :
            pc'[u] = pc[u] \/ (pc[u] = "wait" /\ pc'[u] = "woken")
    <2>1. \A u \in Asleep(SemOf(t)) : u \in Threads /\ u # t /\ pc[u] = "wait"
        BY DEF Asleep, Notify
    <2>2. CASE pc' = [pc EXCEPT ![t] = "idle"]
        BY <2>2 DEF Shape, TypeOK, PC
    <2>3. ASSUME NEW u \in Asleep(SemOf(t)),
                 pc' = [[pc EXCEPT ![t] = "idle"] EXCEPT ![u] = "woken"]
          PROVE  <1>2
        BY <2>1, <2>3 DEF Shape, TypeOK, PC
    <2> QED
        BY <2>2, <2>3 DEF Notify
<1>3. call' \in [Threads -> Calls] /\ \A u \in Threads \ {t} : call'[u] = call[u]
    BY DEF Shape, TypeOK, Notify, NoCall, Calls
<1>4. released \in [Grants -> BOOLEAN] /\ UNCHANGED value
    BY <1>1 DEF Shape, TypeOK, Notify
<1>5. CASE /\ fHaveGrant' = released /\ UNCHANGED sem
           /\ live' = live \/ live' = live \ {g}
    <2>1. TypeOK'
        BY <1>2, <1>3, <1>4, <1>5 DEF Shape, TypeOK
    <2>2. CallShape'
        BY <1>1, <1>2, <1>3, <1>5 DEF Shape, TypeOK, CallShape
    <2>3. HeldHasSem'
        BY <1>1, <1>5 DEF Shape, TypeOK, HeldHasSem
    <2> QED
        BY <2>1, <2>2, <2>3 DEF Shape
<1>6. CASE call[t].op = "move" /\ Hand(from, g, released) /\ UNCHANGED live
    <2>1. from \in live /\ Owner[from] = t /\ from \in Grants
        BY <1>6 DEF Shape, TypeOK, CallShape, Notify
    <2>2. TypeOK'
        BY <1>1, <1>2, <1>3, <1>4, <1>6, <2>1 DEF Shape, TypeOK, Hand
    <2> HIDE DEF g, from
    <2> QED
        BY <1>1, <1>2, <1>3, <1>4, <1>6, <2>1, <2>2, HandShape
<1> QED
    BY <1>5, <1>6 DEF Notify

\* The types and the shape are preserved by every step.
LEMMA ShapeStep ==
    ASSUME Shape, Next
    PROVE  Shape'
<1>1. ASSUME NEW t \in Threads, Step(t) \/ SpuriousWakeUp(t)
      PROVE  Shape'
    BY <1>1, WaitLoopShape, NotifyShape, SpuriousShape DEF Step
<1>2. ASSUME NEW t \in Threads, NEW g \in Grants, Use(t, g)
      PROVE  Shape'
    <2>1. CASE \/ DefaultConstruct(t, g)
               \/ \E s \in Sems, fTry \in BOOLEAN : Construct(t, g, s, fTry)
        BY <2>1, ConstructShape
    <2>2. CASE Acquire(t, g)
        <3>1. sem[g] \in Sems
            BY <2>2 DEF Acquire, Shape, TypeOK
        <3> QED
            BY <2>2, <3>1, EnterWaitShape DEF Acquire
    <2>3. CASE TryAcquire(t, g)
        BY <2>3, TryAcquireShape
    <2>4. CASE Release(t, g)
        BY <2>4, PostShape DEF Release
    <2>5. ASSUME NEW d \in Grants, MoveTo(t, g, d)
          PROVE  Shape'
        <3>1. /\ g \in live /\ Owner[g] = t /\ d \in live /\ Owner[d] = t
              /\ pc[t] = "idle" /\ Usable(t, d)
            BY <2>5 DEF MoveTo, Usable
        <3>2. CASE fHaveGrant[d]
            BY <2>5, <3>1, <3>2, PostShape DEF MoveTo
        <3>3. CASE ~fHaveGrant[d]
            <4>1. Hand(g, d, fHaveGrant) /\ UNCHANGED <<value, live, pc, call>>
                BY <2>5, <3>3 DEF MoveTo
            <4>2. TypeOK'
                BY <4>1 DEF Shape, TypeOK, Hand
            <4>3. fHaveGrant \in [Grants -> BOOLEAN]
                BY DEF Shape, TypeOK
            <4> QED
                BY <3>1, <4>1, <4>2, <4>3, HandShape
        <3> QED
            BY <3>2, <3>3
    <2>6. CASE Destroy(t, g)
        <3>1. CASE fHaveGrant[g]
            BY <2>6, <3>1, PostShape DEF Destroy
        <3>2. CASE ~fHaveGrant[g]
            <4>1. /\ live' = live \ {g} /\ pc[t] = "idle" /\ Owner[g] = t
                  /\ UNCHANGED <<value, sem, fHaveGrant, pc, call>>
                BY <2>6, <3>2 DEF Destroy, Usable
            <4>2. TypeOK'
                BY <4>1 DEF Shape, TypeOK
            <4>3. CallShape'
                BY <4>1 DEF Shape, TypeOK, CallShape
            <4> QED
                BY <4>1, <4>2, <4>3 DEF Shape, HeldHasSem
        <3> QED
            BY <3>1, <3>2
    <2> QED
        BY <1>2, <2>1, <2>2, <2>3, <2>4, <2>5, <2>6 DEF Use
<1> QED
    BY <1>1, <1>2 DEF Next

-----------------------------------------------------------------------------
(***************************************************************************)
(* Units and wake-ups.                                                     *)
(***************************************************************************)

\* The part that does.
Counts == Conserved /\ NoLostWakeUp

\* Taking a unit of semaphore z for grant g, perhaps by a thread that woke up.
LEMMA TakeUnit ==
    ASSUME Shape, Counts, NEW z \in Sems, NEW g, NEW t,
           value[z] >= 1, value' = [value EXCEPT ![z] = @ - 1],
           g \notin Held(z), Held(z)' = Held(z) \cup {g},
           Waking(z)' = Waking(z) \/ Waking(z)' = Waking(z) \ {t},
           \A s : s # z => Held(s)' = Held(s) /\ Waking(s)' = Waking(s),
           \A s : Posting(s)' = Posting(s) /\ Asleep(s)' = Asleep(s)
    PROVE  Counts'
<1>1. /\ value'[z] = value[z] - 1 /\ value[z] \in Nat /\ Capacity[z] \in Nat
      /\ \A s \in Sems : s # z => value'[s] = value[s]
    BY FunctionsAssumption DEF Shape, TypeOK
<1>2. /\ IsFiniteSet(Held(z)) /\ Cardinality(Held(z)) \in Nat
      /\ IsFiniteSet(Waking(z)) /\ Cardinality(Waking(z)) \in Nat
      /\ Cardinality(Posting(z)) \in Nat
    BY Countable DEF Shape
<1>3. Cardinality(Held(z)') = Cardinality(Held(z)) + 1
    BY <1>2, FS_AddElement
<1>4. Conserved'
    <2>1. value'[z] + Cardinality(Held(z)') = Capacity[z] + Cardinality(Posting(z)')
        <3>1. value[z] + Cardinality(Held(z)) = Capacity[z] + Cardinality(Posting(z))
            BY DEF Counts, Conserved
        <3> QED
            BY <1>1, <1>2, <1>3, <3>1
    <2>2. ASSUME NEW s \in Sems, s # z
          PROVE  value'[s] + Cardinality(Held(s)') = Capacity[s] + Cardinality(Posting(s)')
        BY <1>1, <2>2 DEF Counts, Conserved
    <2> QED
        BY <2>1, <2>2 DEF Conserved
<1>5. /\ Cardinality(Waking(z)') \in Nat
      /\ Cardinality(Waking(z)') >= Cardinality(Waking(z)) - 1
    <2>1. CASE Waking(z)' = Waking(z)
        BY <1>2, <2>1
    <2>2. CASE Waking(z)' = Waking(z) \ {t}
        <3> DEFINE rest == Waking(z) \ {t}
        <3>1. /\ IsFiniteSet(rest)
              /\ Cardinality(rest) = IF t \in Waking(z)
                    THEN Cardinality(Waking(z)) - 1 ELSE Cardinality(Waking(z))
            BY <1>2, FS_RemoveElement
        <3>2. Waking(z)' = rest
            BY <2>2
        <3> HIDE DEF rest
        <3>3. Cardinality(rest) \in Nat
            BY <3>1, FS_CardinalityType
        <3> QED
            BY <1>2, <3>1, <3>2, <3>3
    <2> QED
        BY <2>1, <2>2
<1>6. NoLostWakeUp'
    BY <1>1, <1>2, <1>5 DEF Counts, NoLostWakeUp
<1> QED
    BY <1>4, <1>6 DEF Counts

\* A step that leaves counters and waiting threads alone, and gives every
\* semaphore as many holders as before.
LEMMA SameUnits ==
    ASSUME Counts, UNCHANGED value,
           \A s : /\ Cardinality(Held(s)') = Cardinality(Held(s))
                  /\ Posting(s)' = Posting(s)
                  /\ Asleep(s)' = Asleep(s) /\ Waking(s)' = Waking(s)
    PROVE  Counts'
BY DEF Counts, Conserved, NoLostWakeUp

\* The critical section of post().
LEMMA GiveUnit ==
    ASSUME Shape, Counts, NEW z \in Sems, NEW t,
           value' = [value EXCEPT ![z] = @ + 1],
           t \notin Posting(z), Posting(z)' = Posting(z) \cup {t},
           \A s : s # z => Posting(s)' = Posting(s),
           \A s : /\ Held(s)' = Held(s)
                  /\ Asleep(s)' = Asleep(s) /\ Waking(s)' = Waking(s)
    PROVE  Counts'
<1>1. /\ value'[z] = value[z] + 1 /\ value[z] \in Nat /\ Capacity[z] \in Nat
      /\ \A s \in Sems : s # z => value'[s] = value[s]
    BY FunctionsAssumption DEF Shape, TypeOK
<1>2. /\ IsFiniteSet(Posting(z)) /\ Cardinality(Posting(z)) \in Nat
      /\ Cardinality(Held(z)) \in Nat /\ Cardinality(Waking(z)) \in Nat
    BY Countable DEF Shape
<1>3. Cardinality(Posting(z)') = Cardinality(Posting(z)) + 1
    BY <1>2, FS_AddElement
<1>4. Conserved'
    <2>1. value'[z] + Cardinality(Held(z)') = Capacity[z] + Cardinality(Posting(z)')
        <3>1. value[z] + Cardinality(Held(z)) = Capacity[z] + Cardinality(Posting(z))
            BY DEF Counts, Conserved
        <3> QED
            BY <1>1, <1>2, <1>3, <3>1
    <2>2. ASSUME NEW s \in Sems, s # z
          PROVE  value'[s] + Cardinality(Held(s)') = Capacity[s] + Cardinality(Posting(s)')
        BY <1>1, <2>2 DEF Counts, Conserved
    <2> QED
        BY <2>1, <2>2 DEF Conserved
<1>5. NoLostWakeUp'
    BY <1>1, <1>2, <1>3 DEF Counts, NoLostWakeUp
<1> QED
    BY <1>4, <1>5 DEF Counts

\* The notification of post(), when the grant it gives up is marked.
LEMMA NotifyUnit ==
    ASSUME Shape, Counts, NEW z \in Sems, NEW t, UNCHANGED value,
           t \in Posting(z), Posting(z)' = Posting(z) \ {t},
           Cardinality(Held(z)') = Cardinality(Held(z)) - 1,
           \A s : s # z => /\ Posting(s)' = Posting(s)
                           /\ Cardinality(Held(s)') = Cardinality(Held(s))
                           /\ Asleep(s)' = Asleep(s) /\ Waking(s)' = Waking(s),
           \/ Asleep(z)' = {}
           \/ \E u : /\ u \in Asleep(z) /\ u \notin Waking(z)
                     /\ Waking(z)' = Waking(z) \cup {u}
    PROVE  Counts'
<1>1. /\ value'[z] = value[z] /\ value[z] \in Nat /\ Capacity[z] \in Nat
      /\ \A s \in Sems : s # z => value'[s] = value[s]
    BY FunctionsAssumption DEF Shape, TypeOK
<1>2. /\ IsFiniteSet(Posting(z)) /\ Cardinality(Posting(z)) \in Nat
      /\ IsFiniteSet(Waking(z)) /\ Cardinality(Waking(z)) \in Nat
      /\ Cardinality(Held(z)) \in Nat
    BY Countable DEF Shape
<1>3. Cardinality(Posting(z)') = Cardinality(Posting(z)) - 1
    BY <1>2, FS_RemoveElement
<1>4. Conserved'
    <2>1. value'[z] + Cardinality(Held(z)') = Capacity[z] + Cardinality(Posting(z)')
        <3>1. value[z] + Cardinality(Held(z)) = Capacity[z] + Cardinality(Posting(z))
            BY DEF Counts, Conserved
        <3> QED
            BY <1>1, <1>2, <1>3, <3>1
    <2>2. ASSUME NEW s \in Sems, s # z
          PROVE  value'[s] + Cardinality(Held(s)') = Capacity[s] + Cardinality(Posting(s)')
        BY <1>1, <2>2 DEF Counts, Conserved
    <2> QED
        BY <2>1, <2>2 DEF Conserved
<1>5. ASSUME Asleep(z)' # {}
      PROVE  value'[z] <= Cardinality(Waking(z)') + Cardinality(Posting(z)')
    <2>1. PICK u : /\ u \in Asleep(z) /\ u \notin Waking(z)
                   /\ Waking(z)' = Waking(z) \cup {u}
        BY <1>5
    <2>2. Cardinality(Waking(z)') = Cardinality(Waking(z)) + 1
        <3>1. Cardinality(Waking(z) \cup {u}) = Cardinality(Waking(z)) + 1
            BY <1>2, <2>1, FS_AddElement
        <3> QED
            BY <2>1, <3>1
    <2>3. value[z] <= Cardinality(Waking(z)) + Cardinality(Posting(z))
        BY <2>1 DEF Counts, NoLostWakeUp
    <2> QED
        BY <1>1, <1>2, <1>3, <2>2, <2>3
<1>6. NoLostWakeUp'
    BY <1>1, <1>5 DEF Counts, NoLostWakeUp
<1> QED
    BY <1>4, <1>6 DEF Counts

\* The loop of wait(): a thread sleeps only if the counter is zero, or takes
\* a unit.
LEMMA WaitLoopCounts ==
    ASSUME Shape, Counts, NEW t \in Threads, WaitLoop(t)
    PROVE  Counts'
<1>0. PICK g \in Grants, z \in Sems : g = call[t].grant /\ z = SemOf(t)
    BY DEF Shape, TypeOK, CallShape, WaitLoop, SemOf
<1>1. /\ pc[t] \in {"lock", "woken"} /\ UNCHANGED <<live, sem>>
      /\ g \in live /\ z = sem[g] /\ ~fHaveGrant[g]
    BY <1>0 DEF Shape, TypeOK, CallShape, WaitLoop, SemOf
<1>2. CASE value[z] < 1 /\ pc' = [pc EXCEPT ![t] = "wait"]
            /\ UNCHANGED <<value, fHaveGrant, call>>
    <2>1. \A s : Held(s)' = Held(s) /\ Posting(s)' = Posting(s)
        BY <1>1, <1>2 DEF Shape, TypeOK, Held, Posting, SemOf
    <2>2. \A s : s # z => Asleep(s)' = Asleep(s) /\ Waking(s)' = Waking(s)
        BY <1>0, <1>1, <1>2 DEF Shape, TypeOK, Asleep, Waking, SemOf
    <2>3. Cardinality(Waking(z)') \in Nat /\ Cardinality(Posting(z)') \in Nat
        <3>1. Waking(z)' = Waking(z) \ {t}
            BY <1>0, <1>1, <1>2 DEF Shape, TypeOK, Waking, SemOf
        <3>2. IsFiniteSet(Waking(z)) /\ Cardinality(Posting(z)) \in Nat
            BY Countable DEF Shape
        <3> QED
            BY <2>1, <3>1, <3>2, FS_RemoveElement, FS_CardinalityType
    <2>4. Conserved'
        BY <1>2, <2>1 DEF Counts, Conserved
    <2>5. value'[z] \in Nat /\ value'[z] < 1
        BY <1>1, <1>2 DEF Shape, TypeOK
    <2>6. value'[z] <= Cardinality(Waking(z)') + Cardinality(Posting(z)')
        BY <2>3, <2>5
    <2>7. NoLostWakeUp'
        BY <1>2, <2>1, <2>2, <2>6 DEF Counts, NoLostWakeUp
    <2> QED
        BY <2>4, <2>7 DEF Counts
<1>3. CASE /\ value[z] >= 1
           /\ value' = [value EXCEPT ![z] = @ - 1]
           /\ fHaveGrant' = [fHaveGrant EXCEPT ![g] = TRUE]
           /\ pc' = [pc EXCEPT ![t] = "idle"]
           /\ call' = [call EXCEPT ![t] = NoCall]
    <2>1. /\ Held(z)' = Held(z) \cup {g} /\ g \notin Held(z)
          /\ \A s : s # z => Held(s)' = Held(s)
        BY <1>1, <1>3 DEF Shape, TypeOK, Held
    <2>2. \A s : /\ Posting(s)' = Posting(s) /\ Asleep(s)' = Asleep(s)
                 /\ Waking(s)' = Waking(s) \ {t}
        BY <1>0, <1>1, <1>3 DEF Shape, TypeOK, Posting, Asleep, Waking, SemOf
    <2>3. \A s : s # z => Waking(s)' = Waking(s)
        BY <1>0, <1>1, <1>3 DEF Shape, TypeOK, Waking, SemOf
    <2> QED
        BY <1>3, <2>1, <2>2, <2>3, TakeUnit
<1> QED
    BY <1>0, <1>2, <1>3 DEF WaitLoop

\* A sleeper that wakes up by itself is one more on its way to a unit.
LEMMA SpuriousCounts ==
    ASSUME Shape, Counts, NEW t \in Threads, SpuriousWakeUp(t)
    PROVE  Counts'
<1>1. \A s : /\ Held(s)' = Held(s) /\ Posting(s)' = Posting(s)
             /\ Asleep(s)' \subseteq Asleep(s)
             /\ (Waking(s)' = Waking(s) \/ Waking(s)' = Waking(s) \cup {t})
    BY DEF Shape, TypeOK, SpuriousWakeUp, Held, Posting, Asleep, Waking, SemOf
<1>2. Conserved'
    BY <1>1 DEF Counts, Conserved, SpuriousWakeUp
<1>3. ASSUME NEW s \in Sems, Asleep(s)' # {}
      PROVE  value'[s] <= Cardinality(Waking(s)') + Cardinality(Posting(s)')
    <2>1. /\ IsFiniteSet(Waking(s)) /\ Cardinality(Waking(s)) \in Nat
          /\ Cardinality(Posting(s)) \in Nat
        BY Countable DEF Shape
    <2>2. /\ Cardinality(Waking(s)') \in Nat
          /\ Cardinality(Waking(s)') >= Cardinality(Waking(s))
        <3> DEFINE more == Waking(s) \cup {t}
        <3>1. /\ IsFiniteSet(more)
              /\ Cardinality(more) = IF t \in Waking(s)
                    THEN Cardinality(Waking(s)) ELSE Cardinality(Waking(s)) + 1
            BY <2>1, FS_AddElement
        <3>2. Waking(s)' = Waking(s) \/ Waking(s)' = more
            BY <1>1
        <3> HIDE DEF more
        <3> QED
            BY <2>1, <3>1, <3>2
    <2>3. value[s] <= Cardinality(Waking(s)) + Cardinality(Posting(s))
        BY <1>1, <1>3 DEF Counts, NoLostWakeUp
    <2>4. value'[s] = value[s] /\ value[s] \in Nat /\ Posting(s)' = Posting(s)
        BY <1>1 DEF SpuriousWakeUp, Shape, TypeOK
    <2> QED
        BY <2>1, <2>2, <2>3, <2>4
<1> QED
    BY <1>2, <1>3 DEF Counts, NoLostWakeUp

\* What thread t does with its own grants leaves the other threads in the
\* sets they are in.
LEMMA Unconcerned ==
    ASSUME Shape, NEW t \in Threads,
           \A x \in live : Owner[x] # t => sem'[x] = sem[x],
           \A u \in Threads \ {t} : pc'[u] = pc[u] /\ call'[u] = call[u]
    PROVE  \A u \in Threads \ {t} : \A s :
               /\ u \in Posting(s)' <=> u \in Posting(s)
               /\ u \in Asleep(s)' <=> u \in Asleep(s)
               /\ u \in Waking(s)' <=> u \in Waking(s)
<1> SUFFICES ASSUME NEW u \in Threads \ {t}, NEW s
             PROVE  /\ u \in Posting(s)' <=> u \in Posting(s)
                    /\ u \in Asleep(s)' <=> u \in Asleep(s)
                    /\ u \in Waking(s)' <=> u \in Waking(s)
    OBVIOUS
<1>1. CASE pc[u] \in {"wait", "woken", "notify"}
    <2>1. call[u].grant \in live /\ Owner[call[u].grant] = u
        BY <1>1 DEF Shape, CallShape
    <2>2. SemOf(u)' = SemOf(u)
        BY <2>1 DEF SemOf
    <2> QED
        BY <2>2 DEF Posting, Asleep, Waking
<1>2. CASE pc[u] \notin {"wait", "woken", "notify"}
    BY <1>2 DEF Posting, Asleep, Waking
<1> QED
    BY <1>1, <1>2

\* A thread that neither waits nor notifies, before and after.
LEMMA SameThreads ==
    ASSUME Shape, NEW t \in Threads, pc[t] = "idle", pc'[t] \in {"idle", "lock"},
           \A x \in live : Owner[x] # t => sem'[x] = sem[x],
           \A u \in Threads \ {t} : pc'[u] = pc[u] /\ call'[u] = call[u]
    PROVE  \A s : /\ Posting(s)' = Posting(s)
                  /\ Asleep(s)' = Asleep(s) /\ Waking(s)' = Waking(s)
<1>1. \A s : /\ Posting(s) \subseteq Threads \ {t} /\ Posting(s)' \subseteq Threads \ {t}
             /\ Asleep(s) \subseteq Threads \ {t} /\ Asleep(s)' \subseteq Threads \ {t}
             /\ Waking(s) \subseteq Threads \ {t} /\ Waking(s)' \subseteq Threads \ {t}
    BY DEF Posting, Asleep, Waking
<1>2. \A u \in Threads \ {t} : \A s :
               /\ u \in Posting(s)' <=> u \in Posting(s)
               /\ u \in Asleep(s)' <=> u \in Asleep(s)
               /\ u \in Waking(s)' <=> u \in Waking(s)
    BY Unconcerned
<1> QED
    BY <1>1, <1>2

\* The critical section of post(), whichever operation calls it.
LEMMA PostCounts ==
    ASSUME Shape, Counts, NEW t \in Threads, NEW g \in Grants, Usable(t, g),
           fHaveGrant[g], NEW op, NEW from, Post(t, g, op, from)
    PROVE  Counts'
<1>1. PICK z \in Sems : z = sem[g]
    BY DEF Usable, Shape, HeldHasSem
<1>2. /\ pc[t] = "idle" /\ pc'[t] = "notify" /\ call'[t].grant = g
      /\ UNCHANGED <<live, sem, fHaveGrant>>
      /\ value' = [value EXCEPT ![z] = @ + 1]
      /\ \A u \in Threads \ {t} : pc'[u] = pc[u] /\ call'[u] = call[u]
    BY <1>1 DEF Post, Usable, Shape, TypeOK
<1>3. \A u \in Threads \ {t} : \A s :
               /\ u \in Posting(s)' <=> u \in Posting(s)
               /\ u \in Asleep(s)' <=> u \in Asleep(s)
               /\ u \in Waking(s)' <=> u \in Waking(s)
    BY <1>2, Unconcerned
<1>4. \A s : /\ Posting(s) \subseteq Threads \ {t} /\ Posting(s)' \subseteq Threads
             /\ Asleep(s) \subseteq Threads \ {t} /\ Asleep(s)' \subseteq Threads \ {t}
             /\ Waking(s) \subseteq Threads \ {t} /\ Waking(s)' \subseteq Threads \ {t}
    BY <1>2 DEF Posting, Asleep, Waking
<1>5. \A s : t \in Posting(s)' <=> s = z
    BY <1>1, <1>2 DEF Posting, SemOf
<1>6. t \notin Posting(z) /\ Posting(z)' = Posting(z) \cup {t}
    BY <1>3, <1>4, <1>5
<1>7. \A s : s # z => Posting(s)' = Posting(s)
    BY <1>3, <1>4, <1>5
<1>8. \A s : Held(s)' = Held(s) /\ Asleep(s)' = Asleep(s) /\ Waking(s)' = Waking(s)
    BY <1>2, <1>3, <1>4 DEF Held
<1> QED
    BY <1>2, <1>6, <1>7, <1>8, GiveUnit

\* The constructors.
LEMMA ConstructCounts ==
    ASSUME Shape, Counts, NEW t \in Threads, NEW g \in Grants,
           \/ DefaultConstruct(t, g)
           \/ \E s \in Sems, fTry \in BOOLEAN : Construct(t, g, s, fTry)
    PROVE  Counts'
<1>1. /\ pc[t] = "idle" /\ pc'[t] \in {"idle", "lock"}
      /\ g \notin live /\ live' = live \cup {g}
      /\ \A x \in Grants : x # g => sem'[x] = sem[x] /\ fHaveGrant'[x] = fHaveGrant[x]
      /\ \A u \in Threads \ {t} : pc'[u] = pc[u] /\ call'[u] = call[u]
    BY DEF Shape, TypeOK, DefaultConstruct, Construct, EnterWait
<1>2. \A s : /\ Posting(s)' = Posting(s)
             /\ Asleep(s)' = Asleep(s) /\ Waking(s)' = Waking(s)
    BY <1>1, SameThreads DEF Shape, TypeOK
<1>3. CASE fHaveGrant'[g] = FALSE /\ UNCHANGED value
    <2>1. \A s : Held(s)' = Held(s)
        BY <1>1, <1>3 DEF Shape, TypeOK, Held
    <2> QED
        BY <1>2, <1>3, <2>1, SameUnits
<1>4. ASSUME NEW z \in Sems, sem'[g] = z, fHaveGrant'[g] = TRUE, value[z] >= 1,
             value' = [value EXCEPT ![z] = @ - 1]
      PROVE  Counts'
    <2>1. /\ Held(z)' = Held(z) \cup {g} /\ g \notin Held(z)
          /\ \A s : s # z => Held(s)' = Held(s)
        BY <1>1, <1>4 DEF Shape, TypeOK, Held
    <2> QED
        BY <1>2, <1>4, <2>1, TakeUnit
<1>5. CASE DefaultConstruct(t, g)
    BY <1>3, <1>5 DEF DefaultConstruct, Shape, TypeOK
<1>6. ASSUME NEW z \in Sems, Construct(t, g, z, TRUE)
      PROVE  Counts'
    <2>1. CASE value[z] >= 1
        <3>1. (value[z] >= 1) = TRUE
            BY <2>1
        <3>2. fHaveGrant' = [fHaveGrant EXCEPT ![g] = TRUE]
            BY <1>6, <3>1, Zenon DEF Construct
        <3>3. sem'[g] = z /\ value' = [value EXCEPT ![z] = @ - 1]
            BY <1>6, <2>1 DEF Construct, Shape, TypeOK
        <3> QED
            BY <1>4, <2>1, <3>2, <3>3 DEF Shape, TypeOK
    <2>2. CASE ~(value[z] >= 1)
        <3>1. (value[z] >= 1) = FALSE
            BY <2>2
        <3>2. fHaveGrant' = [fHaveGrant EXCEPT ![g] = FALSE]
            BY <1>6, <3>1, Zenon DEF Construct
        <3> QED
            BY <1>3, <1>6, <2>2, <3>2 DEF Construct, Shape, TypeOK
    <2> QED
        BY <2>1, <2>2
<1>7. ASSUME NEW z \in Sems, Construct(t, g, z, FALSE)
      PROVE  Counts'
    BY <1>3, <1>7 DEF Construct, Shape, TypeOK
<1> QED
    BY <1>5, <1>6, <1>7

\* The end of a call of post(): one holder and one poster less, and one
\* sleeper, if there is any, woken.
LEMMA NotifyCounts ==
    ASSUME Shape, Counts, NEW t \in Threads, Notify(t)
    PROVE  Counts'
<1>1. PICK g \in live, z \in Sems :
            /\ g = call[t].grant
            /\ z = sem[g] /\ z = SemOf(t)
            /\ Owner[g] = t /\ fHaveGrant[g] /\ pc[t] = "notify"
    <2>1. /\ pc[t] = "notify" /\ call[t].grant \in live /\ SemOf(t) \in Sems
          /\ Owner[call[t].grant] = t /\ fHaveGrant[call[t].grant]
        BY DEF Shape, CallShape, Notify, SemOf
    <2> QED
        BY <2>1 DEF SemOf
<1> DEFINE from == call[t].from
           released == [fHaveGrant EXCEPT ![g] = FALSE]
           Left(s) == HeldWith(released, s)
<1>2. /\ g \in Grants /\ live \subseteq Grants /\ released \in [Grants -> BOOLEAN]
      /\ ~released[g]
    BY DEF Shape, TypeOK
<1>3. \/ fHaveGrant' = released /\ UNCHANGED sem /\ live' \in {live, live \ {g}}
      \/ /\ from \in live /\ Owner[from] = t
         /\ Hand(from, g, released) /\ UNCHANGED live
    BY <1>1 DEF Notify, Shape, CallShape
<1>4. \A s : Cardinality(Held(s)') = Cardinality(Left(s))
    <2>1. CASE fHaveGrant' = released /\ UNCHANGED sem /\ live' \in {live, live \ {g}}
        <3>1. \A s : Held(s)' = Left(s)
            BY <1>2, <2>1 DEF Held, HeldWith
        <3> QED
            BY <3>1
    <2>2. CASE from \in live /\ Hand(from, g, released) /\ UNCHANGED live
        <3>1. TypeOK
            BY DEF Shape
        <3> HIDE DEF released
        <3> QED
            BY <1>2, <2>2, <3>1, HandCounts
    <2> QED
        BY <1>3, <2>1, <2>2
<1>5. g \in Held(z) /\ Left(z) = Held(z) \ {g}
    BY <1>1, <1>2 DEF Held, HeldWith, Shape, TypeOK
<1>6. \A s : s # z => Left(s) = Held(s)
    BY <1>1, <1>2 DEF Held, HeldWith, Shape, TypeOK
<1>7. Cardinality(Held(z)') = Cardinality(Held(z)) - 1
    <2>1. IsFiniteSet(Held(z))
        BY Countable DEF Shape
    <2>2. Cardinality(Held(z) \ {g}) = Cardinality(Held(z)) - 1
        BY <1>5, <2>1, FS_RemoveElement
    <2> QED
        BY <1>4, <1>5, <2>2
<1>8. \A x \in live : Owner[x] # t => sem'[x] = sem[x]
    BY <1>1, <1>2, <1>3 DEF Hand, Shape, TypeOK
<1>9. \A v \in Threads \ {t} : call'[v] = call[v]
    BY DEF Notify, Shape, TypeOK
<1>10. \A v \in Threads \ {t} :
            pc[v] \in {"wait", "woken", "notify"} => SemOf(v)' = SemOf(v)
    BY <1>8, <1>9 DEF Shape, CallShape, SemOf
<1>11. t \in Posting(z) /\ \A s : s # z => t \notin Posting(s)
    BY <1>1 DEF Posting
<1>12. CASE Asleep(z) = {} /\ pc' = [pc EXCEPT ![t] = "idle"]
    <2>1. pc'[t] = "idle" /\ \A v \in Threads \ {t} : pc'[v] = pc[v]
        BY <1>12 DEF Shape, TypeOK
    <2>2. \A s : /\ Posting(s)' = Posting(s) \ {t}
                 /\ Asleep(s)' = Asleep(s) /\ Waking(s)' = Waking(s)
        BY <1>1, <1>10, <2>1 DEF Posting, Asleep, Waking
    <2>3. \A s : s # z => Posting(s)' = Posting(s)
        BY <1>11, <2>2
    <2>4. Asleep(z)' = {}
        BY <1>12, <2>2
    <2> HIDE DEF Left
    <2> QED
        BY <1>4, <1>6, <1>7, <1>11, <2>2, <2>3, <2>4, NotifyUnit DEF Notify
<1>13. ASSUME NEW u \in Asleep(z),
              pc' = [[pc EXCEPT ![t] = "idle"] EXCEPT ![u] = "woken"]
       PROVE  Counts'
    <2>1. /\ u \in Threads /\ u # t /\ pc[u] = "wait" /\ SemOf(u) = z
          /\ u \notin Waking(z)
        BY <1>1 DEF Asleep, Waking
    <2>2. /\ pc'[t] = "idle" /\ pc'[u] = "woken"
          /\ \A v \in Threads \ {t, u} : pc'[v] = pc[v]
        BY <1>13, <2>1 DEF Shape, TypeOK
    <2>3. \A s : Posting(s)' = Posting(s) \ {t} /\ Asleep(s)' = Asleep(s) \ {u}
        BY <1>1, <1>10, <2>1, <2>2 DEF Posting, Asleep
    <2>4. /\ Waking(z)' = Waking(z) \cup {u}
          /\ \A s : s # z => Waking(s)' = Waking(s) /\ u \notin Asleep(s)
        BY <1>1, <1>10, <2>1, <2>2 DEF Waking, Asleep
    <2>5. \A s : s # z => Posting(s)' = Posting(s) /\ Asleep(s)' = Asleep(s)
        BY <1>11, <2>3, <2>4
    <2> HIDE DEF Left
    <2> QED
        BY <1>4, <1>6, <1>7, <1>11, <2>1, <2>3, <2>4, <2>5, NotifyUnit DEF Notify
<1> QED
    BY <1>1, <1>12, <1>13 DEF Notify

\* The operations on a grant.
LEMMA UseCounts ==
    ASSUME Shape, Counts, NEW t \in Threads, NEW g \in Grants, Use(t, g)
    PROVE  Counts'
<1>1. CASE \/ DefaultConstruct(t, g)
           \/ \E s \in Sems, fTry \in BOOLEAN : Construct(t, g, s, fTry)
    BY <1>1, ConstructCounts
<1>2. CASE Acquire(t, g)
    <2>1. /\ pc[t] = "idle" /\ pc'[t] = "lock"
          /\ UNCHANGED <<value, live, sem, fHaveGrant>>
          /\ \A u \in Threads \ {t} : pc'[u] = pc[u] /\ call'[u] = call[u]
        BY <1>2 DEF Acquire, EnterWait, Usable, Shape, TypeOK
    <2>2. \A s : Held(s)' = Held(s)
        BY <2>1 DEF Held
    <2>3. \A s : /\ Posting(s)' = Posting(s)
                 /\ Asleep(s)' = Asleep(s) /\ Waking(s)' = Waking(s)
        BY <2>1, SameThreads
    <2> QED
        BY <2>1, <2>2, <2>3, SameUnits
<1>3. CASE TryAcquire(t, g)
    <2>1. PICK z \in Sems : z = sem[g]
        BY <1>3 DEF TryAcquire, Shape, TypeOK
    <2>2. /\ g \in live /\ ~fHaveGrant[g] /\ value[z] >= 1
          /\ value' = [value EXCEPT ![z] = @ - 1]
          /\ fHaveGrant' = [fHaveGrant EXCEPT ![g] = TRUE]
          /\ UNCHANGED <<live, sem, pc, call>>
        BY <1>3, <2>1 DEF TryAcquire, Usable
    <2>3. /\ Held(z)' = Held(z) \cup {g} /\ g \notin Held(z)
          /\ \A s : s # z => Held(s)' = Held(s)
        BY <2>1, <2>2 DEF Shape, TypeOK, Held
    <2>4. \A s : /\ Posting(s)' = Posting(s)
                 /\ Asleep(s)' = Asleep(s) /\ Waking(s)' = Waking(s)
        BY <2>2 DEF Posting, Asleep, Waking, SemOf
    <2> QED
        BY <2>2, <2>3, <2>4, TakeUnit
<1>4. CASE Release(t, g)
    BY <1>4, PostCounts DEF Release
<1>5. ASSUME NEW d \in Grants, MoveTo(t, g, d)
      PROVE  Counts'
    <2>1. CASE fHaveGrant[d]
        BY <1>5, <2>1, PostCounts DEF MoveTo
    <2>2. CASE ~fHaveGrant[d]
        <3>1. /\ g \in live /\ d \in live /\ Owner[d] = t /\ pc[t] = "idle"
              /\ Hand(g, d, fHaveGrant) /\ UNCHANGED <<value, live, pc, call>>
            BY <1>5, <2>2 DEF MoveTo, Usable
        <3>2. TypeOK /\ fHaveGrant \in [Grants -> BOOLEAN]
            BY DEF Shape, TypeOK
        <3>3. \A s : HeldWith(fHaveGrant, s) = Held(s)
            BY DEF HeldWith, Held
        <3>4. \A s : Cardinality(Held(s)') = Cardinality(Held(s))
            BY <2>2, <3>1, <3>2, <3>3, HandCounts
        <3>5. \A x \in live : Owner[x] # t => sem'[x] = sem[x]
            BY <3>1 DEF Hand, Shape, TypeOK
        <3>6. \A s : /\ Posting(s)' = Posting(s)
                     /\ Asleep(s)' = Asleep(s) /\ Waking(s)' = Waking(s)
            BY <3>1, <3>5, SameThreads
        <3> QED
            BY <3>1, <3>4, <3>6, SameUnits
    <2> QED
        BY <2>1, <2>2
<1>6. CASE Destroy(t, g)
    <2>1. CASE fHaveGrant[g]
        BY <1>6, <2>1, PostCounts DEF Destroy
    <2>2. CASE ~fHaveGrant[g]
        <3>1. live' = live \ {g} /\ UNCHANGED <<value, sem, fHaveGrant, pc, call>>
            BY <1>6, <2>2 DEF Destroy
        <3>2. \A s : Held(s)' = Held(s)
            BY <2>2, <3>1 DEF Held
        <3>3. \A s : /\ Posting(s)' = Posting(s)
                     /\ Asleep(s)' = Asleep(s) /\ Waking(s)' = Waking(s)
            BY <3>1 DEF Posting, Asleep, Waking, SemOf
        <3> QED
            BY <3>1, <3>2, <3>3, SameUnits
    <2> QED
        BY <2>1, <2>2
<1> QED
    BY <1>1, <1>2, <1>3, <1>4, <1>5, <1>6 DEF Use

-----------------------------------------------------------------------------
(***************************************************************************)
(* Theorems.                                                               *)
(***************************************************************************)

\* Initially every unit is in its semaphore's counter.
LEMMA InitSInv == Init => SInv
<1> SUFFICES ASSUME Init PROVE SInv
    OBVIOUS
<1>1. TypeOK
    BY FunctionsAssumption DEF Init, TypeOK, PC, Calls, NoCall
<1>2. CallShape /\ HeldHasSem
    BY DEF Init, CallShape, HeldHasSem
<1>3. \A s : Held(s) = {} /\ Posting(s) = {} /\ Asleep(s) = {}
    BY DEF Init, Held, Posting, Asleep
<1>4. Conserved /\ NoLostWakeUp
    BY <1>3, FS_EmptySet, FunctionsAssumption DEF Init, Conserved, NoLostWakeUp
<1> QED
    BY <1>1, <1>2, <1>4 DEF SInv

\* A grant and its semaphore's counter stay in step, whatever the code of
\* CSemaphore and CSemaphoreGrant does next.
LEMMA NextSInv ==
    ASSUME SInv, [Next]_vars
    PROVE  SInv'
<1>1. CASE Next
    <2>1. Shape /\ Counts
        BY DEF SInv, Shape, Counts
    <2>2. Shape'
        BY <1>1, <2>1, ShapeStep
    <2>3. Counts'
        <3>1. ASSUME NEW t \in Threads, Step(t) \/ SpuriousWakeUp(t)
              PROVE  Counts'
            BY <2>1, <3>1, WaitLoopCounts, NotifyCounts, SpuriousCounts DEF Step
        <3>2. ASSUME NEW t \in Threads, NEW g \in Grants, Use(t, g)
              PROVE  Counts'
            BY <2>1, <3>2, UseCounts
        <3> QED
            BY <1>1, <3>1, <3>2 DEF Next
    <2> QED
        BY <2>2, <2>3 DEF SInv, Shape, Counts
<1>2. CASE UNCHANGED vars
    BY <1>2 DEF vars, SInv, TypeOK, CallShape, HeldHasSem, Conserved, NoLostWakeUp,
                Held, Posting, Waking, Asleep, SemOf
<1> QED
    BY <1>1, <1>2

\* The inductive invariant holds for any threads, semaphores and grants.
THEOREM SemaphoreInvariance == Spec => []SInv
BY InitSInv, NextSInv, PTL DEF Spec

\* The counter never falls below zero and all fields keep their types.
THEOREM SemaphoreTypes == Spec => []TypeOK
<1>1. SInv => TypeOK
    BY DEF SInv
<1> QED
    BY <1>1, SemaphoreInvariance, PTL

\* Acquiring, releasing, moving and destroying grants never loses or makes
\* up a unit of a semaphore.
THEOREM UnitsConserved == Spec => []Conserved
<1>1. SInv => Conserved
    BY DEF SInv
<1> QED
    BY <1>1, SemaphoreInvariance, PTL

\* post() notifies one thread, after its unlock; no unit is left beside a
\* sleeper without a thread on its way to one of them.
THEOREM WakeUpsKept == Spec => []NoLostWakeUp
<1>1. SInv => NoLostWakeUp
    BY DEF SInv
<1> QED
    BY <1>1, SemaphoreInvariance, PTL

-----------------------------------------------------------------------------
(***************************************************************************)
(* The pool of units.                                                      *)
(***************************************************************************)

\* What a counter lacks is exactly what grants hold.
LEMMA UserCount ==
    ASSUME SInv, NEW s \in Sems
    PROVE  value[s] + Cardinality(Pool!Users(s)) = Capacity[s]
<1> DEFINE given == {g \in Held(s) : Given(g)}
           users == Pool!Users(s)
<1>1. TypeOK /\ CallShape /\ Conserved /\ s # Null
    BY SetsAssumption DEF SInv
<1>2. users \cup given = Held(s) /\ users \cap given = {}
    BY <1>1 DEF Pool!Users, Unit, Held, TypeOK
<1>3. IsFiniteSet(given) /\ IsFiniteSet(users)
    BY <1>1, <1>2, Countable, FS_Subset
<1>4. Cardinality(given) = Cardinality(Posting(s))
  <2> DEFINE f == [t \in Posting(s) |-> call[t].grant]
  <2>1. ASSUME NEW t \in Posting(s)
        PROVE  f[t] \in given /\ Owner[f[t]] = t
    <3>1. /\ t \in Threads /\ pc[t] = "notify" /\ f[t] = call[t].grant
          /\ sem[call[t].grant] = s
      BY DEF Posting, SemOf
    <3>2. f[t] \in live /\ Owner[f[t]] = t /\ fHaveGrant[f[t]]
      BY <1>1, <3>1 DEF CallShape
    <3> QED
      BY <3>1, <3>2 DEF Held, Given
  <2>2. ASSUME NEW g \in given PROVE \E t \in Posting(s) : f[t] = g
    <3>1. /\ Owner[g] \in Threads /\ pc[Owner[g]] = "notify"
          /\ call[Owner[g]].grant = g /\ sem[g] = s
      BY <1>1, FunctionsAssumption DEF Held, Given, TypeOK
    <3> QED
      BY <3>1 DEF Posting, SemOf
  <2>3. f \in Bijection(Posting(s), given)
    BY <2>1, <2>2 DEF Bijection, Injection, IsInjective, Surjection
  <2> HIDE DEF f, given
  <2>4. IsFiniteSet(Posting(s))
    BY <1>1, Countable
  <2> QED
    BY <2>3, <2>4, FS_Bijection DEF ExistsBijection
<1>5. Cardinality(Held(s)) = Cardinality(users) + Cardinality(given)
  <2> HIDE DEF users, given
  <2>1. Cardinality(users \cup given) =
            Cardinality(users) + Cardinality(given) - Cardinality({})
    BY <1>2, <1>3, FS_Union
  <2>2. Cardinality({}) = 0
    BY FS_EmptySet
  <2>3. Cardinality(users) \in Nat /\ Cardinality(given) \in Nat
    BY <1>3, FS_CardinalityType
  <2>4. Cardinality(users \cup given) = Cardinality(users) + Cardinality(given)
    BY <2>1, <2>2, <2>3
  <2> QED
    BY <1>2, <2>4
<1>6. value[s] + Cardinality(Held(s)) = Capacity[s] + Cardinality(Posting(s))
    BY <1>1 DEF Conserved
<1>7. /\ value[s] \in Nat /\ Capacity[s] \in Nat
      /\ Cardinality(users) \in Nat /\ Cardinality(given) \in Nat
  <2> HIDE DEF users, given
  <2> QED
    BY <1>1, <1>3, FS_CardinalityType, FunctionsAssumption DEF TypeOK
<1> HIDE DEF users, given
<1>8. value[s] + Cardinality(users) = Capacity[s]
    BY <1>4, <1>5, <1>6, <1>7
<1> QED
    BY <1>8 DEF users

\* A counter that is not zero is a unit that can be taken.
LEMMA TakesUnit ==
    ASSUME SInv, NEW g \in Grants, NEW s \in Sems, Unit[g] = Null, value[s] >= 1,
           Unit' = [Unit EXCEPT ![g] = s]
    PROVE  Pool!Next
<1>1. value[s] + Cardinality(Pool!Users(s)) = Capacity[s]
    BY UserCount
<1>2. value[s] \in Nat /\ Capacity[s] \in Nat
    BY FunctionsAssumption DEF SInv, TypeOK
<1>3. IsFiniteSet(Pool!Users(s))
  <2>1. Pool!Users(s) \in SUBSET Grants
    BY DEF Pool!Users
  <2> QED
    BY <2>1, SetsAssumption, FS_Subset
<1>4. Cardinality(Pool!Users(s)) \in Nat
    BY <1>3, FS_CardinalityType
<1>5. Cardinality(Pool!Users(s)) < Capacity[s]
    BY <1>1, <1>2, <1>4
<1>6. Pool!Cardinality(Pool!Users(s)) = Cardinality(Pool!Users(s))
    BY DEF Pool!Cardinality, Cardinality
<1>7. Pool!Take(g, s)
    BY <1>5, <1>6 DEF Pool!Take
<1> QED
    BY <1>7 DEF Pool!Next

\* What thread t does is about its own grants.
LEMMA OthersUnits ==
    ASSUME NEW t \in Threads, NEW x \in Grants, Owner[x] # t,
           x \in live' <=> x \in live,
           fHaveGrant'[x] = fHaveGrant[x], sem'[x] = sem[x],
           \A u \in Threads \ {t} :
              call'[u] = call[u] /\ (pc'[u] = "notify" <=> pc[u] = "notify")
    PROVE  Unit'[x] = Unit[x]
<1>1. Owner[x] \in Threads \ {t}
    BY FunctionsAssumption
<1> QED
    BY <1>1 DEF Unit, Given

\* The end of wait().
LEMMA WaitLoopTakes ==
    ASSUME SInv, NEW t \in Threads, WaitLoop(t)
    PROVE  Pool!Next \/ UNCHANGED Unit
<1>0. PICK g \in Grants, z \in Sems : g = call[t].grant /\ z = SemOf(t)
    BY DEF SInv, TypeOK, CallShape, WaitLoop, SemOf
<1>1. /\ pc[t] \in {"lock", "woken"} /\ UNCHANGED <<live, sem>>
      /\ g \in live /\ z = sem[g] /\ ~fHaveGrant[g] /\ Owner[g] = t
    BY <1>0 DEF SInv, TypeOK, CallShape, WaitLoop, SemOf
<1>2. /\ pc'[t] # "notify"
      /\ \A u \in Threads \ {t} : call'[u] = call[u] /\ pc'[u] = pc[u]
      /\ \A x \in Grants : x # g => fHaveGrant'[x] = fHaveGrant[x]
    BY <1>0 DEF SInv, TypeOK, WaitLoop
<1>3. \A x \in Grants : x # g => Unit'[x] = Unit[x]
  <2>1. ASSUME NEW x \in Grants, x # g, Owner[x] # t PROVE Unit'[x] = Unit[x]
    BY <1>1, <1>2, <2>1, OthersUnits
  <2>2. ASSUME NEW x \in Grants, x # g, Owner[x] = t PROVE Unit'[x] = Unit[x]
    BY <1>1, <1>2, <2>2 DEF Unit, Given
  <2> QED
    BY <2>1, <2>2
<1>4. Unit[g] = Null
    BY <1>1 DEF Unit
<1>5. CASE UNCHANGED fHaveGrant
  <2>1. Unit'[g] = Null
    BY <1>1, <1>5 DEF Unit
  <2>2. Unit' = Unit
    BY <1>3, <1>4, <2>1 DEF Unit
  <2> QED
    BY <2>2
<1>6. CASE value[z] >= 1 /\ fHaveGrant' = [fHaveGrant EXCEPT ![g] = TRUE]
  <2>1. fHaveGrant'[g] = TRUE
    BY <1>6 DEF SInv, TypeOK
  <2>2. Unit'[g] = z
    BY <1>1, <1>2, <2>1 DEF Unit, Given
  <2>3. Unit' = [Unit EXCEPT ![g] = z]
    BY <1>3, <2>2 DEF Unit
  <2> QED
    BY <1>4, <1>6, <2>3, TakesUnit
<1> QED
    BY <1>0, <1>5, <1>6 DEF WaitLoop

\* The critical section of post(), whichever operation calls it.
LEMMA PostGives ==
    ASSUME SInv, NEW t \in Threads, NEW g \in Grants, Usable(t, g), fHaveGrant[g],
           NEW op, NEW from, Post(t, g, op, from)
    PROVE  Pool!Next
<1>1. /\ pc[t] = "idle" /\ pc'[t] = "notify" /\ call'[t].grant = g
      /\ UNCHANGED <<live, sem, fHaveGrant>>
      /\ \A u \in Threads \ {t} : pc'[u] = pc[u] /\ call'[u] = call[u]
      /\ g \in live /\ Owner[g] = t
    BY DEF Post, Usable, SInv, TypeOK
<1>2. \A x \in Grants : x # g => Unit'[x] = Unit[x]
  <2>1. ASSUME NEW x \in Grants, x # g, Owner[x] # t PROVE Unit'[x] = Unit[x]
    BY <1>1, <2>1, OthersUnits
  <2>2. ASSUME NEW x \in Grants, x # g, Owner[x] = t PROVE Unit'[x] = Unit[x]
    BY <1>1, <2>2 DEF Unit, Given
  <2> QED
    BY <2>1, <2>2
<1>3. Unit'[g] = Null
    BY <1>1 DEF Unit, Given
<1>4. Unit[g] # Null
  <2>1. ~Given(g)
    BY <1>1 DEF Given
  <2>2. sem[g] \in Sems
    BY <1>1 DEF SInv, HeldHasSem
  <2> QED
    BY <1>1, <2>1, <2>2, SetsAssumption DEF Unit
<1>5. Unit' = [Unit EXCEPT ![g] = Null]
    BY <1>2, <1>3 DEF Unit
<1> QED
    BY <1>4, <1>5 DEF Pool!Next, Pool!Give

\* A grant is handed over by a thread that is not in post() any more; `have'
\* are the grants that hold a unit then.
LEMMA HandPassesOn ==
    ASSUME SInv, NEW t \in Threads, NEW g \in live, NEW d \in live,
           Owner[g] = t, Owner[d] = t, NEW have \in [Grants -> BOOLEAN],
           ~have[d], \A x \in Grants \ {d} : have[x] = fHaveGrant[x],
           Unit[d] = Null, g # d => ~Given(g),
           \A x \in Grants \ {d} : Owner[x] = t => ~Given(x),
           pc'[t] # "notify", Hand(g, d, have), UNCHANGED live,
           \A u \in Threads \ {t} :
              call'[u] = call[u] /\ (pc'[u] = "notify" <=> pc[u] = "notify")
    PROVE  Pool!Next \/ UNCHANGED Unit
<1>1. g \in Grants /\ d \in Grants
    BY DEF SInv, TypeOK
<1>2. \A x \in Grants : x # d /\ x # g => fHaveGrant'[x] = have[x] /\ sem'[x] = sem[x]
    BY DEF SInv, TypeOK, Hand
<1>3. fHaveGrant'[g] = FALSE
    BY <1>1 DEF SInv, TypeOK, Hand
<1>4. g # d => fHaveGrant'[d] = have[g] /\ sem'[d] = sem[g] /\ sem'[g] = sem[g]
    BY <1>1 DEF SInv, TypeOK, Hand
<1>5. \A x \in Grants : x # d /\ x # g => Unit'[x] = Unit[x]
  <2>1. ASSUME NEW x \in Grants, x # d, x # g, Owner[x] # t PROVE Unit'[x] = Unit[x]
    BY <1>2, <2>1, OthersUnits
  <2>2. ASSUME NEW x \in Grants, x # d, x # g, Owner[x] = t PROVE Unit'[x] = Unit[x]
    <3>1. ~Given(x) /\ ~Given(x)'
      BY <2>2 DEF Given
    <3> QED
      BY <1>2, <2>2, <3>1 DEF Unit
  <2> QED
    BY <2>1, <2>2
<1>6. Unit'[g] = Null
    BY <1>1, <1>3 DEF Unit
<1>7. CASE g = d
  <2>1. Unit' = Unit
    BY <1>1, <1>5, <1>6, <1>7 DEF Unit
  <2> QED
    BY <2>1
<1>8. CASE g # d
  <2>1. Unit[g] = IF fHaveGrant[g] THEN sem[g] ELSE Null
    BY <1>1, <1>8 DEF Unit
  <2>2. ~Given(d)'
    BY DEF Given
  <2>3. Unit'[d] = Unit[g]
    BY <1>1, <1>4, <1>8, <2>1, <2>2 DEF Unit
  <2>4. CASE Unit[g] = Null
    <3>1. Unit' = Unit
      BY <1>1, <1>5, <1>6, <2>3, <2>4 DEF Unit
    <3> QED
      BY <3>1
  <2>5. CASE Unit[g] # Null
    <3>0. Unit = [x \in Grants |-> Unit[x]] /\ Unit' = [x \in Grants |-> Unit'[x]]
      BY DEF Unit
    <3>1. Unit' = [Unit EXCEPT ![d] = Unit[g], ![g] = Null]
      BY <1>1, <1>5, <1>6, <1>8, <2>3, <3>0
    <3>2. Pool!PassOn(g, d)
      BY <2>5, <3>1 DEF Pool!PassOn
    <3> QED
      BY <1>1, <3>2 DEF Pool!Next
  <2> QED
    BY <2>4, <2>5
<1> QED
    BY <1>7, <1>8

\* The end of post(): the unit is back already, and the grant that was to be
\* moved there is.
LEMMA NotifyPassesOn ==
    ASSUME SInv, NEW t \in Threads, Notify(t)
    PROVE  Pool!Next \/ UNCHANGED Unit
<1>0. PICK g \in live : g = call[t].grant /\ pc[t] = "notify" /\ Owner[g] = t
    BY DEF SInv, CallShape, Notify
<1> DEFINE from == call[t].from
           released == [fHaveGrant EXCEPT ![g] = FALSE]
<1>1. /\ g \in Grants /\ released \in [Grants -> BOOLEAN] /\ ~released[g]
      /\ \A x \in Grants \ {g} : released[x] = fHaveGrant[x]
    BY DEF SInv, TypeOK
<1>2. /\ pc'[t] = "idle"
      /\ \A u \in Threads \ {t} :
            call'[u] = call[u] /\ (pc'[u] = "notify" <=> pc[u] = "notify")
  <2>1. Shape
    BY DEF SInv, Shape
  <2>2. \A u \in Asleep(SemOf(t)) : u \in Threads /\ u # t /\ pc[u] = "wait"
    BY <1>0 DEF Asleep
  <2>3. CASE pc' = [pc EXCEPT ![t] = "idle"]
    BY <2>3 DEF SInv, TypeOK, Notify
  <2>4. ASSUME NEW u \in Asleep(SemOf(t)),
               pc' = [[pc EXCEPT ![t] = "idle"] EXCEPT ![u] = "woken"]
        PROVE  <1>2
    BY <2>2, <2>4 DEF SInv, TypeOK, Notify
  <2> QED
    BY <2>3, <2>4 DEF Notify
<1>3. \A x \in Grants : Owner[x] = t => (Given(x) <=> x = g)
    BY <1>0 DEF Given
<1>4. Unit[g] = Null
    BY <1>0, <1>1, <1>3 DEF Unit
<1>5. CASE fHaveGrant' = released /\ UNCHANGED sem /\ live' \in {live, live \ {g}}
  <2>1. \A x \in Grants : x # g => Unit'[x] = Unit[x]
    <3>1. ASSUME NEW x \in Grants, x # g, Owner[x] # t PROVE Unit'[x] = Unit[x]
      BY <1>1, <1>2, <1>5, <3>1, OthersUnits
    <3>2. ASSUME NEW x \in Grants, x # g, Owner[x] = t PROVE Unit'[x] = Unit[x]
      <4>1. ~Given(x) /\ ~Given(x)'
        BY <1>2, <1>3, <3>2 DEF Given
      <4> QED
        BY <1>1, <1>5, <3>2, <4>1 DEF Unit
    <3> QED
      BY <3>1, <3>2
  <2>2. Unit'[g] = Null
    BY <1>1, <1>5 DEF Unit
  <2>3. Unit' = Unit
    BY <1>1, <1>4, <2>1, <2>2 DEF Unit
  <2> QED
    BY <2>3
<1>6. CASE /\ from \in live /\ Owner[from] = t
           /\ Hand(from, g, released) /\ UNCHANGED live
  <2>1. from \in Grants
    BY <1>6 DEF SInv, TypeOK
  <2>2. from # g => ~Given(from)
    BY <1>3, <1>6, <2>1
  <2>3. \A x \in Grants \ {g} : Owner[x] = t => ~Given(x)
    BY <1>3
  <2>4. pc'[t] # "notify"
    BY <1>2
  <2> HIDE DEF from, released
  <2> QED
    BY <1>0, <1>1, <1>2, <1>4, <1>6, <2>1, <2>2, <2>3, <2>4, HandPassesOn
<1> QED
    BY <1>0, <1>5, <1>6 DEF Notify, SInv, CallShape

\* A constructor: of an empty grant, of one whose thread goes on to wait(), or
\* of one for which try_wait() takes a unit if there is one.
LEMMA ConstructTakes ==
    ASSUME SInv, NEW t \in Threads, NEW g \in Grants,
           \/ DefaultConstruct(t, g)
           \/ \E s \in Sems, fTry \in BOOLEAN : Construct(t, g, s, fTry)
    PROVE  Pool!Next \/ UNCHANGED Unit
<1>1. /\ pc[t] = "idle" /\ pc'[t] \in {"idle", "lock"}
      /\ g \notin live /\ live' = live \cup {g} /\ Owner[g] = t
      /\ \A x \in Grants : x # g => sem'[x] = sem[x] /\ fHaveGrant'[x] = fHaveGrant[x]
      /\ \A u \in Threads \ {t} : pc'[u] = pc[u] /\ call'[u] = call[u]
    BY DEF SInv, TypeOK, DefaultConstruct, Construct, EnterWait
<1>2. \A x \in Grants : x # g => Unit'[x] = Unit[x]
  <2>1. ASSUME NEW x \in Grants, x # g, Owner[x] # t PROVE Unit'[x] = Unit[x]
    BY <1>1, <2>1, OthersUnits
  <2>2. ASSUME NEW x \in Grants, x # g, Owner[x] = t PROVE Unit'[x] = Unit[x]
    BY <1>1, <2>2 DEF Unit, Given
  <2> QED
    BY <2>1, <2>2
<1>3. Unit[g] = Null
    BY <1>1 DEF Unit
<1>4. Unit = [x \in Grants |-> Unit[x]] /\ Unit' = [x \in Grants |-> Unit'[x]]
    BY DEF Unit
<1>5. CASE ~fHaveGrant'[g]
  <2>1. Unit'[g] = Null
    BY <1>5 DEF Unit
  <2> QED
    BY <1>2, <1>3, <1>4, <2>1
<1>6. ASSUME NEW z \in Sems, sem'[g] = z, fHaveGrant'[g], value[z] >= 1
      PROVE  Pool!Next
  <2>1. Unit'[g] = z
    BY <1>1, <1>6 DEF Unit, Given
  <2>2. Unit' = [Unit EXCEPT ![g] = z]
    BY <1>2, <1>4, <2>1
  <2> QED
    BY <1>3, <1>6, <2>2, TakesUnit
<1>7. CASE DefaultConstruct(t, g)
    BY <1>5, <1>7 DEF SInv, TypeOK, DefaultConstruct
<1>8. ASSUME NEW s \in Sems, NEW fTry \in BOOLEAN, Construct(t, g, s, fTry)
      PROVE  Pool!Next \/ UNCHANGED Unit
  <2>1. sem'[g] = s
    BY <1>8 DEF SInv, TypeOK, Construct
  <2>2. CASE fTry /\ value[s] >= 1
    <3>1. fHaveGrant' = [fHaveGrant EXCEPT ![g] = value[s] >= 1]
      BY <1>8, <2>2 DEF Construct
    <3>2. fHaveGrant'[g] = (value[s] >= 1)
      BY <3>1 DEF SInv, TypeOK
    <3> QED
      BY <1>6, <2>1, <2>2, <3>2
  <2>3. CASE fTry /\ ~(value[s] >= 1)
    <3>1. fHaveGrant' = [fHaveGrant EXCEPT ![g] = value[s] >= 1]
      BY <1>8, <2>3 DEF Construct
    <3>2. fHaveGrant'[g] = (value[s] >= 1)
      BY <3>1 DEF SInv, TypeOK
    <3> QED
      BY <1>5, <2>3, <3>2
  <2>4. CASE ~fTry
    BY <1>5, <1>8, <2>4 DEF SInv, TypeOK, Construct
  <2> QED
    BY <2>2, <2>3, <2>4
<1> QED
    BY <1>7, <1>8

\* The operations on a grant.
LEMMA UseRefines ==
    ASSUME SInv, NEW t \in Threads, NEW g \in Grants, Use(t, g)
    PROVE  Pool!Next \/ UNCHANGED Unit
<1>1. CASE \/ DefaultConstruct(t, g)
           \/ \E s \in Sems, fTry \in BOOLEAN : Construct(t, g, s, fTry)
    BY <1>1, ConstructTakes
<1>2. CASE Acquire(t, g)
  <2>1. /\ pc[t] = "idle" /\ pc'[t] = "lock" /\ UNCHANGED <<live, sem, fHaveGrant>>
        /\ \A u \in Threads \ {t} : pc'[u] = pc[u] /\ call'[u] = call[u]
    BY <1>2 DEF Acquire, Usable, EnterWait, SInv, TypeOK
  <2>2. \A x \in Grants : Given(x)' <=> Given(x)
    <3> TAKE x \in Grants
    <3>1. Owner[x] \in Threads
      BY FunctionsAssumption
    <3>2. CASE Owner[x] = t
      BY <2>1, <3>2 DEF Given
    <3>3. CASE Owner[x] # t
      BY <2>1, <3>1, <3>3 DEF Given
    <3> QED
      BY <3>2, <3>3
  <2> QED
    BY <2>1, <2>2 DEF Unit
<1>3. CASE TryAcquire(t, g)
  <2>1. PICK z \in Sems : z = sem[g]
    BY <1>3 DEF TryAcquire, SInv, TypeOK
  <2>2. /\ g \in live /\ Owner[g] = t /\ pc[t] = "idle" /\ ~fHaveGrant[g]
        /\ value[z] >= 1
        /\ fHaveGrant' = [fHaveGrant EXCEPT ![g] = TRUE]
        /\ UNCHANGED <<live, sem, pc, call>>
    BY <1>3, <2>1 DEF TryAcquire, Usable
  <2>3. \A x \in Grants : Given(x)' <=> Given(x)
    BY <2>2 DEF Given
  <2>4. ~Given(g)
    BY <2>2 DEF Given
  <2>5. fHaveGrant'[g] = TRUE /\ \A x \in Grants \ {g} : fHaveGrant'[x] = fHaveGrant[x]
    BY <2>2 DEF SInv, TypeOK
  <2>6. Unit' = [Unit EXCEPT ![g] = z]
    BY <2>1, <2>2, <2>3, <2>4, <2>5 DEF Unit
  <2>7. Unit[g] = Null
    BY <2>2 DEF Unit
  <2> QED
    BY <2>2, <2>6, <2>7, TakesUnit
<1>4. CASE Release(t, g)
    BY <1>4, PostGives DEF Release
<1>5. ASSUME NEW d \in Grants, MoveTo(t, g, d)
      PROVE  Pool!Next \/ UNCHANGED Unit
  <2>1. /\ Usable(t, g) /\ Usable(t, d) /\ g \in live /\ d \in live
        /\ Owner[g] = t /\ Owner[d] = t /\ pc[t] = "idle"
    BY <1>5 DEF MoveTo, Usable
  <2>2. CASE fHaveGrant[d]
    BY <1>5, <2>1, <2>2, PostGives DEF MoveTo
  <2>3. CASE ~fHaveGrant[d]
    <3>1. Hand(g, d, fHaveGrant) /\ UNCHANGED <<value, live, pc, call>>
      BY <1>5, <2>3 DEF MoveTo
    <3>2. \A x \in Grants : Owner[x] = t => ~Given(x)
      BY <2>1 DEF Given
    <3>3. Unit[d] = Null
      BY <2>3 DEF Unit
    <3>4. fHaveGrant \in [Grants -> BOOLEAN]
      BY DEF SInv, TypeOK
    <3> QED
      BY <2>1, <2>3, <3>1, <3>2, <3>3, <3>4, HandPassesOn
  <2> QED
    BY <2>2, <2>3
<1>6. CASE Destroy(t, g)
  <2>1. CASE fHaveGrant[g]
    BY <1>6, <2>1, PostGives DEF Destroy
  <2>2. CASE ~fHaveGrant[g]
    <3>1. live' = live \ {g} /\ UNCHANGED <<sem, fHaveGrant, pc, call>>
      BY <1>6, <2>2 DEF Destroy
    <3>2. \A x \in Grants : Given(x)' <=> Given(x)
      BY <3>1 DEF Given
    <3> QED
      BY <2>2, <3>1, <3>2 DEF Unit
  <2> QED
    BY <2>1, <2>2
<1> QED
    BY <1>1, <1>2, <1>3, <1>4, <1>5, <1>6 DEF Use

\* A sleeper that wakes up by itself holds nothing.
LEMMA SpuriousKeeps ==
    ASSUME SInv, NEW t \in Threads, SpuriousWakeUp(t)
    PROVE  UNCHANGED Unit
<1>1. /\ UNCHANGED <<live, sem, fHaveGrant, call>>
      /\ \A u \in Threads : pc'[u] = "notify" <=> pc[u] = "notify"
    BY DEF SpuriousWakeUp, SInv, TypeOK
<1>2. \A x \in Grants : Given(x)' <=> Given(x)
    BY <1>1, FunctionsAssumption DEF Given
<1> QED
    BY <1>1, <1>2 DEF Unit

\* No more units of a semaphore are out than it was constructed with, and its
\* counter says how many are not.
THEOREM CounterExact ==
    Spec => [](\A s \in Sems : /\ value[s] + Cardinality(Pool!Users(s)) = Capacity[s]
                               /\ Cardinality(Pool!Users(s)) <= Capacity[s])
<1>1. ASSUME SInv, NEW s \in Sems
      PROVE  /\ value[s] + Cardinality(Pool!Users(s)) = Capacity[s]
             /\ Cardinality(Pool!Users(s)) <= Capacity[s]
  <2>1. value[s] + Cardinality(Pool!Users(s)) = Capacity[s]
    BY <1>1, UserCount
  <2>2. value[s] \in Nat /\ Capacity[s] \in Nat
    BY <1>1, FunctionsAssumption DEF SInv, TypeOK
  <2>3. Cardinality(Pool!Users(s)) \in Nat
    <3>1. Pool!Users(s) \in SUBSET Grants
      BY DEF Pool!Users
    <3> QED
      BY <3>1, SetsAssumption, FS_Subset, FS_CardinalityType
  <2> QED
    BY <2>1, <2>2, <2>3
<1>2. SInv => \A s \in Sems : /\ value[s] + Cardinality(Pool!Users(s)) = Capacity[s]
                              /\ Cardinality(Pool!Users(s)) <= Capacity[s]
    BY <1>1
<1> QED
    BY <1>2, SemaphoreInvariance, PTL

\* CSemaphore with CSemaphoreGrant implements UnitPool: whatever threads do in
\* between, each operation on a grant takes effect at one moment.
THEOREM SemaphoreRefinement == Spec => ImplementsPool
<1>1. Init => Pool!Init
    BY DEF Init, Pool!Init, Unit
<1>2. SInv /\ [Next]_vars => [Pool!Next]_Unit
  <2> SUFFICES ASSUME SInv, [Next]_vars PROVE Pool!Next \/ UNCHANGED Unit
    OBVIOUS
  <2>1. ASSUME NEW t \in Threads, Step(t) \/ SpuriousWakeUp(t)
        PROVE  Pool!Next \/ UNCHANGED Unit
    BY <2>1, WaitLoopTakes, NotifyPassesOn, SpuriousKeeps DEF Step
  <2>2. ASSUME NEW t \in Threads, NEW g \in Grants, Use(t, g)
        PROVE  Pool!Next \/ UNCHANGED Unit
    BY <2>2, UseRefines
  <2>3. CASE UNCHANGED vars
    BY <2>3 DEF vars, Unit, Given
  <2> QED
    BY <2>1, <2>2, <2>3 DEF Next
<1> QED
    BY <1>1, <1>2, SemaphoreInvariance, PTL DEF Spec, ImplementsPool, Pool!Spec

-----------------------------------------------------------------------------
(***************************************************************************)
(* How sleepers get served.                                                *)
(***************************************************************************)

\* What a step of thread u means for semaphore s.  The others stay on their
\* way, only an empty counter makes a thread sleep, only a post raises it.
Flows(u, s) ==
    /\ \A v \in Threads \ {u} : /\ v \in Posting(s) => v \in Posting(s)'
                                /\ v \in Waking(s) => v \in Waking(s)'
    /\ Asleep(s)' \subseteq Asleep(s) \/ value[s] < 1
    /\ value'[s] <= value[s] \/ u \in Posting(s)'

LEMMA UseFlows ==
    ASSUME Shape, NEW u \in Threads, NEW g \in Grants, Use(u, g), NEW s \in Sems
    PROVE  Flows(u, s) /\ pc[u] = "idle"
<1> DEFINE Facts == /\ pc[u] = "idle" /\ pc'[u] \in {"idle", "lock", "notify"}
                    /\ \A x \in live : Owner[x] # u => sem'[x] = sem[x]
                    /\ \A v \in Threads \ {u} : pc'[v] = pc[v] /\ call'[v] = call[v]
                    /\ value'[s] <= value[s] \/ u \in Posting(s)'
<1>0. value \in [Sems -> Nat] /\ sem \in [Grants -> Sems \cup {Null}] /\ live \subseteq Grants
      /\ pc \in [Threads -> PC] /\ call \in [Threads -> Calls]
    BY DEF Shape, TypeOK
<1>1. ASSUME NEW x \in Grants, Usable(u, x), fHaveGrant[x], NEW op, NEW from,
             Post(u, x, op, from)
      PROVE  Facts
  <2>1. /\ pc[u] = "idle" /\ pc'[u] = "notify" /\ call'[u].grant = x /\ sem' = sem
        /\ value' = [value EXCEPT ![sem[x]] = @ + 1]
        /\ \A v \in Threads \ {u} : pc'[v] = pc[v] /\ call'[v] = call[v]
    BY <1>0, <1>1 DEF Post, Usable
  <2>2. CASE sem[x] = s
    BY <2>1, <2>2 DEF Posting, SemOf
  <2>3. CASE sem[x] # s
    <3>1. value'[s] = value[s]
      BY <1>0, <2>1, <2>3
    <3> QED
      BY <1>0, <2>1, <3>1
  <2> QED
    BY <2>2, <2>3
<1>2. ASSUME \/ DefaultConstruct(u, g)
             \/ \E z \in Sems, fTry \in BOOLEAN : Construct(u, g, z, fTry)
      PROVE  Facts
  <2>1. /\ pc[u] = "idle" /\ pc'[u] \in {"idle", "lock"} /\ Owner[g] = u
        /\ \A x \in Grants : x # g => sem'[x] = sem[x]
        /\ \A v \in Threads \ {u} : pc'[v] = pc[v] /\ call'[v] = call[v]
    BY <1>0, <1>2 DEF DefaultConstruct, Construct, EnterWait
  <2>2. value'[s] <= value[s]
    BY <1>0, <1>2 DEF DefaultConstruct, Construct
  <2> QED
    BY <1>0, <2>1, <2>2
<1>3. ASSUME Acquire(u, g) \/ TryAcquire(u, g) PROVE Facts
    BY <1>0, <1>3 DEF Acquire, TryAcquire, EnterWait, Usable
<1>4. ASSUME Release(u, g) PROVE Facts
    BY <1>1, <1>4 DEF Release
<1>5. ASSUME NEW d \in Grants, MoveTo(u, g, d) PROVE Facts
  <2>1. CASE fHaveGrant[d]
    BY <1>1, <1>5, <2>1 DEF MoveTo
  <2>2. CASE ~fHaveGrant[d]
    BY <1>0, <1>5, <2>2 DEF MoveTo, Hand, Usable
  <2> QED
    BY <2>1, <2>2
<1>6. ASSUME Destroy(u, g) PROVE Facts
  <2>1. CASE fHaveGrant[g]
    BY <1>1, <1>6, <2>1 DEF Destroy
  <2>2. CASE ~fHaveGrant[g]
    BY <1>0, <1>6, <2>2 DEF Destroy, Usable
  <2> QED
    BY <2>1, <2>2
<1>7. Facts
    BY <1>2, <1>3, <1>4, <1>5, <1>6 DEF Use
<1>8. \A v \in Threads \ {u} : /\ v \in Posting(s)' <=> v \in Posting(s)
                               /\ v \in Asleep(s)' <=> v \in Asleep(s)
                               /\ v \in Waking(s)' <=> v \in Waking(s)
    BY <1>7, Unconcerned
<1>9. u \notin Asleep(s)'
    BY <1>7 DEF Asleep
<1>10. Asleep(s)' \subseteq Threads
    BY DEF Asleep
<1> QED
    BY <1>7, <1>8, <1>9, <1>10 DEF Flows

LEMMA WaitLoopFlows ==
    ASSUME Shape, NEW u \in Threads, WaitLoop(u), NEW s \in Sems
    PROVE  /\ Flows(u, s) /\ pc[u] \in {"lock", "woken"}
           /\ u \in Waking(s) /\ value[s] >= 1 => value'[s] < value[s]
<1>1. PICK g \in Grants, z \in Sems : g = call[u].grant /\ z = SemOf(u) /\ Owner[g] = u
    BY DEF Shape, TypeOK, CallShape, WaitLoop, SemOf
<1>2. /\ value \in [Sems -> Nat] /\ pc \in [Threads -> PC] /\ call \in [Threads -> Calls]
      /\ pc[u] \in {"lock", "woken"} /\ UNCHANGED <<live, sem>>
      /\ \A v \in Threads \ {u} : pc'[v] = pc[v] /\ call'[v] = call[v]
    BY DEF Shape, TypeOK, WaitLoop
<1>3. \A v \in Threads \ {u} : /\ v \in Posting(s)' <=> v \in Posting(s)
                               /\ v \in Asleep(s)' <=> v \in Asleep(s)
                               /\ v \in Waking(s)' <=> v \in Waking(s)
    BY <1>2, Unconcerned
<1>4. CASE value[z] < 1 /\ pc' = [pc EXCEPT ![u] = "wait"] /\ UNCHANGED <<value, call>>
  <2>1. SemOf(u)' = z
    BY <1>1, <1>2, <1>4 DEF SemOf
  <2>2. s # z => u \notin Asleep(s)'
    BY <2>1 DEF Asleep
  <2>3. s # z => Asleep(s)' \subseteq Asleep(s)
    BY <1>3, <2>2 DEF Asleep
  <2>4. u \in Waking(s) => s = z
    BY <1>1 DEF Waking
  <2> QED
    BY <1>2, <1>3, <1>4, <2>3, <2>4 DEF Flows
<1>5. CASE /\ value[z] >= 1
           /\ value' = [value EXCEPT ![z] = @ - 1]
           /\ pc' = [pc EXCEPT ![u] = "idle"]
  <2>1. u \notin Asleep(s)'
    BY <1>2, <1>5 DEF Asleep
  <2>2. Asleep(s)' \subseteq Asleep(s)
    BY <1>3, <2>1 DEF Asleep
  <2>3. u \in Waking(s) => s = z
    BY <1>1 DEF Waking
  <2>4. value'[s] <= value[s] /\ (s = z => value'[s] < value[s])
    BY <1>2, <1>5
  <2> QED
    BY <1>2, <1>3, <2>2, <2>3, <2>4 DEF Flows
<1> QED
    BY <1>1, <1>4, <1>5 DEF WaitLoop

LEMMA NotifyFlows ==
    ASSUME Shape, NEW u \in Threads, Notify(u), NEW s \in Sems
    PROVE  /\ Flows(u, s) /\ pc[u] = "notify"
           /\ Asleep(s)' \subseteq Asleep(s)
           /\ u \in Posting(s) /\ Asleep(s) # {} => Asleep(s)' # Asleep(s)
<1>1. PICK g \in Grants : /\ g = call[u].grant /\ g \in live /\ Owner[g] = u
                          /\ pc[u] = "notify"
    BY DEF Shape, TypeOK, CallShape, Notify
<1>2. /\ value' = value /\ value[s] \in Nat
      /\ pc \in [Threads -> PC] /\ call \in [Threads -> Calls]
      /\ \A v \in Threads \ {u} : call'[v] = call[v]
    BY DEF Shape, TypeOK, Notify
<1>3. \A x \in live : Owner[x] # u => sem'[x] = sem[x]
    BY <1>1 DEF Notify, Hand, Shape, TypeOK
<1>4. \A v \in Threads \ {u} :
        pc[v] \in {"wait", "woken", "notify"} => SemOf(v)' = SemOf(v)
    BY <1>2, <1>3 DEF Shape, CallShape, SemOf
<1>5. CASE Asleep(SemOf(u)) = {} /\ pc' = [pc EXCEPT ![u] = "idle"]
  <2>1. pc'[u] = "idle" /\ \A v \in Threads \ {u} : pc'[v] = pc[v]
    BY <1>2, <1>5
  <2>2. /\ \A v \in Threads \ {u} : /\ v \in Posting(s) => v \in Posting(s)'
                                    /\ v \in Waking(s) => v \in Waking(s)'
        /\ Asleep(s)' \subseteq Asleep(s)
    BY <1>4, <2>1 DEF Posting, Waking, Asleep
  <2>3. u \in Posting(s) => Asleep(s) = {}
    BY <1>5 DEF Posting
  <2> QED
    BY <1>1, <1>2, <2>2, <2>3 DEF Flows
<1>6. ASSUME NEW w \in Asleep(SemOf(u)),
             pc' = [[pc EXCEPT ![u] = "idle"] EXCEPT ![w] = "woken"]
      PROVE  /\ Flows(u, s) /\ pc[u] = "notify"
             /\ Asleep(s)' \subseteq Asleep(s)
             /\ u \in Posting(s) /\ Asleep(s) # {} => Asleep(s)' # Asleep(s)
  <2>1. w \in Threads /\ w # u /\ pc[w] = "wait"
    BY <1>1 DEF Asleep
  <2>2. /\ pc'[u] = "idle" /\ pc'[w] = "woken"
        /\ \A v \in Threads \ {u, w} : pc'[v] = pc[v]
    BY <1>2, <1>6, <2>1
  <2>3. /\ \A v \in Threads \ {u} : /\ v \in Posting(s) => v \in Posting(s)'
                                    /\ v \in Waking(s) => v \in Waking(s)'
        /\ Asleep(s)' \subseteq Asleep(s) /\ w \notin Asleep(s)'
    BY <1>4, <2>1, <2>2 DEF Posting, Waking, Asleep
  <2>4. u \in Posting(s) => w \in Asleep(s)
    BY <1>6 DEF Posting
  <2> QED
    BY <1>1, <1>2, <2>3, <2>4 DEF Flows
<1> QED
    BY <1>5, <1>6 DEF Notify

LEMMA SpuriousFlows ==
    ASSUME Shape, NEW u \in Threads, SpuriousWakeUp(u), NEW s \in Sems
    PROVE  Flows(u, s) /\ pc[u] = "wait"
<1>1. /\ pc[u] = "wait" /\ pc'[u] = "woken" /\ value' = value /\ value[s] \in Nat
      /\ \A v \in Threads \ {u} : pc'[v] = pc[v]
      /\ UNCHANGED <<sem, call>>
    BY DEF SpuriousWakeUp, Shape, TypeOK
<1>2. Asleep(s)' \subseteq Asleep(s)
    BY <1>1 DEF Asleep, SemOf
<1> QED
    BY <1>1, <1>2 DEF Flows, Posting, Waking, SemOf

\* Any step, from the point of view of thread t and semaphore s: t leaves the
\* place where it posts or wakes up only by its own step.
LEMMA NextFlows ==
    ASSUME SInv, [Next]_vars, NEW t \in Threads, NEW s \in Sems
    PROVE  /\ Asleep(s)' \subseteq Asleep(s) \/ value[s] < 1
           /\ value'[s] <= value[s] \/ Posting(s)' # {}
           /\ t \in Posting(s) =>
                 \/ t \in Posting(s)'
                 \/ Asleep(s) # {} => Asleep(s)' # Asleep(s)
           /\ t \in Waking(s) =>
                 \/ t \in Waking(s)'
                 \/ value[s] >= 1 => value'[s] < value[s]
<1> DEFINE Goal == /\ Asleep(s)' \subseteq Asleep(s) \/ value[s] < 1
                   /\ value'[s] <= value[s] \/ Posting(s)' # {}
                   /\ t \in Posting(s) =>
                         \/ t \in Posting(s)'
                         \/ Asleep(s) # {} => Asleep(s)' # Asleep(s)
                   /\ t \in Waking(s) =>
                         \/ t \in Waking(s)'
                         \/ value[s] >= 1 => value'[s] < value[s]
<1>1. Shape
    BY DEF SInv, Shape
<1>2. /\ t \in Posting(s) => pc[t] = "notify"
      /\ t \in Waking(s) => pc[t] = "woken"
    BY DEF Posting, Waking
<1>3. ASSUME NEW u \in Threads, WaitLoop(u) PROVE Goal
    BY <1>1, <1>2, <1>3, WaitLoopFlows DEF Flows
<1>4. ASSUME NEW u \in Threads, Notify(u) PROVE Goal
    BY <1>1, <1>2, <1>4, NotifyFlows DEF Flows
<1>5. ASSUME NEW u \in Threads, SpuriousWakeUp(u) PROVE Goal
    BY <1>1, <1>2, <1>5, SpuriousFlows DEF Flows
<1>6. ASSUME NEW u \in Threads, NEW g \in Grants, Use(u, g) PROVE Goal
    BY <1>1, <1>2, <1>6, UseFlows DEF Flows
<1>7. ASSUME UNCHANGED vars PROVE Goal
  <2>1. Asleep(s)' = Asleep(s) /\ Posting(s)' = Posting(s) /\ Waking(s)' = Waking(s)
    BY <1>7 DEF vars, Asleep, Posting, Waking, SemOf
  <2>2. value'[s] <= value[s]
    BY <1>7 DEF vars, SInv, TypeOK
  <2> QED
    BY <2>1, <2>2
<1> QED
    BY <1>3, <1>4, <1>5, <1>6, <1>7 DEF Next, Step

\* The fairness of FairSpec for thread t, with the guard of Step(t) in the
\* place of ENABLED.
Running(t) == pc[t] \in {"lock", "woken", "notify"}
Scheduled(t) == []<>~Running(t) \/ []<><<Step(t)>>_vars

LEMMA FairIsScheduled ==
    ASSUME NEW t \in Threads
    PROVE  /\ [](Running(t) => ENABLED <<Step(t)>>_vars)
           /\ WF_vars(Step(t))
           => Scheduled(t)
    BY PTL DEF Scheduled

\* post() has raised the counter and unlocked; whatever the others do in
\* between, its notification reaches one of those asleep, unless the counter
\* is used up before.
THEOREM NotificationArrives ==
    ASSUME NEW s \in Sems, NEW t \in Threads, NEW A
    PROVE  Spec /\ Scheduled(t) =>
              (t \in Posting(s) /\ Asleep(s) = A /\ A # {}
                  ~> (Asleep(s) \subseteq A /\ Asleep(s) # A) \/ value[s] = 0)
<1> DEFINE Same == Asleep(s) = A /\ A # {}
           Less == Asleep(s) \subseteq A /\ Asleep(s) # A
           Empty == value[s] = 0
<1>1. SInv /\ t \in Posting(s) => Running(t)
    BY DEF Posting, Running
<1>2. SInv /\ [Next]_vars /\ t \in Posting(s) /\ Same /\ ~Empty
        => (t \in Posting(s) /\ Same)' \/ Less'
  <2> SUFFICES ASSUME SInv, [Next]_vars, t \in Posting(s), Same, ~Empty
               PROVE  (t \in Posting(s) /\ Same)' \/ Less'
    OBVIOUS
  <2>1. ~(value[s] < 1)
    BY DEF SInv, TypeOK
  <2> QED
    BY <2>1, NextFlows
<1>3. SInv /\ <<Step(t)>>_vars /\ t \in Posting(s) /\ Same => Less'
  <2> SUFFICES ASSUME SInv, Step(t), t \in Posting(s), Same PROVE Less'
    OBVIOUS
  <2>1. Shape /\ pc[t] = "notify"
    BY DEF SInv, Shape, Posting
  <2>2. Notify(t)
    BY <2>1 DEF Step, WaitLoop
  <2> QED
    BY <2>1, <2>2, NotifyFlows
<1> HIDE DEF Same, Less, Empty
<1>4. Spec /\ Scheduled(t) => (t \in Posting(s) /\ Same ~> Less \/ Empty)
    BY <1>1, <1>2, <1>3, SemaphoreInvariance, PTL DEF Spec, Scheduled
<1>5. (t \in Posting(s) /\ Asleep(s) = A /\ A # {} <=> t \in Posting(s) /\ Same)
      /\ ((Asleep(s) \subseteq A /\ Asleep(s) # A) \/ value[s] = 0 <=> Less \/ Empty)
    BY DEF Same, Less, Empty
<1> QED
    BY <1>4, <1>5, PTL

\* A thread that was woken while the counter is positive makes it smaller,
\* itself or because others were faster, unless a new post comes first.
THEOREM WokenTakes ==
    ASSUME NEW s \in Sems, NEW t \in Threads, NEW n \in Nat
    PROVE  Spec /\ Scheduled(t) =>
              (t \in Waking(s) /\ value[s] = n /\ n >= 1
                  ~> value[s] < n \/ Posting(s) # {})
<1> DEFINE Same == value[s] = n /\ n >= 1
           Less == value[s] < n
           Posted == Posting(s) # {}
<1>1. SInv /\ t \in Waking(s) => Running(t)
    BY DEF Waking, Running
<1>2. SInv /\ [Next]_vars /\ t \in Waking(s) /\ Same
        => (t \in Waking(s) /\ Same)' \/ Less' \/ Posted'
  <2> SUFFICES ASSUME SInv, [Next]_vars, t \in Waking(s), Same
               PROVE  (t \in Waking(s) /\ Same)' \/ Less' \/ Posted'
    OBVIOUS
  <2>1. value'[s] \in Nat
    BY NextSInv DEF SInv, TypeOK
  <2> QED
    BY <2>1, NextFlows
<1>3. SInv /\ <<Step(t)>>_vars /\ t \in Waking(s) /\ Same => Less'
  <2> SUFFICES ASSUME SInv, Step(t), t \in Waking(s), Same PROVE Less'
    OBVIOUS
  <2>1. Shape /\ pc[t] = "woken"
    BY DEF SInv, Shape, Waking
  <2>2. WaitLoop(t)
    BY <2>1 DEF Step, Notify
  <2> QED
    BY <2>1, <2>2, WaitLoopFlows
<1> HIDE DEF Same, Less, Posted
<1>4. Spec /\ Scheduled(t) => (t \in Waking(s) /\ Same ~> Less \/ Posted)
    BY <1>1, <1>2, <1>3, SemaphoreInvariance, PTL DEF Spec, Scheduled
<1>5. (t \in Waking(s) /\ value[s] = n /\ n >= 1 <=> t \in Waking(s) /\ Same)
      /\ (value[s] < n \/ Posting(s) # {} <=> Less \/ Posted)
    BY DEF Same, Less, Posted
<1> QED
    BY <1>4, <1>5, PTL
=============================================================================
