----------------------------- MODULE LockOrder ------------------------------
(***************************************************************************)
(* The debug lock-order checker of boostthreadcontrol/sync.cpp together    *)
(* with the locks it watches (sync.h), taken and given back through        *)
(* LOCK/TRY_LOCK scopes or ENTER/LEAVE_CRITICAL_SECTION: CCriticalSections, *)
(* which are recursive and tell the checker when they are destroyed, and   *)
(* plain boost::mutexes like CWaitableCriticalSection or the ControlMutex  *)
(* of checkqueue.h, which are neither.                                     *)
(* push_lock and DeleteLock run under dd_mutex and are one action each;    *)
(* the checker's bookkeeping and the operation on the mutex itself are     *)
(* separate steps, in the order in which the code does them.               *)
(*                                                                         *)
(* What a LockStack entry says about source locations, and the stack kept  *)
(* with a pair, are only for messages: a stack is a sequence of locks and  *)
(* lockorders the set of its keys.                                         *)
(***************************************************************************)
EXTENDS Integers, Sequences, FiniteSets, Functions

CONSTANTS
    Threads,
    Locks,      \* addresses at which watched locks may live
    NoThread,   \* "the mutex is free"
    NoLock,
    MaxDepth    \* bound: most scopes a thread has open

ASSUME LockAssumption ==
    /\ NoThread \notin Threads /\ NoLock \notin Locks
    /\ MaxDepth \in Nat

VARIABLES
    alive,         \* the locks that exist
    plain,         \* those of them that are no CCriticalSections
    orphaned,      \* history: addresses where a plain lock died and no
                   \* CCriticalSection has since
    holder, depth, \* owner and recursion depth of each mutex
    lockstack,     \* the thread-specific LockStack
    lockorders,    \* keys of lockdata.lockorders
    invlockorders, \* lockdata.invlockorders
    aborted,       \* potential_deadlock_detected has run into assert(false)
    pc, want       \* where each thread is, and with which lock

lives == <<alive, plain, orphaned>>
mutexes == <<lives, holder, depth>>
lockdata == <<lockorders, invlockorders, aborted>>
vars == <<mutexes, lockstack, lockdata, pc, want>>

(***************************************************************************)
(* Program counters.                                                       *)
(*   idle   between lock operations                                        *)
(*   lock   EnterCritical done, in cs.lock()                               *)
(*   try    EnterCritical done, before cs.try_lock()                       *)
(*   fail   try_lock failed, before LeaveCritical                          *)
(*   unlock end of a scope: LeaveCritical done, mutex still held           *)
(*   pop    LEAVE_CRITICAL_SECTION: mutex unlocked, before LeaveCritical   *)
(***************************************************************************)
Init ==
    /\ alive = {} /\ plain = {} /\ orphaned = {}
    /\ holder = [c \in Locks |-> NoThread]
    /\ depth = [c \in Locks |-> 0]
    /\ lockstack = [t \in Threads |-> <<>>]
    /\ lockorders = {}
    /\ invlockorders = {}
    /\ aborted = FALSE
    /\ pc = [t \in Threads |-> "idle"]
    /\ want = [t \in Threads |-> NoLock]

GoTo(t, l, c) ==
    /\ pc' = [pc EXCEPT ![t] = l]
    /\ want' = [want EXCEPT ![t] = c]

Inverse2(pairs) == {<<p[2], p[1]>> : p \in pairs}

-----------------------------------------------------------------------------
(***************************************************************************)
(* sync.cpp                                                                *)
(***************************************************************************)

\* Mutant: only the lock taken last is paired with the new one.
MutantBeforeLast(stack, c) ==
    IF stack = <<>> \/ c \in Range(stack) THEN {} ELSE {stack[Len(stack)]}

\* The locks that stand before the first entry of c in a lock stack.
Before(stack, c) ==
    {stack[i] : i \in {j \in DOMAIN stack : \A k \in 1..j : stack[k] # c}}

\* Mutant: the reverse pair is looked up in the wrong container.
MutantWrongLookup(t, c) ==
    LET fresh == {<<a, c>> : a \in Before(lockstack[t], c)} \ lockorders
    IN  /\ lockstack' = [lockstack EXCEPT ![t] = Append(@, c)]
        /\ lockorders' = lockorders \cup fresh
        /\ invlockorders' = invlockorders \cup Inverse2(fresh)
        /\ aborted' = (Inverse2(fresh) \cap invlockorders # {})

\* push_lock: record (a before c) for every lock a taken before c, and give
\* up if (c before a) has been recorded.
push_lock(t, c) ==
    LET fresh == {<<a, c>> : a \in Before(lockstack[t], c)} \ lockorders
    IN  /\ lockstack' = [lockstack EXCEPT ![t] = Append(@, c)]
        /\ lockorders' = lockorders \cup fresh
        /\ invlockorders' = invlockorders \cup Inverse2(fresh)
        /\ aborted' = (Inverse2(fresh) \cap lockorders # {})

pop_lock(t) ==
    /\ lockstack' = [lockstack EXCEPT ![t] = SubSeq(@, 1, Len(@) - 1)]
    /\ UNCHANGED lockdata

\* Mutant: without the second loop.
MutantDeleteFirst(c) ==
    LET mine == {p \in lockorders : p[1] = c}
    IN  /\ lockorders' = lockorders \ mine
        /\ invlockorders' = invlockorders \ Inverse2(mine)
        /\ UNCHANGED <<aborted, lockstack>>

\* DeleteLock: first the pairs (c before b), found in lockorders, then the
\* pairs (a before c), found through invlockorders.
DeleteLock(c) ==
    LET mine == {p \in lockorders : p[1] = c}
        inv  == invlockorders \ Inverse2(mine)
        his  == {q \in inv : q[1] = c}
    IN  /\ lockorders' = (lockorders \ mine) \ Inverse2(his)
        /\ invlockorders' = inv \ his
        /\ UNCHANGED <<aborted, lockstack>>

-----------------------------------------------------------------------------
(***************************************************************************)
(* sync.h                                                                  *)
(***************************************************************************)

\* A plain mutex keeps out its own holder, too.
Free(t, c) == holder[c] = NoThread \/ (holder[c] = t /\ c \notin plain)

\* lock and unlock of the mutex by thread t
Take(t, c) ==
    /\ holder' = [holder EXCEPT ![c] = t]
    /\ depth' = [depth EXCEPT ![c] = @ + 1]
    /\ UNCHANGED lives

Give(c) ==
    /\ depth' = [depth EXCEPT ![c] = @ - 1]
    /\ holder' = [holder EXCEPT ![c] = IF depth[c] = 1 THEN NoThread ELSE @]
    /\ UNCHANGED lives

\* LOCK, TRY_LOCK or ENTER_CRITICAL_SECTION: first EnterCritical ...
Enter(t, c, fTry) ==
    /\ pc[t] = "idle" /\ c \in alive /\ Len(lockstack[t]) < MaxDepth
    /\ push_lock(t, c)
    /\ GoTo(t, IF fTry THEN "try" ELSE "lock", c)
    /\ UNCHANGED mutexes

\* ... then lock(), which blocks while the mutex is not free, ...
Lock(t) ==
    /\ pc[t] = "lock" /\ Free(t, want[t])
    /\ Take(t, want[t])
    /\ GoTo(t, "idle", NoLock)
    /\ UNCHANGED <<lockstack, lockdata>>

\* ... or try_lock(), which does not.
TryLock(t) ==
    /\ pc[t] = "try"
    /\ \/ /\ Free(t, want[t])
          /\ Take(t, want[t])
          /\ GoTo(t, "idle", NoLock)
       \/ /\ ~Free(t, want[t])
          /\ GoTo(t, "fail", want[t])
          /\ UNCHANGED mutexes
    /\ UNCHANGED <<lockstack, lockdata>>

\* Mutant: without LeaveCritical after a failed try_lock.
MutantKeepFailed(t) ==
    /\ pc[t] = "fail"
    /\ GoTo(t, "idle", NoLock)
    /\ UNCHANGED <<mutexes, lockstack, lockdata>>

TryFailed(t) ==
    /\ pc[t] = "fail"
    /\ pop_lock(t)
    /\ GoTo(t, "idle", NoLock)
    /\ UNCHANGED mutexes

\* The lock that was taken last: scopes end in the reverse of their order.
Innermost(t) == lockstack[t][Len(lockstack[t])]

\* ~CMutexLock: LeaveCritical in its body, unlock in its member's destructor
ScopeEnd(t) ==
    /\ pc[t] = "idle" /\ lockstack[t] # <<>>
    /\ pop_lock(t)
    /\ GoTo(t, "unlock", Innermost(t))
    /\ UNCHANGED mutexes

ScopeUnlock(t) ==
    /\ pc[t] = "unlock"
    /\ Give(want[t])
    /\ GoTo(t, "idle", NoLock)
    /\ UNCHANGED <<lockstack, lockdata>>

\* LEAVE_CRITICAL_SECTION: unlock, then LeaveCritical
LeaveUnlock(t) ==
    /\ pc[t] = "idle" /\ lockstack[t] # <<>>
    /\ Give(Innermost(t))
    /\ GoTo(t, "pop", Innermost(t))
    /\ UNCHANGED <<lockstack, lockdata>>

LeaveCritical(t) ==
    /\ pc[t] = "pop"
    /\ pop_lock(t)
    /\ GoTo(t, "idle", NoLock)
    /\ UNCHANGED mutexes

\* A CCriticalSection or a plain mutex comes into being ...
Construct(c, fPlain) ==
    /\ c \notin alive
    /\ alive' = alive \cup {c}
    /\ plain' = IF fPlain THEN plain \cup {c} ELSE plain
    /\ UNCHANGED <<orphaned, holder, depth, lockstack, lockdata, pc, want>>

\* ... and is destroyed when no thread uses it. Only ~CCriticalSection
\* calls DeleteLock: what is recorded of a plain mutex stays.
Destruct(c) ==
    /\ c \in alive /\ holder[c] = NoThread
    /\ \A t \in Threads : c \notin Range(lockstack[t]) \cup {want[t]}
    /\ alive' = alive \ {c}
    /\ plain' = plain \ {c}
    /\ \/ /\ c \notin plain
          /\ DeleteLock(c)
          /\ orphaned' = orphaned \ {c}
       \/ /\ c \in plain
          /\ orphaned' = orphaned \cup {c}
          /\ UNCHANGED <<lockdata, lockstack>>
    /\ UNCHANGED <<holder, depth, pc, want>>

-----------------------------------------------------------------------------
Step(t) ==
    \/ \E c \in Locks, fTry \in BOOLEAN : Enter(t, c, fTry)
    \/ Lock(t) \/ TryLock(t) \/ TryFailed(t)
    \/ ScopeEnd(t) \/ ScopeUnlock(t)
    \/ LeaveUnlock(t) \/ LeaveCritical(t)

Next ==
    /\ ~aborted
    /\ \/ \E t \in Threads : Step(t)
       \/ \E c \in Locks, fPlain \in BOOLEAN : Construct(c, fPlain)
       \/ \E c \in Locks : Destruct(c)

Spec == Init /\ [][Next]_vars
-----------------------------------------------------------------------------
\* Types of all variables.
TypeOK ==
    /\ alive \in SUBSET Locks
    /\ plain \in SUBSET alive
    /\ orphaned \in SUBSET Locks
    /\ holder \in [Locks -> Threads \cup {NoThread}]
    /\ depth \in [Locks -> Nat]
    /\ lockstack \in [Threads -> Seq(Locks)]
    /\ lockorders \in SUBSET (Locks \X Locks)
    /\ invlockorders \in SUBSET (Locks \X Locks)
    /\ aborted \in BOOLEAN
    /\ pc \in [Threads -> {"idle", "lock", "try", "fail", "unlock", "pop"}]
    /\ want \in [Threads -> Locks \cup {NoLock}]

\* DeleteLock finds the pairs that end in a lock through invlockorders: the
\* two containers are mirror images at all times.
Mirror == invlockorders = Inverse2(lockorders)

\* A pair survives its locks only where a plain mutex died. A new lock at
\* the address of a CCriticalSection starts without a history; one at the
\* address of a plain mutex may be accused of what that one did, until a
\* CCriticalSection dies there.
StaleOnlyIfOrphaned ==
    \A p \in lockorders :
        \/ p[1] \in alive /\ p[2] \in alive
        \/ p[1] \in orphaned \/ p[2] \in orphaned

\* What destructors leave of lockdata is sound: the containers agree, and
\* pairs of dead locks are there only for want of a DeleteLock.
PairsSound == Mirror /\ StaleOnlyIfOrphaned

\* A thread that is between lock operations holds exactly the locks on its
\* lock stack, as often as they are there: AssertLockHeld is right.
StackIsHeld ==
    \A t \in Threads : pc[t] = "idle" =>
        \A c \in Locks :
            Cardinality({i \in DOMAIN lockstack[t] : lockstack[t][i] = c})
                = IF holder[c] = t THEN depth[c] ELSE 0

\* A thread is kept waiting by another one. (What waits for its own plain
\* mutex waits for ever, and nothing is recorded of it.)
Waits(t, c) == pc[t] = "lock" /\ want[t] = c /\ holder[c] \notin {t, NoThread}

\* A thread that waits for a lock while it holds another has recorded the
\* pair, so every deadlock of several threads is a cycle in lockorders.
WaitsRecorded ==
    \A t \in Threads, a, b \in Locks :
        Waits(t, b) /\ holder[a] = t => <<a, b>> \in lockorders

\* "may result in deadlock between the two threads": two threads that wait
\* for each other's locks never come about without the checker's complaint.
InversionDetected ==
    \A t, u \in Threads, a, b \in Locks :
        holder[a] = t /\ Waits(t, b) /\ holder[b] = u /\ Waits(u, a) => aborted
=============================================================================
