----------------------------- MODULE ListDrain -----------------------------
(***************************************************************************)
(* The work loop of src/spinlocks/1_spinlock.cpp: Threads threads empty  *)
(* one std::list, each taking the spinlock, testing l.empty() and either *)
(* unlocking and leaving or calling pop_back() and unlocking.  The       *)
(* std::mutex version in 0_mutex.cpp takes the same steps: its           *)
(* lock_guard releases the mutex on break and at the end of each pass.   *)
(* The list's values are never read, so the list is its length.          *)
(***************************************************************************)
EXTENDS Integers, Functions

CONSTANTS
  Threads,
  Size,     \* the list's initial length (1<<20 in the program)
  None      \* the lock is free

VARIABLES
  len,      \* l.size()
  holder,   \* the thread holding the lock, or None
  pc,       \* each thread's place: "lock", "test", "pop", "unlock", "done"
  popped    \* history: how many elements each thread has removed

vars == <<len, holder, pc, popped>>

Init ==
  /\ len = Size
  /\ holder = None
  /\ pc = [t \in Threads |-> "lock"]
  /\ popped = [t \in Threads |-> 0]

\* fault variant: the lock is entered without waiting for it
SpinLockNoWait(t) ==
  /\ pc[t] = "lock"
  /\ holder' = t
  /\ pc' = [pc EXCEPT ![t] = "test"]
  /\ UNCHANGED <<len, popped>>

\* pthread_spin_lock(&spinlock): spins until the lock is free
SpinLock(t) ==
  /\ pc[t] = "lock" /\ holder = None
  /\ holder' = t
  /\ pc' = [pc EXCEPT ![t] = "test"]
  /\ UNCHANGED <<len, popped>>

\* fault variant: break without pthread_spin_unlock
TestNoUnlock(t) ==
  /\ pc[t] = "test"
  /\ pc' = [pc EXCEPT ![t] = IF len = 0 THEN "done" ELSE "pop"]
  /\ UNCHANGED <<len, holder, popped>>

\* if (l.empty()) { pthread_spin_unlock(&spinlock); break; }
Test(t) ==
  /\ pc[t] = "test"
  /\ IF len = 0
     THEN holder' = None /\ pc' = [pc EXCEPT ![t] = "done"]
     ELSE UNCHANGED holder /\ pc' = [pc EXCEPT ![t] = "pop"]
  /\ UNCHANGED <<len, popped>>

\* l.pop_back()
PopBack(t) ==
  /\ pc[t] = "pop"
  /\ len' = len - 1
  /\ popped' = [popped EXCEPT ![t] = @ + 1]
  /\ pc' = [pc EXCEPT ![t] = "unlock"]
  /\ UNCHANGED holder

\* pthread_spin_unlock(&spinlock) and the next pass of while(true)
Unlock(t) ==
  /\ pc[t] = "unlock"
  /\ holder' = None
  /\ pc' = [pc EXCEPT ![t] = "lock"]
  /\ UNCHANGED <<len, popped>>

Worker(t) == SpinLock(t) \/ Test(t) \/ PopBack(t) \/ Unlock(t)

Next == \E t \in Threads : Worker(t)

\* Every started thread is scheduled.  A spinning thread may lose the
\* lock to the others while the list lasts, but once it is empty every
\* thread that leaves unlocks, and the lock stays free.
Fairness == \A t \in Threads : WF_vars(Worker(t))

Spec == Init /\ [][Next]_vars /\ Fairness

-----------------------------------------------------------------------------
TypeOK ==
  /\ len \in 0..Size
  /\ holder \in Threads \cup {None}
  /\ pc \in [Threads -> {"lock", "test", "pop", "unlock", "done"}]
  /\ popped \in [Threads -> 0..Size]

(* pop_back() is never called on an empty list (undefined behaviour), and *)
(* no element is removed twice: the emptiness test a thread made under    *)
(* the lock still holds when it pops, and the threads' removals add up to *)
(* what has left the list.                                                *)
PopsMatchTests ==
  /\ \A t \in Threads : pc[t] = "pop" => len > 0
  /\ len + FoldFunction(+, 0, popped) = Size

(* Every thread leaves the loop and the list ends empty, so the joins in *)
(* main return.                                                           *)
Drained == <>(len = 0 /\ \A t \in Threads : pc[t] = "done")
=============================================================================
