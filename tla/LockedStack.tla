---------------------------- MODULE LockedStack ----------------------------
(***************************************************************************)
(* class LockedStack and its workers (src/lock-free-hft/lock_free_stack.cpp*)
(* ).  push and pop hold mtx_ through a lock_guard; a thread's steps are  *)
(* taking the mutex, the std::stack calls it makes under it, and the      *)
(* lock_guard's release.  pop's empty() test and its top()/pop() are      *)
(* separate steps, so what the mutex protects is visible.                 *)
(***************************************************************************)
EXTENDS Naturals, Sequences, SequencesExt

CONSTANTS
  Threads,   \* worker ids, 0 .. NUM_THREADS - 1
  Ops,       \* OPERATIONS_PER_THREAD
  NoThread   \* the mutex is free

VARIABLES
  stack,     \* stack_, bottom first
  holder,    \* the thread that holds mtx_, or NoThread
  pc,        \* pc[t]: where worker t is in its loop body
  i          \* i[t]: the loop counter of worker t

vars == <<stack, holder, pc, i>>

Value(t, n) == n * t

Init ==
  /\ stack = <<>>
  /\ holder = NoThread
  /\ pc = [t \in Threads |-> IF Ops > 0 THEN "lock" ELSE "done"]
  /\ i = [t \in Threads |-> 0]

\* lock_guard<std::mutex> lock(mtx_) in push (i even) or pop (i odd)
Acquire(t) ==
  /\ pc[t] = "lock" /\ holder = NoThread
  /\ holder' = t
  /\ pc' = [pc EXCEPT ![t] = IF i[t] % 2 = 0 THEN "push" ELSE "empty"]
  /\ UNCHANGED <<stack, i>>

\* stack_.push(value)
DoPush(t) ==
  /\ pc[t] = "push"
  /\ stack' = Append(stack, Value(t, i[t]))
  /\ pc' = [pc EXCEPT ![t] = "unlock"]
  /\ UNCHANGED <<holder, i>>

\* if (stack_.empty()) return false;
CheckEmpty(t) ==
  /\ pc[t] = "empty"
  /\ pc' = [pc EXCEPT ![t] = IF stack = <<>> THEN "unlock" ELSE "top"]
  /\ UNCHANGED <<stack, holder, i>>

\* fault variant: the top is read but never removed
TopPopNoPop(t) ==
  /\ pc[t] = "top"
  /\ pc' = [pc EXCEPT ![t] = "unlock"]
  /\ UNCHANGED <<stack, holder, i>>

\* value = stack_.top(); stack_.pop(); return true;
TopPop(t) ==
  /\ pc[t] = "top"
  /\ stack' = Front(stack)
  /\ pc' = [pc EXCEPT ![t] = "unlock"]
  /\ UNCHANGED <<holder, i>>

\* fault variant: the loop runs while i <= OPERATIONS_PER_THREAD
ReleaseOffByOne(t) ==
  /\ pc[t] = "unlock"
  /\ holder' = NoThread
  /\ i' = [i EXCEPT ![t] = @ + 1]
  /\ pc' = [pc EXCEPT ![t] = IF i[t] + 1 <= Ops THEN "lock" ELSE "done"]
  /\ UNCHANGED stack

\* the lock_guard is destroyed on return; the for loop goes on with ++i
Release(t) ==
  /\ pc[t] = "unlock"
  /\ holder' = NoThread
  /\ i' = [i EXCEPT ![t] = @ + 1]
  /\ pc' = [pc EXCEPT ![t] = IF i[t] + 1 < Ops THEN "lock" ELSE "done"]
  /\ UNCHANGED stack

Worker(t) == Acquire(t) \/ DoPush(t) \/ CheckEmpty(t) \/ TopPop(t) \/ Release(t)

Next == \E t \in Threads : Worker(t)

\* the OS keeps scheduling every runnable thread
Spec == Init /\ [][Next]_vars /\ \A t \in Threads : WF_vars(Worker(t))

-----------------------------------------------------------------------------
TypeOK ==
  /\ stack \in Seq(Nat)
  /\ holder \in Threads \cup {NoThread}
  /\ pc \in [Threads -> {"lock", "push", "empty", "top", "unlock", "done"}]
  /\ i \in [Threads -> 0..Ops]

(* The locked stack implements the atomic stack of Stack.tla, including  *)
(* its liveness: a push or pop takes effect at its std::stack call while *)
(* the mutex is held, so its effect is counted from then until the       *)
(* lock_guard releases; every worker finishes.                           *)
Completed(t) == IF pc[t] = "unlock" THEN i[t] + 1 ELSE i[t]

Abstract == INSTANCE Stack WITH done <- [t \in Threads |-> Completed(t)]

StackRefinement == Abstract!Spec
=============================================================================
