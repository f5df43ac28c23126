------------------------------- MODULE Stack -------------------------------
(***************************************************************************)
(* What the two stack benchmarks of src/lock-free-hft promise: each worker *)
(* thread runs OPERATIONS_PER_THREAD operations on one shared stack,      *)
(* pushing i * id at every even i and popping at every odd i, and every   *)
(* push and pop takes effect atomically, at one instant.  A pop of an     *)
(* empty stack returns false and changes nothing.                         *)
(***************************************************************************)
EXTENDS Naturals, Sequences, SequencesExt

CONSTANTS
  Threads,   \* worker ids (the id argument of worker)
  Ops        \* OPERATIONS_PER_THREAD

VARIABLES
  stack,     \* the stack's contents, bottom first
  done       \* done[t]: operations worker t has completed

vars == <<stack, done>>

\* the value worker t pushes at iteration i: stack.push(i * id)
Value(t, i) == i * t

Init ==
  /\ stack = <<>>
  /\ done = [t \in Threads |-> 0]

Push(t) ==
  /\ done[t] < Ops /\ done[t] % 2 = 0
  /\ stack' = Append(stack, Value(t, done[t]))
  /\ done' = [done EXCEPT ![t] = @ + 1]

Pop(t) ==
  /\ done[t] < Ops /\ done[t] % 2 = 1
  /\ stack' = IF stack = <<>> THEN stack ELSE Front(stack)
  /\ done' = [done EXCEPT ![t] = @ + 1]

Worker(t) == Push(t) \/ Pop(t)

Next == \E t \in Threads : Worker(t)

\* every worker thread runs until its loop ends (main joins them all)
Spec == Init /\ [][Next]_vars /\ \A t \in Threads : WF_vars(Worker(t))

(* Every worker finishes its loop: the join in main returns. *)
AllDone == \A t \in Threads : done[t] = Ops
Termination == <>AllDone
=============================================================================
