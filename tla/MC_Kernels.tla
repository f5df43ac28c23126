---------------------------- MODULE MC_Kernels ----------------------------
(***************************************************************************)
(* The three small concurrent programs that share no state, checked in    *)
(* one model: the list drain of src/spinlocks, the CAS counter of         *)
(* src/non-blocking and the double buffer of src/double-buffering.  Their *)
(* variables are disjoint and each step is a step of one of them, so each *)
(* property below holds of the product exactly when it holds of its own   *)
(* program under that program's fairness.                                  *)
(* Two threads each, which is the least that lets them race; a list of    *)
(* two elements and a target of two, so one thread may find the list or   *)
(* the counter changed under it twice; three buffer iterations, so each   *)
(* block is filled again after it has been processed.                     *)
(***************************************************************************)
EXTENDS Naturals

CONSTANTS None, b1, b2

VARIABLES len, holder, dpc, popped,
          sink, expected, cpc, incs,
          data1, data2, contents, toProcess, toGenerate,
          gpc, gi, gbuf, ppc, pi, pbuf, processed

D == INSTANCE ListDrain WITH Threads <- {1, 2}, Size <- 2, pc <- dpc
C == INSTANCE CasCounter WITH Threads <- {1, 2}, Iterations <- 2, pc <- cpc
B == INSTANCE DoubleBuffer WITH Iterations <- 3, Bufs <- <<b1, b2>>

drainVars == <<len, holder, dpc, popped>>
counterVars == <<sink, expected, cpc, incs>>
bufferVars == <<data1, data2, contents, toProcess, toGenerate,
                gpc, gi, gbuf, ppc, pi, pbuf, processed>>
vars == <<drainVars, counterVars, bufferVars>>

Init == D!Init /\ C!Init /\ B!Init

Next ==
  \/ D!Next /\ UNCHANGED <<counterVars, bufferVars>>
  \/ C!Next /\ UNCHANGED <<drainVars, bufferVars>>
  \/ B!Next /\ UNCHANGED <<drainVars, counterVars>>

Spec == Init /\ [][Next]_vars /\ D!Fairness /\ C!Fairness /\ B!Fairness

TypeOK == D!TypeOK /\ C!TypeOK /\ B!TypeOK

\* the drain never pops an empty list nor loses a removal (ListDrain)
PopsMatchTests == D!PopsMatchTests
\* every thread leaves the drain loop with the list empty (ListDrain)
Drained == D!Drained
\* sink counts every successful exchange, no more, no less (CasCounter)
NoLostUpdate == C!NoLostUpdate
\* every counter thread returns with sink at num_iterations (CasCounter)
ReachesTarget == C!ReachesTarget
\* generator and processor never share a block; semaphores stay binary
NoSharedBuffer == B!NoSharedBuffer
\* every batch is processed once and in order (DoubleBuffer)
ProcessedInOrder == B!ProcessedInOrder
\* both double-buffering threads finish (DoubleBuffer)
BothFinish == B!BothFinish
=============================================================================
