---------------------------- MODULE DoubleBuffer ----------------------------
(***************************************************************************)
(* double_buffering() of src/double-buffering/main.cpp.  The generator    *)
(* fills data_1, waits on signal_to_generate, swaps data_1 with data_2 and *)
(* posts signal_to_process; the processor waits on signal_to_process,      *)
(* rewrites data_2 in place and posts signal_to_generate.  The two        *)
(* vectors are the storage blocks Bufs; data_1 and data_2 name the block  *)
(* each currently owns (swap exchanges them), and a block's contents are   *)
(* the iteration that last filled it.  generate_data and process_data     *)
(* each take a step to start, when their std::span captures the block, and *)
(* a step to finish.                                                      *)
(***************************************************************************)
EXTENDS Naturals, Sequences

CONSTANTS
  Iterations,  \* num_iterations
  Bufs         \* the two storage blocks, data_1's first

VARIABLES
  data1, data2,     \* the block each vector owns
  contents,         \* block -> the iteration written into it (0: none yet)
  toProcess,        \* signal_to_process's count
  toGenerate,       \* signal_to_generate's count
  gpc, gi, gbuf,    \* generator: place, loop counter, block it writes
  ppc, pi, pbuf,    \* processor: place, loop counter, block it rewrites
  processed         \* history: the iteration each process_data call saw

vars == <<data1, data2, contents, toProcess, toGenerate,
          gpc, gi, gbuf, ppc, pi, pbuf, processed>>

Start(n) == IF n < Iterations THEN "start" ELSE "done"

\* fault variant: the two semaphores' initial counts exchanged
InitSwappedSignals ==
  /\ data1 = Bufs[1] /\ data2 = Bufs[2]
  /\ contents = [b \in {Bufs[1], Bufs[2]} |-> 0]
  /\ toProcess = 1 /\ toGenerate = 0
  /\ gpc = Start(0) /\ gi = 0 /\ gbuf = data1
  /\ ppc = Start(0) /\ pi = 0 /\ pbuf = data2
  /\ processed = <<>>

Init ==
  /\ data1 = Bufs[1] /\ data2 = Bufs[2]
  /\ contents = [b \in {Bufs[1], Bufs[2]} |-> 0]
  /\ toProcess = 0 /\ toGenerate = 1
  /\ gpc = Start(0) /\ gi = 0 /\ gbuf = data1
  /\ ppc = Start(0) /\ pi = 0 /\ pbuf = data2
  /\ processed = <<>>

\* generate_data(data_1) begins writing the block data_1 owns
GenerateStart ==
  /\ gpc = "start"
  /\ gbuf' = data1 /\ gpc' = "writing"
  /\ UNCHANGED <<data1, data2, contents, toProcess, toGenerate, gi,
                 ppc, pi, pbuf, processed>>

\* generate_data returns: the block holds iteration gi + 1's data
GenerateEnd ==
  /\ gpc = "writing"
  /\ contents' = [contents EXCEPT ![gbuf] = gi + 1]
  /\ gpc' = "acquire"
  /\ UNCHANGED <<data1, data2, toProcess, toGenerate, gi, gbuf,
                 ppc, pi, pbuf, processed>>

\* fault variant: the generator swaps without waiting for the processor
GenAcquireNoWait ==
  /\ gpc = "acquire"
  /\ toGenerate' = toGenerate /\ gpc' = "swap"
  /\ UNCHANGED <<data1, data2, contents, toProcess, gi, gbuf,
                 ppc, pi, pbuf, processed>>

\* signal_to_generate.acquire()
GenAcquire ==
  /\ gpc = "acquire" /\ toGenerate > 0
  /\ toGenerate' = toGenerate - 1 /\ gpc' = "swap"
  /\ UNCHANGED <<data1, data2, contents, toProcess, gi, gbuf,
                 ppc, pi, pbuf, processed>>

\* data_1.swap(data_2)
Swap ==
  /\ gpc = "swap"
  /\ data1' = data2 /\ data2' = data1 /\ gpc' = "release"
  /\ UNCHANGED <<contents, toProcess, toGenerate, gi, gbuf,
                 ppc, pi, pbuf, processed>>

\* signal_to_process.release() and the for loop's i++
GenRelease ==
  /\ gpc = "release"
  /\ toProcess' = toProcess + 1
  /\ gi' = gi + 1 /\ gpc' = Start(gi + 1)
  /\ UNCHANGED <<data1, data2, contents, toGenerate, gbuf,
                 ppc, pi, pbuf, processed>>

\* signal_to_process.acquire()
ProcAcquire ==
  /\ ppc = "start" /\ toProcess > 0
  /\ toProcess' = toProcess - 1 /\ ppc' = "process"
  /\ UNCHANGED <<data1, data2, contents, toGenerate, gpc, gi, gbuf,
                 pi, pbuf, processed>>

\* process_data(data_2) begins on the block data_2 owns
ProcessStart ==
  /\ ppc = "process"
  /\ pbuf' = data2 /\ ppc' = "rewriting"
  /\ UNCHANGED <<data1, data2, contents, toProcess, toGenerate,
                 gpc, gi, gbuf, pi, processed>>

\* process_data returns, having worked on the block's data
ProcessEnd ==
  /\ ppc = "rewriting"
  /\ processed' = Append(processed, contents[pbuf])
  /\ ppc' = "release"
  /\ UNCHANGED <<data1, data2, contents, toProcess, toGenerate,
                 gpc, gi, gbuf, pi, pbuf>>

\* fault variant: the processor posts signal_to_process, not the generator's
ProcReleaseWrongSignal ==
  /\ ppc = "release"
  /\ toProcess' = toProcess + 1
  /\ pi' = pi + 1 /\ ppc' = Start(pi + 1)
  /\ UNCHANGED <<data1, data2, contents, toGenerate, gpc, gi, gbuf,
                 pbuf, processed>>

\* signal_to_generate.release() and the for loop's i++
ProcRelease ==
  /\ ppc = "release"
  /\ toGenerate' = toGenerate + 1
  /\ pi' = pi + 1 /\ ppc' = Start(pi + 1)
  /\ UNCHANGED <<data1, data2, contents, toProcess, gpc, gi, gbuf,
                 pbuf, processed>>

Generator == GenerateStart \/ GenerateEnd \/ GenAcquire \/ Swap \/ GenRelease
Processor == ProcAcquire \/ ProcessStart \/ ProcessEnd \/ ProcRelease

Next == Generator \/ Processor

\* Both threads are scheduled.  Each semaphore is acquired by one thread
\* only, so once posted it stays available until that thread takes it:
\* weak fairness suffices.
Fairness == WF_vars(Generator) /\ WF_vars(Processor)

Spec == Init /\ [][Next]_vars /\ Fairness

-----------------------------------------------------------------------------
TypeOK ==
  /\ {data1, data2} = {Bufs[1], Bufs[2]}
  /\ contents \in [{Bufs[1], Bufs[2]} -> 0..Iterations]
  /\ toProcess \in Nat /\ toGenerate \in Nat
  /\ gpc \in {"start", "writing", "acquire", "swap", "release", "done"}
  /\ ppc \in {"start", "process", "rewriting", "release", "done"}
  /\ gi \in 0..Iterations /\ pi \in 0..Iterations
  /\ processed \in Seq(0..Iterations)

(* The two threads never work on the same block at once (a data race on *)
(* the vectors' ints), and neither semaphore is released past its        *)
(* binary_semaphore maximum of 1, which is undefined behaviour.          *)
NoSharedBuffer ==
  /\ ~(gpc = "writing" /\ ppc = "rewriting" /\ gbuf = pbuf)
  /\ toProcess <= 1 /\ toGenerate <= 1

(* Each process_data call sees the data of the next iteration: every      *)
(* generated batch is processed once, in order, and none is overwritten    *)
(* before it is processed.                                                 *)
ProcessedInOrder == processed = [k \in 1..Len(processed) |-> k]

(* Both threads finish all num_iterations iterations and join. *)
BothFinish == <>(gpc = "done" /\ ppc = "done")
=============================================================================
