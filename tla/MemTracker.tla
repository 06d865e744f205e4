------------------------------ MODULE MemTracker ------------------------------
(***************************************************************************)
(* The allocation trace of a debug build (sysmodule/src/utils/             *)
(* mem_tracker.cpp): the wrappers of malloc, free and realloc that every   *)
(* thread runs through, the buffer they share and the file it is written   *)
(* to, which the tools replay (module TraceTools).                         *)
(*                                                                         *)
(* The allocator itself is external; a block that was freed may be given   *)
(* to another thread at once.                                              *)
(***************************************************************************)
EXTENDS Naturals, Sequences, SequencesExt, FiniteSets

CONSTANTS
  Worker,
  Ptr,        \* addresses of blocks
  BufSize,    \* kWBufSize, in records
  MaxAllocs   \* bound: the calls of malloc and realloc

VARIABLES
  fd,        \* g_trace_fd
  block,     \* who has each block: the heap, the thread in a call about it, or the program
  at,        \* where each thread is in the wrappers
  call,      \* what it has called
  arg,       \* the block it is about
  wbuf,      \* g_wbuf
  file,      \* the trace file
  clock,     \* the system counter
  stamp,     \* ts, what it was for each thread
  allocs,    \* the number of allocations
  untraced,  \* history: the blocks that are older than the trace
  hole,      \* history: a write to the file failed, or a realloc
  refill     \* history: the records in g_wbuf when the file was closed

vars == <<fd, block, at, call, arg, wbuf, file, clock, stamp, allocs, untraced, hole, refill>>

\* A record of the trace; bound: one frame for an allocation, none for a free.
Record == [kind : {"A", "F"}, ptr : Ptr, ts : Nat, nf : {0, 1}]

TypeOK ==
  /\ fd \in {"unopened", "open", "closing", "closed"}
  /\ block \in [Ptr -> {"heap", "call", "program"}]
  /\ at \in [Worker -> {"out", "track", "check", "append", "real"}]
  /\ call \in [Worker -> {"malloc", "free", "realloc"}]
  /\ arg \in [Worker -> Ptr]
  /\ wbuf \in Seq(Record) /\ file \in Seq(Record)
  /\ clock \in Nat /\ stamp \in [Worker -> Nat]
  /\ allocs \in 0 .. MaxAllocs
  /\ untraced \subseteq Ptr /\ hole \in BOOLEAN /\ refill \in Nat

Init ==
  /\ fd = "unopened"
  /\ block = [p \in Ptr |-> "heap"]
  /\ at = [t \in Worker |-> "out"] /\ call = [t \in Worker |-> "malloc"]
  /\ arg = [t \in Worker |-> CHOOSE p \in Ptr : TRUE]
  /\ wbuf = <<>> /\ file = <<>>
  /\ clock = 0 /\ stamp = [t \in Worker |-> 0]
  /\ allocs = 0 /\ untraced = {} /\ hole = FALSE /\ refill = 0

\* g_trace_fd >= 0.
Tracing == fd \in {"open", "closing"}

Idle == \A t \in Worker : at[t] = "out"

\* MemTracker::init, which main calls before there are other threads.
OpenTrace ==
  /\ fd = "unopened" /\ Idle
  /\ fd' = "open"
  /\ untraced' = {p \in Ptr : block[p] = "program"}
  /\ UNCHANGED <<block, at, call, arg, wbuf, file, clock, stamp, allocs, hole, refill>>

\* Mutant: the buffer is not emptied.
CloseTraceKeeps ==
  /\ fd = "open" /\ fd' = "closing"
  /\ file' = file \o wbuf
  /\ UNCHANGED <<block, at, call, arg, wbuf, clock, stamp, allocs, untraced, hole, refill>>

\* close_trace, at the end and in the handler of a crash, writes out what waits.
CloseTrace ==
  /\ fd = "open" /\ fd' = "closing"
  /\ wbuf' = <<>>
  /\ \/ file' = file \o wbuf /\ UNCHANGED hole
     \/ hole' = TRUE /\ UNCHANGED file
  /\ UNCHANGED <<block, at, call, arg, clock, stamp, allocs, untraced, refill>>

\* It closes the file without the mutex; up to here other threads take the file for
\* an open one.
CloseFile ==
  /\ fd = "closing" /\ fd' = "closed"
  /\ refill' = Len(wbuf)
  /\ UNCHANGED <<block, at, call, arg, wbuf, file, clock, stamp, allocs, untraced, hole>>

-----------------------------------------------------------------------------

\* The wrappers of malloc, calloc, memalign and the like: the block is
\* allocated, and then recorded.
Malloc(t) ==
  /\ at[t] = "out" /\ allocs < MaxAllocs
  /\ \E p \in Ptr :
       /\ block[p] = "heap"
       /\ block' = [block EXCEPT ![p] = "call"]
       /\ arg' = [arg EXCEPT ![t] = p]
  /\ call' = [call EXCEPT ![t] = "malloc"] /\ allocs' = allocs + 1
  /\ at' = [at EXCEPT ![t] = "track"]
  /\ UNCHANGED <<fd, wbuf, file, clock, stamp, untraced, hole, refill>>

\* Mutant: the block is freed first.
FreeAtOnce(t) ==
  /\ at[t] = "out"
  /\ \E p \in Ptr :
       /\ block[p] = "program"
       /\ block' = [block EXCEPT ![p] = "heap"]
       /\ arg' = [arg EXCEPT ![t] = p]
       /\ untraced' = untraced \ {p}
  /\ call' = [call EXCEPT ![t] = "free"] /\ UNCHANGED allocs
  /\ at' = [at EXCEPT ![t] = "track"]
  /\ UNCHANGED <<fd, wbuf, file, clock, stamp, hole, refill>>

\* Those of free and of realloc: the record comes first.
Free(t) ==
  /\ at[t] = "out"
  /\ \E p \in Ptr :
       /\ block[p] = "program"
       /\ block' = [block EXCEPT ![p] = "call"]
       /\ arg' = [arg EXCEPT ![t] = p]
  /\ \/ call' = [call EXCEPT ![t] = "free"] /\ UNCHANGED allocs
     \/ call' = [call EXCEPT ![t] = "realloc"] /\ allocs < MaxAllocs /\ allocs' = allocs + 1
  /\ at' = [at EXCEPT ![t] = "track"]
  /\ UNCHANGED <<fd, wbuf, file, clock, stamp, untraced, hole, refill>>

\* track_alloc and track_free look whether there is a trace, write_record does
\* so again, and then waits for the mutex.  The time is read in between.
Check(t) ==
  /\ at[t] \in {"track", "check"}
  /\ IF at[t] = "track" /\ Tracing
     THEN /\ clock' = clock + 1
          /\ stamp' = [stamp EXCEPT ![t] = clock']
     ELSE UNCHANGED <<clock, stamp>>
  /\ at' = [at EXCEPT ![t] = IF ~Tracing THEN "real" ELSE IF at[t] = "track" THEN "check" ELSE "append"]
  /\ UNCHANGED <<fd, block, call, arg, wbuf, file, allocs, untraced, hole, refill>>

\* flush_locked, if the record does not fit; what cannot be written is dropped,
\* and so may be what is written to a file that is being closed.  Without a file
\* the buffer stays full.
Append_(t) ==
  LET kind == IF call[t] = "malloc" THEN "A" ELSE "F"
      rec == [kind |-> kind, ptr |-> arg[t], ts |-> stamp[t], nf |-> IF kind = "A" THEN 1 ELSE 0]
  IN /\ at[t] = "append"
     /\ \/ /\ Len(wbuf) < BufSize \/ ~Tracing
           /\ wbuf' = Append(wbuf, rec)
           /\ UNCHANGED <<file, hole>>
        \/ /\ Len(wbuf) >= BufSize /\ Tracing
           /\ wbuf' = <<rec>>
           /\ \/ file' = file \o wbuf /\ UNCHANGED hole
              \/ hole' = TRUE /\ UNCHANGED file
     /\ at' = [at EXCEPT ![t] = "real"] /\ stamp' = [stamp EXCEPT ![t] = 0]
     /\ UNCHANGED <<fd, block, call, arg, clock, allocs, untraced, refill>>

\* malloc returns.
Return(t) ==
  /\ at[t] = "real" /\ call[t] = "malloc"
  /\ block' = [block EXCEPT ![arg[t]] = "program"]
  /\ at' = [at EXCEPT ![t] = "out"]
  /\ UNCHANGED <<fd, call, arg, wbuf, file, clock, stamp, allocs, untraced, hole, refill>>

\* __real_free.
RealFree(t) ==
  /\ at[t] = "real" /\ call[t] = "free"
  /\ block' = [block EXCEPT ![arg[t]] = "heap"]
  /\ untraced' = untraced \ {arg[t]}
  /\ at' = [at EXCEPT ![t] = "out"]
  /\ UNCHANGED <<fd, call, arg, wbuf, file, clock, stamp, allocs, hole, refill>>

\* Mutant: a block that was grown in place is not recorded again.
RealReallocSilent(t) ==
  /\ at[t] = "real" /\ call[t] = "realloc"
  /\ block' = [block EXCEPT ![arg[t]] = "program"]
  /\ at' = [at EXCEPT ![t] = "out"]
  /\ UNCHANGED <<fd, call, arg, wbuf, file, clock, stamp, allocs, untraced, hole, refill>>

\* __real_realloc: the block grows where it is, moves, or stays as it was
\* because there is no memory, which the trace does not say.
RealRealloc(t) ==
  /\ at[t] = "real" /\ call[t] = "realloc"
  /\ \/ /\ \E p \in Ptr :
             /\ block[p] = "heap" \/ p = arg[t]
             /\ block' = [block EXCEPT ![arg[t]] = "heap", ![p] = "call"]
             /\ arg' = [arg EXCEPT ![t] = p]
        /\ untraced' = untraced \ {arg[t]}
        /\ call' = [call EXCEPT ![t] = "malloc"]
        /\ at' = [at EXCEPT ![t] = "track"]
        /\ UNCHANGED hole
     \/ /\ block' = [block EXCEPT ![arg[t]] = "program"]
        /\ hole' = TRUE
        /\ at' = [at EXCEPT ![t] = "out"]
        /\ UNCHANGED <<call, arg, untraced>>
  /\ UNCHANGED <<fd, wbuf, file, clock, stamp, allocs, refill>>

Next ==
  \/ OpenTrace \/ CloseTrace \/ CloseFile
  \/ \E t \in Worker : Malloc(t) \/ Free(t) \/ Check(t) \/ Append_(t) \/ Return(t) \/ RealFree(t) \/ RealRealloc(t)

-----------------------------------------------------------------------------

\* The trace can be replayed: nothing that is live is allocated again, in
\* whatever order the threads came to write.  It is so because a free is
\* recorded before the block is free, an allocation after it is made.
TraceReplays ==
  LET trace == file \o wbuf
  IN ~hole =>
       \A i, j \in DOMAIN trace :
         i < j /\ trace[i].ptr = trace[j].ptr /\ (\A k \in i + 1 .. j - 1 : trace[k].ptr # trace[i].ptr) =>
           trace[i].kind # trace[j].kind

\* The buffer does not run over as long as there is a file to empty it into.  A
\* thread that has looked at the file before it was closed still appends to it
\* afterwards, and it does so once: more than a record for each thread does not come
\* to those that have come between the last write and the end of the file.  So the
\* buffer, of 277 records or more, runs over only if nearly as many came then.
BufferFits ==
  /\ fd # "closed" => Len(wbuf) <= BufSize
  /\ fd = "closed" => Len(wbuf) <= refill + Cardinality(Worker)

=============================================================================
