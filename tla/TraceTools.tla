------------------------------ MODULE TraceTools ------------------------------
(***************************************************************************)
(* What the tools of the developer make of the trace of an allocation      *)
(* (tools/parse_memtrace.py, tools/memtrace_dashboard.py), of which the    *)
(* card has a beginning when the console is switched off.                  *)
(*                                                                         *)
(* A record is one unit, its frames are one each.  Sizes and addresses are *)
(* left out, every block counts as one.                                    *)
(***************************************************************************)
EXTENDS MemTracker

CONSTANTS
  Points,   \* n_tl: the points of the timeline
  Columns   \* n_rate: those of the rates

Units(records) ==
  FlattenSeq([i \in DOMAIN records |-> [k \in 1 .. records[i].nf + 1 |-> <<records[i], k>>]])

\* Mutant: a record whose frames are cut off is kept.
ParseTraceLoose(units) ==
  LET from[i \in 1 .. Len(units) + 1] ==
        IF i > Len(units) THEN <<>>
        ELSE <<units[i][1]>> \o from[Min({Len(units), i + units[i][1].nf}) + 1]
  IN from[1]

\* parse_trace and parse: records as long as one is complete.
ParseTrace(units) ==
  LET from[i \in 1 .. Len(units) + 1] ==
        IF i > Len(units) \/ i + units[i][1].nf > Len(units) \/ units[i][2] # 1 THEN <<>>
        ELSE <<units[i][1]>> \o from[i + units[i][1].nf + 1]
  IN from[1]

\* One record of the replay: what is live, the frees of what was not, and what
\* lived from when to when.
Replay(s, r) ==
  LET same == {l \in s.live : l.ptr = r.ptr}
  IN IF r.kind = "A" THEN [s EXCEPT !.live = (@ \ same) \cup {r}]
     ELSE IF same = {} THEN [s EXCEPT !.orphans = @ + 1]
     ELSE [s EXCEPT !.live = @ \ same,
                    !.events = @ \cup {[ptr |-> l.ptr, from |-> l.ts, to |-> r.ts] : l \in same}]

\* analyze.
Analyze(records) == FoldLeft(Replay, [live |-> {}, orphans |-> 0, events |-> {}], records)

\* Mutant: the records are taken as the threads came to write them.
FileOrder(records) == records

\* The records by their times.
Sorted(records) ==
  FlattenSeq([t \in 1 .. clock |-> SelectSeq(records, LAMBDA r : r.ts = t)])

\* The timeline has every step-th record and the last.
Timeline(records) ==
  LET n == Len(records)
      step == Max({1, n \div Points})
      shown == {i \in 1 .. n : (i - 1) % step = 0 \/ i = n}
  IN [i \in shown |-> Cardinality(Analyze(SubSeq(records, 1, i)).live)]

\* The column of the rates that a record is counted in.
Column(records, r) ==
  LET t0 == records[1].ts
      span == Max({1, Last(records).ts - t0})
  IN Min({Columns - 1, ((r.ts - t0) * Columns) \div span})

-----------------------------------------------------------------------------

\* From a trace that was cut anywhere the tools read the records that are whole,
\* and no others.
WholeIsRead ==
  \A n \in 0 .. Len(Units(file)) :
    LET read == ParseTrace(SubSeq(Units(file), 1, n))
    IN /\ IsPrefix(read, file)
       /\ Len(Units(read)) <= n
       /\ Len(read) < Len(file) => Len(Units(SubSeq(file, 1, Len(read) + 1))) > n

\* The order that the threads wrote in and that of their times, which are taken
\* before the mutex, tell the same: both reports have the same blocks live, the
\* same frees without an allocation and the same lives.  No two lives of an
\* address overlap, the last point of the timeline is what is live at the end,
\* and every record is in a column.
ReportsAgree ==
  ~hole /\ Idle =>
    LET records == file \o wbuf
        ordered == Sorted(records)
        report == Analyze(records)
        n == Len(ordered)
    IN /\ Analyze(ordered) = report
       /\ \A e, f \in report.events :
            /\ e.from < e.to
            /\ e.ptr = f.ptr /\ e # f => e.to < f.from \/ f.to < e.from
       /\ n > 0 => Timeline(ordered)[n] = Cardinality(report.live)
       /\ \A i \in 1 .. n : Column(ordered, ordered[i]) \in 0 .. Columns - 1
       \* What is reported as live is what the program has.
       /\ Tracing => {l.ptr : l \in report.live} = {p \in Ptr \ untraced : block[p] = "program"}

=============================================================================
