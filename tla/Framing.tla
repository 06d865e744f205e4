------------------------------- MODULE Framing --------------------------------
(***************************************************************************)
(* A session's io thread between TLS and packets                           *)
(* (net/kdeconnect_client.cpp io_loop, utils/network_util.cpp).            *)
(*                                                                         *)
(* Packets are lines.  The peer's lines come in TLS records, of which each *)
(* holds some bytes of one line or of several; mbedtls decrypts a record   *)
(* at a time and keeps what was not asked for.  One thread reads and       *)
(* writes: it sends what is queued, waits 5 ms for the socket, and then    *)
(* reads a line to its end.                                                *)
(***************************************************************************)
EXTENDS Integers, Sequences

CONSTANTS
  MaxLines,    \* bound: lines of the peer
  MaxPacket,   \* kMaxPacketSize
  MaxRecord,   \* bound: bytes in a record
  MaxQueued    \* bound: packets to send

VARIABLES
  rest,        \* the bytes the peer has still to send: n is one of line n, -n its end
  socket,      \* the records that have arrived
  plain,       \* what mbedtls has decrypted and not delivered
  line,        \* out of read_line_tls
  handled,     \* the lines that were given to handle_packet
  queue,       \* send_queue
  queued,      \* how many packets were queued
  delivered,   \* those that the peer got
  ioStep,      \* where the io thread is
  cut,         \* the connection is broken
  crammed         \* a record had the end of more than one line

vars == <<rest, socket, plain, line, handled, queue, queued, delivered, ioStep, cut, crammed>>

Ends(s) == {i \in DOMAIN s : s[i] < 0}

TypeOK ==
  /\ \A i \in DOMAIN rest : rest[i] \in -MaxLines .. MaxLines
  /\ \A i \in DOMAIN socket : Len(socket[i]) \in 1 .. MaxRecord
  /\ Len(plain) <= MaxRecord
  /\ Len(line) <= MaxPacket
  /\ Len(handled) <= MaxLines
  /\ Len(queue) <= MaxQueued /\ queued \in 0 .. MaxQueued
  /\ Len(delivered) <= queued
  /\ ioStep \in {"drain", "select", "read", "closed"}
  /\ cut \in BOOLEAN /\ crammed \in BOOLEAN

Line(n, size) == [i \in 1 .. size + 1 |-> IF i <= size THEN n ELSE -n]

\* Lines of any length up to one more than the packet size: where they end.
LineEnds ==
  {ends \in [0 .. MaxLines -> 0 .. MaxLines * (MaxPacket + 1)] :
     ends[0] = 0 /\ \A n \in 1 .. MaxLines : ends[n] - ends[n - 1] \in 1 .. MaxPacket + 1}

\* The first line that does not end before byte i.
LineOf(ends, i) ==
  CHOOSE n \in 1 .. MaxLines : i <= ends[n] /\ \A m \in 1 .. MaxLines : i <= ends[m] => n <= m

Lines(ends) ==
  [i \in 1 .. ends[MaxLines] |-> IF i = ends[LineOf(ends, i)] THEN -LineOf(ends, i) ELSE LineOf(ends, i)]

Init ==
  /\ \E ends \in LineEnds : rest = Lines(ends)
  /\ socket = <<>> /\ plain = <<>> /\ line = <<>> /\ handled = <<>>
  /\ queue = <<>> /\ queued = 0 /\ delivered = <<>>
  /\ ioStep = "drain"
  /\ cut = FALSE
  /\ crammed = FALSE

-----------------------------------------------------------------------------

\* A record of the peer arrives.
Arrive ==
  /\ ~cut
  /\ \E n \in 1 .. MaxRecord :
       /\ n <= Len(rest)
       /\ socket' = Append(socket, SubSeq(rest, 1, n))
       /\ rest' = SubSeq(rest, n + 1, Len(rest))
       /\ crammed' = (crammed \/ \E i, j \in Ends(SubSeq(rest, 1, n)) : i # j)
  /\ UNCHANGED <<plain, line, handled, queue, queued, delivered, ioStep, cut>>

\* The connection breaks: the peer's fault, or a keepalive that found it gone.
Break ==
  /\ ~cut
  /\ cut' = TRUE
  /\ UNCHANGED <<rest, socket, plain, line, handled, queue, queued, delivered, ioStep, crammed>>

\* Any thread queues a packet (DeviceSession::send).
Queue ==
  /\ queued < MaxQueued
  /\ queued' = queued + 1
  /\ queue' = Append(queue, queued')
  /\ UNCHANGED <<rest, socket, plain, line, handled, delivered, ioStep, cut, crammed>>

\* Mutant: the last one queued is sent first.
DrainLast ==
  /\ ioStep = "drain"
  /\ IF queue = <<>>
     THEN ioStep' = "select" /\ UNCHANGED <<queue, delivered>>
     ELSE /\ queue' = SubSeq(queue, 1, Len(queue) - 1)
          /\ IF cut THEN ioStep' = "closed" /\ UNCHANGED delivered
                    ELSE delivered' = Append(delivered, queue[Len(queue)]) /\ UNCHANGED ioStep
  /\ UNCHANGED <<rest, socket, plain, line, handled, queued, cut, crammed>>

\* The queue is drained, a packet at a time; a failed one ends the session.
Drain ==
  /\ ioStep = "drain"
  /\ IF queue = <<>>
     THEN ioStep' = "select" /\ UNCHANGED <<queue, delivered>>
     ELSE /\ queue' = Tail(queue)
          /\ IF cut THEN ioStep' = "closed" /\ UNCHANGED delivered
                    ELSE delivered' = Append(delivered, Head(queue)) /\ UNCHANGED ioStep
  /\ UNCHANGED <<rest, socket, plain, line, handled, queued, cut, crammed>>

\* Mutant: a line is read without a look at the socket.
SelectAlways ==
  /\ ioStep = "select"
  /\ ioStep' = "read"
  /\ UNCHANGED <<rest, socket, plain, line, handled, queue, queued, delivered, cut, crammed>>

\* select looks at the socket, not at what mbedtls keeps.  It times out, or a line is
\* read next.
Select ==
  /\ ioStep = "select"
  /\ ioStep' = IF socket # <<>> \/ cut THEN "read" ELSE "drain"
  /\ UNCHANGED <<rest, socket, plain, line, handled, queue, queued, delivered, cut, crammed>>

\* read_line_tls: mbedtls decrypts the next record, or the thread waits in it, or it
\* fails because the connection is broken.
Decrypt ==
  /\ ioStep = "read" /\ plain = <<>>
  /\ \/ /\ socket # <<>>
        /\ plain' = Head(socket) /\ socket' = Tail(socket)
        /\ UNCHANGED ioStep
     \/ /\ socket = <<>> /\ cut
        /\ ioStep' = "closed"
        /\ UNCHANGED <<plain, socket>>
  /\ UNCHANGED <<rest, line, handled, queue, queued, delivered, cut, crammed>>

\* Mutant: the end of a record ends a line.
ReadByteOfRecord ==
  /\ ioStep = "read" /\ plain # <<>>
  /\ plain' = Tail(plain)
  /\ LET b == Head(plain)
     IN IF b < 0 \/ Len(plain) = 1
        THEN /\ handled' = Append(handled, Append(line, b))
             /\ line' = <<>> /\ ioStep' = "drain"
        ELSE /\ line' = Append(line, b)
             /\ ioStep' = IF Len(line') >= MaxPacket THEN "closed" ELSE "read"
             /\ UNCHANGED handled
  /\ UNCHANGED <<rest, socket, queue, queued, delivered, cut, crammed>>

\* One byte: the end of the line has it handled, and one that has grown too long ends
\* the session.
ReadByte ==
  /\ ioStep = "read" /\ plain # <<>>
  /\ plain' = Tail(plain)
  /\ LET b == Head(plain)
     IN IF b < 0
        THEN /\ handled' = Append(handled, Append(line, b))
             /\ line' = <<>> /\ ioStep' = "drain"
        ELSE /\ line' = Append(line, b)
             /\ ioStep' = IF Len(line') >= MaxPacket THEN "closed" ELSE "read"
             /\ UNCHANGED handled
  /\ UNCHANGED <<rest, socket, queue, queued, delivered, cut, crammed>>

Io == Drain \/ Select \/ Decrypt \/ ReadByte

Next == Arrive \/ Break \/ Queue \/ Io

\* The io thread runs.  A line that has begun is completed, or the connection breaks:
\* a peer writes its lines whole, and TCP keepalive finds out one that is gone.
Finish == ioStep = "read" /\ line # <<>> /\ (Arrive \/ Break)

Spec == Init /\ [][Next]_vars /\ WF_vars(Io) /\ WF_vars(Finish)

-----------------------------------------------------------------------------

\* What is handled are the peer's lines, whole, each once and in order, and none that
\* is too long; what the peer gets are the queued packets, in order.
LinesAreWhole ==
  /\ \A i \in DOMAIN handled :
       /\ handled[i] = Line(i, Len(handled[i]) - 1)
       /\ Len(handled[i]) <= MaxPacket
  /\ \A i \in DOMAIN delivered : delivered[i] = i

\* A packet that is queued is sent, or the session ends, whatever arrives meanwhile.
QueuedIsSent == \A n \in 1 .. MaxQueued : queued >= n ~> Len(delivered) >= n \/ ioStep = "closed"

\* A line that has arrived is handled, or the session ends, as long as no record had
\* the ends of two.
ArrivedIsHandled ==
  \A n \in 1 .. MaxLines :
    (\E i \in DOMAIN socket : -n \in {socket[i][j] : j \in DOMAIN socket[i]}) /\ ~crammed
      ~> Len(handled) >= n \/ ioStep = "closed" \/ crammed
=============================================================================
