-------------------------------- MODULE MCWire --------------------------------
(***************************************************************************)
(* What the packets of the application travel by: the lines of a          *)
(* connection, the connections of two devices, how they find each other,   *)
(* the files that the console sends, and nxlink, each checked by itself.   *)
(* part is the one that a behaviour is about, and the others stay in an    *)
(* initial state.                                                          *)
(***************************************************************************)
EXTENDS Naturals, FiniteSets

CONSTANTS
  MaxLines, MaxPacket, MaxRecord, MaxQueued,                 \* Framing
  Node, Conn, NoConn, MaxLosses, MaxCrashes,                 \* Meeting
  Device, Room, MaxMoves,                                    \* Discovery
  Transfer, Nobody, Ports, Size, Chunk,                      \* Uploads
  Pings, MaxReads, MaxBlocks, LogConn, NoLogConn, MaxBytes   \* NxLink

\* Two devices meet; a packet, a file and what a program logs are not empty; a
\* connection has a line to send, and a file is read once or more often.
ASSUME WireAssumption ==
  /\ MaxLines \in Nat /\ MaxPacket \in Nat \ {0} /\ MaxRecord \in Nat /\ MaxQueued \in Nat
  /\ IsFiniteSet(Node) /\ Cardinality(Node) = 2 /\ NoConn \notin Conn /\ MaxLosses \in Nat /\ MaxCrashes \in Nat
  /\ IsFiniteSet(Device) /\ Room \in Nat /\ MaxMoves \in Nat
  /\ Nobody \notin Transfer /\ Ports \in Nat /\ Size \in Nat \ {0} /\ Chunk \in Nat
  /\ Pings \in Nat /\ MaxReads \in Nat \ {0} /\ MaxBlocks \in Nat
  /\ NoLogConn \notin LogConn /\ MaxBytes \in Nat \ {0}

VARIABLES
  part,
  rest, socket, plain, line, handled, queue, queued, delivered, ioStep, cut, crammed,
  end, told, session, losses, crashes,
  life, thread, net, says, service, discovery, probed, met, word, lost, moves,
  upload, port, named, offer, caller, visitor, remaining, took, got, silent, late,
  stage, pings, reads, blocks, toSwitch, toHost, link, loader, stored, listening, backlog, turn, datafd, logged, unread, closedBy, printed

Frames == INSTANCE Framing
Two == INSTANCE Meeting
Search == INSTANCE Discovery
Sending == INSTANCE Uploads
Tool == INSTANCE NxLink

framesVars == <<rest, socket, plain, line, handled, queue, queued, delivered, ioStep, cut, crammed>>
meetingVars == <<end, told, session, losses, crashes>>
searchVars == <<life, thread, net, says, service, discovery, probed, met, word, lost, moves>>
sendingVars == <<upload, port, named, offer, caller, visitor, remaining, took, got, silent, late>>
toolVars == <<stage, pings, reads, blocks, toSwitch, toHost, link, loader, stored, listening, backlog, turn, datafd, logged, unread, closedBy, printed>>
wireVars == <<part, framesVars, meetingVars, searchVars, sendingVars, toolVars>>

Part == {"frames", "meeting", "search", "uploads", "nxlink"}

WireInit ==
  /\ part \in Part
  /\ Frames!Init /\ (part # "frames" => rest = Frames!Lines([n \in 0 .. MaxLines |-> 2 * n]))
  /\ Two!Init
  /\ Search!Init
  /\ Sending!Init
  /\ Tool!Init /\ (part # "nxlink" => reads = 1 /\ stage = "find")

WireNext ==
  /\ UNCHANGED part
  /\ \/ part = "frames" /\ Frames!Next /\ UNCHANGED <<meetingVars, searchVars, sendingVars, toolVars>>
     \/ part = "meeting" /\ Two!Next /\ UNCHANGED <<framesVars, searchVars, sendingVars, toolVars>>
     \/ part = "search" /\ Search!Next /\ UNCHANGED <<framesVars, meetingVars, sendingVars, toolVars>>
     \/ part = "uploads" /\ Sending!Next /\ UNCHANGED <<framesVars, meetingVars, searchVars, toolVars>>
     \/ part = "nxlink" /\ Tool!Next /\ UNCHANGED <<framesVars, meetingVars, searchVars, sendingVars>>

\* A part is scheduled fairly where its module says that it is.
ReadsAndSends == part = "frames" /\ Frames!Io /\ UNCHANGED <<part, meetingVars, searchVars, sendingVars, toolVars>>
Completes == part = "frames" /\ Frames!Finish /\ UNCHANGED <<part, meetingVars, searchVars, sendingVars, toolVars>>
Handles == part = "meeting" /\ Two!Handlers /\ UNCHANGED <<part, framesVars, searchVars, sendingVars, toolVars>>
Asks(d) == part = "search" /\ Search!Ask(d) /\ UNCHANGED <<part, framesVars, meetingVars, sendingVars, toolVars>>
Listens(d) == part = "search" /\ Search!Listen(d) /\ UNCHANGED <<part, framesVars, meetingVars, sendingVars, toolVars>>
Receives(d) == part = "search" /\ Search!Receive(d) /\ UNCHANGED <<part, framesVars, meetingVars, sendingVars, toolVars>>
Serves(u) == part = "uploads" /\ Sending!Thread(u) /\ UNCHANGED <<part, framesVars, meetingVars, searchVars, toolVars>>
Logs == part = "nxlink" /\ Tool!LogServer /\ UNCHANGED <<part, framesVars, meetingVars, searchVars, sendingVars>>

WireSpec ==
  /\ WireInit /\ [][WireNext]_wireVars
  /\ WF_wireVars(ReadsAndSends)
  /\ WF_wireVars(Completes)
  /\ WF_wireVars(Handles)
  /\ \A d \in Device : WF_wireVars(Asks(d))
  /\ \A d \in Device : WF_wireVars(Listens(d))
  /\ \A d \in Device : WF_wireVars(Receives(d))
  /\ \A u \in Transfer : WF_wireVars(Serves(u))
  /\ WF_wireVars(Logs)

-----------------------------------------------------------------------------

(* What the parts promise, as the conjunction of what their modules state. *)

\* What arrives is what was sent, whole and once: the lines of a connection, the files
\* that the console and nxlink send, each to whom it is for; two devices that are at
\* rest agree on the connection they use, and one that stops takes its leave.
WireIsWhole ==
  /\ part = "frames" => Frames!TypeOK /\ Frames!LinesAreWhole
  /\ part = "meeting" => Two!TypeOK /\ Two!AgreeAtRest
  /\ part = "search" => Search!TypeOK /\ Search!NeverItself /\ Search!GoodbyeIsLast
  /\ part = "uploads" => Sending!TypeOK /\ Sending!OwnFile /\ Sending!RestIsMissing
  /\ part = "nxlink" => Tool!TypeOK /\ Tool!SentIsStored

\* What is sent arrives, or the connection ends: queued packets, lines, the output of
\* an application; a session that has ended is noticed, and one that stands is not
\* replaced without a reason; devices find each other; and the ports of uploads are
\* given back.
WireMoves ==
  /\ Two!StaysMet
  /\ Two!EndIsNoticed
  /\ Search!PeersMeet
  /\ Frames!QueuedIsSent
  /\ Frames!ArrivedIsHandled
  /\ Sending!PortComesBack
  /\ Tool!FirstIsPrinted

=============================================================================
