-------------------------------- MODULE NxLink --------------------------------
(***************************************************************************)
(* The tool on the host that sends the program to the console and prints   *)
(* its log (tools/nxlink/nxlink.c).  The console's loader, and the program *)
(* that connects with its log, are external.                               *)
(***************************************************************************)
EXTENDS Integers, Sequences, FiniteSets

CONSTANTS
  Pings,       \* bound: retries of findSwitch
  MaxReads,    \* bound: how often the file is read
  MaxBlocks,   \* bound: blocks that it is compressed to
  LogConn,     \* bound: the connections to the log server
  NoLogConn,   \* datafd is -1
  MaxBytes     \* bound: what each connection sends

VARIABLES
  stage,       \* how far the tool is
  pings,       \* retries that are left
  reads,       \* reads of the file that are left
  blocks,      \* how many blocks were sent
  toSwitch,    \* on the connection to the loader
  toHost,      \* the answers of the loader
  link,        \* the connection holds
  loader,      \* what the loader has taken
  stored,      \* the loader saw the end of the compressed data
  listening,   \* the log server is up
  backlog,     \* connections that were not accepted
  turn,        \* which socket the server polls
  datafd,      \* the connection that is read
  logged,      \* what each connection has sent, as a number of bytes
  unread,      \* what of that was not received
  closedBy,    \* the connections that the other side closed
  printed      \* what was printed of each

upVars == <<stage, pings, reads, blocks, toSwitch, toHost, link, loader, stored>>
logVars == <<listening, backlog, turn, datafd, logged, unread, closedBy, printed>>
vars == <<upVars, logVars>>

Answers == {0, -1, -2, -3}

TypeOK ==
  /\ stage \in {"find", "connect", "name", "size", "answer", "data", "stored",
                "args", "sent", "failed", "log_only"}
  /\ pings \in 0 .. Pings /\ reads \in 0 .. MaxReads /\ blocks \in 0 .. MaxBlocks
  /\ \A i \in DOMAIN toHost : toHost[i] \in Answers
  /\ link \in BOOLEAN /\ stored \in BOOLEAN /\ listening \in BOOLEAN
  /\ turn \in {"accept", "data"}
  /\ datafd \in LogConn \cup {NoLogConn}
  /\ \A c \in LogConn : logged[c] \in 0 .. MaxBytes /\ unread[c] \in 0 .. logged[c]
  /\ \A c \in LogConn : printed[c] \in 0 .. logged[c]

Init ==
  /\ stage \in {"find", "log_only"} /\ pings = Pings
  /\ reads \in 1 .. MaxReads
  /\ blocks = 0 /\ toSwitch = <<>> /\ toHost = <<>>
  /\ link = TRUE /\ loader = <<>> /\ stored = FALSE
  /\ listening = (stage = "log_only") /\ backlog = <<>> /\ turn = "accept" /\ datafd = NoLogConn
  /\ logged = [c \in LogConn |-> 0] /\ unread = [c \in LogConn |-> 0]
  /\ closedBy = {} /\ printed = [c \in LogConn |-> 0]

-----------------------------------------------------------------------------

(* findSwitch and sendNROFile *)

\* A ping is answered within its 150 ms, or it costs one retry.
Ping ==
  /\ stage = "find" /\ pings > 0
  /\ \/ stage' = "connect" /\ UNCHANGED pings
     \/ stage' = (IF pings = 1 THEN "failed" ELSE "find") /\ pings' = pings - 1
  /\ UNCHANGED <<reads, blocks, toSwitch, toHost, link, loader, stored, logVars>>

ConnectLoader ==
  /\ stage = "connect"
  /\ stage' \in {"name", "failed"}
  /\ UNCHANGED <<pings, reads, blocks, toSwitch, toHost, link, loader, stored, logVars>>

\* Send items and go on, or find that the connection is broken.  What is sent on
\* a broken connection before that is known is lost.
Sending(items, next) ==
  \/ /\ toSwitch' = IF link THEN toSwitch \o items ELSE toSwitch
     /\ stage' = next
  \/ /\ ~link /\ stage' = "failed" /\ UNCHANGED toSwitch

SendName ==
  /\ stage = "name" /\ Sending(<<"name">>, "size")
  /\ UNCHANGED <<pings, reads, blocks, toHost, link, loader, stored, logVars>>

SendSize ==
  /\ stage = "size" /\ Sending(<<"size">>, "answer")
  /\ UNCHANGED <<pings, reads, blocks, toHost, link, loader, stored, logVars>>

\* recvInt32LE masks the sum of all bytes with the lowest one.
RecvInt32LE(v) == v % 256

\* The loader's first answer decides.
ReadAnswer ==
  /\ stage = "answer"
  /\ \/ /\ toHost # <<>> /\ toHost' = Tail(toHost)
        /\ stage' = IF RecvInt32LE(toHost[1]) = 0 THEN "data" ELSE "failed"
     \/ ~link /\ toHost = <<>> /\ stage' = "failed" /\ UNCHANGED toHost
  /\ UNCHANGED <<pings, reads, blocks, toSwitch, link, loader, stored, logVars>>

\* deflate fills a block, and is called again with the same input.
DeflateFull ==
  /\ stage = "data" /\ blocks < MaxBlocks
  /\ blocks' = blocks + 1
  /\ Sending(<<"block">>, "data")
  /\ UNCHANGED <<pings, reads, toHost, link, loader, stored, logVars>>

\* deflate has used its input; at the end of the file it has ended the stream.
DeflateRest ==
  /\ stage = "data"
  /\ reads' = reads - 1
  /\ \/ reads > 1 /\ UNCHANGED <<blocks, toSwitch>> /\ stage' = "data"
     \/ reads > 1 /\ blocks < MaxBlocks /\ blocks' = blocks + 1 /\ Sending(<<"block">>, "data")
     \/ reads = 1 /\ blocks' = blocks /\ Sending(<<"end">>, "stored")
  /\ UNCHANGED <<pings, toHost, link, loader, stored, logVars>>

\* The loader's second answer is waited for, and its value is not looked at.
\* Mutant: it is not waited for.
NoWait ==
  /\ stage = "stored" /\ stage' = "args"
  /\ UNCHANGED <<pings, reads, blocks, toSwitch, toHost, link, loader, stored, logVars>>

ReadStored ==
  /\ stage = "stored"
  /\ \/ toHost # <<>> /\ toHost' = Tail(toHost) /\ stage' = "args"
     \/ ~link /\ toHost = <<>> /\ stage' = "failed" /\ UNCHANGED toHost
  /\ UNCHANGED <<pings, reads, blocks, toSwitch, link, loader, stored, logVars>>

\* With --server the tool goes on as the log server.
SendArgs ==
  /\ stage = "args" /\ Sending(<<"args">>, "sent")
  /\ listening' = (stage' = "sent")
  /\ UNCHANGED <<pings, reads, blocks, toHost, link, loader, stored,
                 backlog, turn, datafd, logged, unread, closedBy, printed>>

\* External: the loader answers the size of the file, and its end.
Loader ==
  /\ toSwitch # <<>> /\ link
  /\ toSwitch' = Tail(toSwitch)
  /\ loader' = Append(loader, toSwitch[1])
  /\ stored' = (stored \/ toSwitch[1] = "end")
  /\ CASE toSwitch[1] = "size" -> \E v \in Answers : toHost' = Append(toHost, v)
       [] toSwitch[1] = "end" -> toHost' = Append(toHost, 0)
       [] OTHER -> UNCHANGED toHost
  /\ UNCHANGED <<stage, pings, reads, blocks, link, logVars>>

\* External: the connection breaks, with all that is under way.
BreakLink ==
  /\ link /\ link' = FALSE
  /\ toSwitch' = <<>> /\ toHost' = <<>>
  /\ UNCHANGED <<stage, pings, reads, blocks, loader, stored, logVars>>

-----------------------------------------------------------------------------

(* The log server *)

Unused(c) == logged[c] = 0 /\ c \notin closedBy /\ datafd # c /\ \A i \in DOMAIN backlog : backlog[i] # c

\* External: the program connects, sends and closes.
Dial(c) ==
  /\ listening /\ Unused(c)
  /\ backlog' = Append(backlog, c)
  /\ logged' = [logged EXCEPT ![c] = 1]
  /\ unread' = [unread EXCEPT ![c] = 1]
  /\ UNCHANGED <<upVars, listening, turn, datafd, closedBy, printed>>

Log(c) ==
  /\ logged[c] \in 1 .. MaxBytes - 1 /\ c \notin closedBy
  /\ logged' = [logged EXCEPT ![c] = @ + 1]
  /\ unread' = [unread EXCEPT ![c] = @ + 1]
  /\ UNCHANGED <<upVars, listening, backlog, turn, datafd, closedBy, printed>>

HangUp(c) ==
  /\ logged[c] > 0 /\ c \notin closedBy
  /\ closedBy' = closedBy \cup {c}
  /\ UNCHANGED <<upVars, listening, backlog, turn, datafd, logged, unread, printed>>

\* Each round polls for a connection, which takes the place of the one that is
\* read without closing it, and then for data.
AcceptLog ==
  /\ listening /\ turn = "accept"
  /\ IF backlog # <<>> THEN datafd' = backlog[1] /\ backlog' = Tail(backlog)
     ELSE UNCHANGED <<datafd, backlog>>
  /\ turn' = IF datafd' = NoLogConn THEN "accept" ELSE "data"
  /\ UNCHANGED <<upVars, listening, logged, unread, closedBy, printed>>

\* One buffer of what has arrived is printed.
PrintLog ==
  /\ listening /\ turn = "data" /\ turn' = "accept"
  /\ IF unread[datafd] = 0 THEN datafd \notin closedBy /\ UNCHANGED <<printed, unread>>
     ELSE /\ printed' = [printed EXCEPT ![datafd] = @ + 1]
          /\ unread' = [unread EXCEPT ![datafd] = @ - 1]
  /\ UNCHANGED <<upVars, listening, backlog, datafd, logged, closedBy>>

\* The end of the connection; the server listens on.
\* Mutant: it ends with the connection.
EndWithLog ==
  /\ listening /\ turn = "data" /\ datafd \in closedBy /\ unread[datafd] = 0
  /\ datafd' = NoLogConn /\ turn' = "accept" /\ listening' = FALSE
  /\ UNCHANGED <<upVars, backlog, logged, unread, closedBy, printed>>

EndLog ==
  /\ listening /\ turn = "data" /\ datafd \in closedBy /\ unread[datafd] = 0
  /\ datafd' = NoLogConn /\ turn' = "accept"
  /\ UNCHANGED <<upVars, listening, backlog, logged, unread, closedBy, printed>>

Upload ==
  \/ Ping \/ ConnectLoader \/ SendName \/ SendSize \/ ReadAnswer
  \/ DeflateFull \/ DeflateRest \/ ReadStored \/ SendArgs

Program == \E c \in LogConn : Dial(c) \/ Log(c) \/ HangUp(c)

Next ==
  \/ Upload \/ Loader \/ BreakLink \/ Program
  \/ AcceptLog \/ PrintLog \/ EndLog

\* The server polls both of its sockets in turn.
LogServer == AcceptLog \/ PrintLog \/ EndLog

Spec == Init /\ [][Next]_vars /\ WF_vars(LogServer)

-----------------------------------------------------------------------------

\* When the tool says that it sent the program, the console has all of it: the
\* loader took it, and saw the end of the compressed data after every block.
SentIsStored ==
  stage = "sent" =>
    /\ stored /\ loader[Len(loader)] \in {"end", "args"}
    /\ Cardinality({i \in DOMAIN loader : loader[i] = "block"}) = blocks

\* What a program had logged before its connection was accepted is printed: the
\* server outlives every connection, and none takes the place of another unread.
FirstIsPrinted ==
  \A c \in LogConn : (\E i \in DOMAIN backlog : backlog[i] = c) ~> printed[c] > 0

=============================================================================
