------------------------------ MODULE Uploads ------------------------------
(***************************************************************************)
(* Files that the console sends (KdeConnectClient::send_payload_reader,    *)
(* net/kdeconnect_client.cpp, with the reader of plugins/share_plugin.cpp).*)
(*                                                                         *)
(* An upload opens a port of its own, names it in a packet, and a thread   *)
(* waits 15 s for the receiver.  There are few ports, and nothing in a     *)
(* connection says which packet it answers.  Receivers are external, and   *)
(* are named by the upload whose packet they got; so is the network.  What *)
(* stop() has to do with these threads is in module Sessions.              *)
(***************************************************************************)
EXTENDS Naturals, FiniteSetsExt

CONSTANTS
  Transfer,   \* bound: the uploads
  Nobody,
  Ports,      \* 1739 .. 1764
  Size,       \* the units of each file
  Chunk       \* the units that buf holds

VARIABLES
  upload,     \* how far send_payload_reader is, and then its thread
  port,       \* where srv_fd listens, 0 if it is closed
  named,      \* the port in the packet
  offer,      \* where the packet is, and what its receiver made of it
  caller,     \* who waits to be accepted
  visitor,    \* client_fd
  remaining,
  took,       \* n, what reader returned
  got,        \* what each receiver got, and of whose file
  silent,     \* receivers that neither answer nor go away
  late        \* history: the receivers that connected when their upload had ended

vars == <<upload, port, named, offer, caller, visitor, remaining, took, got, silent, late>>

Port == 1 .. Ports
None == [of |-> Nobody, units |-> 0]

TypeOK ==
  /\ upload \in [Transfer -> {"none", "bound", "told", "wait", "tls", "read", "send", "close",
                              "done", "failed", "no thread"}]
  /\ port \in [Transfer -> {0} \cup Port] /\ named \in [Transfer -> {0} \cup Port]
  /\ offer \in [Transfer -> {"none", "queued", "heard", "calling", "over"}]
  /\ caller \in [Transfer -> Transfer \cup {Nobody}] /\ visitor \in [Transfer -> Transfer \cup {Nobody}]
  /\ remaining \in [Transfer -> 0 .. Size] /\ took \in [Transfer -> 0 .. Chunk]
  /\ \A r \in Transfer : got[r].of \in Transfer \cup {Nobody} /\ got[r].units \in 0 .. Size
  /\ silent \subseteq Transfer /\ late \subseteq Transfer

Init ==
  /\ upload = [u \in Transfer |-> "none"]
  /\ port = [u \in Transfer |-> 0] /\ named = port
  /\ offer = [u \in Transfer |-> "none"]
  /\ caller = [u \in Transfer |-> Nobody] /\ visitor = caller
  /\ remaining = [u \in Transfer |-> Size] /\ took = [u \in Transfer |-> 0]
  /\ got = [r \in Transfer |-> None]
  /\ silent = {} /\ late = {}

-----------------------------------------------------------------------------
(* The io thread that handles the command.                                 *)

To(u, stage) == upload' = [upload EXCEPT ![u] = stage]

Free == Port \ {port[v] : v \in Transfer}

\* Mutant: bind is not asked whether the port is taken.
BindFirst(u) ==
  /\ upload[u] = "none"
  /\ To(u, "bound") /\ port' = [port EXCEPT ![u] = Min(Port)]
  /\ UNCHANGED <<named, offer, caller, visitor, remaining, took, got, silent, late>>

\* bind and listen, at the first port that nobody has; or there is no socket.
Bind(u) ==
  /\ upload[u] = "none"
  /\ \/ Free # {} /\ To(u, "bound") /\ port' = [port EXCEPT ![u] = Min(Free)]
     \/ To(u, "failed") /\ UNCHANGED port
  /\ UNCHANGED <<named, offer, caller, visitor, remaining, took, got, silent, late>>

\* send_packet fails for a session that has ended, and srv_fd is closed.
Announce(u) ==
  /\ upload[u] = "bound"
  /\ \/ /\ To(u, "told")
        /\ named' = [named EXCEPT ![u] = port[u]] /\ offer' = [offer EXCEPT ![u] = "queued"]
        /\ UNCHANGED port
     \/ To(u, "failed") /\ port' = [port EXCEPT ![u] = 0] /\ UNCHANGED <<named, offer>>
  /\ UNCHANGED <<caller, visitor, remaining, took, got, silent, late>>

\* The thread is created; if it cannot be, nobody has the descriptor any more.
StartThread(u) ==
  /\ upload[u] = "told"
  /\ To(u, "wait") \/ To(u, "no thread")
  /\ UNCHANGED <<port, named, offer, caller, visitor, remaining, took, got, silent, late>>

-----------------------------------------------------------------------------
(* The thread of an upload.                                                *)

\* select says that nobody came for 15 s.
\* Mutant: accept is called without it.
NoTimeOut(u) == FALSE

TimeOut(u) ==
  /\ upload[u] = "wait" /\ caller[u] = Nobody
  /\ To(u, "close")
  /\ UNCHANGED <<port, named, offer, caller, visitor, remaining, took, got, silent, late>>

Accept(u) ==
  /\ upload[u] = "wait" /\ caller[u] # Nobody
  /\ \/ /\ To(u, "tls") /\ visitor' = [visitor EXCEPT ![u] = caller[u]]
        /\ caller' = [caller EXCEPT ![u] = Nobody]
     \/ To(u, "close") /\ UNCHANGED <<visitor, caller>>
  /\ UNCHANGED <<port, named, offer, remaining, took, got, silent, late>>

\* perform_tls_handshake goes on for as long as the receiver says nothing.
Handshake(u) ==
  /\ upload[u] = "tls" /\ visitor[u] \notin silent
  /\ To(u, "read") \/ To(u, "close")
  /\ UNCHANGED <<port, named, offer, caller, visitor, remaining, took, got, silent, late>>

\* The reader returns what it could read, nothing at an error or the end of the file.
Read(u) ==
  /\ upload[u] = "read"
  /\ \E k \in 0 .. Min({Chunk, remaining[u]}) :
       took' = [took EXCEPT ![u] = k] /\ To(u, IF k = 0 THEN "close" ELSE "send")
  /\ UNCHANGED <<port, named, offer, caller, visitor, remaining, got, silent, late>>

Deliver(u, k) ==
  got' = [got EXCEPT ![visitor[u]] = [of |-> u, units |-> @.units + k]]

\* Mutant: what was asked for is counted, not what was read.
SendAsked(u) ==
  /\ upload[u] = "send" /\ visitor[u] \notin silent
  /\ To(u, "read") /\ Deliver(u, took[u])
  /\ remaining' = [remaining EXCEPT ![u] = @ - Min({Chunk, @})]
  /\ UNCHANGED <<port, named, offer, caller, visitor, took, silent, late>>

\* send_all_tls sends all of it, or finds the connection broken after a part.
Send(u) ==
  /\ upload[u] = "send" /\ visitor[u] \notin silent
  /\ \/ /\ To(u, "read") /\ Deliver(u, took[u])
        /\ remaining' = [remaining EXCEPT ![u] = @ - took[u]]
     \/ /\ \E k \in 0 .. took[u] - 1 : Deliver(u, k)
        /\ To(u, "close") /\ UNCHANGED remaining
  /\ UNCHANGED <<port, named, offer, caller, visitor, took, silent, late>>

\* The connection is closed, then srv_fd; who waits there is turned away.
Close(u) ==
  /\ upload[u] = "close"
  /\ To(u, "done")
  /\ port' = [port EXCEPT ![u] = 0] /\ caller' = [caller EXCEPT ![u] = Nobody]
  /\ offer' = [r \in Transfer |-> IF r \in {caller[u], visitor[u]} THEN "over" ELSE offer[r]]
  /\ UNCHANGED <<named, visitor, remaining, took, got, silent, late>>

Thread(u) ==
  TimeOut(u) \/ Accept(u) \/ Handshake(u) \/ Read(u) \/ Send(u) \/ Close(u)

-----------------------------------------------------------------------------
(* Receivers.                                                              *)

\* The packet arrives, or the session ends before.
Hear(r) ==
  /\ offer[r] = "queued"
  /\ \E then \in {"heard", "over"} : offer' = [offer EXCEPT ![r] = then]
  /\ UNCHANGED <<upload, port, named, caller, visitor, remaining, took, got, silent, late>>

\* Who listens at the port takes the call; somebody else may be the next in line.
Call(r) ==
  /\ offer[r] = "heard"
  /\ \E u \in Transfer :
       /\ port[u] = named[r] /\ caller[u] = Nobody
       /\ caller' = [caller EXCEPT ![u] = r]
       /\ offer' = [offer EXCEPT ![r] = "calling"]
  /\ late' = IF port[r] # named[r] THEN late \cup {r} ELSE late
  /\ UNCHANGED <<upload, port, named, visitor, remaining, took, got, silent>>

FallSilent(r) ==
  /\ offer[r] = "calling" /\ r \notin silent
  /\ silent' = silent \cup {r}
  /\ UNCHANGED <<upload, port, named, offer, caller, visitor, remaining, took, got, late>>

Next ==
  \E u \in Transfer :
    \/ Bind(u) \/ Announce(u) \/ StartThread(u)
    \/ Thread(u)
    \/ Hear(u) \/ Call(u) \/ FallSilent(u)

\* The thread of every upload runs, and select returns in time.
Spec == Init /\ [][Next]_vars /\ \A u \in Transfer : WF_vars(Thread(u))

-----------------------------------------------------------------------------

\* A receiver gets the file that it was told of, unless it connected so late that
\* the port may have been another upload's by then.
OwnFile == \A r \in Transfer : got[r].of \in {Nobody, r} \/ r \in late

\* The receiver of an upload that counts nothing as remaining has all of the file,
\* and until a send breaks off, it has what does not remain.
RestIsMissing ==
  \A u \in Transfer :
    /\ upload[u] = "read" => got[visitor[u]].units = Size - remaining[u]
    /\ upload[u] = "done" /\ remaining[u] = 0 => got[visitor[u]] = [of |-> u, units |-> Size]

\* The port of an upload whose thread runs comes back, unless its receiver falls
\* silent: nothing limits how long it may.
PortComesBack ==
  \A u \in Transfer : upload[u] = "wait" ~> port[u] = 0 \/ visitor[u] \in silent

=============================================================================
