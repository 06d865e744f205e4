----------------------------- MODULE SessionLife -----------------------------
(***************************************************************************)
(* What the session table of KdeConnectClient promises, without threads,   *)
(* locks, sockets or phases of a clean-up: a session comes up once, goes   *)
(* down once and is released once; a device has at most one session in the *)
(* table; a session enters the table once, and is released only when it is *)
(* out of it again; and the client has stopped only when it is rid of all  *)
(* of them.  Where memory fails, and only there, a session that has not    *)
(* entered the table may be lost instead, and nobody is rid of it any      *)
(* more.  Sessions implements this (see Life there).                       *)
(***************************************************************************)
CONSTANTS
  Conn,     \* the sessions there may be
  Id,       \* device ids
  IdOf,     \* the device a session is with
  NoConn,   \* no session
  MayLose   \* TRUE iff a session may be lost

VARIABLES
  life,     \* how far a session is
  holder,   \* the session of a device in the table, or NoConn
  entered,  \* the sessions that have been in the table
  client    \* the client as a whole

vars == <<life, holder, entered, client>>

Init ==
  /\ life = [c \in Conn |-> "none"]
  /\ holder = [i \in Id |-> NoConn]
  /\ entered = {}
  /\ client = "running"

\* A handshake succeeded.
ComeUp(c) ==
  /\ client # "stopped"
  /\ life[c] = "none"
  /\ life' = [life EXCEPT ![c] = "up"]
  /\ UNCHANGED <<holder, entered, client>>

\* A session takes its device's place in the table, from another or not.  It
\* may be down already.
Enter(c) ==
  /\ client # "stopped"
  /\ life[c] \notin {"none", "lost"}
  /\ c \notin entered
  /\ entered' = entered \cup {c}
  /\ holder' = [holder EXCEPT ![IdOf[c]] = c]
  /\ UNCHANGED <<life, client>>

\* The peer, a newer session or the stop ends it.
GoDown(c) ==
  /\ life[c] = "up"
  /\ life' = [life EXCEPT ![c] = "down"]
  /\ UNCHANGED <<holder, entered, client>>

\* Its thread, socket and TLS context are gone, and so is its entry.
Release(c) ==
  /\ life[c] = "down"
  /\ c \in entered
  /\ holder[IdOf[c]] # c
  /\ life' = [life EXCEPT ![c] = "released"]
  /\ UNCHANGED <<holder, entered, client>>

\* It is left to itself before it is in the table.
Lose(c) ==
  /\ MayLose
  /\ client # "stopped"
  /\ life[c] \in {"up", "down"}
  /\ c \notin entered
  /\ life' = [life EXCEPT ![c] = "lost"]
  /\ UNCHANGED <<holder, entered, client>>

BeginStop ==
  /\ client = "running"
  /\ client' = "stopping"
  /\ UNCHANGED <<life, holder, entered>>

\* The table is emptied, after the last session has entered it.
Empty ==
  /\ client = "stopping"
  /\ \A c \in Conn : life[c] \notin {"none", "lost"} => c \in entered
  /\ holder' = [i \in Id |-> NoConn]
  /\ UNCHANGED <<life, entered, client>>

EndStop ==
  /\ client = "stopping"
  /\ \A i \in Id : holder[i] = NoConn
  /\ \A c \in Conn : life[c] \in {"none", "released", "lost"}
  /\ client' = "stopped"
  /\ UNCHANGED <<life, holder, entered>>

Next ==
  \/ \E c \in Conn : ComeUp(c) \/ Enter(c) \/ GoDown(c) \/ Release(c) \/ Lose(c)
  \/ BeginStop
  \/ Empty
  \/ EndStop

Spec == Init /\ [][Next]_vars

=============================================================================
