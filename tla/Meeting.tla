------------------------------- MODULE Meeting --------------------------------
(***************************************************************************)
(* Two devices that run this program find each other                       *)
(* (net/kdeconnect_client.cpp).                                            *)
(*                                                                         *)
(* Each device dials whoever it hears of.  Both hear of each other at the  *)
(* same time, so connections cross: on each connection each of the two     *)
(* ends decides for itself whether it is wanted, and the two ends of two   *)
(* connections may be installed in different orders.  What a device has as *)
(* its session is the connection that it installed last.  Module Sessions  *)
(* has the threads of one device; here a handler's steps are those that    *)
(* the other device can see.                                               *)
(***************************************************************************)
EXTENDS Naturals, FiniteSets

CONSTANTS
  Node,        \* the two devices
  Conn,        \* bound: the TCP connections between them
  NoConn,      \* no session
  MaxLosses,   \* bound: connections or handshakes that break
  MaxCrashes   \* bound: devices that are switched off and on

VARIABLES
  end,         \* end[c][n]: what device n does with its end of connection c
  told,        \* told[c]: the devices that sent their identity through c
  session,     \* session[n]: the entry of sessions_ for the other device
  losses, crashes

vars == <<end, told, session, losses, crashes>>

\* "old" is a session that was replaced and is not closed yet; "gone" is an end
\* whose device was switched off, of which the other one hears nothing.
Stage == {"none", "dial", "check", "tls", "ready", "up", "old", "closed", "gone"}
Under == {"dial", "check", "tls", "ready"}

TypeOK ==
  /\ end \in [Conn -> [Node -> Stage]]
  /\ told \in [Conn -> SUBSET Node]
  /\ session \in [Node -> Conn \cup {NoConn}]
  /\ losses \in 0 .. MaxLosses /\ crashes \in 0 .. MaxCrashes

Other(n) == CHOOSE m \in Node : m # n

Ended(c, n) == end[c][n] \in {"closed", "gone"}

\* The session of n that is not marked disconnected.
Live(n) == session[n] # NoConn /\ end[session[n]][n] \in {"up", "old"}

Init ==
  /\ end = [c \in Conn |-> [n \in Node |-> "none"]]
  /\ told = [c \in Conn |-> {}]
  /\ session = [n \in Node |-> NoConn]
  /\ losses = 0 /\ crashes = 0

-----------------------------------------------------------------------------

\* The network thread gets an identity of the other device by UDP and starts a
\* thread that dials.  Nothing is checked before the connection is made.
Hear(c, n) ==
  /\ end[c] = [m \in Node |-> "none"]
  /\ end' = [end EXCEPT ![c][n] = "dial"]
  /\ UNCHANGED <<told, session, losses, crashes>>

\* The connection is made, and both devices have a handler for it.
Connect(c, n) ==
  /\ end[c][n] = "dial" /\ end[c][Other(n)] = "none"
  /\ end' = [end EXCEPT ![c] = [m \in Node |-> "check"]]
  /\ UNCHANGED <<told, session, losses, crashes>>

\* A handler that finds a session of the other device closes the connection.
\* Mutant: it goes on.
CheckNothing(c, n) ==
  /\ end[c][n] = "check"
  /\ end' = [end EXCEPT ![c][n] = "tls"]
  /\ UNCHANGED <<told, session, losses, crashes>>

Check(c, n) ==
  /\ end[c][n] = "check"
  /\ end' = [end EXCEPT ![c][n] = IF Live(n) THEN "closed" ELSE "tls"]
  /\ UNCHANGED <<told, session, losses, crashes>>

\* The TLS handshake needs both ends; then each sends its identity.
Shake(c, n) ==
  /\ end[c][n] = "tls" /\ n \notin told[c]
  /\ end[c][Other(n)] = "tls" \/ Other(n) \in told[c]
  /\ told' = [told EXCEPT ![c] = @ \cup {n}]
  /\ UNCHANGED <<end, session, losses, crashes>>

\* The identity of the other one arrived; it may have closed its end since.
ReadIdentity(c, n) ==
  /\ end[c][n] = "tls" /\ told[c] = Node
  /\ end' = [end EXCEPT ![c][n] = "ready"]
  /\ UNCHANGED <<told, session, losses, crashes>>

\* A handler whose connection breaks, or whose time is over, closes its end.
GiveUp(c, n) ==
  /\ end[c][n] \in {"dial", "check", "tls"}
  /\ Ended(c, Other(n)) \/ losses < MaxLosses
  /\ end' = [end EXCEPT ![c][n] = "closed"]
  /\ losses' = IF Ended(c, Other(n)) THEN losses ELSE losses + 1
  /\ UNCHANGED <<told, session, crashes>>

\* The session takes its place in sessions_.
\* Mutant: the session that it replaces is forgotten there.
InstallOver(c, n) ==
  /\ end[c][n] = "ready"
  /\ end' = [end EXCEPT ![c][n] = "up"]
  /\ session' = [session EXCEPT ![n] = c]
  /\ UNCHANGED <<told, losses, crashes>>

Install(c, n) ==
  /\ end[c][n] = "ready"
  /\ end' = [d \in Conn |->
       IF d = c THEN [end[d] EXCEPT ![n] = "up"]
       ELSE IF d = session[n] /\ Live(n) THEN [end[d] EXCEPT ![n] = "old"]
       ELSE end[d]]
  /\ session' = [session EXCEPT ![n] = c]
  /\ UNCHANGED <<told, losses, crashes>>

\* The handler closes the session that it replaced.
CloseOld(c, n) ==
  /\ end[c][n] = "old"
  /\ end' = [end EXCEPT ![c][n] = "closed"]
  /\ UNCHANGED <<told, session, losses, crashes>>

\* The io thread of a session reads the end of the connection, or the keepalive
\* of the socket finds that nobody answers.
\* Mutant: without the keepalive.
NoticeClosed(c, n) ==
  /\ end[c][n] = "up" /\ end[c][Other(n)] = "closed"
  /\ end' = [end EXCEPT ![c][n] = "closed"]
  /\ UNCHANGED <<told, session, losses, crashes>>

Notice(c, n) ==
  /\ end[c][n] = "up" /\ Ended(c, Other(n))
  /\ end' = [end EXCEPT ![c][n] = "closed"]
  /\ UNCHANGED <<told, session, losses, crashes>>

\* A connection breaks for one of its ends.
Break(c, n) ==
  /\ end[c][n] = "up" /\ losses < MaxLosses
  /\ end' = [end EXCEPT ![c][n] = "closed"]
  /\ losses' = losses + 1
  /\ UNCHANGED <<told, session, crashes>>

\* A device is switched off and on: it knows nothing and says nothing.
Crash(n) ==
  /\ crashes < MaxCrashes
  /\ end' = [c \in Conn |->
       IF end[c][n] \in Under \cup {"up", "old"} THEN [end[c] EXCEPT ![n] = "gone"]
       ELSE end[c]]
  /\ session' = [session EXCEPT ![n] = NoConn]
  /\ crashes' = crashes + 1
  /\ UNCHANGED <<told, losses>>

Work(c, n) ==
  \/ Connect(c, n) \/ Check(c, n) \/ Shake(c, n) \/ ReadIdentity(c, n)
  \/ Install(c, n) \/ CloseOld(c, n) \/ Notice(c, n)
  \/ GiveUp(c, n)

Step(c, n) == Hear(c, n) \/ Work(c, n) \/ Break(c, n)

Next == \E n \in Node : Crash(n) \/ \E c \in Conn : Step(c, n)

\* Sockets have timeouts, and threads run.
Handlers == \E n \in Node, c \in Conn : Work(c, n)

Spec == Init /\ [][Next]_vars

FairSpec == Spec /\ WF_vars(Handlers)

-----------------------------------------------------------------------------

\* No end has anything left to do.
AtRest ==
  \A c \in Conn, n \in Node :
    /\ end[c][n] \notin Under \cup {"old"}
    /\ ~(end[c][n] = "up" /\ Ended(c, Other(n)))

\* When nothing is under way, either both devices have the same connection as
\* their session, or neither has one, in whatever order crossed connections were
\* installed.
AgreeAtRest ==
  AtRest => \A n \in Node : Live(n) => Live(Other(n)) /\ session[Other(n)] = session[n]

Met == \E c \in Conn : \A n \in Node : session[n] = c /\ end[c][n] = "up"

\* Two devices that have met, and have no other handshake under way, are not
\* parted by hearing of each other again: only a connection that breaks or a
\* device that is switched off does that.
StaysMet ==
  [][(Met /\ \A c \in Conn, n \in Node : end[c][n] \notin {"tls", "ready", "old"})
       => \/ Met' /\ \A c \in Conn, n \in Node : end'[c][n] \notin {"tls", "ready", "old"}
          \/ losses' > losses \/ crashes' > crashes]_vars

Unnoticed(c) == \E n \in Node : end[c][n] = "up" /\ Ended(c, Other(n))

\* A session whose other end is closed, or gone without a word, is given up.
EndIsNoticed ==
  \A c \in Conn : Unnoticed(c) ~> ~Unnoticed(c)

=============================================================================
