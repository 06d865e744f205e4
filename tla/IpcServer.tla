------------------------------ MODULE IpcServer ------------------------------
(***************************************************************************)
(* The way from the overlay to the sysmodule: the server's table of        *)
(* session handles (sysmodule/src/ipc/ipc_server.c, ipc_service.cpp), the  *)
(* client side (common/src/kdec/ipc_client.cpp) and the overlay's polling  *)
(* of the service (overlay/src/main.cpp, gui/main_gui.cpp).                *)
(*                                                                         *)
(* The overlay tests whether the service is there by registering its name  *)
(* itself, for a moment (kdecIpcRunning).  The service manager and the     *)
(* kernel's sessions are external.                                         *)
(***************************************************************************)
EXTENDS Naturals, Sequences, FiniteSets, SequencesExt

CONSTANTS
  Sess,         \* memory for sessions of the kernel
  NoSess,         \* no session
  MaxSessions,  \* MAX_SESSIONS
  MaxOther      \* bound: what a process other than the overlay does

VARIABLES
  sys,      \* the sysmodule: off, up, or running without its service
  name,     \* who has the name registered
  server,   \* the server's end of each session
  client,   \* who has the client's end of it
  msg,      \* what is in it
  table,    \* handles[1 .. count - 1]; handles[0] is the port
  srv,      \* where the IPC thread is
  cur,      \* handleIndex
  gui,      \* where the overlay's thread is
  found,    \* what kdecIpcRunning returned
  conn,     \* g_kdecSrv
  refCnt,   \* g_refCnt
  budget    \* what the other process may still do

serverVars == <<table, srv, cur>>
sessVars == <<server, client, msg>>
guiVars == <<gui, found, conn, refCnt>>
vars == <<sys, name, sessVars, serverVars, guiVars, budget>>

TypeOK ==
  /\ sys \in {"off", "up", "deaf"}
  /\ name \in {"none", "sysmodule", "probe"}
  /\ server \in [Sess -> {"none", "pending", "held", "closed", "dead"}]
  /\ client \in [Sess -> {"none", "overlay", "other"}]
  /\ msg \in [Sess -> {"none", "request", "broken", "close", "reply"}]
  /\ table \in Seq(Sess) /\ Len(table) <= MaxSessions
  /\ srv \in {"wait", "accept", "receive", "reply", "delete"}
  /\ cur \in 0 .. MaxSessions
  /\ gui \in {"off", "idle", "probe", "probing", "decide", "connect", "ask", "waiting"}
  /\ found \in BOOLEAN
  /\ conn \in Sess \cup {NoSess}
  /\ refCnt \in Nat
  /\ budget \in 0 .. MaxOther

Init ==
  /\ sys = "off" /\ name = "none"
  /\ server = [s \in Sess |-> "none"] /\ client = [s \in Sess |-> "none"]
  /\ msg = [s \in Sess |-> "none"]
  /\ table = <<>> /\ srv = "wait" /\ cur = 0
  /\ gui = "off" /\ found = FALSE /\ conn = NoSess /\ refCnt = 0
  /\ budget = MaxOther

-----------------------------------------------------------------------------
(* The kernel.                                                             *)

\* A session counts until both its ends are closed.
Counted == {s \in Sess : server[s] \in {"pending", "held", "closed"}}

Free == {s \in Sess : server[s] = "none" /\ client[s] = "none"}

\* One end is closed; when both are, the session is gone.
CloseServer(s) ==
  /\ server' = [server EXCEPT ![s] = IF client[s] = "none" THEN "none" ELSE "closed"]
  /\ UNCHANGED client

\* The client's ends of the sessions in S are closed.  The server still has to notice.
CloseClients(S) ==
  /\ client' = [s \in Sess |-> IF s \in S THEN "none" ELSE client[s]]
  /\ server' = [s \in Sess |-> IF s \in S /\ server[s] \in {"closed", "dead"}
                               THEN "none" ELSE server[s]]
  /\ msg' = [s \in Sess |-> IF s \in S THEN "none" ELSE msg[s]]

\* smGetService: the session waits at the port to be accepted.
Connect(who, s) ==
  /\ s \in Free /\ Cardinality(Counted) < MaxSessions
  /\ server' = [server EXCEPT ![s] = "pending"]
  /\ client' = [client EXCEPT ![s] = who]
  /\ UNCHANGED msg

Signaled(s) == msg[s] \in {"request", "broken", "close"} \/ client[s] = "none"

-----------------------------------------------------------------------------
(* The sysmodule.                                                          *)

\* IpcService::start.  If the name is taken, the service is not started, and
\* nothing tries again.
Start ==
  /\ sys = "off"
  /\ IF name = "none" THEN sys' = "up" /\ name' = "sysmodule"
     ELSE sys' = "deaf" /\ UNCHANGED name
  /\ UNCHANGED <<sessVars, serverVars, guiVars, budget>>

\* It dies, is killed from the overlay or by the user; the service manager
\* forgets the name, and every handle is closed.
Kill ==
  /\ sys # "off"
  /\ sys' = "off"
  /\ name' = IF name = "sysmodule" THEN "none" ELSE name
  /\ server' = [s \in Sess |-> IF client[s] = "none" THEN "none"
                               ELSE IF server[s] = "none" THEN "none" ELSE "dead"]
  /\ msg' = [s \in Sess |-> "none"]
  /\ table' = <<>> /\ srv' = "wait" /\ cur' = 0
  /\ UNCHANGED <<client, guiVars, budget>>

\* Mutant: the last handle is not waited for.
WaitShort ==
  /\ sys = "up" /\ srv = "wait"
  /\ IF \E s \in Sess : server[s] = "pending"
     THEN srv' = "accept" /\ cur' = 0
     ELSE \E i \in 1 .. (Len(table) - 1) :
            /\ Signaled(table[i])
            /\ \A j \in 1 .. (i - 1) : ~Signaled(table[j])
            /\ srv' = "receive" /\ cur' = i
  /\ UNCHANGED <<sys, name, sessVars, table, guiVars, budget>>

\* svcWaitSynchronization: the first handle that has something for us.
Wait ==
  /\ sys = "up" /\ srv = "wait"
  /\ IF \E s \in Sess : server[s] = "pending"
     THEN srv' = "accept" /\ cur' = 0
     ELSE \E i \in 1 .. Len(table) :
            /\ Signaled(table[i])
            /\ \A j \in 1 .. (i - 1) : ~Signaled(table[j])
            /\ srv' = "receive" /\ cur' = i
  /\ UNCHANGED <<sys, name, sessVars, table, guiVars, budget>>

\* _ipcServerProcessNewSession and _ipcServerAddSession.
Accept ==
  /\ srv = "accept"
  /\ \E s \in Sess :
       /\ server[s] = "pending"
       /\ IF Len(table) >= MaxSessions
          THEN CloseServer(s) /\ UNCHANGED table
          ELSE /\ server' = [server EXCEPT ![s] = "held"]
               /\ table' = Append(table, s)
               /\ UNCHANGED client
  /\ srv' = "wait"
  /\ UNCHANGED <<sys, name, msg, cur, guiVars, budget>>

\* _ipcServerProcessSession, up to the handler.  A closed session and a request
\* that does not parse end it, without an answer.
Receive ==
  /\ srv = "receive"
  /\ LET s == table[cur]
     IN srv' = IF client[s] = "none" \/ msg[s] = "broken" THEN "delete" ELSE "reply"
  /\ UNCHANGED <<sys, name, sessVars, table, cur, guiVars, budget>>

\* The answer; after one to "close", or when the client has gone meanwhile, the
\* session is deleted.
Reply ==
  /\ srv = "reply"
  /\ LET s == table[cur]
     IN /\ srv' = IF client[s] = "none" \/ msg[s] = "close" THEN "delete" ELSE "wait"
        /\ msg' = [msg EXCEPT ![s] = IF client[s] = "none" THEN "none" ELSE "reply"]
  /\ UNCHANGED <<sys, name, server, client, table, cur, guiVars, budget>>

\* Mutant: one handle too few is moved up.
DeleteSessionShort ==
  /\ srv = "delete"
  /\ CloseServer(table[cur])
  /\ table' = [i \in 1 .. (Len(table) - 1) |-> IF i < cur \/ i = Len(table) - 1 THEN table[i] ELSE table[i + 1]]
  /\ msg' = [msg EXCEPT ![table[cur]] = "none"]
  /\ srv' = "wait"
  /\ UNCHANGED <<sys, name, cur, guiVars, budget>>

\* _ipcServerDeleteSession: the handle is closed, those behind it move up.
DeleteSession ==
  /\ srv = "delete"
  /\ CloseServer(table[cur])
  /\ table' = RemoveAt(table, cur)
  /\ msg' = [msg EXCEPT ![table[cur]] = "none"]
  /\ srv' = "wait"
  /\ UNCHANGED <<sys, name, cur, guiVars, budget>>

-----------------------------------------------------------------------------
(* The overlay, which has one thread.                                      *)

\* The overlay is opened, or its next poll is due.
Poll ==
  /\ gui \in {"off", "idle"}
  /\ gui' = "probe"
  /\ UNCHANGED <<sys, name, sessVars, serverVars, found, conn, refCnt, budget>>

\* kdecIpcRunning: if the name cannot be registered, the service is there.
Probe ==
  /\ gui = "probe"
  /\ IF name = "none"
     THEN name' = "probe" /\ gui' = "probing" /\ UNCHANGED found
     ELSE found' = TRUE /\ gui' = "decide" /\ UNCHANGED name
  /\ UNCHANGED <<sys, sessVars, serverVars, conn, refCnt, budget>>

EndProbe ==
  /\ gui = "probing"
  /\ name' = "none"
  /\ found' = FALSE
  /\ gui' = "decide"
  /\ UNCHANGED <<sys, sessVars, serverVars, conn, refCnt, budget>>

\* Mutant: the session of a service that has gone is kept.
KeepSession ==
  /\ gui' = "idle"
  /\ UNCHANGED <<sessVars, conn, refCnt>>

\* kdecIpcExit: the last user closes the session.
IpcExit ==
  /\ gui' = "idle"
  /\ IF refCnt = 0 THEN UNCHANGED <<sessVars, conn, refCnt>>
     ELSE /\ refCnt' = refCnt - 1
          /\ IF refCnt = 1 /\ conn # NoSess THEN CloseClients({conn}) /\ conn' = NoSess
             ELSE UNCHANGED <<sessVars, conn>>

\* MainGui::update: connect to a service that has come, let go of one that is gone.
Decide ==
  /\ gui = "decide"
  /\ \/ /\ found /\ conn = NoSess
        /\ refCnt' = refCnt + 1
        /\ gui' = "connect"
        /\ UNCHANGED <<sessVars, conn>>
     \/ found /\ conn # NoSess /\ gui' = "ask" /\ UNCHANGED <<sessVars, conn, refCnt>>
     \/ ~found /\ conn # NoSess /\ IpcExit
     \/ ~found /\ conn = NoSess /\ gui' = "idle" /\ UNCHANGED <<sessVars, conn, refCnt>>
  /\ UNCHANGED <<sys, name, serverVars, found, budget>>

\* Mutant: a failure does not take the use back.
ConnectFailedCounted ==
  /\ Cardinality(Counted) >= MaxSessions \/ Free = {}
  /\ gui' = "idle"
  /\ UNCHANGED <<sessVars, conn, refCnt>>

ConnectFailed ==
  /\ Cardinality(Counted) >= MaxSessions \/ Free = {}
  /\ gui' = "idle"
  /\ refCnt' = refCnt - 1
  /\ UNCHANGED <<sessVars, conn>>

\* kdecIpcInitialize: smGetService waits until the name is registered, and
\* fails if there are too many sessions.
Initialize ==
  /\ gui = "connect" /\ name = "sysmodule"
  /\ \/ ConnectFailed
     \/ \E s \in Sess : Connect("overlay", s) /\ conn' = s /\ gui' = "ask" /\ UNCHANGED refCnt
  /\ UNCHANGED <<sys, name, serverVars, found, budget>>

\* A command: GetDevices of a poll, or one of the user's.  On a closed session
\* it fails at once, and a poll then lets go of the session.
Ask ==
  /\ \/ gui = "ask"
     \/ gui = "idle" /\ conn # NoSess
  /\ IF server[conn] \in {"pending", "held"}
     THEN /\ msg' = [msg EXCEPT ![conn] = "request"]
          /\ gui' = "waiting"
          /\ UNCHANGED <<server, client, conn, refCnt>>
     ELSE IF gui = "ask" THEN IpcExit
     ELSE UNCHANGED <<gui, sessVars, conn, refCnt>>
  /\ UNCHANGED <<sys, name, serverVars, found, budget>>

\* The command returns, answered or not.
Answer ==
  /\ gui = "waiting"
  /\ \/ /\ msg[conn] = "reply"
        /\ msg' = [msg EXCEPT ![conn] = "none"]
        /\ gui' = "idle"
        /\ UNCHANGED <<server, client, conn, refCnt>>
     \/ server[conn] \in {"closed", "dead"} /\ IpcExit
  /\ UNCHANGED <<sys, name, serverVars, found, budget>>

\* The overlay is closed: exitServices.
CloseOverlay ==
  /\ gui = "idle"
  /\ CloseClients({s \in Sess : client[s] = "overlay"})
  /\ gui' = "off" /\ conn' = NoSess /\ refCnt' = 0
  /\ UNCHANGED <<sys, name, serverVars, found, budget>>

-----------------------------------------------------------------------------

\* Another process opens a session, uses it in any way, and goes.
Other ==
  /\ \/ /\ budget > 0 /\ name = "sysmodule"
        /\ \A s \in Sess : client[s] # "other"
        /\ \E s \in Sess : Connect("other", s)
        /\ budget' = budget - 1
     \/ \E s \in Sess :
          /\ client[s] = "other" /\ server[s] = "held" /\ msg[s] = "none" /\ budget > 0
          /\ \E m \in {"request", "broken", "close"} : msg' = [msg EXCEPT ![s] = m]
          /\ budget' = budget - 1
          /\ UNCHANGED <<server, client>>
     \/ \E s \in Sess : client[s] = "other" /\ CloseClients({s}) /\ UNCHANGED budget
  /\ UNCHANGED <<sys, name, serverVars, guiVars>>

Serve == Wait \/ Accept \/ Receive \/ Reply \/ DeleteSession

\* The overlay's polls, for as long as it is open.
Gui == (gui # "off" /\ Poll) \/ Probe \/ EndProbe \/ Decide \/ Initialize \/ (gui = "ask" /\ Ask) \/ Answer

Next ==
  \/ Start \/ Kill \/ Serve
  \/ Poll \/ Probe \/ EndProbe \/ Decide \/ Initialize \/ Ask \/ Answer \/ CloseOverlay
  \/ Other

\* The IPC thread and the overlay's run, and the console starts its sysmodules.
Fairness == WF_vars(Serve) /\ WF_vars(Gui)

-----------------------------------------------------------------------------

\* The table holds exactly the sessions that are open, each of them once, also
\* after one from the middle was deleted.  A closed handle would make every wait
\* fail from then on; an open one outside the table would never be served.
TableIsOpen ==
  /\ {s \in Sess : server[s] = "held"} = ToSet(table)
  /\ IsInjective(table)

\* The use count and the session agree whenever the overlay is between two
\* steps, however its connections failed or were closed by the other side: at a
\* larger count kdecIpcExit would not close, and the overlay never reconnect.
CountIsConnection == gui \in {"idle", "probe", "ask", "waiting"} => refCnt = IF conn = NoSess THEN 0 ELSE 1

\* A command returns: it is answered, or its session is closed.
CommandReturns == gui = "waiting" ~> gui # "waiting"

\* While the service stays up and the overlay is open, the overlay gets to it,
\* whatever became of the session it had with an earlier one.
Reconnects == <>[](sys = "up" /\ gui # "off") => []<>(conn # NoSess /\ server[conn] = "held")

=============================================================================
