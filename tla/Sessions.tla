------------------------------ MODULE Sessions ------------------------------
(***************************************************************************)
(* The session table of KdeConnectClient                                   *)
(* (sysmodule/src/net/kdeconnect_client.cpp): how connections become       *)
(* sessions, how a session replaces an older one of the same device, how   *)
(* a session ends, and how stop() takes everything down.                   *)
(*                                                                         *)
(* Threads.  kc-network accepts connections and hears of peers; every      *)
(* connection c has a pending thread of its own (kc-accept, kc-connect)    *)
(* that runs handle_new_connection, and, once it is a session, a kc-io     *)
(* thread that runs io_loop; kc-payload-stream threads serve uploads that  *)
(* a packet asked for; one thread runs stop().  The pc of each is a        *)
(* variable below, and an action is what one of them does between two      *)
(* accesses to what they share: sessions_ (under session_mutex_),          *)
(* pending_threads_ (under pending_mutex_), and the unlocked fields        *)
(* disconnected, fd and tls of a session.                                  *)
(***************************************************************************)
EXTENDS Naturals, FiniteSets

CONSTANTS
  Conn,          \* connections, each with the session it may become
  Id,            \* device ids
  IdOf,          \* the device id the peer of a connection announces
  Upload,        \* payload uploads (kc-payload-stream threads)
  ThreadsFail,   \* TRUE iff pthread_create may fail
  MemoryFails,   \* TRUE iff handle_new_connection may run out of memory
  NoConn,        \* no session
  NoUpload       \* no upload

ASSUME SessionsAssumption ==
  /\ IdOf \in [Conn -> Id]
  /\ ThreadsFail \in BOOLEAN /\ MemoryFails \in BOOLEAN
  /\ NoConn \notin Conn
  /\ NoUpload \notin Upload
  /\ Conn \cap Upload = {}

VARIABLES
  running,       \* running_
  needsRestart,  \* needs_restart_
  net,           \* where network_loop is
  pend,          \* whose threads pending_threads_ holds
  pc,            \* where the pending thread of a connection is
  table,         \* sessions_: the session of a device, or NoConn
  old,           \* old_session of handle_new_connection
  disc,          \* disconnected
  fd,            \* the socket: owned by a ScopedFd, by the session, closed or leaked
  closes,        \* how often the session's descriptor was closed
  tls,           \* the session's TLS context
  io,            \* where io_loop is; "joined" once its thread was joined
  req,           \* the upload an io thread is about to push
  up,            \* the upload threads
  announced,     \* the sessions whose queue got the on-connect identity
  stop,          \* where stop() is
  toStop,        \* to_stop: the sessions stop() has still to end
  cur            \* the session stop() is ending

connVars == <<pc, old, announced>>
sessVars == <<disc, fd, closes, tls, io>>
loadVars == <<req, up>>
netVars == <<running, needsRestart, net>>
stopVars == <<stop, toStop, cur>>
vars == <<netVars, pend, connVars, table, sessVars, loadVars, stopVars>>

-----------------------------------------------------------------------------
(* Where a thread can be.                                                  *)

NetPc == {"check", "poll", "udp", "exited"}

HandlerPc == {"none", "nothread", "identity", "connect", "check", "handshake",
              "spawn", "publish", "mark", "fdcheck", "close", "join", "free",
              "announce", "lost", "done"}

\* handle_new_connection between publishing its session and being through
\* with the one it replaced
Cleaning == {"mark", "fdcheck", "close", "join", "free"}

IoPc == {"none", "loop", "read", "push", "mark", "fdcheck", "close", "free",
         "ended", "joined"}

\* io_loop before its tail: the session is being served
Serving == {"loop", "read", "push"}

StopPc == {"idle", "joinNet", "lock", "joinPending", "collect", "next",
           "fdcheck", "close", "join", "free", "done"}

\* stop() once it has joined and cleared pending_threads_
AfterPending == {"collect", "next", "fdcheck", "close", "join", "free", "done"}

TypeOK ==
  /\ running \in BOOLEAN
  /\ needsRestart \in BOOLEAN
  /\ net \in NetPc
  /\ pend \in SUBSET (Conn \cup Upload)
  /\ pc \in [Conn -> HandlerPc]
  /\ table \in [Id -> Conn \cup {NoConn}]
  /\ old \in [Conn -> Conn \cup {NoConn}]
  /\ disc \in [Conn -> BOOLEAN]
  /\ fd \in [Conn -> {"none", "scoped", "open", "closed", "leaked"}]
  /\ closes \in [Conn -> Nat]
  /\ tls \in [Conn -> {"none", "live", "freed"}]
  /\ io \in [Conn -> IoPc]
  /\ req \in [Conn -> Upload \cup {NoUpload}]
  /\ up \in [Upload -> {"none", "running", "nothread", "done"}]
  /\ announced \in SUBSET Conn
  /\ stop \in StopPc
  /\ toStop \in SUBSET Conn
  /\ cur \in Conn \cup {NoConn}

\* start(): the listener is up and kc-network runs.
Init ==
  /\ running = TRUE
  /\ needsRestart = FALSE
  /\ net = "check"
  /\ pend = {}
  /\ pc = [c \in Conn |-> "none"]
  /\ table = [i \in Id |-> NoConn]
  /\ old = [c \in Conn |-> NoConn]
  /\ disc = [c \in Conn |-> FALSE]
  /\ fd = [c \in Conn |-> "none"]
  /\ closes = [c \in Conn |-> 0]
  /\ tls = [c \in Conn |-> "none"]
  /\ io = [c \in Conn |-> "none"]
  /\ req = [c \in Conn |-> NoUpload]
  /\ up = [u \in Upload |-> "none"]
  /\ announced = {}
  /\ stop = "idle"
  /\ toStop = {}
  /\ cur = NoConn

-----------------------------------------------------------------------------
(* pending_threads_ and its mutex.                                         *)

\* The done flag of a pending task.
Done(t) == IF t \in Conn THEN pc[t] \in {"lost", "done"} ELSE up[t] = "done"

\* A pending task whose StackThread holds a thread that still runs.
StillRunning(t) ==
  IF t \in Conn THEN pc[t] \notin {"nothread", "lost", "done"} ELSE up[t] \notin {"nothread", "done"}

\* stop() is the only one to hold pending_mutex_ for longer than one step.
PendingLocked == stop = "joinPending"

\* reap_pending_threads_locked
Reap == pend' = {t \in pend : ~Done(t)}

-----------------------------------------------------------------------------
(* network_loop                                                            *)

NetGoto(l) ==
  /\ net' = l
  /\ UNCHANGED <<running, needsRestart, pend, connVars, table, sessVars, loadVars, stopVars>>

\* Mutant: the loop goes by needs_restart_ alone.
NetCheckByRestart ==
  /\ net = "check"
  /\ IF needsRestart THEN NetGoto("exited") ELSE NetGoto("poll")

NetCheck ==
  /\ net = "check"
  /\ \/ /\ running
        /\ ~PendingLocked
        /\ Reap
        /\ net' = "poll"
        /\ UNCHANGED <<running, needsRestart, connVars, table, sessVars, loadVars, stopVars>>
     \/ ~running /\ NetGoto("exited")

\* Nothing to accept, or a transient error of accept.
NetPoll == net = "poll" /\ (NetGoto("udp") \/ NetGoto("check"))

\* select fails, which ends the loop, or accept fails, which also asks for
\* a restart.
NetFail ==
  /\ net = "poll"
  /\ net' = "exited"
  /\ needsRestart' \in {needsRestart, TRUE}
  /\ UNCHANGED <<running, pend, connVars, table, sessVars, loadVars, stopVars>>

\* A pending thread for c is created and pushed; a StackThread whose
\* pthread_create failed is pushed all the same.
Pend(c, start) ==
  /\ pc[c] = "none"
  /\ pend' = pend \cup {c}
  /\ pc' \in {[pc EXCEPT ![c] = start]} \cup
             (IF ThreadsFail THEN {[pc EXCEPT ![c] = "nothread"]} ELSE {})

NetAccept(c) ==
  /\ net = "poll"
  /\ Pend(c, "identity")
  /\ fd' = [fd EXCEPT ![c] = "scoped"]
  /\ net' = "udp"
  /\ UNCHANGED <<running, needsRestart, old, announced, table, disc, closes, tls, io, loadVars, stopVars>>

\* handle_discovered_peer
NetDiscover(c) ==
  /\ net = "udp"
  /\ Pend(c, "connect")
  /\ net' = "check"
  /\ UNCHANGED <<running, needsRestart, old, announced, table, sessVars, loadVars, stopVars>>

NetUdpNone == net = "udp" /\ NetGoto("check")

-----------------------------------------------------------------------------
(* The pending thread of a connection: the lambdas of network_loop and     *)
(* handle_discovered_peer, and handle_new_connection.                      *)

Goto(c, l) ==
  /\ pc' = [pc EXCEPT ![c] = l]
  /\ UNCHANGED <<netVars, pend, old, announced, table, sessVars, loadVars, stopVars>>

\* A return before the session exists: ~ScopedFd closes the socket.
GiveUp(c) ==
  /\ pc' = [pc EXCEPT ![c] = "done"]
  /\ fd' = [fd EXCEPT ![c] = "closed"]
  /\ UNCHANGED <<netVars, pend, old, announced, table, disc, closes, tls, io, loadVars, stopVars>>

\* The first identity line arrives and is valid, or it is not, or SO_RCVTIMEO
\* ends the wait for it.
ReadIdentity(c) ==
  /\ pc[c] = "identity"
  /\ GiveUp(c) \/ Goto(c, "check")

\* connect_with_timeout and the plain-text identity.
Connect(c) ==
  /\ pc[c] = "connect"
  /\ \/ GiveUp(c)
     \/ /\ pc' = [pc EXCEPT ![c] = "check"]
        /\ fd' = [fd EXCEPT ![c] = "scoped"]
        /\ UNCHANGED <<netVars, pend, old, announced, table, disc, closes, tls, io, loadVars, stopVars>>

\* A device counts as connected while its session is not disconnected.
Connected(i) == table[i] # NoConn /\ ~disc[table[i]]

CheckConnected(c) ==
  /\ pc[c] = "check"
  /\ \/ Connected(IdOf[c]) /\ GiveUp(c)
     \/ ~Connected(IdOf[c]) /\ Goto(c, "handshake")

\* TLS handshake, certificate checks, exchange of the secure identities.
\* Every wait in it ends only when the peer sends or closes: the receive
\* timeout surfaces as WANT_READ, which perform_tls_handshake and
\* read_line_tls answer by reading again.
Handshake(c) ==
  /\ pc[c] = "handshake"
  /\ GiveUp(c) \/ Goto(c, "spawn")

\* The session takes the socket and the TLS context, and its io thread
\* starts before the session is in the table.
StartIo(c) ==
  /\ pc[c] = "spawn"
  /\ pc' = [pc EXCEPT ![c] = "publish"]
  /\ fd' = [fd EXCEPT ![c] = "open"]
  /\ tls' = [tls EXCEPT ![c] = "live"]
  /\ io' \in {[io EXCEPT ![c] = "loop"]} \cup (IF ThreadsFail THEN {io} ELSE {})
  /\ UNCHANGED <<netVars, pend, old, announced, table, disc, closes, loadVars, stopVars>>

\* Mutant: the session that was in the table is overwritten and forgotten.
PublishForgets(c) ==
  /\ pc[c] = "publish"
  /\ table' = [table EXCEPT ![IdOf[c]] = c]
  /\ pc' = [pc EXCEPT ![c] = "announce"]
  /\ UNCHANGED <<netVars, pend, old, announced, sessVars, loadVars, stopVars>>

\* Mutant: emplace, which leaves an entry that is there already.
PublishEmplaces(c) ==
  /\ pc[c] = "publish"
  /\ table' = [table EXCEPT ![IdOf[c]] = IF @ = NoConn THEN c ELSE @]
  /\ old' = [old EXCEPT ![c] = table[IdOf[c]]]
  /\ pc' = [pc EXCEPT ![c] = IF table[IdOf[c]] = NoConn THEN "announce" ELSE "mark"]
  /\ UNCHANGED <<netVars, pend, announced, sessVars, loadVars, stopVars>>

Publish(c) ==
  /\ pc[c] = "publish"
  /\ table' = [table EXCEPT ![IdOf[c]] = c]
  /\ old' = [old EXCEPT ![c] = table[IdOf[c]]]
  /\ pc' = [pc EXCEPT ![c] = IF table[IdOf[c]] = NoConn THEN "announce" ELSE "mark"]
  /\ UNCHANGED <<netVars, pend, announced, sessVars, loadVars, stopVars>>

\* The clean-up of the old session, outside the lock.
CleanMark(c) ==
  /\ pc[c] = "mark"
  /\ disc' = [disc EXCEPT ![old[c]] = TRUE]
  /\ pc' = [pc EXCEPT ![c] = "fdcheck"]
  /\ UNCHANGED <<netVars, pend, old, announced, table, fd, closes, tls, io, loadVars, stopVars>>

CleanFdCheck(c) ==
  /\ pc[c] = "fdcheck"
  /\ Goto(c, IF fd[old[c]] = "open" THEN "close" ELSE "join")

\* shutdown and close, with the descriptor number as it was read.
CloseFd(c) ==
  /\ fd' = [fd EXCEPT ![c] = "closed"]
  /\ closes' = [closes EXCEPT ![c] = @ + 1]

\* Mutant: the TLS context is freed without joining the io thread first.
CleanCloseNoJoin(c) ==
  /\ pc[c] = "close"
  /\ CloseFd(old[c])
  /\ pc' = [pc EXCEPT ![c] = "free"]
  /\ UNCHANGED <<netVars, pend, old, announced, table, disc, tls, io, loadVars, stopVars>>

CleanClose(c) ==
  /\ pc[c] = "close"
  /\ CloseFd(old[c])
  /\ pc' = [pc EXCEPT ![c] = "join"]
  /\ UNCHANGED <<netVars, pend, old, announced, table, disc, tls, io, loadVars, stopVars>>

\* io_thread.join(), if there is a thread to join.
Join(c) ==
  /\ io[c] \in {"none", "ended"}
  /\ io' = [io EXCEPT ![c] = IF @ = "ended" THEN "joined" ELSE @]

CleanJoin(c) ==
  /\ pc[c] = "join"
  /\ Join(old[c])
  /\ pc' = [pc EXCEPT ![c] = "free"]
  /\ UNCHANGED <<netVars, pend, old, announced, table, disc, fd, closes, tls, loadVars, stopVars>>

\* Mutant: a handler that replaced a session returns early.
CleanFreeReturns(c) ==
  /\ pc[c] = "free"
  /\ tls' = [tls EXCEPT ![old[c]] = "freed"]
  /\ old' = [old EXCEPT ![c] = NoConn]
  /\ pc' = [pc EXCEPT ![c] = "done"]
  /\ UNCHANGED <<netVars, pend, announced, table, disc, fd, closes, io, loadVars, stopVars>>

CleanFree(c) ==
  /\ pc[c] = "free"
  /\ tls' = [tls EXCEPT ![old[c]] = "freed"]
  /\ old' = [old EXCEPT ![c] = NoConn]
  /\ pc' = [pc EXCEPT ![c] = "announce"]
  /\ UNCHANGED <<netVars, pend, announced, table, disc, fd, closes, io, loadVars, stopVars>>

\* send_packet looks the device up again: the identity goes to the queue of
\* whatever session the table holds now.
Announce(c) ==
  /\ pc[c] = "announce"
  /\ announced' = announced \cup (IF Connected(IdOf[c]) THEN {table[IdOf[c]]} ELSE {})
  /\ pc' = [pc EXCEPT ![c] = "done"]
  /\ UNCHANGED <<netVars, pend, old, table, sessVars, loadVars, stopVars>>

\* handle_new_connection runs out of memory, which its thread survives.  A session
\* that has no io thread yet is destroyed, but the number of its socket is forgotten.
\* One that has is served by it from then on, but is lost: it is not in the table, and
\* nobody will join its thread.  One that is in the table is not announced.
OutOfMemory(c) ==
  /\ MemoryFails
  /\ \/ /\ pc[c] = "spawn"
        /\ fd' = [fd EXCEPT ![c] = "leaked"]
        /\ pc' = [pc EXCEPT ![c] = "done"]
     \/ /\ pc[c] \in {"publish", "announce"}
        /\ pc' = [pc EXCEPT ![c] = IF @ = "publish" THEN "lost" ELSE "done"]
        /\ UNCHANGED fd
  /\ UNCHANGED <<netVars, pend, old, announced, table, disc, closes, tls, io, loadVars, stopVars>>

-----------------------------------------------------------------------------
(* io_loop                                                                 *)

IoGoto(c, l) ==
  /\ io' = [io EXCEPT ![c] = l]
  /\ UNCHANGED <<netVars, pend, connVars, table, disc, fd, closes, tls, loadVars, stopVars>>

\* The loop condition, a full drain of the send queue, and select.
IoReadable(c) ==
  /\ io[c] = "loop"
  /\ running /\ ~disc[c] /\ fd[c] = "open"
  /\ IoGoto(c, "read")

IoLeave(c) ==
  /\ io[c] = "loop"
  /\ ~running \/ disc[c] \/ fd[c] # "open"
  /\ IoGoto(c, "mark")

\* A send or select fails.
IoError(c) ==
  /\ io[c] = "loop"
  /\ IoGoto(c, "mark")

\* Mutant: a packet shows that the peer is connected after all.
IoHandleRevives(c) ==
  /\ io[c] = "read"
  /\ disc' = [disc EXCEPT ![c] = FALSE]
  /\ io' = [io EXCEPT ![c] = "loop"]
  /\ UNCHANGED <<netVars, pend, connVars, table, fd, closes, tls, loadVars, stopVars>>

\* read_line_tls returns a line and handle_packet deals with it.
IoHandle(c) ==
  /\ io[c] = "read"
  /\ IoGoto(c, "loop")

\* The packet asks for a screenshot: send_payload_reader queues the packet
\* that announces it and starts the thread that serves it.
IoUpload(c, u) ==
  /\ io[c] = "read"
  /\ up[u] = "none"
  /\ Connected(IdOf[c])
  /\ up' \in {[up EXCEPT ![u] = "running"]} \cup
             (IF ThreadsFail THEN {[up EXCEPT ![u] = "nothread"]} ELSE {})
  /\ req' = [req EXCEPT ![c] = u]
  /\ io' = [io EXCEPT ![c] = "push"]
  /\ UNCHANGED <<netVars, pend, connVars, table, disc, fd, closes, tls, stopVars>>

\* The io thread gets pending_mutex_ and pushes the upload thread.
IoPush(c) ==
  /\ io[c] = "push"
  /\ ~PendingLocked
  /\ pend' = pend \cup {req[c]}
  /\ req' = [req EXCEPT ![c] = NoUpload]
  /\ io' = [io EXCEPT ![c] = "loop"]
  /\ UNCHANGED <<netVars, connVars, table, disc, fd, closes, tls, up, stopVars>>

\* read_line_tls fails: the peer closed, or this side shut the socket down.
IoReadFail(c) ==
  /\ io[c] = "read"
  /\ IoGoto(c, "mark")

\* Mutant: the session is not marked disconnected.
IoMarkMissing(c) == io[c] = "mark" /\ IoGoto(c, "fdcheck")

\* The tail: disconnected, fd, tls.
IoMark(c) ==
  /\ io[c] = "mark"
  /\ disc' = [disc EXCEPT ![c] = TRUE]
  /\ io' = [io EXCEPT ![c] = "fdcheck"]
  /\ UNCHANGED <<netVars, pend, connVars, table, fd, closes, tls, loadVars, stopVars>>

IoFdCheck(c) ==
  /\ io[c] = "fdcheck"
  /\ IoGoto(c, IF fd[c] = "open" THEN "close" ELSE "free")

\* Mutant: the TLS context is not freed.
IoCloseLeaks(c) ==
  /\ io[c] = "close"
  /\ CloseFd(c)
  /\ io' = [io EXCEPT ![c] = "ended"]
  /\ UNCHANGED <<netVars, pend, connVars, table, disc, tls, loadVars, stopVars>>

IoClose(c) ==
  /\ io[c] = "close"
  /\ CloseFd(c)
  /\ io' = [io EXCEPT ![c] = "free"]
  /\ UNCHANGED <<netVars, pend, connVars, table, disc, tls, loadVars, stopVars>>

IoFree(c) ==
  /\ io[c] = "free"
  /\ tls' = [tls EXCEPT ![c] = "freed"]
  /\ io' = [io EXCEPT ![c] = "ended"]
  /\ UNCHANGED <<netVars, pend, connVars, table, disc, fd, closes, loadVars, stopVars>>

\* An upload thread ends: served, refused, or nobody connected in 15 s.
UploadEnd(u) ==
  /\ up[u] = "running"
  /\ up' = [up EXCEPT ![u] = "done"]
  /\ UNCHANGED <<netVars, pend, connVars, table, sessVars, req, stopVars>>

-----------------------------------------------------------------------------
(* stop()                                                                  *)

\* Mutant: the early return is inverted.
StopBeginInverted ==
  /\ stop = "idle"
  /\ ~running
  /\ stop' = "joinNet"
  /\ UNCHANGED <<netVars, pend, connVars, table, sessVars, loadVars, toStop, cur>>

\* running_.exchange(false): a second caller returns at once.
StopBegin ==
  /\ stop = "idle"
  /\ running' = FALSE
  /\ stop' = "joinNet"
  /\ UNCHANGED <<needsRestart, net, pend, connVars, table, sessVars, loadVars, toStop, cur>>

StopGoto(l) ==
  /\ stop' = l
  /\ UNCHANGED <<netVars, pend, connVars, table, sessVars, loadVars, toStop, cur>>

StopJoinNet ==
  /\ stop = "joinNet"
  /\ net = "exited"
  /\ StopGoto("lock")

StopLock == stop = "lock" /\ StopGoto("joinPending")

\* Mutant: the pending threads are not joined.
StopDropPending ==
  /\ stop = "joinPending"
  /\ pend' = {}
  /\ stop' = "collect"
  /\ UNCHANGED <<netVars, connVars, table, sessVars, loadVars, toStop, cur>>

\* Every pending thread has been joined; the vector is cleared.
StopJoinPending ==
  /\ stop = "joinPending"
  /\ \A t \in pend : ~StillRunning(t)
  /\ pend' = {}
  /\ stop' = "collect"
  /\ UNCHANGED <<netVars, connVars, table, sessVars, loadVars, toStop, cur>>

\* Mutant: sessions_ is not cleared.
StopCollectKeeps ==
  /\ stop = "collect"
  /\ toStop' = {table[i] : i \in Id} \ {NoConn}
  /\ stop' = "next"
  /\ UNCHANGED <<netVars, pend, connVars, table, sessVars, loadVars, cur>>

StopCollect ==
  /\ stop = "collect"
  /\ toStop' = {table[i] : i \in Id} \ {NoConn}
  /\ table' = [i \in Id |-> NoConn]
  /\ stop' = "next"
  /\ UNCHANGED <<netVars, pend, connVars, sessVars, loadVars, cur>>

StopNext(c) ==
  /\ stop = "next"
  /\ c \in toStop
  /\ cur' = c
  /\ disc' = [disc EXCEPT ![c] = TRUE]
  /\ stop' = "fdcheck"
  /\ UNCHANGED <<netVars, pend, connVars, table, fd, closes, tls, io, loadVars, toStop>>

StopFdCheck ==
  /\ stop = "fdcheck"
  /\ StopGoto(IF fd[cur] = "open" THEN "close" ELSE "join")

StopClose ==
  /\ stop = "close"
  /\ CloseFd(cur)
  /\ stop' = "join"
  /\ UNCHANGED <<netVars, pend, connVars, table, disc, tls, io, loadVars, toStop, cur>>

StopJoin ==
  /\ stop = "join"
  /\ Join(cur)
  /\ stop' = "free"
  /\ UNCHANGED <<netVars, pend, connVars, table, disc, fd, closes, tls, loadVars, toStop, cur>>

StopFree ==
  /\ stop = "free"
  /\ tls' = [tls EXCEPT ![cur] = "freed"]
  /\ toStop' = toStop \ {cur}
  /\ cur' = NoConn
  /\ stop' = "next"
  /\ UNCHANGED <<netVars, pend, connVars, table, disc, fd, closes, io, loadVars>>

StopDone ==
  /\ stop = "next"
  /\ toStop = {}
  /\ StopGoto("done")

-----------------------------------------------------------------------------

NetStep == NetCheck \/ NetPoll \/ NetFail \/ NetUdpNone

NetSpawn(c) == NetAccept(c) \/ NetDiscover(c)

\* What a pending thread does by itself, whatever the peer does.
HandlerStep(c) ==
  \/ ReadIdentity(c) \/ Connect(c) \/ CheckConnected(c) \/ StartIo(c)
  \/ Publish(c) \/ CleanMark(c) \/ CleanFdCheck(c) \/ CleanClose(c)
  \/ CleanJoin(c) \/ CleanFree(c) \/ Announce(c)

\* What an io thread does by itself.
IoStep(c) ==
  \/ IoLeave(c) \/ IoPush(c) \/ IoMark(c) \/ IoFdCheck(c) \/ IoClose(c) \/ IoFree(c)

\* What an io thread does when the peer sends, closes or vanishes.
IoPeer(c) ==
  IoReadable(c) \/ IoError(c) \/ IoHandle(c) \/ IoReadFail(c)

StopStep ==
  \/ StopJoinNet \/ StopLock \/ StopJoinPending \/ StopCollect
  \/ StopFdCheck \/ StopClose \/ StopJoin \/ StopFree \/ StopDone
  \/ \E c \in Conn : StopNext(c)

\* The program has ended once stop() has; its io threads are joined by then.
Terminated ==
  /\ stop = "done"
  /\ UNCHANGED vars

Next ==
  \/ NetStep
  \/ \E c \in Conn :
       NetSpawn(c) \/ HandlerStep(c) \/ Handshake(c) \/ OutOfMemory(c) \/ IoStep(c) \/ IoPeer(c)
  \/ \E c \in Conn, u \in Upload : IoUpload(c, u)
  \/ \E u \in Upload : UploadEnd(u)
  \/ StopBegin
  \/ StopStep
  \/ Terminated

Spec == Init /\ [][Next]_vars

-----------------------------------------------------------------------------
(* Fairness.  A runnable thread of the program runs on, and main polls     *)
(* needs_restart every 100 ms; nothing is assumed of the user.             *)

ProgramFairness ==
  /\ WF_vars(NetStep)
  /\ WF_vars(needsRestart /\ StopBegin)
  /\ WF_vars(StopStep)
  /\ \A c \in Conn :
       /\ WF_vars(HandlerStep(c))
       /\ WF_vars(IoStep(c))
       /\ WF_vars(fd[c] = "closed" /\ IoReadFail(c))

\* Peers that answer, or whose connection breaks: no wait for one is endless.
PeerFairness ==
  /\ \A c \in Conn : WF_vars(Handshake(c)) /\ WF_vars(io[c] = "read" /\ IoPeer(c))
  /\ \A u \in Upload : WF_vars(UploadEnd(u))

\* With peers that may go silent for ever.
ProgramSpec == Spec /\ ProgramFairness

FairSpec == Spec /\ ProgramFairness /\ PeerFairness

-----------------------------------------------------------------------------
(* Safety.                                                                 *)

\* d's handler has old_session = c and has not joined c's io thread yet.
Cleans(d, c) == old[d] = c /\ pc[d] \in {"mark", "fdcheck", "close", "join"}

\* stop() has collected c and has not joined c's io thread yet.
StopHolds(c) == c \in toStop /\ ~(cur = c /\ stop = "free")

\* No io thread is orphaned: each one that was started and not joined is the
\* charge of its own handler (which has not published yet), of the table, of
\* the handler that replaced it, or of stop().  A table overwritten without
\* keeping the old session, or a session collected twice, breaks it.  (Unless its
\* handler ran out of memory before it could publish it.)
NoOrphan ==
  \A c \in Conn : io[c] \notin {"none", "joined"} =>
    \/ pc[c] \in {"publish", "lost"}
    \/ table[IdOf[c]] = c
    \/ \E d \in Conn : Cleans(d, c)
    \/ StopHolds(c)

\* pthread_join is never called twice for one io thread: a session has at
\* most one of the table, a replacing handler and stop() to retire it.
OneRetirer ==
  /\ \A c, d \in Conn : c # d /\ old[c] # NoConn => old[c] # old[d]
  /\ \A c \in Conn : old[c] # NoConn => /\ table[IdOf[c]] # old[c]
                                        /\ old[c] \notin toStop
  /\ \A c \in toStop : table[IdOf[c]] # c

\* "All TLS access is in this one thread, so reads and writes never race on
\* the mbedtls context" (io_loop): the context is there as long as the io
\* thread may use it, and another thread frees it only when there is no io
\* thread any more.
TlsExclusive ==
  /\ \A c \in Conn : io[c] \in Serving => tls[c] = "live"
  /\ \A c \in Conn : pc[c] = "free" => io[old[c]] \in {"none", "joined"}
  /\ stop = "free" => io[cur] \in {"none", "joined"}

\* A device that counts as connected, so that handle_new_connection turns
\* further connections of it away, has an io thread serving it (or about to
\* mark it disconnected).
ConnectedIsServed ==
  \A i \in Id : Connected(i) => io[table[i]] \in Serving \cup {"mark"}

\* A session's descriptor is closed by its own io thread and by the one
\* thread that retires it: the unsynchronised fd field lets both do it, and
\* nobody else can.
AtMostTwoCloses == \A c \in Conn : closes[c] <= 2

\* When stop() returns nothing of the connections is left: no handler, no io
\* thread, no session, no TLS context and no socket but the one that was
\* handed to a thread which could not be created, and what was lost or leaked
\* when a handler ran out of memory.
QuiescentAfterStop ==
  stop = "done" =>
    /\ \A i \in Id : table[i] = NoConn
    /\ \A c \in Conn : pc[c] # "lost" =>
         /\ pc[c] \in {"none", "nothread", "done"}
         /\ io[c] \in {"none", "joined"}
         /\ tls[c] # "live"
         /\ fd[c] # "open"
         /\ fd[c] = "scoped" => pc[c] = "nothread"

(* What a step may never do.                                               *)

\* A disconnected session never comes back, and its socket and TLS context
\* stay closed.
NoResurrection ==
  [][\A c \in Conn : /\ disc[c] => disc'[c]
                     /\ fd[c] = "closed" => fd'[c] = "closed"
                     /\ tls[c] = "freed" => tls'[c] = "freed"]_vars

(* Refinement.                                                             *)

\* How far session c is: it is released when its thread has been joined and
\* its socket and TLS context are gone, and lost when its handler ran out of memory
\* before it was in the table.
LifeOf(c) ==
  CASE tls[c] = "none" -> "none"
    [] tls[c] # "none" /\ pc[c] = "lost" -> "lost"
    [] tls[c] # "none" /\ pc[c] # "lost" /\ ~disc[c] -> "up"
    [] tls[c] # "none" /\ pc[c] # "lost" /\ disc[c] ->
         IF io[c] \in {"none", "joined"} /\ fd[c] = "closed" /\ tls[c] = "freed"
         THEN "released" ELSE "down"

\* A session has been in the table once its handler is past publishing it.
HasEntered == {c \in Conn : tls[c] # "none" /\ pc[c] \notin {"publish", "lost"}}

Client == CASE stop = "idle" -> "running"
            [] stop = "done" -> "stopped"
            [] stop \notin {"idle", "done"} -> "stopping"

Life == INSTANCE SessionLife WITH
          life <- [c \in Conn |-> LifeOf(c)],
          holder <- table,
          entered <- HasEntered,
          client <- Client,
          MayLose <- MemoryFails

\* The threads together implement the session table as SessionLife promises
\* it: in particular no interleaving of replacement and stop() releases a
\* session that is still in the table, and none lets stop() return before
\* the last one is released.  A session is out of this only when there is no memory
\* for its entry.
SessionLifecycle == Life!Spec

(* Liveness.                                                               *)

\* stop() returns ("SO_RCVTIMEO on their sockets bounds the wait").
StopTerminates == stop # "idle" ~> stop = "done"

\* A session that is disconnected, by whoever, gets its resources back.
DisconnectedIsReleased ==
  \A c \in Conn : disc[c] ~> (fd[c] = "closed" /\ tls[c] = "freed")

\* The identity resent after connecting ("the desktop client will not
\* display us as connected, until we send another packet") reaches each
\* session that lasts, although it is sent through a new table lookup.  (As long as
\* there is memory for it.)
SessionAnnounced ==
  \A c \in Conn : pc[c] = "publish" ~> (c \in announced \/ disc[c])

\* A listener that failed leads to a complete stop.
RestartCompletes == needsRestart ~> stop = "done"

=============================================================================
