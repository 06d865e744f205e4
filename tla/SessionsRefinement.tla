------------------------- MODULE SessionsRefinement -------------------------
(***************************************************************************)
(* Proof that Sessions implements SessionLife, for any number of devices,  *)
(* connections and uploads: every step of a thread is a step of the        *)
(* abstract table, or changes nothing there.                               *)
(***************************************************************************)
EXTENDS SessionsProofs

\* Whoever retires a session has marked it disconnected first, and until
\* somebody does its socket is open.
Marked ==
  /\ \A d \in Conn : pc[d] \in {"fdcheck", "close", "join", "free"} => disc[old[d]]
  /\ stop \in {"fdcheck", "close", "join", "free"} => disc[cur]
  /\ \A c \in Conn : tls[c] # "none" /\ ~disc[c] => fd[c] = "open"

\* A session that is in the table, or has still to enter it, has not been
\* taken down.
Kept ==
  \A c \in Conn : table[IdOf[c]] = c \/ pc[c] = "publish" =>
    io[c] # "joined" /\ (io[c] = "none" => tls[c] # "freed")

RInv == IInv /\ Marked /\ Kept

-----------------------------------------------------------------------------

\* disconnected is set before the socket is closed, by the io thread, the
\* handler that replaces the session and stop() alike.
LEMMA MarkedStep ==
  ASSUME RInv, [Next]_vars
  PROVE  Marked'
  <1> USE DEF RInv, IInv, TypeOK, Marked, connVars, sessVars, stopVars
  <1>1. ASSUME NEW c \in Conn, HandlerStep(c) PROVE Marked'
    <2>1. CASE ReadIdentity(c) \/ Connect(c) \/ CheckConnected(c)
      BY <2>1 DEF ReadIdentity, Connect, CheckConnected, GiveUp, Goto, Phases, Early
    <2>2. CASE StartIo(c)
      BY <2>2 DEF StartIo, Phases, Early
    <2>3. CASE Publish(c) \/ Announce(c)
      BY <2>3 DEF Publish, Announce
    <2>4. CASE CleanMark(c) \/ CleanFdCheck(c)
      <3>1. old[c] \in Conn /\ (stop \in {"fdcheck", "close", "join", "free"} => cur \in Conn)
        BY <2>4 DEF CleanMark, CleanFdCheck, References, Cleaning, StopPhases
      <3>2. \A d \in Conn : pc[d] \in {"fdcheck", "close", "join", "free"} => old[d] \in Conn
        BY DEF References, Cleaning
      <3> QED
        BY <2>4, <3>1, <3>2 DEF CleanMark, CleanFdCheck, Goto
    <2>5. CASE CleanClose(c) \/ CleanJoin(c) \/ CleanFree(c)
      BY <2>5 DEF CleanClose, CloseFd, CleanJoin, CleanFree, References, Cleaning
    <2> QED
      BY <1>1, <2>1, <2>2, <2>3, <2>4, <2>5 DEF HandlerStep
  <1>2. ASSUME NEW c \in Conn, NetSpawn(c) \/ Handshake(c) \/ OutOfMemory(c) PROVE Marked'
    BY <1>2 DEF NetSpawn, OutOfMemory, NetAccept, NetDiscover, Pend, Handshake, GiveUp, Goto, Phases, Early
  <1>3. ASSUME NEW c \in Conn, IoStep(c) \/ IoPeer(c) PROVE Marked'
    <2>1. CASE IoMark(c)
      <3>1. /\ stop \in {"fdcheck", "close", "join", "free"} => cur \in Conn
            /\ \A d \in Conn : pc[d] \in {"fdcheck", "close", "join", "free"} => old[d] \in Conn
        BY DEF References, Cleaning, StopPhases
      <3> QED
        BY <2>1, <3>1 DEF IoMark
    <2>2. CASE IoClose(c) \/ IoFree(c)
      BY <2>2 DEF IoClose, CloseFd, IoFree, IoPhases
    <2>3. CASE ~(IoMark(c) \/ IoClose(c) \/ IoFree(c))
      BY <1>3, <2>3 DEF IoStep, IoPeer, IoLeave, IoPush, IoFdCheck, IoReadable, IoError, IoHandle,
                        IoReadFail, IoGoto
    <2> QED
      BY <2>1, <2>2, <2>3
  <1>4. ASSUME NEW c \in Conn, NEW u \in Upload, IoUpload(c, u) PROVE Marked'
    BY <1>4 DEF IoUpload
  <1>5. CASE StopStep
    <2>1. ASSUME NEW c \in Conn, StopNext(c) PROVE Marked'
      <3>1. \A d \in Conn : pc[d] \in {"fdcheck", "close", "join", "free"} => old[d] \in Conn
        BY DEF References, Cleaning
      <3> QED
        BY <2>1, <3>1 DEF StopNext
    <2>2. CASE StopFdCheck \/ StopClose \/ StopJoin \/ StopFree
      BY <2>2 DEF StopFdCheck, StopClose, CloseFd, StopJoin, StopFree, StopGoto, StopPhases
    <2>3. CASE StopJoinNet \/ StopLock \/ StopJoinPending \/ StopCollect \/ StopDone
      BY <2>3 DEF StopJoinNet, StopLock, StopJoinPending, StopCollect, StopDone, StopGoto
    <2> QED
      BY <1>5, <2>1, <2>2, <2>3 DEF StopStep
  <1>6. CASE NetStep \/ StopBegin \/ \E u \in Upload : UploadEnd(u)
    <2>1. CASE NetStep
      <3>1. UNCHANGED <<pc, old, disc, fd, tls, stop, cur>>
        BY <2>1 DEF NetStep, NetCheck, NetPoll, NetFail, NetUdpNone, NetGoto
      <3> QED
        BY <3>1
    <2>2. CASE StopBegin
      BY <2>2 DEF StopBegin
    <2>3. CASE \E u \in Upload : UploadEnd(u)
      BY <2>3 DEF UploadEnd
    <2> QED
      BY <1>6, <2>1, <2>2, <2>3
  <1>7. CASE UNCHANGED vars
    BY <1>7 DEF vars
  <1> QED
    BY <1>1, <1>2, <1>3, <1>4, <1>5, <1>6, <1>7 DEF Next, Terminated

\* A handler and stop() take down only what they took out of the table.
LEMMA KeptStep ==
  ASSUME RInv, [Next]_vars
  PROVE  Kept'
  <1> USE SessionsAssumption DEF RInv, IInv, TypeOK, Kept, connVars, sessVars, stopVars
  <1>1. ASSUME NEW c \in Conn, HandlerStep(c) PROVE Kept'
    <2>1. CASE ReadIdentity(c) \/ Connect(c) \/ CheckConnected(c)
      BY <2>1 DEF ReadIdentity, Connect, CheckConnected, GiveUp, Goto
    <2>2. CASE StartIo(c)
      BY <2>2 DEF StartIo, Phases, Early
    <2>3. CASE Publish(c) \/ Announce(c)
      BY <2>3 DEF Publish, Announce
    <2>4. CASE CleanMark(c) \/ CleanFdCheck(c) \/ CleanClose(c)
      BY <2>4 DEF CleanMark, CleanFdCheck, CleanClose, CloseFd, Goto
    <2>5. CASE CleanJoin(c) \/ CleanFree(c)
      BY <2>5 DEF CleanJoin, Join, CleanFree, References, Published, Cleaning
    <2> QED
      BY <1>1, <2>1, <2>2, <2>3, <2>4, <2>5 DEF HandlerStep
  <1>2. ASSUME NEW c \in Conn, NetSpawn(c) \/ Handshake(c) \/ OutOfMemory(c) PROVE Kept'
    BY <1>2 DEF NetSpawn, OutOfMemory, NetAccept, NetDiscover, Pend, Handshake, GiveUp, Goto
  <1>3. ASSUME NEW c \in Conn, IoStep(c) \/ IoPeer(c) PROVE Kept'
    BY <1>3 DEF IoStep, IoPeer, IoLeave, IoPush, IoMark, IoFdCheck, IoClose, CloseFd, IoFree,
                IoReadable, IoError, IoHandle, IoReadFail, IoGoto
  <1>4. ASSUME NEW c \in Conn, NEW u \in Upload, IoUpload(c, u) PROVE Kept'
    BY <1>4 DEF IoUpload
  <1>5. CASE StopStep
    <2>1. CASE StopJoin \/ StopFree
      BY <2>1 DEF StopJoin, Join, StopFree, StopPhases, References, Published
    <2>2. CASE StopCollect
      BY <2>2 DEF StopCollect, StopPhases, AfterPending
    <2>3. CASE ~(StopJoin \/ StopFree \/ StopCollect)
      BY <1>5, <2>3 DEF StopStep, StopJoinNet, StopLock, StopJoinPending, StopFdCheck,
                StopClose, CloseFd, StopDone, StopNext, StopGoto
    <2> QED
      BY <2>1, <2>2, <2>3
  <1>6. CASE NetStep \/ StopBegin \/ \E u \in Upload : UploadEnd(u)
    BY <1>6 DEF NetStep, NetCheck, NetPoll, NetFail, NetUdpNone, NetGoto, StopBegin, UploadEnd
  <1>7. CASE UNCHANGED vars
    BY <1>7 DEF vars
  <1> QED
    BY <1>1, <1>2, <1>3, <1>4, <1>5, <1>6, <1>7 DEF Next, Terminated

\* RInv holds throughout.
THEOREM RInductive == Spec => []RInv
  <1>1. Init => Marked /\ Kept
    BY SessionsAssumption DEF Init, Marked, Kept
  <1>2. IInv /\ Marked /\ Kept /\ [Next]_vars => Marked' /\ Kept'
    BY MarkedStep, KeptStep DEF RInv
  <1> QED
    BY <1>1, <1>2, Inductive, PTL DEF Spec, RInv

-----------------------------------------------------------------------------
(* The abstract steps.                                                     *)

LifeMap == [c \in Conn |-> LifeOf(c)]

\* What a step of a thread is for SessionLife.
AbstractStep == [Life!Next]_(Life!vars)

\* A step that changes no session, nor the table, nor the client.
LEMMA Stutter ==
  ASSUME \A y \in Conn : LifeOf(y)' = LifeOf(y), table' = table,
         HasEntered' = HasEntered, Client' = Client
  PROVE  AbstractStep
  <1>1. LifeMap' = LifeMap
    BY DEF LifeMap
  <1> QED
    BY <1>1 DEF AbstractStep, Life!vars, LifeMap

\* How the abstract lives follow from a step of one session.
LEMMA LifeUpdate ==
  ASSUME NEW x \in Conn, NEW v, \A y \in Conn \ {x} : LifeOf(y)' = LifeOf(y), LifeOf(x)' = v
  PROVE  LifeMap' = [LifeMap EXCEPT ![x] = v]
  <1>1. \A y \in Conn : LifeOf(y)' = IF y = x THEN v ELSE LifeMap[y]
    BY DEF LifeMap
  <1> QED
    BY <1>1 DEF LifeMap

\* A step of one session alone, which goes down or is released.
LEMMA OneSession ==
  ASSUME NEW x \in Conn, \A y \in Conn \ {x} : LifeOf(y)' = LifeOf(y),
         table' = table, HasEntered' = HasEntered, Client' = Client,
         \/ LifeOf(x)' = LifeOf(x)
         \/ LifeOf(x) = "up" /\ LifeOf(x)' = "down"
         \/ /\ LifeOf(x) = "down" /\ LifeOf(x)' = "released"
            /\ x \in HasEntered /\ table[IdOf[x]] # x
  PROVE  AbstractStep
  <1>1. CASE LifeOf(x)' = LifeOf(x)
    BY <1>1, Stutter
  <1>2. CASE LifeOf(x) = "up" /\ LifeOf(x)' = "down"
    <2>1. LifeMap' = [LifeMap EXCEPT ![x] = "down"]
      BY <1>2, LifeUpdate
    <2>2. LifeMap[x] = "up"
      BY <1>2 DEF LifeMap
    <2> QED
      BY <2>1, <2>2 DEF AbstractStep, LifeMap, Life!Next, Life!GoDown
  <1>3. CASE LifeOf(x) = "down" /\ LifeOf(x)' = "released" /\ x \in HasEntered /\ table[IdOf[x]] # x
    <2>1. LifeMap' = [LifeMap EXCEPT ![x] = "released"]
      BY <1>3, LifeUpdate
    <2>2. LifeMap[x] = "down"
      BY <1>3 DEF LifeMap
    <2> QED
      BY <1>3, <2>1, <2>2 DEF AbstractStep, LifeMap, Life!Next, Life!Release
  <1> QED
    BY <1>1, <1>2, <1>3

\* What handle_new_connection does before there is a session is invisible.
LEMMA EarlySteps ==
  ASSUME RInv, NEW c \in Conn,
         NetSpawn(c) \/ ReadIdentity(c) \/ Connect(c) \/ CheckConnected(c) \/ Handshake(c)
  PROVE  AbstractStep
  <1> USE DEF RInv, IInv, TypeOK, connVars, sessVars, netVars, stopVars
  <1>1. /\ tls[c] = "none" /\ pc' = [pc EXCEPT ![c] = pc'[c]] /\ pc'[c] \notin {"publish", "lost"}
        /\ UNCHANGED <<tls, disc, io, table, stop>>
        /\ \A y \in Conn \ {c} : fd'[y] = fd[y]
    BY DEF NetSpawn, NetAccept, NetDiscover, Pend, ReadIdentity, Connect, CheckConnected, Handshake,
           GiveUp, Goto, Phases, Early
  <1>2. \A y \in Conn : LifeOf(y)' = LifeOf(y)
    BY <1>1 DEF LifeOf
  <1>3. HasEntered' = HasEntered /\ Client' = Client
    BY <1>1 DEF HasEntered, Client
  <1> QED
    BY <1>1, <1>2, <1>3, Stutter

\* A session comes up, and enters the table.
LEMMA NewSession ==
  ASSUME RInv, NEW c \in Conn, StartIo(c) \/ Publish(c)
  PROVE  AbstractStep
  <1> USE SessionsAssumption DEF RInv, IInv, TypeOK, connVars, sessVars, netVars, stopVars
  <1>0. Client # "stopped" /\ Client' = Client
    BY DEF StartIo, Publish, StopPhases, AfterPending, Client
  <1>1. CASE StartIo(c)
    <2>1. /\ tls[c] = "none" /\ tls' = [tls EXCEPT ![c] = "live"] /\ ~disc[c] /\ disc' = disc
          /\ pc'[c] = "publish" /\ tls'[c] = "live"
      BY <1>1 DEF StartIo, Phases, Early
    <2>2. LifeOf(c) = "none" /\ LifeOf(c)' = "up"
      BY <2>1 DEF LifeOf
    <2>3. \A y \in Conn \ {c} : LifeOf(y)' = LifeOf(y)
      BY <1>1 DEF StartIo, LifeOf
    <2>4. LifeMap[c] = "none" /\ LifeMap' = [LifeMap EXCEPT ![c] = "up"]
      BY <2>2, <2>3 DEF LifeMap
    <2>5. table' = table /\ HasEntered' = HasEntered
      BY <1>1, <2>1 DEF StartIo, HasEntered
    <2> QED
      BY <1>0, <2>4, <2>5 DEF AbstractStep, LifeMap, Life!Next, Life!ComeUp
  <1>2. CASE Publish(c)
    <2>1. tls[c] # "none" /\ c \notin HasEntered
      BY <1>2 DEF Publish, Phases, HasEntered
    <2>2. HasEntered' = HasEntered \cup {c} /\ table' = [table EXCEPT ![IdOf[c]] = c]
      BY <1>2, <2>1 DEF Publish, HasEntered
    <2>3. LifeMap[c] \notin {"none", "lost"} /\ LifeMap' = LifeMap
      BY <1>2, <2>1 DEF Publish, LifeMap, LifeOf
    <2> QED
      BY <1>0, <2>1, <2>2, <2>3 DEF AbstractStep, LifeMap, Life!Next, Life!Enter
  <1> QED
    BY <1>1, <1>2

\* The handler that replaced a session marks it and takes it down.
LEMMA CleanSteps ==
  ASSUME RInv, NEW c \in Conn,
         \/ CleanMark(c) \/ CleanFdCheck(c) \/ CleanClose(c) \/ CleanJoin(c) \/ CleanFree(c)
         \/ Announce(c)
  PROVE  AbstractStep
  <1> USE SessionsAssumption DEF RInv, IInv, TypeOK, connVars, sessVars, netVars, stopVars
  <1>0. \A y \in Conn : /\ pc'[y] = "publish" <=> pc[y] = "publish"
                        /\ pc'[y] = "lost" <=> pc[y] = "lost"
    BY DEF CleanMark, CleanFdCheck, CleanClose, CleanJoin, CleanFree, Announce, Goto
  <1>1. table' = table /\ HasEntered' = HasEntered /\ Client' = Client
    <2>1. table' = table /\ stop' = stop /\ \A y \in Conn : tls'[y] = "none" <=> tls[y] = "none"
      BY DEF CleanMark, CleanFdCheck, CleanClose, CleanJoin, CleanFree, Announce, Goto, References,
             Cleaning, Published
    <2> QED
      BY <1>0, <2>1 DEF HasEntered, Client
  <1>2. CASE CleanFdCheck(c) \/ Announce(c)
    <2>1. \A y \in Conn : LifeOf(y)' = LifeOf(y)
      BY <1>0, <1>2 DEF CleanFdCheck, Announce, Goto, LifeOf
    <2> QED
      BY <1>1, <2>1, Stutter
  <1>3. CASE CleanMark(c) \/ CleanClose(c) \/ CleanJoin(c) \/ CleanFree(c)
    <2>0. old[c] \in Conn /\ Published(old[c]) /\ table[IdOf[old[c]]] # old[c]
      BY <1>3 DEF CleanMark, CleanClose, CleanJoin, CleanFree, References, Cleaning
    <2> PICK x \in Conn : x = old[c]
      BY <2>0
    <2>1. Published(x) /\ table[IdOf[x]] # x
      BY <2>0
    <2>2. x \in HasEntered
      BY <2>1 DEF Published, HasEntered
    <2>3. CleanMark(c) \/ disc[x]
      BY <1>3 DEF Marked, CleanClose, CleanJoin, CleanFree
    <2>4. \A y \in Conn \ {x} : LifeOf(y)' = LifeOf(y)
      BY <1>0, <1>3, <2>1 DEF CleanMark, CleanClose, CloseFd, CleanJoin, Join, CleanFree, LifeOf
    <2>5. CASE CleanMark(c)
      <3>1. LifeOf(x)' = LifeOf(x) \/ (LifeOf(x) = "up" /\ LifeOf(x)' = "down")
        BY <1>0, <2>1, <2>5 DEF CleanMark, Marked, Published, LifeOf
      <3> QED
        BY <1>1, <2>1, <2>4, <3>1, OneSession
    <2>6. CASE disc[x] /\ (CleanClose(c) \/ CleanJoin(c) \/ CleanFree(c))
      <3>1. \/ LifeOf(x)' = LifeOf(x)
            \/ LifeOf(x) = "down" /\ LifeOf(x)' = "released"
        BY <1>0, <2>1, <2>6 DEF CleanClose, CloseFd, CleanJoin, Join, CleanFree, Published, LifeOf
      <3> QED
        BY <1>1, <2>1, <2>2, <2>4, <3>1, OneSession
    <2> QED
      BY <1>3, <2>3, <2>5, <2>6
  <1> QED
    BY <1>2, <1>3

\* An io thread ends its session, and leaves the rest to whoever retires it.
LEMMA IoSteps ==
  ASSUME RInv, NEW c \in Conn, IoStep(c) \/ IoPeer(c) \/ \E u \in Upload : IoUpload(c, u)
  PROVE  AbstractStep
  <1> USE DEF RInv, IInv, TypeOK, connVars, sessVars, netVars, stopVars
  <1>1. table' = table /\ HasEntered' = HasEntered /\ Client' = Client
    <2>1. CASE IoStep(c) \/ IoPeer(c)
      <3>1. table' = table /\ pc' = pc /\ stop' = stop /\ \A y \in Conn : tls'[y] = "none" <=> tls[y] = "none"
        BY <2>1 DEF IoStep, IoPeer, IoLeave, IoPush, IoMark, IoFdCheck, IoClose, CloseFd, IoFree,
                    IoReadable, IoError, IoHandle, IoReadFail, IoGoto, IoPhases, Serving
      <3> QED
        BY <3>1 DEF HasEntered, Client
    <2>2. CASE \E u \in Upload : IoUpload(c, u)
      BY <2>2 DEF IoUpload, HasEntered, Client
    <2> QED
      BY <2>1, <2>2
  <1>2. io[c] \notin {"none", "joined"} /\ io'[c] \notin {"none", "joined"} /\ tls[c] # "none"
    BY DEF IoStep, IoPeer, IoLeave, IoPush, IoMark, IoFdCheck, IoClose, CloseFd, IoFree,
           IoReadable, IoError, IoHandle, IoReadFail, IoGoto, IoUpload, IoPhases, Serving
  <1>3. /\ \A y \in Conn \ {c} : disc'[y] = disc[y] /\ fd'[y] = fd[y] /\ tls'[y] = tls[y] /\ io'[y] = io[y]
        /\ disc[c] => disc'[c]
        /\ tls'[c] # "none"
        /\ pc' = pc
    BY <1>2 DEF IoStep, IoPeer, IoLeave, IoPush, IoMark, IoFdCheck, IoClose, CloseFd, IoFree,
           IoReadable, IoError, IoHandle, IoReadFail, IoGoto, IoUpload
  <1>4. \A y \in Conn \ {c} : LifeOf(y)' = LifeOf(y)
    BY <1>3 DEF LifeOf
  <1>5. LifeOf(c)' = LifeOf(c) \/ (LifeOf(c) = "up" /\ LifeOf(c)' = "down")
    BY <1>2, <1>3 DEF LifeOf
  <1> QED
    BY <1>1, <1>4, <1>5, OneSession

\* stop() marks each session it collected, and takes it down.
LEMMA StopSession ==
  ASSUME RInv, (\E c \in Conn : StopNext(c)) \/ StopClose \/ StopJoin \/ StopFree
  PROVE  AbstractStep
  <1> USE DEF RInv, IInv, TypeOK, connVars, sessVars, netVars, stopVars
  <1>1. table' = table /\ HasEntered' = HasEntered /\ Client' = Client
    <2>1. table' = table /\ pc' = pc /\ \A y \in Conn : tls'[y] = "none" <=> tls[y] = "none"
      BY DEF StopNext, StopClose, StopJoin, StopFree, StopPhases, References, Published
    <2>2. stop \notin {"idle", "done"} /\ stop' \notin {"idle", "done"}
      BY DEF StopNext, StopClose, StopJoin, StopFree
    <2> QED
      BY <2>1, <2>2 DEF HasEntered, Client
  <1>2. ASSUME NEW x \in Conn, StopNext(x) PROVE AbstractStep
    <2>1. Published(x)
      BY <1>2 DEF StopNext, References
    <2>2. \A y \in Conn \ {x} : LifeOf(y)' = LifeOf(y)
      BY <1>2 DEF StopNext, LifeOf
    <2>3. LifeOf(x)' = LifeOf(x) \/ (LifeOf(x) = "up" /\ LifeOf(x)' = "down")
      BY <1>2, <2>1 DEF StopNext, Marked, Published, LifeOf
    <2> QED
      BY <1>1, <2>2, <2>3, OneSession
  <1>3. CASE StopClose \/ StopJoin \/ StopFree
    <2>0. cur \in toStop /\ cur \in Conn /\ disc[cur]
      BY <1>3 DEF StopClose, StopJoin, StopFree, StopPhases, Marked
    <2> PICK x \in Conn : x = cur
      BY <2>0
    <2>1. Published(x) /\ table[IdOf[x]] # x /\ disc[x]
      BY <2>0, SessionsAssumption DEF References
    <2>2. x \in HasEntered
      BY <2>1 DEF Published, HasEntered
    <2>3. \A y \in Conn \ {x} : LifeOf(y)' = LifeOf(y)
      BY <1>3 DEF StopClose, CloseFd, StopJoin, Join, StopFree, LifeOf
    <2>4. \/ LifeOf(x)' = LifeOf(x)
          \/ LifeOf(x) = "down" /\ LifeOf(x)' = "released"
      BY <1>3, <2>1 DEF StopClose, CloseFd, StopJoin, Join, StopFree, Published, LifeOf
    <2> QED
      BY <1>1, <2>1, <2>2, <2>3, <2>4, OneSession
  <1> QED
    BY <1>2, <1>3

\* Every session that exists has been in the table when stop() empties it.
LEMMA StopTable ==
  ASSUME RInv, StopCollect
  PROVE  AbstractStep
  <1> USE DEF RInv, IInv, TypeOK, connVars, sessVars, netVars, stopVars
  <1>1. Client = "stopping" /\ Client' = "stopping"
    BY DEF StopCollect, Client
  <1>2. HasEntered' = HasEntered /\ LifeMap' = LifeMap
    BY DEF StopCollect, HasEntered, LifeMap, LifeOf
  <1>3. \A c \in Conn : LifeMap[c] \notin {"none", "lost"} => c \in HasEntered
    BY DEF StopCollect, StopPhases, AfterPending, LifeMap, LifeOf, HasEntered
  <1>4. table' = [i \in Id |-> NoConn]
    BY DEF StopCollect
  <1> QED
    BY <1>1, <1>2, <1>3, <1>4 DEF AbstractStep, LifeMap, Life!Next, Life!Empty

\* When stop() is through with its list every session has been released, but for the
\* lost ones.
LEMMA StopEnds ==
  ASSUME RInv, StopDone
  PROVE  AbstractStep
  <1> USE DEF RInv, IInv, TypeOK, connVars, sessVars, netVars, stopVars
  <1>1. Client = "stopping" /\ Client' = "stopped"
    BY DEF StopDone, StopGoto, Client
  <1>2. table' = table /\ HasEntered' = HasEntered /\ LifeMap' = LifeMap
    BY DEF StopDone, StopGoto, HasEntered, LifeMap, LifeOf
  <1>3. \A i \in Id : table[i] = NoConn
    BY DEF StopDone, StopPhases, AfterPending
  <1>4. \A c \in Conn : LifeMap[c] \in {"none", "released", "lost"}
    <2> SUFFICES ASSUME NEW c \in Conn, tls[c] # "none", pc[c] # "lost" PROVE LifeOf(c) = "released"
      BY DEF LifeMap, LifeOf
    <2>1. Published(c)
      BY DEF StopDone, StopPhases, AfterPending, Published
    <2>2. ~Held(c)
      BY <1>3, SessionsAssumption DEF StopDone, StopPhases, AfterPending, References, Cleaning, Held
    <2>3. io[c] \in {"none", "joined"} /\ tls[c] = "freed" /\ fd[c] = "closed"
      BY <2>1, <2>2 DEF Retired
    <2>4. disc[c]
      BY <2>3 DEF Marked
    <2> QED
      BY <2>3, <2>4 DEF LifeOf
  <1> QED
    BY <1>1, <1>2, <1>3, <1>4 DEF AbstractStep, LifeMap, Life!Next, Life!EndStop

\* A handler that runs out of memory loses the session it has not published yet, and
\* no other.
LEMMA MemorySteps ==
  ASSUME RInv, NEW c \in Conn, OutOfMemory(c)
  PROVE  AbstractStep
  <1> USE DEF RInv, IInv, TypeOK, connVars, sessVars, netVars, stopVars
  <1>1. table' = table /\ UNCHANGED <<tls, disc, io, stop>> /\ Client' = Client
    BY DEF OutOfMemory, Client
  <1>2. \A y \in Conn \ {c} : LifeOf(y)' = LifeOf(y)
    BY <1>1 DEF OutOfMemory, LifeOf
  <1>3. CASE pc[c] = "spawn"
    <2>1. tls[c] = "none"
      BY <1>3 DEF Phases, Early
    <2>2. LifeOf(c)' = LifeOf(c)
      BY <1>1, <2>1 DEF LifeOf
    <2>3. HasEntered' = HasEntered
      BY <1>1, <1>3, <2>1 DEF OutOfMemory, HasEntered
    <2> QED
      BY <1>1, <1>2, <2>2, <2>3, Stutter
  <1>4. CASE pc[c] = "announce"
    <2>1. pc' = [pc EXCEPT ![c] = "done"]
      BY <1>4 DEF OutOfMemory
    <2>2. LifeOf(c)' = LifeOf(c)
      BY <1>1, <1>4, <2>1 DEF OutOfMemory, LifeOf
    <2>3. HasEntered' = HasEntered
      BY <1>1, <1>4, <2>1 DEF HasEntered
    <2> QED
      BY <1>1, <1>2, <2>2, <2>3, Stutter
  <1>5. CASE pc[c] = "publish"
    <2>1. MemoryFails /\ pc' = [pc EXCEPT ![c] = "lost"]
      BY <1>5 DEF OutOfMemory
    <2>2. tls[c] # "none" /\ Client # "stopped"
      BY <1>5 DEF Phases, StopPhases, AfterPending, Client
    <2>3. io[c] # "joined" /\ (io[c] = "none" => tls[c] # "freed")
      BY <1>5 DEF Kept
    <2>4. LifeMap[c] \in {"up", "down"}
      BY <1>5, <2>2, <2>3 DEF LifeMap, LifeOf
    <2>5. LifeMap' = [LifeMap EXCEPT ![c] = "lost"]
      <3>1. LifeOf(c)' = "lost"
        BY <1>1, <2>1, <2>2 DEF LifeOf
      <3> QED
        BY <1>2, <3>1, LifeUpdate
    <2>6. c \notin HasEntered /\ HasEntered' = HasEntered
      BY <1>1, <1>5, <2>1 DEF HasEntered
    <2> QED
      BY <1>1, <2>1, <2>2, <2>4, <2>5, <2>6 DEF AbstractStep, LifeMap, Life!Next, Life!Lose
  <1> QED
    BY <1>3, <1>4, <1>5 DEF OutOfMemory

\* Nothing else changes a session, the table or the phase of the client, but
\* for the call of stop() itself.
LEMMA OtherSteps ==
  ASSUME RInv,
         \/ NetStep \/ StopBegin \/ (\E u \in Upload : UploadEnd(u))
         \/ StopJoinNet \/ StopLock \/ StopJoinPending \/ StopFdCheck \/ UNCHANGED vars
  PROVE  AbstractStep
  <1> USE DEF RInv, IInv, TypeOK, connVars, sessVars, netVars, stopVars, vars
  <1>1. UNCHANGED <<pc, table, tls, disc, io, fd>>
    <2>1. CASE NetStep
      BY <2>1 DEF NetStep, NetCheck, NetPoll, NetFail, NetUdpNone, NetGoto
    <2>2. CASE StopBegin \/ StopJoinNet \/ StopLock \/ StopJoinPending \/ StopFdCheck
      BY <2>2 DEF StopBegin, StopJoinNet, StopLock, StopJoinPending, StopFdCheck, StopGoto
    <2>3. CASE (\E u \in Upload : UploadEnd(u)) \/ UNCHANGED vars
      BY <2>3 DEF UploadEnd
    <2> QED
      BY <2>1, <2>2, <2>3
  <1>2. table' = table /\ HasEntered' = HasEntered /\ \A y \in Conn : LifeOf(y)' = LifeOf(y)
    BY <1>1 DEF HasEntered, LifeOf
  <1>3. CASE Client' = Client
    BY <1>2, <1>3, Stutter
  <1>4. CASE StopBegin
    <2>1. Client = "running" /\ Client' = "stopping"
      BY <1>4 DEF StopBegin, Client
    <2>2. LifeMap' = LifeMap
      BY <1>2 DEF LifeMap
    <2> QED
      BY <1>2, <2>1, <2>2 DEF AbstractStep, LifeMap, Life!Next, Life!BeginStop
  <1>5. CASE ~StopBegin
    <2>1. stop' = stop \/ (stop \notin {"idle", "done"} /\ stop' \notin {"idle", "done"})
      <3>1. CASE NetStep
        BY <3>1 DEF NetStep, NetCheck, NetPoll, NetFail, NetUdpNone, NetGoto
      <3>2. CASE StopJoinNet \/ StopLock \/ StopJoinPending \/ StopFdCheck
        BY <3>2 DEF StopJoinNet, StopLock, StopJoinPending, StopFdCheck, StopGoto
      <3>3. CASE (\E u \in Upload : UploadEnd(u)) \/ UNCHANGED vars
        BY <3>3 DEF UploadEnd
      <3> QED
        BY <1>5, <3>1, <3>2, <3>3
    <2> QED
      BY <1>3, <2>1 DEF Client
  <1> QED
    BY <1>4, <1>5

-----------------------------------------------------------------------------

\* Sessions implements SessionLife: whatever the threads interleave, a session
\* comes up, enters the table, goes down and is released once each, in an
\* order the abstract table allows, and stop() returns when all are released that a
\* handler out of memory has not lost before.
THEOREM SessionLifecycleTheorem == Spec => SessionLifecycle
  <1>1. Init => Life!Init
    <2> SUFFICES ASSUME Init PROVE Life!Init
      OBVIOUS
    <2>1. \A c \in Conn : LifeOf(c) = "none"
      BY DEF Init, LifeOf
    <2>2. HasEntered = {} /\ Client = "running" /\ table = [i \in Id |-> NoConn]
      BY DEF Init, HasEntered, Client
    <2> QED
      BY <2>1, <2>2 DEF Life!Init
  <1>2. RInv /\ [Next]_vars => [Life!Next]_(Life!vars)
    <2> SUFFICES ASSUME RInv, [Next]_vars PROVE AbstractStep
      BY DEF AbstractStep
    <2>1. ASSUME NEW c \in Conn, NetSpawn(c) \/ HandlerStep(c) \/ Handshake(c) PROVE AbstractStep
      BY <2>1, EarlySteps, NewSession, CleanSteps DEF HandlerStep
    <2>2. ASSUME NEW c \in Conn, IoStep(c) \/ IoPeer(c) \/ \E u \in Upload : IoUpload(c, u) PROVE AbstractStep
      BY <2>2, IoSteps
    <2>3. CASE StopStep
      BY <2>3, StopSession, StopTable, StopEnds, OtherSteps DEF StopStep
    <2>4. CASE NetStep \/ StopBegin \/ (\E u \in Upload : UploadEnd(u)) \/ UNCHANGED vars
      BY <2>4, OtherSteps
    <2> QED
      BY <2>1, <2>2, <2>3, <2>4, MemorySteps DEF Next, Terminated
  <1> QED
    BY <1>1, <1>2, RInductive, PTL DEF Spec, SessionLifecycle, Life!Spec

=============================================================================
