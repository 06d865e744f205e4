--------------------------- MODULE SessionsProofs ---------------------------
(***************************************************************************)
(* Proofs about Sessions, for any number of devices, connections and       *)
(* uploads.  The inductive invariant IInv says, for every connection, what *)
(* the place of its handler, of its io thread and of whoever retires it    *)
(* imply about its socket, its TLS context and its place in the table.     *)
(***************************************************************************)
EXTENDS Sessions, TLAPS

\* The handler has not made a session yet.
Early == {"none", "nothread", "identity", "connect", "check", "handshake", "spawn"}

\* The session exists and has been in the table.
Published(c) == tls[c] # "none" /\ pc[c] \notin {"publish", "lost"}

\* Somebody has still to retire the session.
Held(c) ==
  \/ table[IdOf[c]] = c
  \/ \E d \in Conn : old[d] = c
  \/ c \in toStop

\* A session exists from StartIo on, and not before.
Phases ==
  \A c \in Conn :
    /\ pc[c] \in Early => tls[c] = "none"
    /\ pc[c] \in {"publish", "lost", "announce"} \cup Cleaning => tls[c] # "none"
    /\ tls[c] = "none" => io[c] = "none" /\ ~disc[c] /\ fd[c] # "open"
    /\ tls[c] # "none" => fd[c] \in {"open", "closed"}
    /\ fd[c] = "scoped" => pc[c] \in {"identity", "check", "handshake", "spawn", "nothread"}

\* The table, old_session and to_stop hold published sessions, and no two of
\* them hold the same one.
References ==
  /\ \A i \in Id : table[i] # NoConn => IdOf[table[i]] = i /\ Published(table[i])
  /\ \A d \in Conn : pc[d] \in Cleaning <=> old[d] # NoConn
  /\ \A d \in Conn : old[d] # NoConn => Published(old[d])
  /\ \A d, e \in Conn : d # e /\ old[d] # NoConn => old[d] # old[e]
  /\ \A d \in Conn, i \in Id : old[d] # NoConn => table[i] # old[d]
  /\ \A c \in toStop : /\ Published(c)
                       /\ \A d \in Conn : old[d] # c
                       /\ \A i \in Id : table[i] # c

\* A session nobody holds any more has been taken down completely.
Retired ==
  \A c \in Conn : Published(c) =>
    \/ Held(c)
    \/ io[c] \in {"none", "joined"} /\ tls[c] = "freed" /\ fd[c] = "closed"

\* How far the handler that replaced a session is with it.
CleanPhases ==
  \A d \in Conn :
    /\ pc[d] \in {"join", "free"} => fd[old[d]] = "closed"
    /\ pc[d] = "free" => io[old[d]] \in {"none", "joined"}

\* How far stop() is.
StopPhases ==
  /\ stop \notin {"idle", "joinNet"} => net = "exited"
  /\ stop \in AfterPending => \A c \in Conn : pc[c] \in {"none", "nothread", "lost", "done"}
  /\ stop \notin AfterPending => \A c \in Conn : pc[c] \notin {"none", "lost", "done"} => c \in pend
  /\ stop \notin AfterPending \ {"collect"} => toStop = {}
  /\ stop \in AfterPending \ {"collect"} => \A i \in Id : table[i] = NoConn
  /\ stop \in {"fdcheck", "close", "join", "free"} => cur \in toStop
  /\ stop \in {"join", "free"} => fd[cur] = "closed"
  /\ stop = "free" => io[cur] \in {"none", "joined"}
  /\ stop = "done" => toStop = {}

\* How far an io thread is.
IoPhases ==
  \A c \in Conn :
    /\ io[c] \in Serving \cup {"mark", "fdcheck", "close", "free"} => tls[c] = "live"
    /\ io[c] \in {"ended", "joined"} => tls[c] = "freed"
    /\ io[c] \in {"fdcheck", "close", "free", "ended", "joined"} => disc[c]
    /\ io[c] \in {"free", "ended", "joined"} => fd[c] = "closed"
    /\ io[c] = "push" => req[c] \in Upload

IInv ==
  TypeOK /\ Phases /\ References /\ Retired /\ CleanPhases /\ StopPhases /\ IoPhases

-----------------------------------------------------------------------------

\* The inductive step: every action keeps IInv.
LEMMA IInvStep == IInv /\ [Next]_vars => IInv'
  <1> USE SessionsAssumption
  <1> USE DEF IInv, TypeOK, Phases, References, Retired, CleanPhases, StopPhases, IoPhases,
              Early, Published, Held, Cleaning, Serving, NetPc, HandlerPc, IoPc, StopPc, AfterPending,
              netVars, connVars, sessVars, loadVars, stopVars
  <1> SUFFICES ASSUME IInv, [Next]_vars PROVE IInv'
    OBVIOUS
  \* An early return, and a step on, of a handler that has no session yet.
  <1>a. ASSUME NEW c \in Conn, pc[c] \in {"identity", "connect", "check", "handshake"}, GiveUp(c)
        PROVE  IInv'
    <2>1. TypeOK'
      BY <1>a DEF GiveUp
    <2>2. Phases' /\ References'
      BY <1>a DEF GiveUp
    <2>3. Retired' /\ CleanPhases' /\ StopPhases' /\ IoPhases'
      BY <1>a DEF GiveUp
    <2> QED
      BY <2>1, <2>2, <2>3
  <1>b. ASSUME NEW c \in Conn, pc[c] \in {"identity", "check", "handshake"},
               NEW l \in {"check", "handshake", "spawn"}, Goto(c, l)
        PROVE  IInv'
    <2>1. TypeOK'
      BY <1>b DEF Goto
    <2>2. Phases' /\ References'
      BY <1>b DEF Goto
    <2>3. Retired' /\ CleanPhases' /\ StopPhases' /\ IoPhases'
      BY <1>b DEF Goto
    <2> QED
      BY <2>1, <2>2, <2>3
  <1>1. ASSUME NEW c \in Conn, NetAccept(c) PROVE IInv'
    <2>0. PICK l \in {"identity", "nothread"} : pc' = [pc EXCEPT ![c] = l]
      BY <1>1 DEF NetAccept, Pend
    <2>9. /\ pc[c] = "none"
          /\ pend' = pend \cup {c}
          /\ fd' = [fd EXCEPT ![c] = "scoped"]
          /\ net = "poll" /\ net' = "udp"
          /\ UNCHANGED <<running, needsRestart, old, announced, table, disc, closes, tls, io, loadVars, stopVars>>
      BY <1>1 DEF NetAccept, Pend
    <2>1. TypeOK'
      BY <2>0, <2>9
    <2>2. Phases'
      BY <2>0, <2>9
    <2>3. References'
      BY <2>0, <2>9
    <2>4. Retired'
      BY <2>0, <2>9
    <2>5. CleanPhases'
      BY <2>0, <2>9
    <2>6. StopPhases'
      BY <2>0, <2>9
    <2>7. IoPhases'
      BY <2>0, <2>9
    <2> QED
      BY <2>1, <2>2, <2>3, <2>4, <2>5, <2>6, <2>7
  <1>2. ASSUME NEW c \in Conn, NetDiscover(c) PROVE IInv'
    BY <1>2 DEF NetDiscover, Pend
  <1>3. ASSUME NEW c \in Conn, ReadIdentity(c) PROVE IInv'
    <2>1. CASE GiveUp(c)
      BY <1>3, <1>a, <2>1 DEF ReadIdentity
    <2>2. CASE Goto(c, "check")
      BY <1>3, <1>b, <2>2 DEF ReadIdentity
    <2> QED
      BY <1>3, <2>1, <2>2 DEF ReadIdentity
  <1>4. ASSUME NEW c \in Conn, Connect(c) PROVE IInv'
    <2>1. CASE GiveUp(c)
      BY <1>4, <1>a, <2>1 DEF Connect
    <2>2. CASE ~GiveUp(c)
      <3>0. /\ pc[c] = "connect"
            /\ pc' = [pc EXCEPT ![c] = "check"]
            /\ fd' = [fd EXCEPT ![c] = "scoped"]
            /\ UNCHANGED <<netVars, pend, old, announced, table, disc, closes, tls, io, loadVars, stopVars>>
        BY <1>4, <2>2 DEF Connect
      <3>1. TypeOK'
        BY <3>0
      <3>2. Phases'
        BY <3>0
      <3>3. References'
        BY <3>0
      <3>4. Retired' /\ CleanPhases' /\ StopPhases' /\ IoPhases'
        BY <3>0
      <3> QED
        BY <3>1, <3>2, <3>3, <3>4
    <2> QED
      BY <2>1, <2>2
  <1>5. ASSUME NEW c \in Conn, CheckConnected(c) PROVE IInv'
    <2>1. CASE GiveUp(c)
      BY <1>5, <1>a, <2>1 DEF CheckConnected
    <2>2. CASE Goto(c, "handshake")
      BY <1>5, <1>b, <2>2 DEF CheckConnected
    <2> QED
      BY <1>5, <2>1, <2>2 DEF CheckConnected
  <1>6. ASSUME NEW c \in Conn, StartIo(c) PROVE IInv'
    BY <1>6 DEF StartIo
  <1>7. ASSUME NEW c \in Conn, Publish(c) PROVE IInv'
    BY <1>7 DEF Publish
  <1>8. ASSUME NEW c \in Conn, CleanMark(c) PROVE IInv'
    BY <1>8 DEF CleanMark
  <1>9. ASSUME NEW c \in Conn, CleanFdCheck(c) PROVE IInv'
    BY <1>9 DEF CleanFdCheck, Goto
  <1>10. ASSUME NEW c \in Conn, CleanClose(c) PROVE IInv'
    BY <1>10 DEF CleanClose, CloseFd
  <1>11. ASSUME NEW c \in Conn, CleanJoin(c) PROVE IInv'
    BY <1>11 DEF CleanJoin, Join
  <1>12. ASSUME NEW c \in Conn, CleanFree(c) PROVE IInv'
    BY <1>12 DEF CleanFree
  <1>13. ASSUME NEW c \in Conn, Announce(c) PROVE IInv'
    BY <1>13 DEF Announce, Connected
  <1>14. ASSUME NEW c \in Conn, Handshake(c) PROVE IInv'
    <2>1. CASE GiveUp(c)
      BY <1>14, <1>a, <2>1 DEF Handshake
    <2>2. CASE Goto(c, "spawn")
      BY <1>14, <1>b, <2>2 DEF Handshake
    <2> QED
      BY <1>14, <2>1, <2>2 DEF Handshake
  <1>15. ASSUME NEW c \in Conn, IoLeave(c) PROVE IInv'
    BY <1>15 DEF IoLeave, IoGoto
  <1>16. ASSUME NEW c \in Conn, IoPush(c) PROVE IInv'
    BY <1>16 DEF IoPush, PendingLocked
  <1>17. ASSUME NEW c \in Conn, IoMark(c) PROVE IInv'
    BY <1>17 DEF IoMark
  <1>18. ASSUME NEW c \in Conn, IoFdCheck(c) PROVE IInv'
    BY <1>18 DEF IoFdCheck, IoGoto
  <1>19. ASSUME NEW c \in Conn, IoClose(c) PROVE IInv'
    BY <1>19 DEF IoClose, CloseFd
  <1>20. ASSUME NEW c \in Conn, IoFree(c) PROVE IInv'
    BY <1>20 DEF IoFree
  <1>21. ASSUME NEW c \in Conn, IoReadable(c) PROVE IInv'
    BY <1>21 DEF IoReadable, IoGoto
  <1>22. ASSUME NEW c \in Conn, IoError(c) PROVE IInv'
    BY <1>22 DEF IoError, IoGoto
  <1>23. ASSUME NEW c \in Conn, IoHandle(c) PROVE IInv'
    BY <1>23 DEF IoHandle, IoGoto
  <1>24. ASSUME NEW c \in Conn, IoReadFail(c) PROVE IInv'
    BY <1>24 DEF IoReadFail, IoGoto
  <1>25. ASSUME NEW c \in Conn, StopNext(c) PROVE IInv'
    BY <1>25 DEF StopNext
  <1>26. ASSUME NEW c \in Conn, NEW u \in Upload, IoUpload(c, u) PROVE IInv'
    <2>0. up' \in [Upload -> {"none", "running", "nothread", "done"}]
      BY <1>26 DEF IoUpload
    <2>1. TypeOK'
      <3>1. /\ req' \in [Conn -> Upload \cup {NoUpload}]
            /\ io' \in [Conn -> IoPc]
            /\ UNCHANGED <<netVars, pend, connVars, table, disc, fd, closes, tls, stopVars>>
        BY <1>26 DEF IoUpload
      <3> QED
        BY <2>0, <3>1
    <2>2. Phases'
      BY <1>26 DEF IoUpload, Connected
    <2>3. References'
      BY <1>26 DEF IoUpload, Connected
    <2>4. Retired'
      BY <1>26 DEF IoUpload, Connected
    <2>5. CleanPhases'
      BY <1>26 DEF IoUpload, Connected
    <2>6. StopPhases'
      BY <1>26 DEF IoUpload, Connected
    <2>7. IoPhases'
      BY <1>26 DEF IoUpload, Connected
    <2> QED
      BY <2>1, <2>2, <2>3, <2>4, <2>5, <2>6, <2>7
  <1>27. ASSUME NEW u \in Upload, UploadEnd(u) PROVE IInv'
    BY <1>27 DEF UploadEnd
  <1>28. CASE NetCheck
    BY <1>28 DEF NetCheck, NetGoto, Reap, Done, PendingLocked
  <1>29. CASE NetPoll
    BY <1>29 DEF NetPoll, NetGoto
  <1>30. CASE NetFail
    <2>1. TypeOK'
      BY <1>30 DEF NetFail
    <2>2. Phases'
      BY <1>30 DEF NetFail
    <2>3. References'
      BY <1>30 DEF NetFail
    <2>4. Retired'
      BY <1>30 DEF NetFail
    <2>5. CleanPhases'
      BY <1>30 DEF NetFail
    <2>6. StopPhases'
      BY <1>30 DEF NetFail
    <2>7. IoPhases'
      BY <1>30 DEF NetFail
    <2> QED
      BY <2>1, <2>2, <2>3, <2>4, <2>5, <2>6, <2>7
  <1>31. CASE NetUdpNone
    BY <1>31 DEF NetUdpNone, NetGoto
  <1>32. CASE StopBegin
    <2>1. TypeOK'
      BY <1>32 DEF StopBegin
    <2>2. Phases'
      BY <1>32 DEF StopBegin
    <2>3. References'
      BY <1>32 DEF StopBegin
    <2>4. Retired'
      BY <1>32 DEF StopBegin
    <2>5. CleanPhases'
      BY <1>32 DEF StopBegin
    <2>6. StopPhases'
      BY <1>32 DEF StopBegin
    <2>7. IoPhases'
      BY <1>32 DEF StopBegin
    <2> QED
      BY <2>1, <2>2, <2>3, <2>4, <2>5, <2>6, <2>7
  <1>33. CASE StopJoinNet
    BY <1>33 DEF StopJoinNet, StopGoto
  <1>34. CASE StopLock
    BY <1>34 DEF StopLock, StopGoto
  <1>35. CASE StopJoinPending
    BY <1>35 DEF StopJoinPending, StillRunning
  <1>36. CASE StopCollect
    BY <1>36 DEF StopCollect
  <1>37. CASE StopFdCheck
    BY <1>37 DEF StopFdCheck, StopGoto
  <1>38. CASE StopClose
    BY <1>38 DEF StopClose, CloseFd
  <1>39. CASE StopJoin
    BY <1>39 DEF StopJoin, Join
  <1>40. CASE StopFree
    BY <1>40 DEF StopFree
  <1>41. CASE StopDone
    BY <1>41 DEF StopDone, StopGoto
  <1>42. CASE UNCHANGED vars
    BY <1>42 DEF vars
  <1>43. ASSUME NEW c \in Conn, OutOfMemory(c) PROVE IInv'
    <2>0. UNCHANGED <<netVars, pend, old, announced, table, disc, closes, tls, io, loadVars, stopVars>>
      BY <1>43 DEF OutOfMemory
    <2>1. CASE pc[c] = "spawn"
      <3>0. /\ pc[c] = "spawn"
            /\ fd' = [fd EXCEPT ![c] = "leaked"]
            /\ pc' = [pc EXCEPT ![c] = "done"]
        BY <1>43, <2>1 DEF OutOfMemory
      <3>1. TypeOK'
        BY <2>0, <3>0
      <3>2. Phases'
        BY <2>0, <3>0
      <3>3. References'
        BY <2>0, <3>0
      <3>4. Retired'
        BY <2>0, <3>0
      <3>5. CleanPhases'
        BY <2>0, <3>0
      <3>6. StopPhases'
        BY <2>0, <3>0
      <3>7. IoPhases'
        BY <2>0, <3>0
      <3> QED
        BY <3>1, <3>2, <3>3, <3>4, <3>5, <3>6, <3>7
    <2>2. CASE pc[c] = "publish"
      <3>0. /\ pc[c] = "publish"
            /\ fd' = fd
            /\ pc' = [pc EXCEPT ![c] = "lost"]
        BY <1>43, <2>2 DEF OutOfMemory
      <3>1. TypeOK'
        BY <2>0, <3>0
      <3>2. Phases'
        BY <2>0, <3>0
      <3>3. References'
        BY <2>0, <3>0
      <3>4. Retired'
        BY <2>0, <3>0
      <3>5. CleanPhases'
        BY <2>0, <3>0
      <3>6. StopPhases'
        BY <2>0, <3>0
      <3>7. IoPhases'
        BY <2>0, <3>0
      <3> QED
        BY <3>1, <3>2, <3>3, <3>4, <3>5, <3>6, <3>7
    <2>3. CASE pc[c] = "announce"
      <3>0. /\ pc[c] = "announce"
            /\ fd' = fd
            /\ pc' = [pc EXCEPT ![c] = "done"]
        BY <1>43, <2>3 DEF OutOfMemory
      <3>1. TypeOK'
        BY <2>0, <3>0
      <3>2. Phases'
        BY <2>0, <3>0
      <3>3. References'
        BY <2>0, <3>0
      <3>4. Retired'
        BY <2>0, <3>0
      <3>5. CleanPhases'
        BY <2>0, <3>0
      <3>6. StopPhases'
        BY <2>0, <3>0
      <3>7. IoPhases'
        BY <2>0, <3>0
      <3> QED
        BY <3>1, <3>2, <3>3, <3>4, <3>5, <3>6, <3>7
    <2> QED
      BY <1>43, <2>1, <2>2, <2>3 DEF OutOfMemory
  <1>44. QED
    BY <1>43, <1>1, <1>2, <1>3, <1>4, <1>5, <1>6, <1>7, <1>8, <1>9, <1>10, <1>11, <1>12, <1>13, <1>14, <1>15, <1>16, <1>17, <1>18, <1>19, <1>20, <1>21, <1>22, <1>23, <1>24, <1>25, <1>26, <1>27, <1>28, <1>29, <1>30, <1>31, <1>32, <1>33, <1>34, <1>35, <1>36, <1>37, <1>38, <1>39, <1>40, <1>41, <1>42 DEF Next, NetStep, NetSpawn, HandlerStep, IoStep, IoPeer, StopStep, Terminated

\* start() leaves the table, pending_threads_ and every session in a state
\* that IInv describes.
LEMMA IInvInit == Init => IInv
  <1> SUFFICES ASSUME Init PROVE IInv
    OBVIOUS
  <1> USE SessionsAssumption DEF Init
  <1>1. TypeOK
    BY DEF TypeOK, NetPc, HandlerPc, IoPc, StopPc
  <1>2. Phases /\ CleanPhases
    BY DEF Phases, CleanPhases, Early, Cleaning
  <1>3. References /\ Retired
    BY DEF References, Retired, Published, Cleaning
  <1>4. StopPhases /\ IoPhases
    BY DEF StopPhases, IoPhases, AfterPending, Serving
  <1> QED
    BY <1>1, <1>2, <1>3, <1>4 DEF IInv

\* IInv holds throughout, from start() to the end of stop().
THEOREM Inductive == Spec => []IInv
  BY IInvInit, IInvStep, PTL DEF Spec

\* Every variable keeps its type: in particular a handler never cleans up a
\* session that does not exist and stop() never ends one.
THEOREM TypeCorrect == Spec => []TypeOK
  <1>1. IInv => TypeOK
    BY DEF IInv
  <1> QED
    BY <1>1, Inductive, PTL

\* No io thread is orphaned, whatever handshakes race for a device and
\* whenever stop() runs.
THEOREM NoOrphanTheorem == Spec => []NoOrphan
  <1>1. IInv => NoOrphan
    <2> SUFFICES ASSUME IInv, NEW c \in Conn, io[c] \notin {"none", "joined"}, pc[c] \notin {"publish", "lost"}
                 PROVE  \/ table[IdOf[c]] = c
                        \/ \E d \in Conn : Cleans(d, c)
                        \/ StopHolds(c)
      BY DEF NoOrphan
    <2>1. Held(c)
      BY DEF IInv, Phases, Retired, Published
    <2>2. ASSUME NEW d \in Conn, old[d] = c PROVE Cleans(d, c)
      BY <2>2, SessionsAssumption DEF IInv, References, CleanPhases, Cleaning, Cleans
    <2>3. c \in toStop => StopHolds(c)
      BY DEF IInv, StopPhases, StopHolds
    <2> QED
      BY <2>1, <2>2, <2>3 DEF Held
  <1> QED
    BY <1>1, Inductive, PTL

\* A session is retired by one thread.
THEOREM OneRetirerTheorem == Spec => []OneRetirer
  <1>1. IInv => OneRetirer
    BY SessionsAssumption DEF IInv, TypeOK, References, OneRetirer
  <1> QED
    BY <1>1, Inductive, PTL

\* The TLS context of a session is freed by another thread only when the
\* session has no io thread any more.
THEOREM TlsExclusiveTheorem == Spec => []TlsExclusive
  <1>1. IInv => TlsExclusive
    BY DEF IInv, CleanPhases, StopPhases, IoPhases, TlsExclusive
  <1> QED
    BY <1>1, Inductive, PTL

\* Nothing of any connection is left when stop() returns.
THEOREM QuiescentTheorem == Spec => []QuiescentAfterStop
  <1>1. IInv => QuiescentAfterStop
    <2> SUFFICES ASSUME IInv, stop = "done" PROVE QuiescentAfterStop
      BY DEF QuiescentAfterStop
    <2>1. /\ \A i \in Id : table[i] = NoConn
          /\ toStop = {}
          /\ \A c \in Conn : pc[c] \in {"none", "nothread", "lost", "done"}
      BY DEF IInv, StopPhases, AfterPending
    <2>2. ASSUME NEW c \in Conn PROVE ~Held(c)
      BY <2>1, SessionsAssumption DEF IInv, References, Cleaning, Held
    <2> QED
      BY <2>1, <2>2 DEF IInv, TypeOK, Phases, Retired, Published, QuiescentAfterStop
  <1> QED
    BY <1>1, Inductive, PTL

-----------------------------------------------------------------------------
(* A connected device is served, provided that its io thread could be      *)
(* created.                                                                *)

HasThread == \A c \in Conn : tls[c] # "none" => io[c] # "none"

\* When threads can be created, every session keeps the io thread that
\* handle_new_connection started for it.
LEMMA HasThreadStep ==
  ASSUME ~ThreadsFail, IInv, HasThread, [Next]_vars
  PROVE  HasThread'
  <1> USE DEF IInv, TypeOK, HasThread, IoPc, connVars, sessVars
  <1>1. ASSUME NEW c \in Conn, StartIo(c) PROVE HasThread'
    BY <1>1 DEF StartIo
  <1>2. ASSUME NEW c \in Conn, NetSpawn(c) \/ Handshake(c) \/ OutOfMemory(c) PROVE HasThread'
    BY <1>2 DEF NetSpawn, OutOfMemory, NetAccept, NetDiscover, Handshake, GiveUp, Goto
  <1>3. ASSUME NEW c \in Conn, HandlerStep(c), ~StartIo(c) PROVE HasThread'
    <2>1. CASE CleanFree(c)
      BY <2>1 DEF CleanFree, References, Published, Cleaning
    <2>2. CASE CleanJoin(c)
      BY <2>2 DEF CleanJoin, Join
    <2>3. CASE ~CleanFree(c) /\ ~CleanJoin(c)
      BY <1>3, <2>3 DEF HandlerStep, ReadIdentity, Connect, CheckConnected, GiveUp, Goto, Publish,
                        CleanMark, CleanFdCheck, CleanClose, CloseFd, Announce
    <2> QED
      BY <2>1, <2>2, <2>3
  <1>4. ASSUME NEW c \in Conn, IoStep(c) \/ IoPeer(c) PROVE HasThread'
    BY <1>4 DEF IoStep, IoPeer, IoLeave, IoPush, IoMark, IoFdCheck, IoClose, CloseFd, IoFree,
                IoReadable, IoError, IoHandle, IoReadFail, IoGoto
  <1>5. ASSUME NEW c \in Conn, NEW u \in Upload, IoUpload(c, u) PROVE HasThread'
    BY <1>5 DEF IoUpload
  <1>6. CASE StopStep
    <2>1. CASE StopFree
      BY <2>1 DEF StopFree, References, Published, StopPhases
    <2>2. CASE StopJoin
      BY <2>2 DEF StopJoin, Join
    <2>3. CASE ~StopFree /\ ~StopJoin
      BY <1>6, <2>3 DEF StopStep, StopJoinNet, StopLock, StopJoinPending, StopCollect, StopFdCheck,
                        StopClose, CloseFd, StopDone, StopNext, StopGoto
    <2> QED
      BY <2>1, <2>2, <2>3
  <1>7. CASE NetStep \/ StopBegin \/ \E u \in Upload : UploadEnd(u)
    BY <1>7 DEF NetStep, NetCheck, NetPoll, NetFail, NetUdpNone, NetGoto, StopBegin, UploadEnd
  <1>8. CASE UNCHANGED vars
    BY <1>8 DEF vars
  <1> QED
    BY <1>1, <1>2, <1>3, <1>4, <1>5, <1>6, <1>7, <1>8 DEF Next, Terminated

\* A device that counts as connected has an io thread serving it, or about
\* to mark it disconnected, so that "already connected" never turns a device
\* away for good.
THEOREM ConnectedIsServedTheorem ==
  ASSUME ~ThreadsFail
  PROVE  Spec => []ConnectedIsServed
  <1>1. Init => HasThread
    BY DEF Init, HasThread
  <1>2. IInv /\ HasThread /\ [Next]_vars => HasThread'
    BY HasThreadStep
  <1>3. IInv /\ HasThread => ConnectedIsServed
    BY DEF IInv, TypeOK, References, IoPhases, IoPc, Serving, Published, HasThread,
           ConnectedIsServed, Connected
  <1> QED
    BY <1>1, <1>2, <1>3, Inductive, PTL DEF Spec

-----------------------------------------------------------------------------
(* How often the descriptor of a session is closed.                        *)

\* The io thread of c, and the thread that retires c, are past the close.
IoClosed(c) == io[c] \in {"free", "ended", "joined"}

RetirerClosed(c) ==
  \/ \E d \in Conn : old[d] = c /\ pc[d] \in {"join", "free"}
  \/ cur = c /\ stop \in {"join", "free"}
  \/ Published(c) /\ ~Held(c)

CloseCount ==
  \A c \in Conn : /\ closes[c] <= 2
                  /\ closes[c] > 0 => IoClosed(c) \/ RetirerClosed(c)
                  /\ closes[c] = 2 => IoClosed(c) /\ RetirerClosed(c)

\* Being past the close is for good.
LEMMA IoClosedStays ==
  ASSUME IInv, [Next]_vars, NEW x \in Conn, IoClosed(x)
  PROVE  IoClosed(x)'
  <1> USE DEF IInv, TypeOK, IoClosed, connVars, sessVars
  <1>0. io[x] = "free" \/ io[x] = "ended" \/ io[x] = "joined"
    OBVIOUS
  <1>1. ASSUME NEW c \in Conn, HandlerStep(c), ~StartIo(c) PROVE IoClosed(x)'
    BY <1>1 DEF HandlerStep, ReadIdentity, Connect, CheckConnected, GiveUp, Goto, Publish, CleanMark,
                CleanFdCheck, CleanClose, CloseFd, CleanJoin, Join, CleanFree, Announce
  <1>2. ASSUME NEW c \in Conn, StartIo(c) PROVE IoClosed(x)'
    BY <1>2 DEF StartIo, Phases, Early
  <1>3. ASSUME NEW c \in Conn, NetSpawn(c) \/ Handshake(c) \/ OutOfMemory(c) PROVE IoClosed(x)'
    BY <1>3 DEF NetSpawn, OutOfMemory, NetAccept, NetDiscover, Handshake, GiveUp, Goto
  <1>4. ASSUME NEW c \in Conn, IoStep(c) \/ IoPeer(c) PROVE IoClosed(x)'
    BY <1>4 DEF IoStep, IoPeer, IoLeave, IoPush, IoMark, IoFdCheck, IoClose, CloseFd, IoFree,
                IoReadable, IoError, IoHandle, IoReadFail, IoGoto
  <1>5. ASSUME NEW c \in Conn, NEW u \in Upload, IoUpload(c, u) PROVE IoClosed(x)'
    BY <1>5 DEF IoUpload
  <1>6. CASE StopStep
    BY <1>6 DEF StopStep, StopJoinNet, StopLock, StopJoinPending, StopCollect, StopFdCheck, StopClose,
                CloseFd, StopJoin, Join, StopFree, StopDone, StopNext, StopGoto
  <1>7. CASE NetStep \/ StopBegin \/ \E u \in Upload : UploadEnd(u)
    BY <1>7 DEF NetStep, NetCheck, NetPoll, NetFail, NetUdpNone, NetGoto, StopBegin, UploadEnd
  <1>8. CASE UNCHANGED vars
    BY <1>8 DEF vars
  <1> QED
    BY <1>1, <1>2, <1>3, <1>4, <1>5, <1>6, <1>7, <1>8 DEF Next, Terminated

\* A retirer that is past its close of the descriptor stays past it: neither
\* handle_new_connection nor stop() goes back.
LEMMA RetirerClosedStays ==
  ASSUME IInv, [Next]_vars, NEW x \in Conn, RetirerClosed(x)
  PROVE  RetirerClosed(x)'
  <1> USE SessionsAssumption DEF IInv, TypeOK, RetirerClosed, Published, Held, connVars, sessVars, stopVars
  <1>1. ASSUME NEW c \in Conn, HandlerStep(c) PROVE RetirerClosed(x)'
    <2>1. CASE ReadIdentity(c) \/ Connect(c) \/ CheckConnected(c)
      BY <2>1 DEF ReadIdentity, Connect, CheckConnected, GiveUp, Goto, Phases, Early
    <2>2. CASE StartIo(c)
      BY <2>2 DEF StartIo, Phases, Early, References, Cleaning
    <2>3. CASE Publish(c)
      BY <2>3 DEF Publish, References, Cleaning
    <2>4. CASE CleanMark(c) \/ CleanFdCheck(c) \/ CleanClose(c) \/ CleanJoin(c)
      BY <2>4 DEF CleanMark, CleanFdCheck, CleanClose, CloseFd, CleanJoin, Join, Goto
    <2>5. CASE CleanFree(c)
      BY <2>5 DEF CleanFree, References, Cleaning
    <2>6. CASE Announce(c)
      BY <2>6 DEF Announce
    <2> QED
      BY <1>1, <2>1, <2>2, <2>3, <2>4, <2>5, <2>6 DEF HandlerStep
  <1>2. ASSUME NEW c \in Conn, NetSpawn(c) \/ Handshake(c) \/ OutOfMemory(c) PROVE RetirerClosed(x)'
    BY <1>2 DEF NetSpawn, OutOfMemory, NetAccept, NetDiscover, Pend, Handshake, GiveUp, Goto
  <1>3. ASSUME NEW c \in Conn, IoStep(c) \/ IoPeer(c) PROVE RetirerClosed(x)'
    BY <1>3 DEF IoStep, IoPeer, IoLeave, IoPush, IoMark, IoFdCheck, IoClose, CloseFd, IoFree,
                IoReadable, IoError, IoHandle, IoReadFail, IoGoto
  <1>4. ASSUME NEW c \in Conn, NEW u \in Upload, IoUpload(c, u) PROVE RetirerClosed(x)'
    BY <1>4 DEF IoUpload
  <1>5. CASE StopStep
    <2>1. CASE StopCollect
      <3>1. CASE \E d \in Conn : old[d] = x /\ pc[d] \in {"join", "free"}
        BY <2>1, <3>1 DEF StopCollect
      <3>2. CASE Published(x) /\ ~Held(x)
        <4>1. x \notin {table[i] : i \in Id}
          BY <3>2 DEF References
        <4> QED
          BY <2>1, <3>2, <4>1 DEF StopCollect
      <3> QED
        BY <2>1, <3>1, <3>2 DEF StopCollect
    <2>2. CASE StopFree
      BY <2>2 DEF StopFree, References, StopPhases
    <2>3. CASE \E c \in Conn : StopNext(c)
      BY <2>3 DEF StopNext
    <2>4. CASE StopJoinNet \/ StopLock \/ StopJoinPending \/ StopDone
      BY <2>4 DEF StopJoinNet, StopLock, StopJoinPending, StopDone, StopGoto
    <2>5. CASE StopFdCheck \/ StopClose \/ StopJoin
      BY <2>5 DEF StopFdCheck, StopClose, CloseFd, StopJoin, Join, StopGoto
    <2> QED
      BY <1>5, <2>1, <2>2, <2>3, <2>4, <2>5 DEF StopStep
  <1>6. CASE NetStep \/ StopBegin \/ \E u \in Upload : UploadEnd(u)
    BY <1>6 DEF NetStep, NetCheck, NetPoll, NetFail, NetUdpNone, NetGoto, StopBegin, UploadEnd
  <1>7. CASE UNCHANGED vars
    BY <1>7 DEF vars
  <1> QED
    BY <1>1, <1>2, <1>3, <1>4, <1>5, <1>6, <1>7 DEF Next, Terminated

\* Only three steps close a descriptor.
LEMMA OthersDoNotClose ==
  ASSUME [Next]_vars, ~StopClose, \A c \in Conn : ~CleanClose(c) /\ ~IoClose(c)
  PROVE  closes' = closes
  <1> USE DEF connVars, sessVars
  <1>1. ASSUME NEW c \in Conn, HandlerStep(c) PROVE closes' = closes
    BY <1>1 DEF HandlerStep, ReadIdentity, Connect, CheckConnected, GiveUp, Goto, StartIo, Publish,
                CleanMark, CleanFdCheck, CleanJoin, CleanFree, Announce
  <1>2. ASSUME NEW c \in Conn, NetSpawn(c) \/ Handshake(c) \/ OutOfMemory(c) PROVE closes' = closes
    BY <1>2 DEF NetSpawn, OutOfMemory, NetAccept, NetDiscover, Handshake, GiveUp, Goto
  <1>3. ASSUME NEW c \in Conn, IoStep(c) \/ IoPeer(c) PROVE closes' = closes
    BY <1>3 DEF IoStep, IoPeer, IoLeave, IoPush, IoMark, IoFdCheck, IoFree,
                IoReadable, IoError, IoHandle, IoReadFail, IoGoto
  <1>4. ASSUME NEW c \in Conn, NEW u \in Upload, IoUpload(c, u) PROVE closes' = closes
    BY <1>4 DEF IoUpload
  <1>5. CASE StopStep
    BY <1>5 DEF StopStep, StopJoinNet, StopLock, StopJoinPending, StopCollect, StopFdCheck,
                StopJoin, StopFree, StopDone, StopNext, StopGoto
  <1>6. CASE NetStep \/ StopBegin \/ \E u \in Upload : UploadEnd(u)
    BY <1>6 DEF NetStep, NetCheck, NetPoll, NetFail, NetUdpNone, NetGoto, StopBegin, UploadEnd
  <1>7. CASE UNCHANGED vars
    BY <1>7 DEF vars
  <1> QED
    BY <1>1, <1>2, <1>3, <1>4, <1>5, <1>6, <1>7 DEF Next, Terminated

\* Every step counts a close for the io thread or for the retirer, each once.
LEMMA CloseCountStep ==
  ASSUME IInv, [Next]_vars, CloseCount
  PROVE  CloseCount'
  <1> SUFFICES ASSUME NEW x \in Conn
               PROVE  /\ closes'[x] <= 2
                      /\ closes'[x] > 0 => IoClosed(x)' \/ RetirerClosed(x)'
                      /\ closes'[x] = 2 => IoClosed(x)' /\ RetirerClosed(x)'
    BY DEF CloseCount
  <1>0. /\ closes[x] \in Nat /\ closes[x] <= 2
        /\ closes[x] > 0 => IoClosed(x) \/ RetirerClosed(x)
        /\ closes[x] = 2 => IoClosed(x) /\ RetirerClosed(x)
    BY DEF IInv, TypeOK, CloseCount
  <1>1. (IoClosed(x) => IoClosed(x)') /\ (RetirerClosed(x) => RetirerClosed(x)')
    BY IoClosedStays, RetirerClosedStays
  <1>2. CASE closes'[x] = closes[x]
    BY <1>0, <1>1, <1>2
  <1>3. CASE /\ closes'[x] = closes[x] + 1
             /\ \/ ~IoClosed(x) /\ IoClosed(x)'
                \/ ~RetirerClosed(x) /\ RetirerClosed(x)'
    BY <1>0, <1>1, <1>3
  <1>4. ASSUME NEW c \in Conn, IoClose(c), x = c
        PROVE  closes'[x] = closes[x] + 1 /\ ~IoClosed(x) /\ IoClosed(x)'
    BY <1>4 DEF IInv, TypeOK, IoClose, CloseFd, IoClosed
  <1>5. ASSUME NEW c \in Conn, CleanClose(c), x = old[c]
        PROVE  closes'[x] = closes[x] + 1 /\ ~RetirerClosed(x) /\ RetirerClosed(x)'
    <2>1. closes'[x] = closes[x] + 1
      BY <1>5 DEF IInv, TypeOK, CleanClose, CloseFd
    <2>2. ~RetirerClosed(x)
      BY <1>5, SessionsAssumption
      DEF IInv, TypeOK, CleanClose, RetirerClosed, Held, References, StopPhases
    <2>3. RetirerClosed(x)'
      BY <1>5 DEF IInv, TypeOK, CleanClose, RetirerClosed
    <2> QED
      BY <2>1, <2>2, <2>3
  <1>6. ASSUME StopClose, x = cur
        PROVE  closes'[x] = closes[x] + 1 /\ ~RetirerClosed(x) /\ RetirerClosed(x)'
    BY <1>6 DEF IInv, TypeOK, StopClose, CloseFd, RetirerClosed, Held, References, StopPhases
  <1>7. ASSUME NEW c \in Conn, IoClose(c), x # c PROVE closes'[x] = closes[x]
    BY <1>7 DEF IInv, TypeOK, IoClose, CloseFd
  <1>8. ASSUME NEW c \in Conn, CleanClose(c), x # old[c] PROVE closes'[x] = closes[x]
    BY <1>8 DEF IInv, TypeOK, CleanClose, CloseFd
  <1>9. ASSUME StopClose, x # cur PROVE closes'[x] = closes[x]
    BY <1>9 DEF IInv, TypeOK, StopClose, CloseFd
  <1> QED
    BY <1>2, <1>3, <1>4, <1>5, <1>6, <1>7, <1>8, <1>9, OthersDoNotClose

\* A descriptor is closed at most twice: by its own io thread and by the one
\* thread that retires the session.
THEOREM AtMostTwoClosesTheorem == Spec => []AtMostTwoCloses
  <1>1. Init => CloseCount
    BY DEF Init, CloseCount
  <1>2. IInv /\ CloseCount /\ [Next]_vars => CloseCount'
    BY CloseCountStep
  <1>3. CloseCount => AtMostTwoCloses
    BY DEF CloseCount, AtMostTwoCloses
  <1> QED
    BY <1>1, <1>2, <1>3, Inductive, PTL DEF Spec

-----------------------------------------------------------------------------
(* What was given up does not come back.                                   *)

\* The socket of a connection that is not a session yet.
Sockets ==
  \A c \in Conn :
    /\ pc[c] \in {"none", "connect"} => fd[c] = "none"
    /\ pc[c] \in {"identity", "check", "handshake", "spawn"} => fd[c] = "scoped"

\* A handler owns its ScopedFd until the session takes the socket over.
LEMMA SocketsStep ==
  ASSUME IInv, Sockets, [Next]_vars
  PROVE  Sockets'
  <1> USE DEF IInv, TypeOK, Sockets, connVars, sessVars
  <1>1. ASSUME NEW c \in Conn, HandlerStep(c), ~CleanClose(c) PROVE Sockets'
    BY <1>1 DEF HandlerStep, ReadIdentity, Connect, CheckConnected, GiveUp, Goto, StartIo, Publish,
                CleanMark, CleanFdCheck, CleanJoin, CleanFree, Announce
  <1>2. ASSUME NEW c \in Conn, CleanClose(c) PROVE Sockets'
    BY <1>2 DEF CleanClose, CloseFd, References, Published, Cleaning, Phases, Early
  <1>3. ASSUME NEW c \in Conn, NetSpawn(c) \/ Handshake(c) \/ OutOfMemory(c) PROVE Sockets'
    BY <1>3 DEF NetSpawn, OutOfMemory, NetAccept, NetDiscover, Pend, Handshake, GiveUp, Goto
  <1>4. ASSUME NEW c \in Conn, IoStep(c) \/ IoPeer(c), ~IoClose(c) PROVE Sockets'
    BY <1>4 DEF IoStep, IoPeer, IoLeave, IoPush, IoMark, IoFdCheck, IoFree,
                IoReadable, IoError, IoHandle, IoReadFail, IoGoto
  <1>5. ASSUME NEW c \in Conn, IoClose(c) PROVE Sockets'
    BY <1>5 DEF IoClose, CloseFd, Phases, Early
  <1>6. ASSUME NEW c \in Conn, NEW u \in Upload, IoUpload(c, u) PROVE Sockets'
    BY <1>6 DEF IoUpload
  <1>7. CASE StopStep /\ ~StopClose
    BY <1>7 DEF StopStep, StopJoinNet, StopLock, StopJoinPending, StopCollect, StopFdCheck,
                StopJoin, StopFree, StopDone, StopNext, StopGoto
  <1>8. CASE StopClose
    BY <1>8 DEF StopClose, CloseFd, StopPhases, References, Published, Phases, Early
  <1>9. CASE NetStep \/ StopBegin \/ \E u \in Upload : UploadEnd(u)
    BY <1>9 DEF NetStep, NetCheck, NetPoll, NetFail, NetUdpNone, NetGoto, StopBegin, UploadEnd
  <1>10. CASE UNCHANGED vars
    BY <1>10 DEF vars
  <1> QED
    BY <1>1, <1>2, <1>3, <1>4, <1>5, <1>6, <1>7, <1>8, <1>9, <1>10 DEF Next, Terminated

\* What NoResurrection says of a step.
KeepsDown ==
  \A c \in Conn : /\ disc[c] => disc'[c]
                  /\ fd[c] = "closed" => fd'[c] = "closed"
                  /\ tls[c] = "freed" => tls'[c] = "freed"

\* No step of any thread takes back disconnected, a closed socket or a freed
\* TLS context.
LEMMA KeepsDownStep ==
  ASSUME IInv, Sockets, [Next]_vars
  PROVE  KeepsDown
  <1> USE DEF IInv, TypeOK, KeepsDown, connVars, sessVars
  <1>1. ASSUME NEW c \in Conn, HandlerStep(c) PROVE KeepsDown
    <2>1. CASE ReadIdentity(c) \/ Connect(c) \/ CheckConnected(c)
      BY <2>1 DEF ReadIdentity, Connect, CheckConnected, GiveUp, Goto, Sockets
    <2>2. CASE StartIo(c)
      BY <2>2 DEF StartIo, Sockets, Phases, Early
    <2>3. CASE Publish(c) \/ Announce(c)
      BY <2>3 DEF Publish, Announce
    <2>4. CASE CleanMark(c) \/ CleanFdCheck(c) \/ CleanClose(c) \/ CleanJoin(c) \/ CleanFree(c)
      BY <2>4 DEF CleanMark, CleanFdCheck, CleanClose, CloseFd, CleanJoin, CleanFree, Goto
    <2> QED
      BY <1>1, <2>1, <2>2, <2>3, <2>4 DEF HandlerStep
  <1>2. ASSUME NEW c \in Conn, NetSpawn(c) \/ Handshake(c) \/ OutOfMemory(c) PROVE KeepsDown
    BY <1>2 DEF NetSpawn, OutOfMemory, NetAccept, NetDiscover, Pend, Handshake, GiveUp, Goto, Sockets
  <1>3. ASSUME NEW c \in Conn, IoStep(c) \/ IoPeer(c) PROVE KeepsDown
    BY <1>3 DEF IoStep, IoPeer, IoLeave, IoPush, IoMark, IoFdCheck, IoClose, CloseFd, IoFree,
                IoReadable, IoError, IoHandle, IoReadFail, IoGoto
  <1>4. ASSUME NEW c \in Conn, NEW u \in Upload, IoUpload(c, u) PROVE KeepsDown
    BY <1>4 DEF IoUpload
  <1>5. CASE StopStep
    BY <1>5 DEF StopStep, StopJoinNet, StopLock, StopJoinPending, StopCollect, StopFdCheck,
                StopClose, CloseFd, StopJoin, StopFree, StopDone, StopNext, StopGoto
  <1>6. CASE NetStep \/ StopBegin \/ \E u \in Upload : UploadEnd(u)
    BY <1>6 DEF NetStep, NetCheck, NetPoll, NetFail, NetUdpNone, NetGoto, StopBegin, UploadEnd
  <1>7. CASE UNCHANGED vars
    BY <1>7 DEF vars
  <1> QED
    BY <1>1, <1>2, <1>3, <1>4, <1>5, <1>6, <1>7 DEF Next, Terminated

\* A disconnected session stays disconnected, a closed socket closed and a
\* freed TLS context freed.
THEOREM NoResurrectionTheorem == Spec => NoResurrection
  <1>1. Init => Sockets
    BY DEF Init, Sockets
  <1>2. IInv /\ Sockets /\ [Next]_vars => Sockets'
    BY SocketsStep
  <1>3. IInv /\ Sockets /\ [Next]_vars => [KeepsDown]_vars
    BY KeepsDownStep
  <1>4. Spec => [][KeepsDown]_vars
    BY <1>1, <1>2, <1>3, Inductive, PTL DEF Spec
  <1> QED
    BY <1>4 DEF NoResurrection, KeepsDown

=============================================================================
