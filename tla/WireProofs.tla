------------------------------ MODULE WireProofs ------------------------------
(***************************************************************************)
(* What the packets of the application travel by promises, proved for      *)
(* every length of the lines and records, and every number of packets,     *)
(* losses, crashes, devices, moves, files and blocks; and first, what the  *)
(* application itself promises, for any set of clients.  Each part has an  *)
(* inductive invariant of its own, and a step of one leaves the variables  *)
(* of the others alone, so that the invariant of each is one of the whole. *)
(***************************************************************************)
EXTENDS Application, MCWire, TLAPS, WellFoundedInduction, FiniteSetTheorems, SequenceTheorems

(* Application: clients that are replaced while commands use them, for any  *)
(* set of clients.                                                          *)

\* client_ and a command under way are references to a client.
Uses(c) == (IF slot = c THEN 1 ELSE 0) + (IF ipc = "command" /\ held = c THEN 1 ELSE 0)

Lives(c) == state[c] \in {"made", "running", "failed"}

ByMain(c) == main = "destroy" /\ dying = c
ByIpc(c) == ipc = "destroy" /\ held = c

\* A client lives on one reference or more, and each of its references is one of those
\* that use it, counted or not; one that is being destroyed has a thread that does it.
Owned ==
  \A c \in Client :
    /\ Lives(c) => refs[c] >= 1 /\ refs[c] <= Uses(c)
    /\ state[c] = "closing" => ByMain(c) \/ ByIpc(c)

\* As long as no count was revived, all that use a client are counted, it lives
\* exactly as long as one does, and one thread destroys it.
Counted ==
  ~revived => \A c \in Client :
    /\ refs[c] = Uses(c)
    /\ refs[c] >= 1 <=> Lives(c)
    /\ ByMain(c) \/ ByIpc(c) => state[c] = "closing"
    /\ ~(ByMain(c) /\ ByIpc(c))

\* Between reset() and make_shared client_ is null.
Replacing == main \in {"destroy", "make"} => slot = NoClient /\ (main = "destroy" => dying \in Client)

IInv == TypeOK /\ Owned /\ Counted /\ Replacing

-----------------------------------------------------------------------------

\* The constructor leaves no client behind before the first is made.
LEMMA InitIInv == Init => IInv
  <1> SUFFICES ASSUME Init PROVE IInv
    OBVIOUS
  <1>0. refs \in [Client -> Int] /\ needs \in [Client -> BOOLEAN]
        /\ state \in [Client -> {"gone", "made", "running", "failed", "closing"}]
    BY DEF Init
  <1>1. TypeOK /\ Replacing
    BY <1>0, ApplicationAssumption DEF Init, TypeOK, Replacing, MainPc, IpcPc
  <1>2. \A c \in Client : refs[c] = 0 /\ state[c] = "gone" /\ Uses(c) = 0 /\ ~ByMain(c) /\ ~ByIpc(c)
    BY ApplicationAssumption DEF Init, Uses, ByMain, ByIpc
  <1> QED
    BY <1>1, <1>2 DEF IInv, Owned, Counted, Lives

\* A reference that is dropped is a use less; the last one ends the client's life.
LEMMA DropKeeps ==
  ASSUME IInv, NEW c \in Client, Uses(c)' = Uses(c) - 1, Drop(c), revived' = revived,
         \A d \in Client \ {c} : Uses(d)' = Uses(d) /\ (ByMain(d)' <=> ByMain(d)) /\ (ByIpc(d)' <=> ByIpc(d)),
         MustStop(c) => ByMain(c)' \/ ByIpc(c)',
         ~MustStop(c) => (ByMain(c)' <=> ByMain(c)) /\ (ByIpc(c)' <=> ByIpc(c)),
         ~(ByMain(c) /\ ~ByMain(c)') /\ ~(ByIpc(c) /\ ~ByIpc(c)'),
         ~(ByMain(c)' /\ ~ByMain(c) /\ ByIpc(c)' /\ ~ByIpc(c)),
         ~revived => Uses(c) >= 1
  PROVE  Owned' /\ Counted' /\ refs' \in [Client -> Int] /\ state' \in [Client -> {"gone", "made", "running", "failed", "closing"}]
  <1>1. /\ refs \in [Client -> Int] /\ state \in [Client -> {"gone", "made", "running", "failed", "closing"}]
        /\ \A d \in Client : Uses(d) \in {0, 1, 2}
    BY DEF IInv, TypeOK, Uses
  <1>2. /\ refs' \in [Client -> Int] /\ refs'[c] = refs[c] - 1
        /\ \A d \in Client \ {c} : refs'[d] = refs[d]
    BY <1>1 DEF Drop
  <1>3. /\ state' \in [Client -> {"gone", "made", "running", "failed", "closing"}]
        /\ \A d \in Client \ {c} : state'[d] = state[d]
        /\ refs[c] # 1 => state'[c] = state[c]
        /\ refs[c] = 1 /\ state[c] \in {"running", "closing"} => state'[c] = "closing"
        /\ refs[c] = 1 /\ state[c] \notin {"running", "closing"} => state'[c] = "gone"
    BY <1>1 DEF Drop
  <1>4. \A d \in Client \ {c} :
          /\ Lives(d)' => refs'[d] >= 1 /\ refs'[d] <= Uses(d)'
          /\ state'[d] = "closing" => ByMain(d)' \/ ByIpc(d)'
    BY <1>2, <1>3 DEF IInv, Owned, Lives
  <1>5. /\ Lives(c)' => refs'[c] >= 1 /\ refs'[c] <= Uses(c)'
        /\ state'[c] = "closing" => ByMain(c)' \/ ByIpc(c)'
    <2>1. CASE refs[c] = 1
      BY <1>1, <1>3, <2>1 DEF Lives, MustStop
    <2>2. CASE refs[c] # 1
      <3>1. ~MustStop(c) /\ state'[c] = state[c]
        BY <1>3, <2>2 DEF MustStop
      <3>2. Lives(c) => refs[c] >= 1 /\ refs[c] <= Uses(c)
        BY DEF IInv, Owned
      <3>3. state[c] = "closing" => ByMain(c) \/ ByIpc(c)
        BY DEF IInv, Owned
      <3>4. Lives(c)' <=> Lives(c)
        BY <3>1 DEF Lives
      <3>5. Lives(c) => refs'[c] >= 1 /\ refs'[c] <= Uses(c)'
        BY <1>1, <1>2, <2>2, <3>2
      <3> QED
        BY <3>1, <3>3, <3>4, <3>5
    <2> QED
      BY <2>1, <2>2
  <1>6. Owned'
    BY <1>4, <1>5 DEF Owned
  <1>7. ASSUME ~revived
        PROVE  \A d \in Client : /\ refs'[d] = Uses(d)'
                                 /\ refs'[d] >= 1 <=> Lives(d)'
                                 /\ ByMain(d)' \/ ByIpc(d)' => state'[d] = "closing"
                                 /\ ~(ByMain(d)' /\ ByIpc(d)')
    <2>1. \A d \in Client : /\ refs[d] = Uses(d)
                            /\ refs[d] >= 1 <=> Lives(d)
                            /\ ByMain(d) \/ ByIpc(d) => state[d] = "closing"
                            /\ ~(ByMain(d) /\ ByIpc(d))
      BY <1>7 DEF IInv, Counted
    <2>2. Lives(c) /\ ~ByMain(c) /\ ~ByIpc(c)
      BY <1>1, <1>7, <2>1 DEF Lives
    <2>3. ASSUME NEW d \in Client \ {c}
          PROVE  /\ refs'[d] = Uses(d)'
                 /\ refs'[d] >= 1 <=> Lives(d)'
                 /\ ByMain(d)' \/ ByIpc(d)' => state'[d] = "closing"
                 /\ ~(ByMain(d)' /\ ByIpc(d)')
      BY <1>2, <1>3, <2>1, <2>3 DEF Lives
    <2>4. refs'[c] = Uses(c)'
      BY <1>1, <1>2, <2>1
    <2>5. CASE refs[c] = 1
      <3>1. refs'[c] = 0 /\ ~Lives(c)'
        BY <1>2, <1>3, <2>5 DEF Lives
      <3>2. MustStop(c) => state'[c] = "closing"
        BY <1>3 DEF MustStop
      <3>3. ByMain(c)' \/ ByIpc(c)' => MustStop(c)
        BY <2>2
      <3> QED
        BY <2>2, <2>3, <2>4, <3>1, <3>2, <3>3
    <2>6. CASE refs[c] # 1
      <3>1. ~MustStop(c) /\ state'[c] = state[c]
        BY <1>3, <2>6 DEF MustStop
      <3>2. refs'[c] >= 1 /\ Lives(c)'
        <4>1. refs[c] >= 1
          BY <2>1, <2>2
        <4> QED
          BY <1>1, <1>2, <2>2, <2>6, <3>1, <4>1 DEF Lives
      <3> QED
        BY <2>2, <2>3, <2>4, <3>1, <3>2
    <2> QED
      BY <2>5, <2>6
  <1> QED
    BY <1>2, <1>3, <1>6, <1>7 DEF Counted

\* What main does keeps the invariant (processEvents, restart_client).
LEMMA MainKeeps == IInv /\ MainStep => IInv'
  <1> SUFFICES ASSUME IInv, MainStep PROVE IInv'
    OBVIOUS
  <1>0. /\ TypeOK /\ Owned /\ Counted /\ Replacing
    BY DEF IInv
  <1>1. CASE CheckNeeds \/ CheckOnline \/ StartDestroyed
    <2>1. /\ UNCHANGED <<slot, dying, ipc, held, state, refs, needs, udp, revived, online, cool>>
          /\ wasOnline' \in {wasOnline, online}
          /\ main \in {"needs", "online", "start"} /\ main' \in {"needs", "online", "reset"} /\ ret' \in {"needs", "online"}
      BY <1>0, <1>1 DEF CheckNeeds, CheckOnline, StartDestroyed, Restart, TypeOK, ipcVars, clientVars, worldVars
    <2>2. TypeOK' /\ Replacing'
      BY <1>0, <2>1 DEF TypeOK, Replacing, MainPc
    <2>3. \A c \in Client : Uses(c)' = Uses(c) /\ ByMain(c)' = ByMain(c) /\ ByIpc(c)' = ByIpc(c) /\ Lives(c)' = Lives(c)
      BY <2>1 DEF Uses, ByMain, ByIpc, Lives
    <2>4. Owned' /\ Counted'
      BY <1>0, <2>1, <2>3 DEF Owned, Counted
    <2> QED
      BY <2>2, <2>4 DEF IInv
  <1>4. CASE Reset
    <2>1. PICK c \in Client :
            /\ c = slot /\ main = "reset" /\ slot' = NoClient /\ Drop(c)
            /\ IF MustStop(c) THEN main' = "destroy" /\ dying' = c ELSE main' = "make" /\ dying' = NoClient
            /\ UNCHANGED <<ret, ipc, held, needs, udp, revived, online, wasOnline>>
            /\ cool' = FALSE
      BY <1>0, <1>4 DEF Reset, TypeOK, ipcVars
    <2>2. Uses(c)' = Uses(c) - 1 /\ \A d \in Client \ {c} : Uses(d)' = Uses(d)
      BY <2>1, ApplicationAssumption DEF Uses
    <2>3. Uses(c) >= 1
      BY <2>1 DEF Uses
    <2>4. /\ \A d \in Client : ~ByMain(d) /\ (ByIpc(d)' <=> ByIpc(d))
          /\ \A d \in Client \ {c} : ~ByMain(d)'
          /\ ByMain(c)' <=> MustStop(c)
      <3>1. main # "destroy" /\ ipc' = ipc /\ held' = held
        BY <2>1
      <3>2. CASE MustStop(c)
        <4>1. main' = "destroy" /\ dying' = c
          BY <2>1, <3>2
        <4> QED
          BY <3>1, <3>2, <4>1 DEF ByMain, ByIpc
      <3>3. CASE ~MustStop(c)
        <4>1. main' = "make"
          BY <2>1, <3>3
        <4> QED
          BY <3>1, <3>3, <4>1 DEF ByMain, ByIpc
      <3> QED
        BY <3>2, <3>3
    <2>5. Owned' /\ Counted' /\ refs' \in [Client -> Int] /\ state' \in [Client -> {"gone", "made", "running", "failed", "closing"}]
      <3>1. Drop(c) /\ revived' = revived
        BY <2>1
      <3>2. /\ \A d \in Client \ {c} : Uses(d)' = Uses(d) /\ (ByMain(d)' <=> ByMain(d)) /\ (ByIpc(d)' <=> ByIpc(d))
            /\ MustStop(c) => ByMain(c)' \/ ByIpc(c)'
            /\ ~MustStop(c) => (ByMain(c)' <=> ByMain(c)) /\ (ByIpc(c)' <=> ByIpc(c))
            /\ ~(ByMain(c) /\ ~ByMain(c)') /\ ~(ByIpc(c) /\ ~ByIpc(c)')
            /\ ~(ByMain(c)' /\ ~ByMain(c) /\ ByIpc(c)' /\ ~ByIpc(c))
        BY <2>2, <2>4
      <3> QED
        BY <2>2, <2>3, <3>1, <3>2, DropKeeps
    <2>6. TypeOK' /\ Replacing'
      BY <1>0, <2>1, <2>5, ApplicationAssumption DEF TypeOK, Replacing, MainPc
    <2> QED
      BY <2>5, <2>6 DEF IInv
  <1>5. CASE MainDestroyed
    <2>1. /\ main = "destroy" /\ main' = "make" /\ dying \in Client /\ slot = NoClient /\ dying' = NoClient
          /\ state' = [state EXCEPT ![dying] = "gone"]
          /\ udp' \in {udp, NoClient}
          /\ UNCHANGED <<ret, slot, ipc, held, refs, needs, revived, online, wasOnline, cool>>
      BY <1>0, <1>5 DEF MainDestroyed, Destroyed, Replacing, ipcVars, worldVars
    <2>2. TypeOK' /\ Replacing'
      BY <1>0, <2>1 DEF TypeOK, Replacing, MainPc
    <2>3. \A c \in Client : Uses(c)' = Uses(c) /\ ~ByMain(c)' /\ ByIpc(c)' = ByIpc(c)
      BY <2>1 DEF Uses, ByMain, ByIpc
    <2>4. \A c \in Client : state'[c] = IF c = dying THEN "gone" ELSE state[c]
      BY <1>0, <2>1 DEF TypeOK
    <2>5. ByMain(dying) /\ \A c \in Client \ {dying} : ~ByMain(c)
      BY <2>1 DEF ByMain
    <2>6. Owned' /\ Counted'
      BY <1>0, <2>1, <2>3, <2>4, <2>5 DEF Owned, Counted, Lives
    <2> QED
      BY <2>2, <2>6 DEF IInv
  <1>6. ASSUME NEW c \in Client, Make(c) PROVE IInv'
    <2>1. /\ main = "make" /\ slot = NoClient /\ state[c] = "gone" /\ slot' = c /\ main' = "start"
          /\ state' = [state EXCEPT ![c] = "made"] /\ refs' = [refs EXCEPT ![c] = 1]
          /\ needs' = [needs EXCEPT ![c] = FALSE]
          /\ UNCHANGED <<ret, dying, ipc, held, udp, revived, online, wasOnline, cool>>
      BY <1>0, <1>6 DEF Make, Replacing, ipcVars, worldVars
    <2>2. TypeOK' /\ Replacing'
      BY <1>0, <2>1 DEF TypeOK, Replacing, MainPc
    <2>3. /\ \A d \in Client : Uses(d) \in {0, 1, 2} /\ ~ByMain(d) /\ ~ByMain(d)' /\ ByIpc(d)' = ByIpc(d)
          /\ Uses(c)' = Uses(c) + 1 /\ \A d \in Client \ {c} : Uses(d)' = Uses(d)
      BY <2>1, ApplicationAssumption DEF Uses, ByMain, ByIpc
    <2>4. /\ state'[c] = "made" /\ refs'[c] = 1
          /\ \A d \in Client \ {c} : state'[d] = state[d] /\ refs'[d] = refs[d]
      BY <1>0, <2>1 DEF TypeOK
    <2>5. Owned'
      BY <1>0, <2>1, <2>3, <2>4 DEF Owned, Lives
    <2>6. ASSUME ~revived PROVE refs[c] = 0 /\ Uses(c) = 0 /\ ~ByIpc(c)
      <3>1. refs[c] = Uses(c) /\ ~(refs[c] >= 1) /\ ~ByIpc(c)
        BY <1>0, <2>1, <2>6 DEF Counted, Lives
      <3> QED
        BY <2>3, <3>1
    <2>7. Counted'
      BY <1>0, <2>1, <2>3, <2>4, <2>6 DEF Counted, Lives
    <2> QED
      BY <2>2, <2>5, <2>7 DEF IInv
  <1>7. CASE StartOk \/ StartFails
    <2>1. /\ main = "start" /\ slot \in Client /\ state[slot] = "made" /\ main' = ret /\ ret' = "needs"
          /\ state' = [state EXCEPT ![slot] = "running"] \/ state' = [state EXCEPT ![slot] = "failed"]
          /\ needs' = needs \/ needs' = [needs EXCEPT ![slot] = TRUE]
          /\ udp' \in {udp, slot}
          /\ UNCHANGED <<slot, dying, ipc, held, refs, revived, online, wasOnline, cool>>
      BY <1>0, <1>7 DEF StartOk, StartFails, TypeOK, ipcVars, worldVars
    <2>2. state' \in [Client -> {"gone", "made", "running", "failed", "closing"}] /\ needs' \in [Client -> BOOLEAN]
      BY <1>0, <2>1 DEF TypeOK
    <2>3. TypeOK' /\ Replacing'
      BY <1>0, <2>1, <2>2 DEF TypeOK, Replacing, MainPc
    <2>4. \A c \in Client : Uses(c)' = Uses(c) /\ ~ByMain(c) /\ ~ByMain(c)' /\ ByIpc(c)' = ByIpc(c)
      BY <1>0, <2>1 DEF Uses, ByMain, ByIpc, TypeOK
    <2>5. \A c \in Client : (Lives(c)' = Lives(c)) /\ (state'[c] = "closing" <=> state[c] = "closing")
      BY <1>0, <2>1 DEF Lives, TypeOK
    <2>6. Owned' /\ Counted'
      BY <1>0, <2>1, <2>4, <2>5 DEF Owned, Counted
    <2> QED
      BY <2>3, <2>6 DEF IInv
  <1> QED
    BY <1>1, <1>4, <1>5, <1>6, <1>7 DEF MainStep

\* What the IPC thread does with its copy keeps the invariant
\* (handle_command).
LEMMA IpcKeeps == IInv /\ (IpcCopy \/ IpcStep) => IInv'
  <1> SUFFICES ASSUME IInv, IpcCopy \/ IpcStep PROVE IInv'
    OBVIOUS
  <1>0. /\ TypeOK /\ Owned /\ Counted /\ Replacing
    BY DEF IInv
  <1>1. CASE IpcCopy
    <2>1. /\ ipc = "wait" /\ slot \in Client /\ ipc' = "copy" /\ held' = slot
          /\ UNCHANGED <<main, ret, slot, dying, state, refs, needs, udp, revived, online, wasOnline, cool>>
      BY <1>0, <1>1 DEF IpcCopy, TypeOK, mainVars, clientVars, worldVars
    <2>2. TypeOK' /\ Replacing'
      BY <1>0, <2>1 DEF TypeOK, Replacing, IpcPc
    <2>3. \A c \in Client : Uses(c)' = Uses(c) /\ ByMain(c)' = ByMain(c) /\ ByIpc(c)' = ByIpc(c) /\ Lives(c)' = Lives(c)
      BY <2>1 DEF Uses, ByMain, ByIpc, Lives
    <2>4. Owned' /\ Counted'
      BY <1>0, <2>1, <2>3 DEF Owned, Counted
    <2> QED
      BY <2>2, <2>4 DEF IInv
  <1>2. CASE IpcRef
    <2>1. /\ ipc = "copy" /\ held \in Client /\ ipc' = "command" /\ refs' = [refs EXCEPT ![held] = @ + 1]
          /\ revived' = (revived \/ state[held] \in {"gone", "closing"})
          /\ UNCHANGED <<main, ret, slot, dying, held, state, needs, udp, online, wasOnline, cool>>
      BY <1>0, <1>2 DEF IpcRef, TypeOK, mainVars, worldVars
    <2>2. /\ refs' \in [Client -> Int] /\ refs'[held] = refs[held] + 1
          /\ \A c \in Client \ {held} : refs'[c] = refs[c]
      BY <1>0, <2>1 DEF TypeOK
    <2>3. TypeOK' /\ Replacing'
      BY <1>0, <2>1, <2>2 DEF TypeOK, Replacing, IpcPc
    <2>4. /\ \A c \in Client : Uses(c) \in {0, 1, 2} /\ refs[c] \in Int
          /\ Uses(held)' = Uses(held) + 1 /\ \A c \in Client \ {held} : Uses(c)' = Uses(c)
          /\ \A c \in Client : ByMain(c)' = ByMain(c) /\ ByIpc(c)' = ByIpc(c) /\ Lives(c)' = Lives(c)
      BY <1>0, <2>1 DEF Uses, ByMain, ByIpc, Lives, TypeOK
    <2>5. Owned'
      BY <1>0, <2>1, <2>2, <2>4 DEF Owned
    <2>6. ASSUME ~revived' PROVE ~revived /\ Lives(held)
      BY <1>0, <2>1, <2>6 DEF Lives, TypeOK
    <2>7. Counted'
      BY <1>0, <2>1, <2>2, <2>4, <2>6 DEF Counted
    <2> QED
      BY <2>3, <2>5, <2>7 DEF IInv
  <1>3. CASE IpcEnd
    <2>1. PICK c \in Client :
            /\ c = held /\ ipc = "command" /\ Drop(c)
            /\ IF MustStop(c) THEN ipc' = "destroy" /\ held' = c ELSE ipc' = "wait" /\ held' = NoClient
            /\ UNCHANGED <<main, ret, slot, dying, needs, udp, revived, online, wasOnline, cool>>
      BY <1>0, <1>3 DEF IpcEnd, TypeOK, mainVars, worldVars
    <2>2. Uses(c)' = Uses(c) - 1 /\ \A d \in Client \ {c} : Uses(d)' = Uses(d)
      BY <2>1 DEF Uses
    <2>3. Uses(c) >= 1
      BY <2>1 DEF Uses
    <2>4. /\ \A d \in Client : ~ByIpc(d) /\ (ByMain(d)' <=> ByMain(d))
          /\ \A d \in Client \ {c} : ~ByIpc(d)'
          /\ ByIpc(c)' <=> MustStop(c)
      <3>1. ipc # "destroy" /\ main' = main /\ dying' = dying
        BY <2>1
      <3>2. CASE MustStop(c)
        <4>1. ipc' = "destroy" /\ held' = c
          BY <2>1, <3>2
        <4> QED
          BY <3>1, <3>2, <4>1 DEF ByMain, ByIpc
      <3>3. CASE ~MustStop(c)
        <4>1. ipc' = "wait"
          BY <2>1, <3>3
        <4> QED
          BY <3>1, <3>3, <4>1 DEF ByMain, ByIpc
      <3> QED
        BY <3>2, <3>3
    <2>5. Owned' /\ Counted' /\ refs' \in [Client -> Int] /\ state' \in [Client -> {"gone", "made", "running", "failed", "closing"}]
      <3>1. Drop(c) /\ revived' = revived
        BY <2>1
      <3>2. /\ \A d \in Client \ {c} : Uses(d)' = Uses(d) /\ (ByMain(d)' <=> ByMain(d)) /\ (ByIpc(d)' <=> ByIpc(d))
            /\ MustStop(c) => ByMain(c)' \/ ByIpc(c)'
            /\ ~MustStop(c) => (ByMain(c)' <=> ByMain(c)) /\ (ByIpc(c)' <=> ByIpc(c))
            /\ ~(ByMain(c) /\ ~ByMain(c)') /\ ~(ByIpc(c) /\ ~ByIpc(c)')
            /\ ~(ByMain(c)' /\ ~ByMain(c) /\ ByIpc(c)' /\ ~ByIpc(c))
        BY <2>2, <2>4
      <3> QED
        BY <2>2, <2>3, <3>1, <3>2, DropKeeps
    <2>6. TypeOK' /\ Replacing'
      BY <1>0, <2>1, <2>5, ApplicationAssumption DEF TypeOK, Replacing, IpcPc
    <2> QED
      BY <2>5, <2>6 DEF IInv
  <1>4. CASE IpcDestroyed
    <2>1. /\ ipc = "destroy" /\ held \in Client /\ ipc' = "wait" /\ held' = NoClient
          /\ state' = [state EXCEPT ![held] = "gone"]
          /\ udp' \in {udp, NoClient}
          /\ UNCHANGED <<main, ret, slot, dying, refs, needs, revived, online, wasOnline, cool>>
      BY <1>0, <1>4 DEF IpcDestroyed, Destroyed, TypeOK, mainVars, worldVars
    <2>2. TypeOK' /\ Replacing'
      BY <1>0, <2>1 DEF TypeOK, Replacing, IpcPc
    <2>3. \A c \in Client : Uses(c)' = Uses(c) /\ ByMain(c)' = ByMain(c) /\ ~ByIpc(c)'
      BY <2>1 DEF Uses, ByMain, ByIpc
    <2>4. \A c \in Client : state'[c] = IF c = held THEN "gone" ELSE state[c]
      BY <1>0, <2>1 DEF TypeOK
    <2>5. ByIpc(held) /\ \A c \in Client \ {held} : ~ByIpc(c)
      BY <2>1 DEF ByIpc
    <2>6. Owned' /\ Counted'
      BY <1>0, <2>1, <2>3, <2>4, <2>5 DEF Owned, Counted, Lives
    <2> QED
      BY <2>2, <2>6 DEF IInv
  <1> QED
    BY <1>1, <1>2, <1>3, <1>4 DEF IpcStep

\* So does everything else, a crash included.
LEMMA NextKeeps == IInv /\ [Next]_vars => IInv'
  <1> SUFFICES ASSUME IInv, [Next]_vars PROVE IInv'
    OBVIOUS
  <1>0. /\ TypeOK /\ Owned /\ Counted /\ Replacing
    BY DEF IInv
  <1>1. CASE (\E c \in Client : ListenerFails(c)) \/ Network \/ CoolDown \/ UNCHANGED vars
    <2>1. /\ UNCHANGED <<main, ret, slot, dying, ipc, held, state, refs, udp, revived, wasOnline>>
          /\ needs' \in [Client -> BOOLEAN] /\ online' \in BOOLEAN /\ cool' \in BOOLEAN
      BY <1>0, <1>1 DEF ListenerFails, Network, CoolDown, TypeOK, vars, mainVars, ipcVars, clientVars, worldVars
    <2>2. TypeOK' /\ Replacing'
      BY <1>0, <2>1 DEF TypeOK, Replacing
    <2>3. \A c \in Client : Uses(c)' = Uses(c) /\ ByMain(c)' = ByMain(c) /\ ByIpc(c)' = ByIpc(c) /\ Lives(c)' = Lives(c)
      BY <2>1 DEF Uses, ByMain, ByIpc, Lives
    <2>4. Owned' /\ Counted'
      BY <1>0, <2>1, <2>3 DEF Owned, Counted
    <2> QED
      BY <2>2, <2>4 DEF IInv
  <1>2. CASE Die
    <2>1. /\ revived /\ revived' = revived /\ ipc' = "crash" /\ held' = NoClient /\ main' = "make" /\ ret' = "needs"
          /\ slot' = NoClient /\ dying' = NoClient /\ udp' = NoClient
          /\ state' = [c \in Client |-> "gone"] /\ refs' = [c \in Client |-> 0]
          /\ needs' = [c \in Client |-> FALSE]
          /\ UNCHANGED <<online, wasOnline, cool>>
      BY <1>2 DEF Die, worldVars
    <2>2. TypeOK' /\ Replacing'
      BY <1>0, <2>1 DEF TypeOK, Replacing, MainPc, IpcPc
    <2>3. Owned' /\ Counted'
      BY <2>1 DEF Owned, Counted, Lives
    <2> QED
      BY <2>2, <2>3 DEF IInv
  <1> QED
    BY <1>1, <1>2, MainKeeps, IpcKeeps DEF Next

\* The invariant holds throughout.
LEMMA Inductive == Spec => []IInv
  BY InitIInv, NextKeeps, PTL DEF Spec

-----------------------------------------------------------------------------

\* Every variable keeps its type; in particular main never goes on with a null
\* client_, nor does a command (processEvents, handle_command).
THEOREM ApplicationTypeCorrect == Spec => []TypeOK
  <1>1. IInv => TypeOK
    BY DEF IInv
  <1> QED
    BY <1>1, Inductive, PTL

\* No client is leaked, whichever of main and the IPC thread drops it last, and as long as
\* no copy was counted after the last reference had gone, one of them destroys it and
\* nobody uses it any more (restart_client, handle_command).
THEOREM NoStrayTheorem == Spec => []NoStray
  <1>1. IInv => NoStray
    <2> SUFFICES ASSUME IInv, NEW c \in Client
                 PROVE  /\ Lives(c) => slot = c \/ (ipc = "command" /\ held = c)
                        /\ state[c] = "closing" => ByMain(c) \/ ByIpc(c)
                        /\ ~revived =>
                             /\ slot = c \/ (ipc = "command" /\ held = c) => state[c] \notin {"closing", "gone"}
                             /\ ByMain(c) \/ ByIpc(c) => state[c] = "closing"
                             /\ ~(ByMain(c) /\ ByIpc(c))
      BY DEF NoStray, Lives, ByMain, ByIpc
    <2>1. refs[c] \in Int /\ (Lives(c) => refs[c] >= 1 /\ refs[c] <= Uses(c))
      BY DEF IInv, TypeOK, Owned
    <2>2. ~(slot = c \/ (ipc = "command" /\ held = c)) => Uses(c) = 0
      BY DEF Uses
    <2>3. slot = c \/ (ipc = "command" /\ held = c) => Uses(c) >= 1
      BY DEF Uses
    <2>4. ~revived /\ Uses(c) >= 1 => Lives(c)
      BY DEF IInv, Counted
    <2>5. state[c] = "closing" => ByMain(c) \/ ByIpc(c)
      BY DEF IInv, Owned
    <2>6. ~revived => (ByMain(c) \/ ByIpc(c) => state[c] = "closing") /\ ~(ByMain(c) /\ ByIpc(c))
      BY DEF IInv, Counted
    <2> QED
      BY <2>1, <2>2, <2>3, <2>4, <2>5, <2>6 DEF Lives
  <1> QED
    BY <1>1, Inductive, PTL

-----------------------------------------------------------------------------

(* What goes over the wire.                                                 *)

\* There is a least number in a set of numbers: bind takes the first free port.
LEMMA FirstOfAll ==
  ASSUME NEW T, T \subseteq Nat, T # {}
  PROVE  \E x \in T : \A y \in T : x <= y
  <1> DEFINE R == OpToRel(<, Nat)
  <1>1. IsWellFoundedOn(R, Nat)
    BY NatLessThanWellFounded
  <1>2. \A x, y \in Nat : y < x => <<y, x>> \in R
    BY DEF OpToRel
  <1> HIDE DEF R
  <1>3. \E x \in T : \A y \in T : ~ (<<y, x>> \in R)
    BY <1>1, WFMin
  <1>4. PICK x \in T : \A y \in T : ~ (<<y, x>> \in R)
    BY <1>3
  <1>5. ASSUME NEW y \in T PROVE x <= y
    <2>1. x \in Nat /\ y \in Nat /\ ~ (y < x)
      BY <1>2, <1>4
    <2> QED
      BY <2>1
  <1> QED
    BY <1>5
-----------------------------------------------------------------------------

(* Framing: lines are handled whole, once and in order, and packets are sent so. *)

\* A byte of a line n, or its end, -n.
Byte == (-MaxLines .. MaxLines) \ {0}

\* What the peer may send after byte b: more of the line or its end, or the next line.
Follows(b, c) == IF b > 0 THEN c = b \/ c = -b ELSE c = 1 - b \/ c = b - 1

\* s goes on after byte b.
Chain(b, s) ==
  s # <<>> => Follows(b, s[1]) /\ \A i \in 1 .. Len(s) - 1 : Follows(s[i], s[i + 1])

\* The byte that was read last, and the one before each record that has arrived and
\* before what the peer has still to send.
LastRead == IF line = <<>> THEN 0 - Len(handled) ELSE Len(handled) + 1
Before(i) ==
  IF i = 1 THEN IF plain = <<>> THEN LastRead ELSE plain[Len(plain)]
  ELSE socket[i - 1][Len(socket[i - 1])]

FrameTypes ==
  /\ rest \in Seq(Byte) /\ plain \in Seq(Byte) /\ Len(plain) <= MaxRecord
  /\ socket \in Seq(Seq(Byte)) /\ \A i \in DOMAIN socket : Len(socket[i]) \in 1 .. MaxRecord
  /\ line \in Seq(Byte) /\ handled \in Seq(Seq(Byte)) /\ Len(handled) <= MaxLines
  /\ ioStep \in {"drain", "select", "read", "closed"} /\ cut \in BOOLEAN /\ crammed \in BOOLEAN

\* Nothing of what the peer sends is lost, wherever it is.
FrameBytes ==
  /\ Chain(LastRead, plain)
  /\ \A i \in DOMAIN socket : Chain(Before(i), socket[i])
  /\ Chain(Before(Len(socket) + 1), rest)

\* The line that is read is of one kind of byte, and those that were handled end.
FrameLines ==
  /\ \A i \in DOMAIN line : line[i] = Len(handled) + 1
  /\ Len(line) <= MaxPacket /\ (ioStep # "closed" => Len(line) < MaxPacket)
  /\ \A i \in DOMAIN handled : /\ handled[i] = Frames!Line(i, Len(handled[i]) - 1)
                               /\ Len(handled[i]) <= MaxPacket

\* The queue holds the packets after those that the peer got.
FrameQueue ==
  /\ queue \in Seq(Nat) /\ delivered \in Seq(Nat) /\ queued \in 0 .. MaxQueued
  /\ Len(delivered) + Len(queue) <= queued
  /\ ioStep # "closed" => Len(delivered) + Len(queue) = queued
  /\ \A i \in DOMAIN queue : queue[i] = queued - Len(queue) + i
  /\ \A i \in DOMAIN delivered : delivered[i] = i

FrameInv == FrameTypes /\ FrameBytes /\ FrameLines /\ FrameQueue

\* What the peer sends is lines, whatever their lengths.
LEMMA LinesFollow ==
  ASSUME NEW ends \in Frames!LineEnds
  PROVE  Frames!Lines(ends) \in Seq(Byte) /\ Chain(0, Frames!Lines(ends))
  <1> DEFINE n == ends[MaxLines]
             L(i) == Frames!LineOf(ends, i)
             s == Frames!Lines(ends)
  <1>1. /\ MaxLines \in Nat /\ MaxPacket \in Nat /\ ends \in [0 .. MaxLines -> Nat]
        /\ ends[0] = 0 /\ \A m \in 1 .. MaxLines : ends[m] - ends[m - 1] \in 1 .. MaxPacket + 1
    <2>1. MaxLines \in Nat /\ MaxPacket \in Nat
      BY WireAssumption
    <2>2. 0 .. MaxLines * (MaxPacket + 1) \subseteq Nat
      BY <2>1
    <2> QED
      BY <2>1, <2>2 DEF Frames!LineEnds
  <1>2. n \in Nat /\ \A m \in 0 .. MaxLines : ends[m] \in Nat
    BY <1>1
  <1>3. ASSUME NEW i \in 1 .. n
        PROVE  /\ L(i) \in 1 .. MaxLines /\ i <= ends[L(i)]
               /\ \A m \in 1 .. MaxLines : i <= ends[m] => L(i) <= m
    <2> DEFINE T == {m \in 1 .. MaxLines : i <= ends[m]}
    <2>1. MaxLines \in T
      <3>1. MaxLines # 0
        BY <1>1, <1>3
      <3> QED
        BY <1>1, <1>2, <1>3, <3>1
    <2>2. T \subseteq Nat
      BY <1>1
    <2>3. PICK m \in T : \A k \in T : m <= k
      BY <2>1, <2>2, FirstOfAll
    <2>4. \E k \in 1 .. MaxLines : i <= ends[k] /\ \A j \in 1 .. MaxLines : i <= ends[j] => k <= j
      BY <2>3
    <2> QED
      BY <2>4 DEF Frames!LineOf
  <1> HIDE DEF L
  <1>4. s = [i \in 1 .. n |-> IF i = ends[L(i)] THEN -L(i) ELSE L(i)]
    BY DEF Frames!Lines, L
  <1> HIDE DEF s
  <1>5. \A i \in 1 .. n : L(i) \in Byte /\ -L(i) \in Byte
    BY <1>1, <1>3 DEF Byte
  <1>6. s \in Seq(Byte) /\ Len(s) = n
    <2>1. s \in [1 .. n -> Byte]
      BY <1>4, <1>5
    <2> QED
      BY <1>2, <2>1
  <1>7. s # <<>> => Follows(0, s[1])
    <2> SUFFICES ASSUME s # <<>> PROVE Follows(0, s[1])
      OBVIOUS
    <2>1. 1 \in 1 .. n
      BY <1>2, <1>6, EmptySeq
    <2>2. 1 <= ends[1] /\ 1 \in 1 .. MaxLines
      BY <1>1, <1>2, <1>3, <2>1
    <2>3. L(1) = 1
      <3>1. L(1) <= 1 /\ L(1) \in 1 .. MaxLines
        BY <1>3, <2>1, <2>2
      <3> QED
        BY <1>1, <3>1
    <2>4. s[1] = 1 \/ s[1] = -1
      BY <1>4, <2>1, <2>3
    <2> QED
      BY <2>4 DEF Follows
  <1>8. ASSUME NEW i \in 1 .. Len(s) - 1 PROVE Follows(s[i], s[i + 1])
    <2>1. i \in 1 .. n /\ i + 1 \in 1 .. n
      BY <1>2, <1>6
    <2>2. /\ L(i) \in 1 .. MaxLines /\ i <= ends[L(i)] /\ L(i + 1) \in 1 .. MaxLines /\ i + 1 <= ends[L(i + 1)]
          /\ \A m \in 1 .. MaxLines : i <= ends[m] => L(i) <= m
          /\ \A m \in 1 .. MaxLines : i + 1 <= ends[m] => L(i + 1) <= m
      BY <1>3, <2>1
    <2>3. ends[L(i)] \in Nat /\ ends[L(i + 1)] \in Nat /\ L(i) \in Nat /\ L(i + 1) \in Nat /\ L(i) # 0 /\ i \in Nat
      <3>2. \A k \in 1 .. MaxLines : k \in 0 .. MaxLines /\ k \in Nat /\ k # 0
        BY <1>1
      <3>3. L(i) \in 1 .. MaxLines /\ L(i + 1) \in 1 .. MaxLines
        BY <2>2
      <3>1. L(i) \in 0 .. MaxLines /\ L(i + 1) \in 0 .. MaxLines /\ L(i) \in Nat /\ L(i + 1) \in Nat /\ L(i) # 0
        BY <3>2, <3>3
      <3> QED
        BY <1>2, <2>1, <3>1
    <2>4. L(i) <= L(i + 1)
      BY <2>2, <2>3
    <2>5. s[i] = (IF i = ends[L(i)] THEN -L(i) ELSE L(i)) /\ s[i + 1] \in {L(i + 1), -L(i + 1)}
      BY <1>4, <2>1
    <2>6. CASE i = ends[L(i)]
      <3>1. L(i) # MaxLines
        <4>1. i + 1 <= n /\ i # n
          BY <1>2, <1>6
        <4> QED
          BY <2>6, <4>1
      <3>2. L(i) + 1 \in 1 .. MaxLines /\ i + 1 <= ends[L(i) + 1]
        <4>1. L(i) + 1 \in 1 .. MaxLines
          <5>1. L(i) <= MaxLines /\ MaxLines \in Nat
            BY <1>1, <2>2
          <5> QED
            BY <2>3, <3>1, <5>1
        <4>2. ends[L(i) + 1] - ends[L(i)] \in 1 .. MaxPacket + 1
          <5>1. (L(i) + 1) - 1 = L(i)
            BY <2>3
          <5> QED
            BY <1>1, <4>1, <5>1
        <4>3. ends[L(i) + 1] \in Nat
          BY <1>1, <1>2, <4>1
        <4>4. ends[L(i) + 1] - i >= 1
          BY <1>1, <2>6, <4>2
        <4>5. i + 1 <= ends[L(i) + 1]
          BY <2>3, <4>3, <4>4
        <4> QED
          BY <4>1, <4>5
      <3>3. L(i + 1) # L(i)
        BY <2>2, <2>3, <2>6
      <3>4. L(i + 1) = L(i) + 1
        BY <2>2, <2>3, <2>4, <3>2, <3>3
      <3> QED
        BY <2>3, <2>5, <2>6, <3>4 DEF Follows
    <2>7. CASE i # ends[L(i)]
      <3>1. i + 1 <= ends[L(i)]
        BY <2>2, <2>3, <2>7
      <3>2. L(i + 1) = L(i)
        BY <2>2, <2>3, <2>4, <3>1
      <3> QED
        BY <2>3, <2>5, <2>7, <3>2 DEF Follows
    <2> QED
      BY <2>6, <2>7
  <1> QED
    BY <1>6, <1>7, <1>8 DEF Chain, s

\* Nothing has arrived at the start.
LEMMA FrameInit == Frames!Init => FrameInv
  <1> SUFFICES ASSUME Frames!Init PROVE FrameInv
    OBVIOUS
  <1>0. MaxPacket \in Nat /\ MaxPacket # 0 /\ MaxRecord \in Nat /\ MaxLines \in Nat /\ MaxQueued \in Nat
    BY WireAssumption
  <1>1. socket = <<>> /\ plain = <<>> /\ line = <<>> /\ handled = <<>> /\ queue = <<>> /\ queued = 0 /\ delivered = <<>>
        /\ ioStep = "drain" /\ cut = FALSE /\ crammed = FALSE
    BY DEF Frames!Init
  <1>2. rest \in Seq(Byte) /\ Chain(0, rest)
    BY LinesFollow DEF Frames!Init
  <1>3. /\ <<>> \in Seq(Byte) /\ <<>> \in Seq(Seq(Byte)) /\ <<>> \in Seq(Nat) /\ Len(<<>>) = 0 /\ DOMAIN <<>> = {}
    OBVIOUS
  <1>4. FrameTypes
    <2>1. Len(plain) <= MaxRecord /\ Len(handled) <= MaxLines
      BY <1>0, <1>1, <1>3
    <2>2. \A i \in DOMAIN socket : Len(socket[i]) \in 1 .. MaxRecord
      BY <1>1, <1>3
    <2>3. plain \in Seq(Byte) /\ socket \in Seq(Seq(Byte)) /\ line \in Seq(Byte) /\ handled \in Seq(Seq(Byte))
      BY <1>1, <1>3
    <2> QED
      BY <1>1, <1>2, <2>1, <2>2, <2>3 DEF FrameTypes
  <1>5. FrameBytes
    <2>1. LastRead = 0 /\ Before(1) = 0
      <3>1. 0 - Len(handled) = 0
        <4>1. Len(handled) = 0
          BY <1>1, <1>3
        <4>2. \A x \in Nat : x = 0 => 0 - x = 0
          OBVIOUS
        <4> QED
          BY <4>1, <4>2
      <3> QED
        BY <1>1, <3>1 DEF LastRead, Before
    <2> QED
      BY <1>1, <1>2, <1>3, <2>1 DEF FrameBytes, Chain
  <1>6. FrameLines
    BY <1>0, <1>1, <1>3 DEF FrameLines
  <1>7. FrameQueue
    BY <1>0, <1>1, <1>3 DEF FrameQueue
  <1> QED
    BY <1>4, <1>5, <1>6, <1>7 DEF FrameInv

\* A step that touches no byte.
LEMMA BytesStay ==
  ASSUME FrameInv, UNCHANGED <<rest, socket, plain, line, handled>>
  PROVE  /\ FrameBytes'
         /\ (ioStep' # "closed" => ioStep # "closed") => FrameLines'
  <1>1. LastRead' = LastRead /\ \A i : Before(i)' = Before(i)
    BY DEF LastRead, Before
  <1>2. FrameBytes'
    BY <1>1 DEF FrameInv, FrameBytes
  <1> QED
    BY <1>2 DEF FrameInv, FrameLines

\* The queue is left alone.
LEMMA QueueStays ==
  ASSUME FrameInv, UNCHANGED <<queue, queued, delivered>>, ioStep' # "closed" => ioStep # "closed"
  PROVE  FrameQueue'
  BY DEF FrameInv, FrameQueue

\* A record arrives: the peer sends what comes next.
LEMMA FrameArrive == ASSUME FrameInv, Frames!Arrive PROVE FrameInv'
  <1>1. UNCHANGED <<plain, line, handled, queue, queued, delivered, ioStep, cut>>
    BY DEF Frames!Arrive
  <1>2. PICK n \in 1 .. MaxRecord :
          /\ n <= Len(rest) /\ socket' = Append(socket, SubSeq(rest, 1, n)) /\ rest' = SubSeq(rest, n + 1, Len(rest))
    BY DEF Frames!Arrive
  <1>3. crammed' \in BOOLEAN
    BY DEF Frames!Arrive, FrameInv, FrameTypes
  <1>4. /\ rest \in Seq(Byte) /\ Len(rest) \in Nat /\ socket \in Seq(Seq(Byte)) /\ Len(socket) \in Nat
        /\ n \in Nat /\ n # 0 /\ n <= MaxRecord /\ MaxRecord \in Nat /\ DOMAIN socket = 1 .. Len(socket)
    BY WireAssumption DEF FrameInv, FrameTypes
  <1>m. PICK m \in Nat : m = Len(socket)
    BY <1>4
  <1> DEFINE r == SubSeq(rest, 1, n)
             t == SubSeq(rest, n + 1, Len(rest))
  <1>5. \A i \in 1 .. Len(rest) : rest[i] \in Byte
    BY <1>4, ElementOfSeq
  <1>6. r \in Seq(Byte) /\ Len(r) = n /\ \A i \in 1 .. n : r[i] = rest[i]
    <2>1. \A i \in 1 .. n : rest[i] \in Byte
      BY <1>2, <1>4, <1>5
    <2> QED
      BY <1>4, <2>1, SubSeqProperties
  <1>7. t \in Seq(Byte) /\ Len(t) = Len(rest) - n /\ \A i \in 1 .. Len(rest) - n : t[i] = rest[n + i]
    <2>1. \A i \in n + 1 .. Len(rest) : rest[i] \in Byte
      BY <1>4, <1>5
    <2>2. /\ t \in Seq(Byte) /\ Len(t) = (IF n + 1 <= Len(rest) THEN Len(rest) - (n + 1) + 1 ELSE 0)
          /\ \A i \in 1 .. Len(rest) - (n + 1) + 1 : t[i] = rest[(n + 1) + i - 1]
      BY <1>4, <2>1, SubSeqProperties
    <2>3. \A i \in Int : (n + 1) + i - 1 = n + i
      BY <1>4
    <2>4. Len(rest) - (n + 1) + 1 = Len(rest) - n
      BY <1>4
    <2>5. \A i \in 1 .. Len(rest) - n : t[i] = rest[n + i]
      BY <2>2, <2>3, <2>4
    <2> QED
      BY <1>2, <1>4, <2>2, <2>5
  <1> HIDE DEF r, t
  <1>8. socket' = Append(socket, r) /\ rest' = t
    BY <1>2 DEF r, t
  <1>9. /\ socket' \in Seq(Seq(Byte)) /\ Len(socket') = m + 1 /\ DOMAIN socket' = 1 .. m + 1
        /\ socket'[m + 1] = r /\ \A i \in 1 .. m : socket'[i] = socket[i]
    BY <1>4, <1>m, <1>6, <1>8, AppendProperties
  <1>10. FrameTypes'
    <2>1. ASSUME NEW i \in DOMAIN socket' PROVE Len(socket'[i]) \in 1 .. MaxRecord
      <3>1. i = m + 1 \/ i \in 1 .. m
        BY <1>9
      <3>2. CASE i = m + 1
        BY <1>4, <1>6, <1>9, <3>2
      <3>3. CASE i \in 1 .. m
        BY <1>4, <1>m, <1>9, <3>3 DEF FrameInv, FrameTypes
      <3> QED
        BY <3>1, <3>2, <3>3
    <2> QED
      BY <1>1, <1>3, <1>7, <1>8, <1>9, <2>1 DEF FrameInv, FrameTypes
  <1>11. \A i \in 1 .. m + 1 : Before(i)' = Before(i)
    <2>1. LastRead' = LastRead
      BY <1>1 DEF LastRead
    <2>2. ASSUME NEW i \in 1 .. m + 1, i # 1 PROVE socket'[i - 1] = socket[i - 1]
      <3>1. i - 1 \in 1 .. m
        BY <2>2
      <3> QED
        BY <1>9, <3>1
    <2> QED
      BY <1>1, <2>1, <2>2 DEF Before
  <1>12. Before(m + 2)' = rest[n]
    <2>1. m + 2 # 1 /\ (m + 2) - 1 = m + 1
      BY <1>4
    <2>2. socket'[m + 1][Len(socket'[m + 1])] = rest[n]
      BY <1>4, <1>6, <1>9
    <2> QED
      BY <2>1, <2>2 DEF Before
  <1>13. Chain(Before(m + 1), rest) /\ \A i \in 1 .. m : Chain(Before(i), socket[i])
    BY <1>4, <1>m DEF FrameInv, FrameBytes
  <1>14. Follows(Before(m + 1), rest[1]) /\ \A i \in 1 .. Len(rest) - 1 : Follows(rest[i], rest[i + 1])
    <2>1. rest # <<>>
      BY <1>2, <1>4
    <2> QED
      BY <1>13, <2>1 DEF Chain
  <1>15. Chain(Before(m + 1), r)
    <2>1. r[1] = rest[1]
      BY <1>4, <1>6
    <2>2. \A i \in 1 .. n - 1 : i \in 1 .. Len(rest) - 1 /\ r[i] = rest[i] /\ r[i + 1] = rest[i + 1]
      BY <1>2, <1>4, <1>6
    <2> QED
      BY <1>6, <1>14, <2>1, <2>2 DEF Chain
  <1>16. Chain(rest[n], t)
    <2> SUFFICES ASSUME t # <<>> PROVE Chain(rest[n], t)
      BY DEF Chain
    <2>1. Len(t) # 0
      BY <1>7, EmptySeq
    <2>2. t[1] = rest[n + 1] /\ n \in 1 .. Len(rest) - 1
      BY <1>2, <1>4, <1>7, <2>1
    <2>3. \A i \in 1 .. Len(t) - 1 : n + i \in 1 .. Len(rest) - 1 /\ t[i] = rest[n + i] /\ t[i + 1] = rest[(n + i) + 1]
      <3> SUFFICES ASSUME NEW i \in 1 .. Len(t) - 1
                   PROVE  n + i \in 1 .. Len(rest) - 1 /\ t[i] = rest[n + i] /\ t[i + 1] = rest[(n + i) + 1]
        OBVIOUS
      <3>1. i \in 1 .. Len(rest) - n /\ i + 1 \in 1 .. Len(rest) - n /\ n + (i + 1) = (n + i) + 1 /\ n + i \in 1 .. Len(rest) - 1
        BY <1>4, <1>7
      <3>2. t[i + 1] = rest[n + (i + 1)]
        BY <1>7, <3>1
      <3> QED
        BY <1>7, <3>1, <3>2
    <2>4. \A i \in 1 .. Len(t) - 1 : Follows(t[i], t[i + 1])
      BY <1>14, <2>3
    <2> QED
      BY <1>14, <2>2, <2>4 DEF Chain
  <1>17. FrameBytes'
    <2>1. ASSUME NEW i \in 1 .. m + 1 PROVE Chain(Before(i), socket[i])'
      <3>1. i = m + 1 \/ i \in 1 .. m
        OBVIOUS
      <3>2. CASE i = m + 1
        BY <1>9, <1>11, <1>15, <3>2
      <3>3. CASE i \in 1 .. m
        BY <1>9, <1>11, <1>13, <3>3
      <3> QED
        BY <3>1, <3>2, <3>3
    <2>2. Chain(Before(Len(socket) + 1), rest)'
      <3>1. Len(socket') + 1 = m + 2
        BY <1>9
      <3>2. Chain(Before(m + 2)', rest')
        BY <1>8, <1>12, <1>16
      <3> QED
        BY <3>1, <3>2
    <2>3. LastRead' = LastRead
      BY <1>1 DEF LastRead
    <2>4. Chain(LastRead, plain)'
      BY <1>1, <2>3 DEF FrameInv, FrameBytes
    <2> QED
      BY <1>9, <2>1, <2>2, <2>4 DEF FrameBytes
  <1>18. FrameLines'
    BY <1>1 DEF FrameInv, FrameLines
  <1>19. FrameQueue'
    BY <1>1, QueueStays
  <1> QED
    BY <1>10, <1>17, <1>18, <1>19 DEF FrameInv

\* The connection breaks.
LEMMA FrameBreak == ASSUME FrameInv, Frames!Break PROVE FrameInv'
  <1>1. UNCHANGED <<rest, socket, plain, line, handled, queue, queued, delivered, ioStep, crammed>> /\ cut' = TRUE
    BY DEF Frames!Break
  <1>2. FrameTypes'
    BY <1>1 DEF FrameInv, FrameTypes
  <1> QED
    BY <1>1, <1>2, BytesStay, QueueStays DEF FrameInv

\* A packet is queued.
LEMMA FrameQueued == ASSUME FrameInv, Frames!Queue PROVE FrameInv'
  <1>1. /\ UNCHANGED <<rest, socket, plain, line, handled, delivered, ioStep, cut, crammed>>
        /\ queued < MaxQueued /\ queued' = queued + 1 /\ queue' = Append(queue, queued + 1)
    BY DEF Frames!Queue
  <1>2. FrameTypes'
    BY <1>1 DEF FrameInv, FrameTypes
  <1>3. /\ queue \in Seq(Nat) /\ Len(queue) \in Nat /\ queued \in Nat /\ delivered \in Seq(Nat) /\ Len(delivered) \in Nat
        /\ DOMAIN queue = 1 .. Len(queue) /\ MaxQueued \in Nat
    BY WireAssumption DEF FrameInv, FrameQueue
  <1>m. PICK m \in Nat : m = Len(queue)
    BY <1>3
  <1>4. /\ queue' \in Seq(Nat) /\ Len(queue') = m + 1 /\ DOMAIN queue' = 1 .. m + 1
        /\ queue'[m + 1] = queued + 1 /\ \A i \in 1 .. m : queue'[i] = queue[i]
    <2>1. queued + 1 \in Nat
      BY <1>3
    <2> QED
      BY <1>1, <1>3, <1>m, <2>1, AppendProperties
  <1>5. ASSUME NEW i \in DOMAIN queue' PROVE queue'[i] = queued' - Len(queue') + i
    <2>1. i = m + 1 \/ i \in 1 .. m
      BY <1>4
    <2>2. CASE i = m + 1
      <3>1. queued + 1 = (queued + 1) - (m + 1) + (m + 1)
        BY <1>3
      <3> QED
        BY <1>1, <1>4, <2>2, <3>1
    <2>3. CASE i \in 1 .. m
      <3>1. queue[i] = queued - m + i
        BY <1>3, <1>m, <2>3 DEF FrameInv, FrameQueue
      <3>2. queued - m + i = (queued + 1) - (m + 1) + i
        BY <1>3, <2>3
      <3> QED
        BY <1>1, <1>4, <2>3, <3>1, <3>2
    <2> QED
      BY <2>1, <2>2, <2>3
  <1>6. FrameQueue'
    <2>1. queued' \in 0 .. MaxQueued
      BY <1>1, <1>3
    <2>2. /\ Len(delivered) + m <= queued /\ (ioStep # "closed" => Len(delivered) + m = queued)
      BY <1>m DEF FrameInv, FrameQueue
    <2>3. /\ Len(delivered') + Len(queue') <= queued'
          /\ ioStep' # "closed" => Len(delivered') + Len(queue') = queued'
      BY <1>1, <1>3, <1>4, <2>2
    <2>4. delivered' \in Seq(Nat) /\ \A i \in DOMAIN delivered' : delivered'[i] = i
      BY <1>1 DEF FrameInv, FrameQueue
    <2> QED
      BY <1>4, <1>5, <2>1, <2>3, <2>4 DEF FrameQueue
  <1> QED
    BY <1>1, <1>2, <1>6, BytesStay DEF FrameInv

\* The queue is drained: the packet at its head is the one after those that were sent.
LEMMA FrameDrain == ASSUME FrameInv, Frames!Drain PROVE FrameInv'
  <1>1. /\ ioStep = "drain" /\ UNCHANGED <<rest, socket, plain, line, handled, queued, cut, crammed>>
        /\ \/ queue = <<>> /\ ioStep' = "select" /\ UNCHANGED <<queue, delivered>>
           \/ queue # <<>> /\ queue' = Tail(queue) /\ ioStep' = "closed" /\ UNCHANGED delivered
           \/ queue # <<>> /\ queue' = Tail(queue) /\ delivered' = Append(delivered, Head(queue)) /\ UNCHANGED ioStep
    BY DEF Frames!Drain
  <1>2. FrameTypes'
    <2>1. ioStep' \in {"drain", "select", "read", "closed"}
      BY <1>1
    <2> QED
      BY <1>1, <2>1 DEF FrameInv, FrameTypes
  <1>3. /\ queue \in Seq(Nat) /\ Len(queue) \in Nat /\ queued \in Nat /\ delivered \in Seq(Nat) /\ Len(delivered) \in Nat
        /\ DOMAIN queue = 1 .. Len(queue) /\ DOMAIN delivered = 1 .. Len(delivered)
        /\ Len(delivered) + Len(queue) = queued /\ queued' = queued /\ queued \in 0 .. MaxQueued
        /\ \A i \in 1 .. Len(queue) : queue[i] = queued - Len(queue) + i
        /\ \A i \in 1 .. Len(delivered) : delivered[i] = i
    BY <1>1 DEF FrameInv, FrameQueue
  <1>m. PICK m \in Nat, k \in Nat : m = Len(queue) /\ k = Len(delivered)
    BY <1>3
  <1>4. FrameQueue'
    <2>1. CASE queue = <<>> /\ ioStep' = "select" /\ UNCHANGED <<queue, delivered>>
      BY <1>1, <2>1, QueueStays
    <2>2. ASSUME queue # <<>>, queue' = Tail(queue)
          PROVE  /\ queue' \in Seq(Nat) /\ Len(queue') = m - 1 /\ m # 0 /\ DOMAIN queue' = 1 .. m - 1
                 /\ \A i \in 1 .. m - 1 : queue'[i] = queued - (m - 1) + i
      <3>1. m # 0
        BY <1>3, <1>m, <2>2, EmptySeq
      <3>2. /\ queue' \in Seq(Nat) /\ Len(queue') = m - 1 /\ DOMAIN queue' = 1 .. m - 1
            /\ \A i \in 1 .. m - 1 : queue'[i] = queue[i + 1]
        BY <1>3, <1>m, <2>2, HeadTailProperties
      <3>3. ASSUME NEW i \in 1 .. m - 1 PROVE queue[i + 1] = queued - (m - 1) + i
        <4>1. i + 1 \in 1 .. m
          BY <3>3
        <4>2. queue[i + 1] = queued - m + (i + 1)
          BY <1>3, <1>m, <4>1
        <4> QED
          BY <1>3, <4>2
      <3> QED
        BY <3>1, <3>2, <3>3
    <2>3. CASE queue # <<>> /\ queue' = Tail(queue) /\ ioStep' = "closed" /\ UNCHANGED delivered
      <3>1. /\ queue' \in Seq(Nat) /\ Len(queue') = m - 1 /\ m # 0 /\ DOMAIN queue' = 1 .. m - 1
            /\ \A i \in 1 .. m - 1 : queue'[i] = queued - (m - 1) + i
        BY <2>2, <2>3
      <3>2. Len(delivered') + Len(queue') <= queued'
        BY <1>3, <1>m, <2>3, <3>1
      <3> QED
        BY <1>3, <2>3, <3>1, <3>2 DEF FrameQueue
    <2>4. CASE queue # <<>> /\ queue' = Tail(queue) /\ delivered' = Append(delivered, Head(queue)) /\ UNCHANGED ioStep
      <3>1. /\ queue' \in Seq(Nat) /\ Len(queue') = m - 1 /\ m # 0 /\ DOMAIN queue' = 1 .. m - 1
            /\ \A i \in 1 .. m - 1 : queue'[i] = queued - (m - 1) + i
        BY <2>2, <2>4
      <3>2. Head(queue) = k + 1
        <4>1. Head(queue) = queue[1] /\ queue[1] = queued - m + 1
          BY <1>3, <1>m, <3>1
        <4> QED
          BY <1>3, <1>m, <4>1
      <3>3. /\ delivered' \in Seq(Nat) /\ Len(delivered') = k + 1 /\ DOMAIN delivered' = 1 .. k + 1
            /\ delivered'[k + 1] = k + 1 /\ \A i \in 1 .. k : delivered'[i] = i
        BY <1>3, <1>m, <2>4, <3>2, AppendProperties
      <3>4. \A i \in DOMAIN delivered' : delivered'[i] = i
        BY <3>3
      <3>5. Len(delivered') + Len(queue') = queued'
        <4>1. k + m = queued /\ m # 0
          BY <1>3, <1>m, <3>1
        <4>2. (k + 1) + (m - 1) = queued
          BY <1>3, <4>1
        <4> QED
          BY <1>3, <3>1, <3>3, <4>2
      <3> QED
        BY <1>3, <3>1, <3>3, <3>4, <3>5 DEF FrameQueue
    <2> QED
      BY <1>1, <2>1, <2>3, <2>4
  <1> QED
    BY <1>1, <1>2, <1>4, BytesStay DEF FrameInv

\* The io thread looks at the socket.
LEMMA FrameSelect == ASSUME FrameInv, Frames!Select PROVE FrameInv'
  <1>1. /\ UNCHANGED <<rest, socket, plain, line, handled, queue, queued, delivered, cut, crammed>>
        /\ ioStep = "select" /\ ioStep' \in {"read", "drain"}
    BY DEF Frames!Select
  <1>2. FrameTypes'
    BY <1>1 DEF FrameInv, FrameTypes
  <1> QED
    BY <1>1, <1>2, BytesStay, QueueStays DEF FrameInv

\* A record is decrypted, or the broken connection is found out.
LEMMA FrameDecrypt == ASSUME FrameInv, Frames!Decrypt PROVE FrameInv'
  <1>1. /\ ioStep = "read" /\ plain = <<>>
        /\ UNCHANGED <<rest, line, handled, queue, queued, delivered, cut, crammed>>
        /\ \/ socket # <<>> /\ plain' = Head(socket) /\ socket' = Tail(socket) /\ UNCHANGED ioStep
           \/ ioStep' = "closed" /\ UNCHANGED <<plain, socket>>
    BY DEF Frames!Decrypt
  <1>2. FrameQueue'
    BY <1>1, QueueStays
  <1>3. CASE ioStep' = "closed" /\ UNCHANGED <<plain, socket>>
    <2>1. FrameTypes'
      BY <1>1, <1>3 DEF FrameInv, FrameTypes
    <2> QED
      BY <1>1, <1>2, <1>3, <2>1, BytesStay DEF FrameInv
  <1>4. CASE socket # <<>> /\ plain' = Head(socket) /\ socket' = Tail(socket) /\ UNCHANGED ioStep
    <2>1. /\ socket \in Seq(Seq(Byte)) /\ Len(socket) \in Nat /\ DOMAIN socket = 1 .. Len(socket)
          /\ \A i \in 1 .. Len(socket) : socket[i] \in Seq(Byte) /\ Len(socket[i]) \in 1 .. MaxRecord
          /\ MaxRecord \in Nat
      BY WireAssumption, ElementOfSeq DEF FrameInv, FrameTypes
    <2>m. PICK m \in Nat : m = Len(socket)
      BY <2>1
    <2>2. m # 0 /\ 1 \in 1 .. m
      BY <1>4, <2>1, <2>m, EmptySeq
    <2>3. /\ plain' = socket[1] /\ socket' \in Seq(Seq(Byte)) /\ Len(socket') = m - 1 /\ DOMAIN socket' = 1 .. m - 1
          /\ \A i \in 1 .. m - 1 : socket'[i] = socket[i + 1]
      BY <1>4, <2>1, <2>m, HeadTailProperties
    <2>4. plain' \in Seq(Byte) /\ Len(plain') \in 1 .. MaxRecord /\ plain' # <<>>
      <3>1. plain' \in Seq(Byte) /\ Len(plain') \in 1 .. MaxRecord
        BY <2>1, <2>m, <2>2, <2>3
      <3>2. plain' # <<>>
        BY <3>1, EmptySeq
      <3> QED
        BY <3>1, <3>2
    <2>5. FrameTypes'
      <3>1. \A i \in DOMAIN socket' : Len(socket'[i]) \in 1 .. MaxRecord
        <4>1. \A i \in 1 .. m - 1 : i + 1 \in 1 .. m
          BY <2>2
        <4> QED
          BY <2>1, <2>m, <2>3, <4>1
      <3>2. Len(plain') <= MaxRecord
        BY <2>1, <2>4
      <3> QED
        BY <1>1, <1>4, <2>3, <2>4, <3>1, <3>2 DEF FrameInv, FrameTypes
    <2>6. ASSUME NEW i \in 1 .. m PROVE Before(i)' = Before(i + 1)
      <3>1. i + 1 # 1 /\ (i + 1) - 1 = i
        BY <2>m
      <3>2. CASE i = 1
        BY <2>3, <2>4, <3>1, <3>2 DEF Before
      <3>3. CASE i # 1
        <4>1. i - 1 \in 1 .. m - 1 /\ (i - 1) + 1 = i
          BY <2>m, <3>3
        <4>2. socket'[i - 1] = socket[i]
          BY <2>3, <4>1
        <4> QED
          BY <3>1, <3>3, <4>2 DEF Before
      <3> QED
        BY <3>2, <3>3
    <2>7. LastRead' = LastRead
      BY <1>1 DEF LastRead
    <2>8. Chain(LastRead, plain)'
      <3>1. Chain(Before(1), socket[1])
        BY <2>1, <2>m, <2>2 DEF FrameInv, FrameBytes
      <3>2. Before(1) = LastRead
        BY <1>1 DEF Before
      <3> QED
        BY <2>3, <2>7, <3>1, <3>2
    <2>9. ASSUME NEW i \in 1 .. m - 1 PROVE Chain(Before(i), socket[i])'
      <3>1. i \in 1 .. m /\ i + 1 \in 1 .. m
        BY <2>2
      <3>2. Chain(Before(i + 1), socket[i + 1])
        BY <2>1, <2>m, <3>1 DEF FrameInv, FrameBytes
      <3> QED
        BY <2>3, <2>6, <3>1, <3>2
    <2>10. Chain(Before(Len(socket) + 1), rest)'
      <3>1. Chain(Before(m + 1), rest)
        BY <2>m DEF FrameInv, FrameBytes
      <3>2. Len(socket') + 1 = m
        BY <2>2, <2>3
      <3>3. m \in 1 .. m
        BY <2>2
      <3>4. Chain(Before(m)', rest')
        BY <1>1, <2>6, <3>1, <3>3
      <3> QED
        BY <3>2, <3>4
    <2>11. FrameBytes'
      BY <2>3, <2>8, <2>9, <2>10 DEF FrameBytes
    <2>12. FrameLines'
      BY <1>1, <1>4 DEF FrameInv, FrameLines
    <2> QED
      BY <1>2, <2>5, <2>11, <2>12 DEF FrameInv
  <1> QED
    BY <1>1, <1>3, <1>4

\* A byte is read: it is the next of the line or its end, and the end makes it whole.
LEMMA FrameRead == ASSUME FrameInv, Frames!ReadByte PROVE FrameInv'
  <1>1. /\ ioStep = "read" /\ plain # <<>> /\ plain' = Tail(plain)
        /\ UNCHANGED <<rest, socket, queue, queued, delivered, cut, crammed>>
        /\ \/ /\ Head(plain) < 0 /\ handled' = Append(handled, Append(line, Head(plain)))
              /\ line' = <<>> /\ ioStep' = "drain"
           \/ /\ ~ (Head(plain) < 0) /\ line' = Append(line, Head(plain)) /\ UNCHANGED handled
              /\ ioStep' = IF Len(line') >= MaxPacket THEN "closed" ELSE "read"
    BY DEF Frames!ReadByte
  <1>2. FrameQueue'
    BY <1>1, QueueStays
  <1>3. /\ plain \in Seq(Byte) /\ Len(plain) \in Nat /\ Len(plain) <= MaxRecord /\ MaxRecord \in Nat /\ MaxLines \in Nat
        /\ MaxPacket \in Nat /\ MaxPacket # 0
        /\ line \in Seq(Byte) /\ Len(line) \in Nat /\ Len(line) < MaxPacket /\ DOMAIN line = 1 .. Len(line)
        /\ handled \in Seq(Seq(Byte)) /\ Len(handled) \in Nat /\ Len(handled) <= MaxLines
        /\ DOMAIN handled = 1 .. Len(handled)
    BY <1>1, WireAssumption DEF FrameInv, FrameTypes, FrameLines
  <1>m. PICK m \in Nat, k \in Nat, n \in Nat : m = Len(plain) /\ k = Len(handled) /\ n = Len(line)
    BY <1>3
  <1>4. m # 0
    BY <1>1, <1>3, <1>m, EmptySeq
  <1>b. PICK b \in Byte : b = plain[1] /\ b = Head(plain)
    <2>1. 1 \in 1 .. m
      BY <1>4
    <2>2. plain[1] \in Byte
      BY <1>3, <1>m, <2>1, ElementOfSeq
    <2> QED
      BY <1>1, <1>3, <2>2, HeadTailProperties
  <1>5. /\ plain' \in Seq(Byte) /\ Len(plain') = m - 1 /\ \A i \in 1 .. m - 1 : plain'[i] = plain[i + 1]
    BY <1>1, <1>3, <1>m, HeadTailProperties
  <1>6. Follows(LastRead, b) /\ \A i \in 1 .. m - 1 : Follows(plain[i], plain[i + 1])
    BY <1>1, <1>b, <1>m DEF FrameInv, FrameBytes, Chain
  <1>7. (b < 0 => b = - (k + 1)) /\ (~ (b < 0) => b = k + 1)
    <2>1. b \in Int /\ b # 0
      BY <1>3 DEF Byte
    <2>2. CASE line = <<>>
      <3>1. LastRead = 0 - k
        BY <1>m, <2>2 DEF LastRead
      <3>2. b = 1 - (0 - k) \/ b = (0 - k) - 1
        <4>1. ~ (0 - k > 0)
          BY <1>m
        <4> QED
          BY <1>6, <3>1, <4>1 DEF Follows
      <3> QED
        BY <1>m, <3>2
    <2>3. CASE line # <<>>
      <3>1. LastRead = k + 1
        BY <1>m, <2>3 DEF LastRead
      <3>2. b = k + 1 \/ b = - (k + 1)
        <4>1. k + 1 > 0
          BY <1>m
        <4> QED
          BY <1>6, <3>1, <4>1 DEF Follows
      <3> QED
        BY <1>m, <3>2
    <2> QED
      BY <2>2, <2>3
  <1>8. k + 1 <= MaxLines
    BY <1>3, <1>m, <1>7 DEF Byte
  <1>9. /\ Append(line, b) \in Seq(Byte) /\ Len(Append(line, b)) = n + 1 /\ DOMAIN Append(line, b) = 1 .. n + 1
        /\ Append(line, b)[n + 1] = b /\ \A i \in 1 .. n : Append(line, b)[i] = k + 1
    <2>1. \A i \in 1 .. n : line[i] = k + 1
      BY <1>3, <1>m DEF FrameInv, FrameLines
    <2> QED
      BY <1>3, <1>m, <1>b, <2>1, AppendProperties
  <1>10. /\ handled' \in Seq(Seq(Byte)) /\ line' \in Seq(Byte) /\ Len(handled') <= MaxLines
         /\ ioStep' \in {"drain", "read", "closed"} /\ LastRead' = b
         /\ FrameLines'
    <2>1. CASE b < 0
      <3>1. /\ handled' = Append(handled, Append(line, b)) /\ line' = <<>> /\ ioStep' = "drain"
        BY <1>1, <1>b, <2>1
      <3>2. /\ handled' \in Seq(Seq(Byte)) /\ Len(handled') = k + 1 /\ DOMAIN handled' = 1 .. k + 1
            /\ handled'[k + 1] = Append(line, b) /\ \A i \in 1 .. k : handled'[i] = handled[i]
        BY <1>3, <1>m, <1>9, <3>1, AppendProperties
      <3>3. Append(line, b) = Frames!Line(k + 1, n)
        <4>1. Append(line, b) = [i \in 1 .. n + 1 |-> Append(line, b)[i]]
          <5>1. \A s \in Seq(Byte) : s = [i \in 1 .. Len(s) |-> s[i]]
            OBVIOUS
          <5> QED
            BY <1>9, <5>1
        <4>2. \A i \in 1 .. n + 1 : Append(line, b)[i] = IF i <= n THEN k + 1 ELSE - (k + 1)
          <5>1. \A i \in 1 .. n + 1 : i \in 1 .. n \/ (i = n + 1 /\ ~ (n + 1 <= n))
            BY <1>m
          <5>2. \A i \in 1 .. n : i <= n
            OBVIOUS
          <5> QED
            BY <1>7, <1>9, <2>1, <5>1, <5>2
        <4> QED
          BY <4>1, <4>2 DEF Frames!Line
      <3>4. ASSUME NEW i \in DOMAIN handled'
            PROVE  handled'[i] = Frames!Line(i, Len(handled'[i]) - 1) /\ Len(handled'[i]) <= MaxPacket
        <4>1. i = k + 1 \/ i \in 1 .. k
          BY <3>2
        <4>2. CASE i = k + 1
          <5>1. (n + 1) - 1 = n /\ n + 1 <= MaxPacket
            BY <1>3, <1>m
          <5> QED
            BY <1>9, <3>2, <3>3, <4>2, <5>1
        <4>3. CASE i \in 1 .. k
          BY <1>3, <1>m, <3>2, <4>3 DEF FrameInv, FrameLines
        <4> QED
          BY <4>1, <4>2, <4>3
      <3>5. LastRead' = b
        <4>1. 0 - (k + 1) = - (k + 1)
          BY <1>m
        <4> QED
          BY <1>7, <2>1, <3>1, <3>2, <4>1 DEF LastRead
      <3>6. Len(<<>>) = 0 /\ DOMAIN <<>> = {} /\ <<>> \in Seq(Byte)
        OBVIOUS
      <3>7. FrameLines'
        <4>1. Len(line') <= MaxPacket /\ Len(line') < MaxPacket /\ DOMAIN line' = {}
          BY <1>3, <3>1, <3>6
        <4> QED
          BY <3>4, <4>1 DEF FrameLines
      <3> QED
        BY <1>8, <3>1, <3>2, <3>5, <3>6, <3>7
    <2>2. CASE ~ (b < 0)
      <3>1. /\ line' = Append(line, b) /\ handled' = handled
            /\ ioStep' = IF n + 1 >= MaxPacket THEN "closed" ELSE "read"
        BY <1>1, <1>b, <1>9, <2>2
      <3>2. line' # <<>>
        <4>1. Len(line') # 0
          BY <1>m, <1>9, <3>1
        <4> QED
          BY <4>1
      <3>3. LastRead' = b
        BY <1>m, <1>7, <2>2, <3>1, <3>2 DEF LastRead
      <3>4. FrameLines'
        <4>1. \A i \in DOMAIN line' : line'[i] = k + 1
          <5>1. \A i \in 1 .. n + 1 : i \in 1 .. n \/ i = n + 1
            BY <1>m
          <5> QED
            BY <1>7, <1>9, <2>2, <3>1, <5>1
        <4>2. Len(line') = n + 1 /\ n + 1 <= MaxPacket
          BY <1>3, <1>m, <1>9, <3>1
        <4>3. ioStep' # "closed" => n + 1 < MaxPacket
          BY <1>3, <1>m, <3>1
        <4>4. k + 1 = Len(handled') + 1
          BY <1>m, <3>1
        <4>5. \A i \in DOMAIN handled' : handled'[i] = Frames!Line(i, Len(handled'[i]) - 1) /\ Len(handled'[i]) <= MaxPacket
          BY <3>1 DEF FrameInv, FrameLines
        <4> QED
          BY <4>1, <4>2, <4>3, <4>4, <4>5 DEF FrameLines
      <3> QED
        BY <1>3, <1>9, <3>1, <3>3, <3>4
    <2> QED
      BY <2>1, <2>2
  <1>11. FrameTypes'
    <2>1. Len(plain') <= MaxRecord
      BY <1>3, <1>m, <1>4, <1>5
    <2> QED
      BY <1>1, <1>5, <1>10, <2>1 DEF FrameInv, FrameTypes
  <1>12. Chain(LastRead, plain)'
    <2> SUFFICES ASSUME plain' # <<>> PROVE Chain(b, plain')
      BY <1>10 DEF Chain
    <2>1. m - 1 # 0
      BY <1>5, EmptySeq
    <2>2. 1 \in 1 .. m - 1 /\ 1 + 1 \in 1 .. m
      BY <1>4, <2>1
    <2>3. Follows(b, plain'[1])
      BY <1>5, <1>6, <1>b, <2>2
    <2>4. ASSUME NEW i \in 1 .. Len(plain') - 1 PROVE Follows(plain'[i], plain'[i + 1])
      <3>1. i \in 1 .. m - 1 /\ i + 1 \in 1 .. m - 1
        BY <1>4, <1>5
      <3> QED
        BY <1>5, <1>6, <3>1
    <2> QED
      BY <2>3, <2>4 DEF Chain
  <1>13. \A i : Before(i)' = Before(i)
    <2>1. (IF plain' = <<>> THEN LastRead' ELSE plain'[Len(plain')]) = plain[Len(plain)]
      <3>1. CASE plain' = <<>>
        <4>1. m - 1 = 0
          BY <1>5, <3>1
        <4>2. m = 1
          <5>1. \A x \in Nat : x # 0 /\ x # 1 => x - 1 # 0
            OBVIOUS
          <5> QED
            BY <1>4, <4>1, <5>1
        <4> QED
          BY <1>b, <1>m, <1>10, <3>1, <4>2
      <3>2. CASE plain' # <<>>
        <4>1. m - 1 # 0
          BY <1>5, <3>2, EmptySeq
        <4>2. m - 1 \in 1 .. m - 1 /\ (m - 1) + 1 = m
          BY <1>4, <4>1
        <4>3. plain'[m - 1] = plain[m]
          BY <1>5, <4>2
        <4> QED
          BY <1>m, <1>5, <3>2, <4>3
      <3> QED
        BY <3>1, <3>2
    <2> QED
      BY <1>1, <2>1 DEF Before
  <1>14. FrameBytes'
    BY <1>1, <1>12, <1>13 DEF FrameInv, FrameBytes
  <1> QED
    BY <1>2, <1>10, <1>11, <1>14 DEF FrameInv

\* Every step keeps the lines whole.
LEMMA FrameStep == FrameInv /\ [Frames!Next]_framesVars => FrameInv'
  <1> SUFFICES ASSUME FrameInv, [Frames!Next]_framesVars PROVE FrameInv'
    OBVIOUS
  <1>1. CASE Frames!Next
    BY <1>1, FrameArrive, FrameBreak, FrameQueued, FrameDrain, FrameSelect, FrameDecrypt, FrameRead
       DEF Frames!Next, Frames!Io
  <1>2. CASE UNCHANGED framesVars
    <2>1. UNCHANGED <<rest, socket, plain, line, handled, queue, queued, delivered, ioStep, cut, crammed>>
      BY <1>2 DEF framesVars
    <2>2. FrameTypes'
      BY <2>1 DEF FrameInv, FrameTypes
    <2> QED
      BY <2>1, <2>2, BytesStay, QueueStays DEF FrameInv
  <1> QED
    BY <1>1, <1>2

\* What the run checks of the lines.
LEMMA FrameHolds == FrameInv => Frames!TypeOK /\ Frames!LinesAreWhole
  <1> SUFFICES ASSUME FrameInv PROVE Frames!TypeOK /\ Frames!LinesAreWhole
    OBVIOUS
  <1>1. \A i \in DOMAIN rest : rest[i] \in -MaxLines .. MaxLines
    <2>1. \A i \in DOMAIN rest : rest[i] \in Byte
      BY ElementOfSeq DEF FrameInv, FrameTypes
    <2> QED
      BY <2>1 DEF Byte
  <1>2. Len(queue) <= MaxQueued /\ Len(delivered) <= queued
    <2>1. /\ Len(queue) \in Nat /\ Len(delivered) \in Nat /\ queued \in 0 .. MaxQueued /\ MaxQueued \in Nat
          /\ Len(delivered) + Len(queue) <= queued
      BY WireAssumption DEF FrameInv, FrameQueue
    <2> QED
      BY <2>1
  <1>3. Frames!TypeOK
    BY <1>1, <1>2 DEF FrameInv, FrameTypes, FrameLines, FrameQueue, Frames!TypeOK
  <1>4. Frames!LinesAreWhole
    BY DEF FrameInv, FrameLines, FrameQueue, Frames!LinesAreWhole
  <1> QED
    BY <1>3, <1>4
-----------------------------------------------------------------------------

(* Meeting: two devices at rest agree on the connection they use. *)

\* An end in one of these stages has an other end that was told of the connection.
Joined == {"check", "tls", "ready", "up", "old"}

\* The session that stands is the connection installed last, and both devices have
\* a handler for a connection once one of them has.
MeetInv ==
  /\ Two!TypeOK
  /\ \A c \in Conn, n \in Node : end[c][n] = "up" => session[n] = c
  /\ \A c \in Conn, n \in Node : end[c][n] \in Joined => end[c][Two!Other(n)] \notin {"none", "dial"}

\* There is one other device.
LEMMA TheOther ==
  ASSUME NEW n \in Node
  PROVE  /\ Two!Other(n) \in Node /\ Two!Other(n) # n
         /\ \A m \in Node : m = n \/ m = Two!Other(n)
         /\ Two!Other(Two!Other(n)) = n
  <1>1. IsFiniteSet(Node)
    BY WireAssumption
  <1>2. IsFiniteSet(Node \ {n}) /\ Cardinality(Node \ {n}) = 1
    BY <1>1, FS_RemoveElement, WireAssumption
  <1>3. PICK m : Node \ {n} = {m}
    BY <1>2, FS_Singleton
  <1>4. Two!Other(n) = m
    BY <1>3 DEF Two!Other
  <1>5. Two!Other(m) = n
    BY <1>3 DEF Two!Other
  <1> QED
    BY <1>3, <1>4, <1>5

\* Nothing is under way at the start.
LEMMA MeetInit == Two!Init => MeetInv
  BY WireAssumption, TheOther DEF Two!Init, MeetInv, Two!TypeOK, Two!Stage, Joined

\* One end goes on to a stage other than "up", and its session stays.
LEMMA EndMoves ==
  ASSUME MeetInv, NEW c \in Conn, NEW n \in Node, NEW s \in Two!Stage \ {"none", "dial", "up"},
         end' = [end EXCEPT ![c][n] = s], session' = session,
         end[c][n] \in Joined \/ s \notin Joined,
         told' \in [Conn -> SUBSET Node],
         losses' \in 0 .. MaxLosses, crashes' \in 0 .. MaxCrashes
  PROVE  MeetInv'
  <1>1. Two!TypeOK'
    BY DEF MeetInv, Two!TypeOK
  <1>2. \A d \in Conn, m \in Node : end'[d][m] = IF d = c /\ m = n THEN s ELSE end[d][m]
    BY DEF MeetInv, Two!TypeOK
  <1>3. \A m \in Node : Two!Other(m) \in Node
    BY TheOther
  <1>4. \A d \in Conn, m \in Node : end'[d][m] = "up" => session'[m] = d
    BY <1>2 DEF MeetInv
  <1>5. ASSUME NEW d \in Conn, NEW m \in Node, end'[d][m] \in Joined
        PROVE  end'[d][Two!Other(m)] \notin {"none", "dial"}
    <2>1. end[d][m] \in Joined
      BY <1>2, <1>5
    <2>2. end[d][Two!Other(m)] \notin {"none", "dial"}
      BY <2>1 DEF MeetInv
    <2> QED
      BY <1>2, <1>3, <2>2
  <1> QED
    BY <1>1, <1>4, <1>5 DEF MeetInv

\* No step of the two devices disturbs it.
LEMMA MeetStep == MeetInv /\ [Two!Next]_meetingVars => MeetInv'
  <1> SUFFICES ASSUME MeetInv, [Two!Next]_meetingVars PROVE MeetInv'
    OBVIOUS
  <1> USE DEF Two!Stage
  <1>0. losses \in Nat /\ crashes \in Nat /\ MaxLosses \in Nat /\ MaxCrashes \in Nat
        /\ losses <= MaxLosses /\ crashes <= MaxCrashes /\ told \in [Conn -> SUBSET Node]
        /\ \A c \in Conn, n \in Node : end[c][n] \in Two!Stage
    BY WireAssumption DEF MeetInv, Two!TypeOK
  <1>1. CASE UNCHANGED meetingVars
    BY <1>1 DEF meetingVars, MeetInv, Two!TypeOK
  <1>2. ASSUME NEW n \in Node, Two!Crash(n) PROVE MeetInv'
    <2>1. Two!TypeOK'
      BY <1>0, <1>2 DEF Two!Crash, MeetInv, Two!TypeOK
    <2>2. \A d \in Conn, m \in Node :
            end'[d][m] = IF m = n /\ end[d][n] \in Two!Under \cup {"up", "old"} THEN "gone" ELSE end[d][m]
      BY <1>2 DEF Two!Crash, MeetInv, Two!TypeOK
    <2>3. \A m \in Node : Two!Other(m) \in Node
      BY TheOther
    <2>4. \A m \in Node : m # n => session'[m] = session[m]
      BY <1>2 DEF Two!Crash, MeetInv, Two!TypeOK
    <2>5. \A d \in Conn, m \in Node : end'[d][m] = "up" => session'[m] = d
      BY <2>2, <2>4 DEF MeetInv
    <2>6. \A d \in Conn, m \in Node : end'[d][m] \in Joined => end'[d][Two!Other(m)] \notin {"none", "dial"}
      BY <2>2, <2>3 DEF MeetInv, Joined
    <2> QED
      BY <2>1, <2>5, <2>6 DEF MeetInv
  <1>3. ASSUME NEW n \in Node, NEW c \in Conn, Two!Step(c, n) PROVE MeetInv'
    <2>1. CASE Two!Hear(c, n)
      <3>1. Two!TypeOK'
        BY <2>1 DEF Two!Hear, MeetInv, Two!TypeOK
      <3>2. \A d \in Conn, m \in Node : end'[d][m] = IF d = c /\ m = n THEN "dial" ELSE end[d][m]
        BY <2>1 DEF Two!Hear, MeetInv, Two!TypeOK
      <3>3. \A m \in Node : Two!Other(m) \in Node /\ end[c][m] = "none"
        BY <2>1, TheOther DEF Two!Hear
      <3>4. session' = session
        BY <2>1 DEF Two!Hear
      <3> QED
        BY <3>1, <3>2, <3>3, <3>4 DEF MeetInv, Joined
    <2>2. CASE Two!Connect(c, n)
      <3>1. Two!TypeOK'
        BY <2>2 DEF Two!Connect, MeetInv, Two!TypeOK
      <3>2. \A d \in Conn, m \in Node : end'[d][m] = IF d = c THEN "check" ELSE end[d][m]
        BY <2>2 DEF Two!Connect, MeetInv, Two!TypeOK
      <3>3. \A m \in Node : Two!Other(m) \in Node
        BY TheOther
      <3>4. session' = session
        BY <2>2 DEF Two!Connect
      <3> QED
        BY <3>1, <3>2, <3>3, <3>4 DEF MeetInv, Joined
    <2>3. CASE Two!Check(c, n)
      BY <1>0, <2>3, EndMoves DEF Two!Check, MeetInv, Two!TypeOK, Joined
    <2>4. CASE Two!Shake(c, n)
      <3>1. told' \in [Conn -> SUBSET Node]
        BY <1>0, <2>4 DEF Two!Shake
      <3>2. UNCHANGED <<end, session, losses, crashes>>
        BY <2>4 DEF Two!Shake
      <3> QED
        BY <3>1, <3>2 DEF MeetInv, Two!TypeOK
    <2>5. CASE Two!ReadIdentity(c, n)
      BY <1>0, <2>5, EndMoves DEF Two!ReadIdentity, MeetInv, Two!TypeOK, Joined
    <2>6. CASE Two!Install(c, n)
      <3> DEFINE old(d) == d = session[n] /\ Two!Live(n)
      <3> HIDE DEF old
      <3>1. end' = [d \in Conn |-> IF d = c THEN [end[d] EXCEPT ![n] = "up"]
                                   ELSE IF old(d) THEN [end[d] EXCEPT ![n] = "old"] ELSE end[d]]
            /\ session' = [session EXCEPT ![n] = c] /\ UNCHANGED <<told, losses, crashes>>
            /\ end[c][n] = "ready"
        BY <2>6 DEF Two!Install, old
      <3>2. Two!TypeOK'
        BY <3>1 DEF MeetInv, Two!TypeOK
      <3>3. \A d \in Conn, m \in Node :
              end'[d][m] = IF m # n THEN end[d][m] ELSE IF d = c THEN "up" ELSE IF old(d) THEN "old" ELSE end[d][m]
        BY <3>1 DEF MeetInv, Two!TypeOK
      <3>4. \A d \in Conn : old(d) => end[d][n] \in {"up", "old"}
        BY DEF old, Two!Live
      <3>5. \A d \in Conn : end[d][n] = "up" => old(d)
        BY WireAssumption DEF old, Two!Live, MeetInv
      <3>6. session' = [session EXCEPT ![n] = c] /\ session \in [Node -> Conn \cup {NoConn}]
        BY <3>1 DEF MeetInv, Two!TypeOK
      <3>7. \A d \in Conn, m \in Node : end'[d][m] = "up" => session'[m] = d
        BY <3>3, <3>5, <3>6 DEF MeetInv
      <3>8. \A d \in Conn, m \in Node : end'[d][m] \in Joined => end[d][m] \in Joined
        BY <3>1, <3>3, <3>4 DEF Joined
      <3>9. \A m \in Node : Two!Other(m) \in Node
        BY TheOther
      <3>10. \A d \in Conn, m \in Node : end'[d][m] \in Joined => end'[d][Two!Other(m)] \notin {"none", "dial"}
        BY <3>3, <3>8, <3>9 DEF MeetInv
      <3> QED
        BY <3>2, <3>7, <3>10 DEF MeetInv
    <2>7. CASE Two!CloseOld(c, n)
      BY <1>0, <2>7, EndMoves DEF Two!CloseOld, MeetInv, Two!TypeOK, Joined
    <2>8. CASE Two!Notice(c, n)
      BY <1>0, <2>8, EndMoves DEF Two!Notice, MeetInv, Two!TypeOK, Joined
    <2>9. CASE Two!GiveUp(c, n)
      <3>1. losses' \in 0 .. MaxLosses
        BY <1>0, <2>9 DEF Two!GiveUp
      <3> QED
        BY <1>0, <2>9, <3>1, EndMoves DEF Two!GiveUp, MeetInv, Two!TypeOK, Joined
    <2>10. CASE Two!Break(c, n)
      <3>1. losses' \in 0 .. MaxLosses
        BY <1>0, <2>10 DEF Two!Break
      <3> QED
        BY <1>0, <2>10, <3>1, EndMoves DEF Two!Break, MeetInv, Two!TypeOK, Joined
    <2> QED
      BY <1>3, <2>1, <2>2, <2>3, <2>4, <2>5, <2>6, <2>7, <2>8, <2>9, <2>10 DEF Two!Step, Two!Work
  <1> QED
    BY <1>1, <1>2, <1>3 DEF Two!Next

\* It says that they agree.
LEMMA MeetHolds == MeetInv => Two!TypeOK /\ Two!AgreeAtRest
  <1> SUFFICES ASSUME MeetInv, Two!AtRest, NEW n \in Node, Two!Live(n)
               PROVE  Two!Live(Two!Other(n)) /\ session[Two!Other(n)] = session[n]
    BY DEF MeetInv, Two!AgreeAtRest
  <1> DEFINE c == session[n]
             m == Two!Other(n)
  <1>1. c \in Conn /\ c # NoConn /\ m \in Node
    BY TheOther, WireAssumption DEF Two!Live, MeetInv, Two!TypeOK
  <1>2. end[c][n] = "up"
    BY <1>1 DEF Two!AtRest, Two!Live
  <1>3. end[c][m] \in Two!Stage /\ end[c][m] \notin {"none", "dial"}
    BY <1>1, <1>2 DEF MeetInv, Two!TypeOK, Joined
  <1>4. end[c][m] = "up"
    BY <1>1, <1>2, <1>3 DEF Two!AtRest, Two!Ended, Two!Stage, Two!Under
  <1>5. session[m] = c
    BY <1>1, <1>4 DEF MeetInv
  <1> QED
    BY <1>1, <1>4, <1>5 DEF Two!Live
-----------------------------------------------------------------------------

(* Discovery: a device never probes itself, and its last word is that it leaves. *)

Questions == [from : Device, unicast : BOOLEAN]
Answers == [id : Device, host : Search!Address]

\* With what waits at the sockets.
SearchInv ==
  /\ Search!TypeOK
  /\ service \in [Device -> Seq(Questions)] /\ discovery \in [Device -> Seq(Answers)]
  /\ word \in [Device -> {"here", "goodbye"}]
  /\ Search!NeverItself
  /\ Search!GoodbyeIsLast

\* The two modules count alike.
LEMMA SearchCounts == \A S : Search!Cardinality(S) = Cardinality(S)
  BY DEF Search!Cardinality, Cardinality

\* What is lost on the way is counted.
LEMMA LosingCounts ==
  ASSUME SearchInv, NEW to \in SUBSET Device, NEW l \in Search!Losing(to)
  PROVE  lost + Search!Cardinality(l) \in 0 .. MaxLosses
  <1>1. l \subseteq to /\ lost + Search!Cardinality(l) <= MaxLosses
    BY DEF Search!Losing
  <1>2. Cardinality(l) \in Nat
    BY <1>1, WireAssumption, FS_Subset, FS_CardinalityType
  <1>3. lost \in Nat /\ MaxLosses \in Nat
    BY WireAssumption DEF SearchInv, Search!TypeOK
  <1> QED
    BY <1>1, <1>2, <1>3, SearchCounts

\* A socket gets no more than it has room for.
LEMMA SentFits ==
  ASSUME NEW D, NEW boxes \in [Device -> Seq(D)], NEW to, NEW datagram \in D,
         \A d \in Device : Len(boxes[d]) <= Room
  PROVE  /\ Search!Sent(boxes, to, datagram) \in [Device -> Seq(D)]
         /\ \A d \in Device : Len(Search!Sent(boxes, to, datagram)[d]) <= Room
  <1>1. ASSUME NEW d \in Device
        PROVE  /\ Search!Sent(boxes, to, datagram)[d] \in Seq(D)
               /\ Len(Search!Sent(boxes, to, datagram)[d]) <= Room
    <2>1. boxes[d] \in Seq(D) /\ Len(boxes[d]) \in Nat /\ Len(boxes[d]) <= Room /\ Room \in Nat
      BY WireAssumption
    <2>2. Append(boxes[d], datagram) \in Seq(D) /\ Len(Append(boxes[d], datagram)) = Len(boxes[d]) + 1
      BY <2>1, AppendProperties
    <2>3. Search!Sent(boxes, to, datagram)[d] = boxes[d]
          \/ (Search!Sent(boxes, to, datagram)[d] = Append(boxes[d], datagram) /\ ~(Len(boxes[d]) >= Room))
      BY DEF Search!Sent, Search!Full
    <2>4. CASE Search!Sent(boxes, to, datagram)[d] = boxes[d]
      BY <2>1, <2>4
    <2>5. CASE Search!Sent(boxes, to, datagram)[d] = Append(boxes[d], datagram) /\ ~(Len(boxes[d]) >= Room)
      <3>1. Len(boxes[d]) + 1 <= Room
        BY <2>1, <2>5
      <3> QED
        BY <2>2, <2>5, <3>1
    <2> QED
      BY <2>3, <2>4, <2>5
  <1>2. Search!Sent(boxes, to, datagram) = [d \in Device |-> Search!Sent(boxes, to, datagram)[d]]
    BY DEF Search!Sent
  <1> QED
    BY <1>1, <1>2

\* Nobody runs at the start.
LEMMA SearchInit == Search!Init => SearchInv
  <1> SUFFICES ASSUME Search!Init PROVE SearchInv
    OBVIOUS
  <1>1. service \in [Device -> Seq(Questions)] /\ discovery \in [Device -> Seq(Answers)]
        /\ word \in [Device -> {"here", "goodbye"}]
        /\ \A d \in Device : Len(service[d]) = 0 /\ Len(discovery[d]) = 0
    BY DEF Search!Init
  <1>2. Search!TypeOK
    BY <1>1, WireAssumption DEF Search!Init, Search!TypeOK, Search!Address
  <1>3. Search!NeverItself /\ Search!GoodbyeIsLast
    BY DEF Search!Init, Search!NeverItself, Search!GoodbyeIsLast
  <1> QED
    BY <1>1, <1>2, <1>3 DEF SearchInv

\* No step of the devices and of the network disturbs it.
LEMMA SearchStep == SearchInv /\ [Search!Next]_searchVars => SearchInv'
  <1> SUFFICES ASSUME SearchInv, [Search!Next]_searchVars PROVE SearchInv'
    OBVIOUS
  <1>0. MaxLosses \in Nat /\ MaxMoves \in Nat /\ Room \in Nat /\ lost \in Nat /\ moves \in Nat
        /\ lost <= MaxLosses /\ moves <= MaxMoves
    BY WireAssumption DEF SearchInv, Search!TypeOK
  <1>1. CASE UNCHANGED searchVars
    <2>1. Search!TypeOK'
      BY <1>1 DEF searchVars, SearchInv, Search!TypeOK
    <2>2. Search!NeverItself' /\ Search!GoodbyeIsLast'
      BY <1>1 DEF searchVars, SearchInv, Search!NeverItself, Search!GoodbyeIsLast, Search!Open
    <2> QED
      BY <1>1, <2>1, <2>2 DEF searchVars, SearchInv
  <1>2. CASE Search!Part
    <2>1. UNCHANGED <<life, thread, net, says, service, discovery, probed, word, moves>> /\ lost' = lost + 1
          /\ met' \subseteq met /\ lost < MaxLosses
      BY <1>2 DEF Search!Part
    <2>2. Search!TypeOK'
      BY <1>0, <2>1 DEF SearchInv, Search!TypeOK
    <2>3. Search!NeverItself' /\ Search!GoodbyeIsLast'
      BY <2>1 DEF SearchInv, Search!NeverItself, Search!GoodbyeIsLast, Search!Open
    <2> QED
      BY <2>1, <2>2, <2>3 DEF SearchInv
  <1>3. ASSUME NEW d \in Device, Search!Start(d) PROVE SearchInv'
    <2>1. Search!TypeOK'
      BY <1>3 DEF Search!Start, SearchInv, Search!TypeOK
    <2>2. \A e \in Device : e # d => life'[e] = life[e] /\ thread'[e] = thread[e] /\ word'[e] = word[e]
      BY <1>3 DEF Search!Start, SearchInv, Search!TypeOK
    <2>3. life'[d] = "on" /\ UNCHANGED <<service, discovery, probed>>
      BY <1>3 DEF Search!Start, SearchInv, Search!TypeOK
    <2>4. Search!NeverItself' /\ Search!GoodbyeIsLast'
      BY <2>2, <2>3 DEF SearchInv, Search!NeverItself, Search!GoodbyeIsLast, Search!Open
    <2>5. word' \in [Device -> {"here", "goodbye"}]
      BY <1>3 DEF Search!Start, SearchInv
    <2> QED
      BY <2>1, <2>3, <2>4, <2>5 DEF SearchInv
  <1>4. ASSUME NEW d \in Device, Search!Ask(d) PROVE SearchInv'
    <2>1. PICK l \in Search!Losing(Device) :
            /\ service' = Search!Sent(service, Device \ l, Search!Query(d, TRUE))
            /\ lost' = lost + Search!Cardinality(l)
      BY <1>4 DEF Search!Ask
    <2>2. probed' = [probed EXCEPT ![d] = {}] /\ UNCHANGED <<life, thread, net, says, discovery, met, word, moves>>
      BY <1>4 DEF Search!Ask
    <2>3. lost' \in 0 .. MaxLosses
      BY <2>1, LosingCounts
    <2>4. service' \in [Device -> Seq(Questions)] /\ \A e \in Device : Len(service'[e]) <= Room
      <3>1. Search!Query(d, TRUE) \in Questions
        BY DEF Search!Query, Questions
      <3>2. service \in [Device -> Seq(Questions)] /\ \A e \in Device : Len(service[e]) <= Room
        BY DEF SearchInv, Search!TypeOK
      <3> QED
        BY <2>1, <3>1, <3>2, SentFits
    <2>5. Search!TypeOK'
      BY <2>2, <2>3, <2>4 DEF SearchInv, Search!TypeOK
    <2>6. Search!NeverItself' /\ Search!GoodbyeIsLast'
      <3>1. \A e \in Device : probed'[e] \subseteq probed[e]
        BY <2>2 DEF SearchInv, Search!TypeOK
      <3> QED
        BY <2>2, <3>1 DEF SearchInv, Search!NeverItself, Search!GoodbyeIsLast, Search!Open
    <2> QED
      BY <2>2, <2>4, <2>5, <2>6 DEF SearchInv
  <1>5. ASSUME NEW d \in Device, Search!Listen(d) PROVE SearchInv'
    <2> DEFINE query == Head(service[d])
               to == IF query.unicast THEN {query.from} ELSE {}
    <2>1. thread[d] /\ service[d] # <<>> /\ service' = [service EXCEPT ![d] = Tail(@)]
          /\ word' = [word EXCEPT ![d] = "here"] /\ UNCHANGED <<life, thread, net, says, probed, met, moves>>
      BY <1>5 DEF Search!Listen
    <2>2. PICK l \in Search!Losing(to) :
            /\ discovery' = Search!Sent(discovery, to \ l, Search!Answer(d, says[d]))
            /\ lost' = lost + Search!Cardinality(l)
      BY <1>5 DEF Search!Listen
    <2>3. service[d] \in Seq(Questions)
      BY DEF SearchInv
    <2>4. query \in Questions /\ Tail(service[d]) \in Seq(Questions) /\ Len(Tail(service[d])) = Len(service[d]) - 1
      BY <2>1, <2>3, HeadTailProperties
    <2>5. to \in SUBSET Device
      BY <2>4 DEF Questions
    <2> HIDE DEF to, query
    <2>6. lost' \in 0 .. MaxLosses
      BY <2>2, <2>5, LosingCounts
    <2>7. discovery' \in [Device -> Seq(Answers)] /\ \A e \in Device : Len(discovery'[e]) <= Room
      <3>1. Search!Answer(d, says[d]) \in Answers
        BY DEF Search!Answer, Answers, SearchInv, Search!TypeOK
      <3>2. discovery \in [Device -> Seq(Answers)] /\ \A e \in Device : Len(discovery[e]) <= Room
        BY DEF SearchInv, Search!TypeOK
      <3> QED
        BY <2>2, <3>1, <3>2, SentFits
    <2>8. service' \in [Device -> Seq(Questions)] /\ \A e \in Device : Len(service'[e]) <= Room
      <3>1. Len(service[d]) \in Nat /\ Len(service[d]) <= Room
        BY <2>3 DEF SearchInv, Search!TypeOK
      <3>2. Len(Tail(service[d])) <= Room
        BY <1>0, <2>4, <3>1
      <3>3. \A e \in Device : service'[e] = IF e = d THEN Tail(service[d]) ELSE service[e]
        BY <2>1 DEF SearchInv
      <3>4. service' \in [Device -> Seq(Questions)]
        BY <2>1, <2>4 DEF SearchInv
      <3> QED
        BY <3>2, <3>3, <3>4 DEF SearchInv, Search!TypeOK
    <2>9. Search!TypeOK'
      BY <2>1, <2>6, <2>7, <2>8 DEF SearchInv, Search!TypeOK
    <2>10. Search!NeverItself'
      BY <2>1 DEF SearchInv, Search!NeverItself
    <2>11. Search!GoodbyeIsLast'
      <3>1. \A e \in Device : e # d => word'[e] = word[e]
        BY <2>1
      <3> QED
        BY <2>1, <3>1 DEF SearchInv, Search!GoodbyeIsLast, Search!Open
    <2>12. word' \in [Device -> {"here", "goodbye"}]
      BY <2>1 DEF SearchInv
    <2> QED
      BY <2>7, <2>8, <2>9, <2>10, <2>11, <2>12 DEF SearchInv
  <1>6. ASSUME NEW d \in Device, Search!Receive(d) PROVE SearchInv'
    <2> DEFINE answer == Head(discovery[d])
               probe == Search!Found(d, answer) /\ {d, answer.id} \notin met /\ answer.id \notin probed[d]
    <2>1. discovery[d] # <<>> /\ UNCHANGED <<life, thread, net, says, service, word, moves>>
      BY <1>6 DEF Search!Receive
    <2>2. /\ discovery' = [discovery EXCEPT ![d] = Tail(@)]
          /\ probed' = IF probe THEN [probed EXCEPT ![d] = @ \cup {answer.id}] ELSE probed
          /\ \E l \in Search!Losing(IF probe THEN {answer.id} ELSE {}) :
               /\ met' = IF probe /\ Search!ProbeReaches(answer) /\ l = {} THEN met \cup {{d, answer.id}} ELSE met
               /\ lost' = lost + Search!Cardinality(l)
      BY <1>6 DEF Search!Receive
    <2>3. discovery[d] \in Seq(Answers)
      BY DEF SearchInv
    <2>4. answer \in Answers /\ Tail(discovery[d]) \in Seq(Answers) /\ Len(Tail(discovery[d])) = Len(discovery[d]) - 1
      BY <2>1, <2>3, HeadTailProperties
    <2>5. answer.id \in Device
      BY <2>4 DEF Answers
    <2>6. lost' \in 0 .. MaxLosses
      BY <2>2, <2>5, LosingCounts
    <2>7. met' \subseteq SUBSET Device
      <3>1. met' \subseteq met \cup {{d, answer.id}}
        BY <2>2
      <3> QED
        BY <2>5, <3>1 DEF SearchInv, Search!TypeOK
    <2>8. probe => answer.id # d
      BY DEF Search!Found
    <2> HIDE DEF probe
    <2>9. probed' \in [Device -> SUBSET Device] /\ \A e \in Device : e \notin probed'[e]
      BY <2>2, <2>5, <2>8 DEF SearchInv, Search!TypeOK, Search!NeverItself
    <2>10. discovery' \in [Device -> Seq(Answers)] /\ \A e \in Device : Len(discovery'[e]) <= Room
      <3>1. Len(discovery[d]) \in Nat /\ Len(discovery[d]) <= Room
        BY <2>3 DEF SearchInv, Search!TypeOK
      <3>2. Len(Tail(discovery[d])) <= Room
        BY <1>0, <2>4, <3>1
      <3>3. \A e \in Device : discovery'[e] = IF e = d THEN Tail(discovery[d]) ELSE discovery[e]
        BY <2>2 DEF SearchInv
      <3>4. discovery' \in [Device -> Seq(Answers)]
        BY <2>2, <2>4 DEF SearchInv
      <3> QED
        BY <3>2, <3>3, <3>4 DEF SearchInv, Search!TypeOK
    <2>11. Search!TypeOK'
      BY <2>1, <2>6, <2>7, <2>9, <2>10 DEF SearchInv, Search!TypeOK
    <2>12. Search!GoodbyeIsLast'
      BY <2>1 DEF SearchInv, Search!GoodbyeIsLast, Search!Open
    <2> QED
      BY <2>1, <2>9, <2>10, <2>11, <2>12 DEF SearchInv, Search!NeverItself
  <1>7. ASSUME NEW d \in Device, Search!BeginStop(d) \/ Search!Exit(d) PROVE SearchInv'
    <2>1. UNCHANGED <<net, says, service, discovery, probed, met, word, lost, moves>>
      BY <1>7 DEF Search!BeginStop, Search!Exit
    <2>2. life' \in [Device -> {"off", "on", "stopping"}] /\ thread' \in [Device -> BOOLEAN]
      BY <1>7 DEF Search!BeginStop, Search!Exit, SearchInv, Search!TypeOK
    <2>3. \A e \in Device : life'[e] = "off" => life[e] = "off"
      BY <1>7 DEF Search!BeginStop, Search!Exit, SearchInv, Search!TypeOK
    <2>4. \A e \in Device : thread'[e] => thread[e]
      BY <1>7 DEF Search!BeginStop, Search!Exit, SearchInv, Search!TypeOK
    <2>5. Search!TypeOK'
      BY <2>1, <2>2 DEF SearchInv, Search!TypeOK
    <2>6. Search!NeverItself' /\ Search!GoodbyeIsLast'
      BY <2>1, <2>3, <2>4 DEF SearchInv, Search!NeverItself, Search!GoodbyeIsLast, Search!Open
    <2> QED
      BY <2>1, <2>5, <2>6 DEF SearchInv
  <1>8. ASSUME NEW d \in Device, Search!EndStop(d) PROVE SearchInv'
    <2>1. ~thread[d] /\ life' = [life EXCEPT ![d] = "off"] /\ word' = [word EXCEPT ![d] = "goodbye"]
          /\ service' = [service EXCEPT ![d] = <<>>] /\ discovery' = [discovery EXCEPT ![d] = <<>>]
          /\ probed' = [probed EXCEPT ![d] = {}] /\ met' \subseteq met /\ UNCHANGED <<thread, net, says, lost, moves>>
      BY <1>8 DEF Search!EndStop, Search!EndStopAtOnce
    <2>2. service' \in [Device -> Seq(Questions)] /\ discovery' \in [Device -> Seq(Answers)]
      BY <2>1 DEF SearchInv
    <2>3. \A e \in Device : Len(service'[e]) <= Room /\ Len(discovery'[e]) <= Room
      <3>1. \A e \in Device : (service'[e] = service[e] \/ service'[e] = <<>>) /\ (discovery'[e] = discovery[e] \/ discovery'[e] = <<>>)
        BY <2>1 DEF SearchInv
      <3>2. Len(<<>>) <= Room
        BY <1>0
      <3> QED
        BY <3>1, <3>2 DEF SearchInv, Search!TypeOK
    <2>4. Search!TypeOK'
      BY <2>1, <2>3 DEF SearchInv, Search!TypeOK
    <2>5. \A e \in Device : /\ e # d => word'[e] = word[e] /\ life'[e] = life[e]
                            /\ e = d => word'[e] = "goodbye"
                            /\ probed'[e] \subseteq probed[e]
      BY <2>1 DEF SearchInv, Search!TypeOK
    <2>6. Search!NeverItself' /\ Search!GoodbyeIsLast'
      BY <2>1, <2>5 DEF SearchInv, Search!NeverItself, Search!GoodbyeIsLast, Search!Open
    <2>7. word' \in [Device -> {"here", "goodbye"}]
      BY <2>1 DEF SearchInv
    <2> QED
      BY <2>2, <2>4, <2>6, <2>7 DEF SearchInv
  <1>9. ASSUME NEW d \in Device, Search!Move(d) PROVE SearchInv'
    <2>1. UNCHANGED <<life, thread, says, service, discovery, probed, word, lost>> /\ met' \subseteq met
      BY <1>9 DEF Search!Move
    <2>2. moves' \in 0 .. MaxMoves /\ net' = [net EXCEPT ![d] = <<d, moves'>>]
      BY <1>0, <1>9 DEF Search!Move
    <2>3. Search!TypeOK'
      BY <2>1, <2>2 DEF SearchInv, Search!TypeOK, Search!Address
    <2>4. Search!NeverItself' /\ Search!GoodbyeIsLast'
      BY <2>1 DEF SearchInv, Search!NeverItself, Search!GoodbyeIsLast, Search!Open
    <2> QED
      BY <2>1, <2>3, <2>4 DEF SearchInv
  <1> QED
    BY <1>1, <1>2, <1>3, <1>4, <1>5, <1>6, <1>7, <1>8, <1>9 DEF Search!Next, Search!Thread
-----------------------------------------------------------------------------

(* Uploads: a receiver gets the file it was told of, and all of it. *)

\* The ports of uploads, and the packets that name them.
UploadPorts ==
  /\ \A u \in Transfer : upload[u] = "bound" => port[u] # 0
  /\ \A u \in Transfer : upload[u] \in {"none", "bound"} => offer[u] = "none"
  /\ \A r \in Transfer : offer[r] \in {"queued", "heard"} => named[r] # 0
  /\ \A u, v \in Transfer : port[u] = port[v] /\ u # v => port[u] = 0

\* A receiver calls once, and one upload: its own, or it is late.
UploadCalls ==
  /\ \A u \in Transfer : caller[u] # Nobody => /\ offer[caller[u]] = "calling"
                                               /\ caller[u] = u \/ caller[u] \in late
  /\ \A u \in Transfer : visitor[u] # Nobody => /\ offer[visitor[u]] \in {"calling", "over"}
                                                /\ visitor[u] = u \/ visitor[u] \in late
  /\ \A u, v \in Transfer : caller[u] # Nobody => caller[u] # visitor[v]
  /\ \A u, v \in Transfer : caller[u] # Nobody /\ u # v => caller[u] # caller[v]
  /\ \A u, v \in Transfer : visitor[u] # Nobody /\ u # v => visitor[u] # visitor[v]

\* What the visitor of u has while the upload is at a stage.
VisitorHas(u) ==
  /\ upload[u] \in {"none", "bound", "told", "wait", "failed", "no thread"} => visitor[u] = Nobody
  /\ visitor[u] = Nobody \/ upload[u] = "tls" => remaining[u] = Size
  /\ upload[u] \in {"tls", "read", "send"} => visitor[u] # Nobody /\ got[visitor[u]].units = Size - remaining[u]
  /\ upload[u] \in {"read", "send"} /\ remaining[u] # Size => got[visitor[u]].of = u
  /\ upload[u] = "send" => took[u] # 0 /\ took[u] <= remaining[u]
  /\ upload[u] \in {"close", "done"} /\ remaining[u] = 0 => got[visitor[u]] = [of |-> u, units |-> Size]

UploadFiles ==
  /\ got \in [Transfer -> [of : Transfer \cup {Nobody}, units : 0 .. Size]]
  /\ \A r \in Transfer : got[r] = Sending!None \/ \E u \in Transfer : visitor[u] = r
  /\ Sending!OwnFile
  /\ \A u \in Transfer : VisitorHas(u)

UploadInv == Sending!TypeOK /\ UploadPorts /\ UploadCalls /\ UploadFiles

\* Min is a least element, of the free ports and of a chunk and what remains.
LEMMA LeastOf ==
  ASSUME NEW T, T \subseteq Nat, T # {}
  PROVE  Sending!Min(T) \in T /\ \A y \in T : Sending!Min(T) <= y
  BY FirstOfAll DEF Sending!Min

\* Nothing is sent at the start.
LEMMA UploadInit == Sending!Init => UploadInv
  <1> SUFFICES ASSUME Sending!Init PROVE UploadInv
    OBVIOUS
  <1>1. \A u \in Transfer : upload[u] = "none" /\ port[u] = 0 /\ named[u] = 0 /\ offer[u] = "none"
          /\ caller[u] = Nobody /\ visitor[u] = Nobody /\ remaining[u] = Size /\ took[u] = 0
          /\ got[u] = Sending!None
    BY DEF Sending!Init
  <1>2. Sending!TypeOK
    BY WireAssumption DEF Sending!Init, Sending!TypeOK, Sending!None
  <1>3. UploadPorts /\ UploadCalls
    BY <1>1 DEF UploadPorts, UploadCalls
  <1>4. got \in [Transfer -> [of : Transfer \cup {Nobody}, units : 0 .. Size]]
    BY WireAssumption DEF Sending!Init, Sending!None
  <1>5. Sending!OwnFile
    BY <1>1 DEF Sending!OwnFile, Sending!None
  <1>6. ASSUME NEW u \in Transfer PROVE VisitorHas(u)
    <2>1. upload[u] = "none" /\ visitor[u] = Nobody /\ remaining[u] = Size
      BY <1>1
    <2> QED
      BY <2>1 DEF VisitorHas
  <1> QED
    BY <1>1, <1>2, <1>3, <1>4, <1>5, <1>6 DEF UploadInv, UploadFiles

\* The types, in the form in which the steps below use them.
LEMMA UploadTypes ==
  ASSUME UploadInv
  PROVE  /\ Size \in Nat /\ Size # 0 /\ Chunk \in Nat /\ Ports \in Nat /\ Nobody \notin Transfer
         /\ \A u \in Transfer : remaining[u] \in Nat /\ remaining[u] <= Size /\ took[u] \in Nat /\ took[u] <= Chunk
         /\ \A u \in Transfer : visitor[u] \in Transfer \cup {Nobody} /\ caller[u] \in Transfer \cup {Nobody}
         /\ \A r \in Transfer : got[r].units \in 0 .. Size
  <1>1. Size \in Nat /\ Size # 0 /\ Chunk \in Nat /\ Ports \in Nat /\ Nobody \notin Transfer
    BY WireAssumption
  <1>2. remaining \in [Transfer -> 0 .. Size] /\ took \in [Transfer -> 0 .. Chunk]
    BY DEF UploadInv, Sending!TypeOK
  <1>3. \A u \in Transfer : remaining[u] \in 0 .. Size /\ took[u] \in 0 .. Chunk
    BY <1>2
  <1>4. \A u \in Transfer : remaining[u] \in Nat /\ remaining[u] <= Size /\ took[u] \in Nat /\ took[u] <= Chunk
    BY <1>1, <1>3
  <1>5. \A u \in Transfer : visitor[u] \in Transfer \cup {Nobody} /\ caller[u] \in Transfer \cup {Nobody}
    BY DEF UploadInv, Sending!TypeOK
  <1>6. \A r \in Transfer : got[r].units \in 0 .. Size
    BY DEF UploadInv, Sending!TypeOK
  <1> QED
    BY <1>1, <1>4, <1>5, <1>6

\* An upload goes on, and no receiver does.
LEMMA UploadGoesOn ==
  ASSUME UploadInv, NEW u \in Transfer, NEW s, upload' = [upload EXCEPT ![u] = s],
         s \in {"told", "wait", "tls", "read", "close", "failed", "no thread"},
         UNCHANGED <<port, named, offer, caller, visitor, remaining, took, got, silent, late>>,
         VisitorHas(u)'
  PROVE  UploadInv'
  <1>1. Sending!TypeOK'
    BY DEF UploadInv, Sending!TypeOK
  <1>2. \A v \in Transfer : v # u => upload'[v] = upload[v]
    BY DEF UploadInv, Sending!TypeOK
  <1>3. upload'[u] = s
    BY DEF UploadInv, Sending!TypeOK
  <1>4. UploadPorts'
    BY <1>2, <1>3 DEF UploadInv, UploadPorts
  <1>5. UploadCalls'
    BY DEF UploadInv, UploadCalls
  <1>6. \A v \in Transfer : v # u => VisitorHas(v)'
    BY <1>2 DEF UploadInv, UploadFiles, VisitorHas
  <1>7. UploadFiles'
    BY <1>6 DEF UploadInv, UploadFiles, Sending!OwnFile, Sending!None
  <1> QED
    BY <1>1, <1>4, <1>5, <1>7 DEF UploadInv

\* An upload opens a port that nobody has.
LEMMA UploadBind == ASSUME UploadInv, NEW u \in Transfer, Sending!Bind(u) PROVE UploadInv'
  <1>1. upload[u] = "none" /\ UNCHANGED <<named, offer, caller, visitor, remaining, took, got, silent, late>>
    BY DEF Sending!Bind
  <1>2. CASE Sending!To(u, "failed") /\ UNCHANGED port
    <2>1. VisitorHas(u)'
      BY <1>1, <1>2, UploadTypes DEF Sending!To, UploadInv, UploadFiles, VisitorHas, Sending!TypeOK
    <2> QED
      BY <1>1, <1>2, <2>1, UploadGoesOn DEF Sending!To
  <1>3. CASE Sending!Free # {} /\ Sending!To(u, "bound") /\ port' = [port EXCEPT ![u] = Sending!Min(Sending!Free)]
    <2> DEFINE p == Sending!Min(Sending!Free)
    <2>1. p \in Sending!Free
      <3>1. Sending!Free \subseteq Nat
        BY DEF Sending!Free, Sending!Port
      <3> QED
        BY <1>3, <3>1, LeastOf
    <2>2. p \in Sending!Port /\ p # 0 /\ \A v \in Transfer : port[v] # p
      <3>1. p \in Sending!Port /\ \A v \in Transfer : port[v] # p
        BY <2>1 DEF Sending!Free
      <3> QED
        BY <3>1, UploadTypes DEF Sending!Port
    <2> HIDE DEF p
    <2>3. upload' = [upload EXCEPT ![u] = "bound"] /\ port' = [port EXCEPT ![u] = p]
      BY <1>3 DEF p, Sending!To
    <2>4. Sending!TypeOK'
      BY <1>1, <2>2, <2>3 DEF UploadInv, Sending!TypeOK
    <2>5. \A v \in Transfer : /\ upload'[v] = IF v = u THEN "bound" ELSE upload[v]
                              /\ port'[v] = IF v = u THEN p ELSE port[v]
      BY <2>3 DEF UploadInv, Sending!TypeOK
    <2>6. UploadPorts'
      BY <1>1, <2>2, <2>5 DEF UploadInv, UploadPorts
    <2>7. UploadCalls'
      BY <1>1 DEF UploadInv, UploadCalls
    <2>8. ASSUME NEW v \in Transfer PROVE VisitorHas(v)'
      <3>1. VisitorHas(v) /\ UNCHANGED <<visitor, remaining, took, got>>
        BY <1>1 DEF UploadInv, UploadFiles
      <3>2. upload'[v] = upload[v] \/ (upload[v] = "none" /\ upload'[v] = "bound")
        BY <1>1, <2>5
      <3> QED
        BY <3>1, <3>2 DEF VisitorHas
    <2>9. UploadFiles'
      BY <1>1, <2>8 DEF UploadInv, UploadFiles, Sending!OwnFile, Sending!None
    <2> QED
      BY <2>4, <2>6, <2>7, <2>9 DEF UploadInv
  <1> QED
    BY <1>2, <1>3 DEF Sending!Bind

\* The packet names the port of the upload.
LEMMA UploadAnnounce == ASSUME UploadInv, NEW u \in Transfer, Sending!Announce(u) PROVE UploadInv'
  <1>1. upload[u] = "bound" /\ UNCHANGED <<caller, visitor, remaining, took, got, silent, late>>
    BY DEF Sending!Announce
  <1>2. PICK s \in {"told", "failed"} : upload' = [upload EXCEPT ![u] = s]
    BY DEF Sending!Announce, Sending!To
  <1>3. \A v \in Transfer : upload'[v] = IF v = u THEN s ELSE upload[v]
    BY <1>2 DEF UploadInv, Sending!TypeOK
  <1>4. offer[u] = "none" /\ port[u] # 0
    BY <1>1 DEF UploadInv, UploadPorts
  <1>5. /\ \A v \in Transfer : v # u => port'[v] = port[v] /\ named'[v] = named[v] /\ offer'[v] = offer[v]
        /\ port'[u] \in {0, port[u]} /\ (offer'[u] = "none" \/ (offer'[u] = "queued" /\ named'[u] = port[u]))
        /\ upload'[u] \notin {"none", "bound"}
    <2>1. CASE named' = [named EXCEPT ![u] = port[u]] /\ offer' = [offer EXCEPT ![u] = "queued"] /\ UNCHANGED port
      BY <1>2, <1>3, <2>1 DEF UploadInv, Sending!TypeOK
    <2>2. CASE port' = [port EXCEPT ![u] = 0] /\ UNCHANGED <<named, offer>>
      BY <1>2, <1>3, <1>4, <2>2 DEF UploadInv, Sending!TypeOK
    <2> QED
      BY <2>1, <2>2 DEF Sending!Announce
  <1>6. Sending!TypeOK'
    BY <1>1, <1>2 DEF Sending!Announce, UploadInv, Sending!TypeOK
  <1>7. UploadPorts'
    BY <1>3, <1>4, <1>5 DEF UploadInv, UploadPorts
  <1>8. \A v \in Transfer : offer[v] # "none" => offer'[v] = offer[v]
    BY <1>4, <1>5
  <1>9. UploadCalls'
    BY <1>1, <1>8, UploadTypes DEF UploadInv, UploadCalls
  <1>10. \A v \in Transfer : VisitorHas(v)'
    BY <1>1, <1>3 DEF UploadInv, UploadFiles, VisitorHas
  <1>11. UploadFiles'
    BY <1>1, <1>10 DEF UploadInv, UploadFiles, Sending!OwnFile, Sending!None
  <1> QED
    BY <1>6, <1>7, <1>9, <1>11 DEF UploadInv

\* The thread starts, waits, and shakes hands.
LEMMA UploadStarts ==
  ASSUME UploadInv, NEW u \in Transfer, Sending!StartThread(u) \/ Sending!TimeOut(u) \/ Sending!Handshake(u)
  PROVE  UploadInv'
  <1>1. PICK s \in {"wait", "no thread", "close", "read"} : upload' = [upload EXCEPT ![u] = s]
    BY DEF Sending!StartThread, Sending!TimeOut, Sending!Handshake, Sending!To
  <1>2. UNCHANGED <<port, named, offer, caller, visitor, remaining, took, got, silent, late>>
    BY DEF Sending!StartThread, Sending!TimeOut, Sending!Handshake
  <1>3. upload'[u] = s
    BY <1>1 DEF UploadInv, Sending!TypeOK
  <1>4. \/ upload[u] = "told" /\ s \in {"wait", "no thread"}
        \/ upload[u] = "wait" /\ s = "close"
        \/ upload[u] = "tls" /\ s \in {"read", "close"}
    BY <1>3, UploadTypes DEF Sending!StartThread, Sending!TimeOut, Sending!Handshake, Sending!To, UploadInv, Sending!TypeOK
  <1>5. VisitorHas(u)'
    BY <1>2, <1>3, <1>4, UploadTypes DEF UploadInv, UploadFiles, VisitorHas
  <1> QED
    BY <1>1, <1>2, <1>5, UploadGoesOn

\* Whoever called is let in.
LEMMA UploadAccept == ASSUME UploadInv, NEW u \in Transfer, Sending!Accept(u) PROVE UploadInv'
  <1>1. upload[u] = "wait" /\ caller[u] # Nobody
        /\ UNCHANGED <<port, named, offer, remaining, took, got, silent, late>>
    BY DEF Sending!Accept
  <1>2. visitor[u] = Nobody /\ remaining[u] = Size
    BY <1>1 DEF UploadInv, UploadFiles, VisitorHas
  <1>3. CASE upload' = [upload EXCEPT ![u] = "close"] /\ UNCHANGED <<visitor, caller>>
    <2>1. upload'[u] = "close"
      BY <1>3 DEF UploadInv, Sending!TypeOK
    <2>2. VisitorHas(u)'
      BY <1>1, <1>2, <1>3, <2>1, UploadTypes DEF VisitorHas
    <2> QED
      BY <1>1, <1>3, <2>2, UploadGoesOn
  <1>4. CASE /\ upload' = [upload EXCEPT ![u] = "tls"]
             /\ visitor' = [visitor EXCEPT ![u] = caller[u]] /\ caller' = [caller EXCEPT ![u] = Nobody]
    <2>1. Sending!TypeOK'
      BY <1>1, <1>4 DEF UploadInv, Sending!TypeOK
    <2>2. \A v \in Transfer : /\ upload'[v] = IF v = u THEN "tls" ELSE upload[v]
                              /\ visitor'[v] = IF v = u THEN caller[u] ELSE visitor[v]
                              /\ caller'[v] = IF v = u THEN Nobody ELSE caller[v]
      BY <1>4 DEF UploadInv, Sending!TypeOK
    <2>3. UploadPorts'
      BY <1>1, <2>2 DEF UploadInv, UploadPorts
    <2>4. UploadCalls'
      BY <1>1, <2>2 DEF UploadInv, UploadCalls
    <2>5. caller[u] \in Transfer /\ \A v \in Transfer : visitor[v] # caller[u]
      BY <1>1, UploadTypes DEF UploadInv, UploadCalls
    <2>6. got[caller[u]] = Sending!None
      BY <2>5 DEF UploadInv, UploadFiles
    <2>7. VisitorHas(u)'
      <3>1. upload'[u] = "tls" /\ visitor'[u] = caller[u] /\ got'[visitor'[u]].units = 0 /\ remaining'[u] = Size
        BY <1>1, <1>2, <2>2, <2>6 DEF Sending!None
      <3>2. Size - remaining'[u] = 0
        BY <3>1, UploadTypes
      <3> QED
        BY <1>1, <3>1, <3>2 DEF VisitorHas
    <2>8. ASSUME NEW v \in Transfer, v # u PROVE VisitorHas(v)'
      <3>1. VisitorHas(v) /\ UNCHANGED <<remaining, took, got>>
        BY <1>1 DEF UploadInv, UploadFiles
      <3>2. upload'[v] = upload[v] /\ visitor'[v] = visitor[v]
        BY <2>2, <2>8
      <3> QED
        BY <3>1, <3>2 DEF VisitorHas
    <2>9. \A r \in Transfer : got[r] = Sending!None \/ \E v \in Transfer : visitor'[v] = r
      BY <1>2, <2>2, UploadTypes DEF UploadInv, UploadFiles
    <2>10. UploadFiles'
      BY <1>1, <2>7, <2>8, <2>9 DEF UploadInv, UploadFiles, Sending!OwnFile, Sending!None
    <2> QED
      BY <2>1, <2>3, <2>4, <2>10 DEF UploadInv
  <1> QED
    BY <1>3, <1>4 DEF Sending!Accept, Sending!To

\* The reader returns what it read.
LEMMA UploadRead == ASSUME UploadInv, NEW u \in Transfer, Sending!Read(u) PROVE UploadInv'
  <1>1. upload[u] = "read" /\ UNCHANGED <<port, named, offer, caller, visitor, remaining, got, silent, late>>
    BY DEF Sending!Read
  <1>2. PICK k \in 0 .. Sending!Min({Chunk, remaining[u]}) :
          took' = [took EXCEPT ![u] = k] /\ upload' = [upload EXCEPT ![u] = IF k = 0 THEN "close" ELSE "send"]
    BY DEF Sending!Read, Sending!To
  <1>3. k \in Nat /\ k <= Chunk /\ k <= remaining[u]
    <2>1. Chunk \in Nat /\ remaining[u] \in Nat
      BY UploadTypes
    <2>2. Sending!Min({Chunk, remaining[u]}) \in {Chunk, remaining[u]}
          /\ \A y \in {Chunk, remaining[u]} : Sending!Min({Chunk, remaining[u]}) <= y
      BY <2>1, LeastOf
    <2> QED
      BY <2>1, <2>2
  <1>4. \A v \in Transfer : /\ upload'[v] = IF v # u THEN upload[v] ELSE IF k = 0 THEN "close" ELSE "send"
                            /\ took'[v] = IF v = u THEN k ELSE took[v]
    BY <1>2 DEF UploadInv, Sending!TypeOK
  <1>5. Sending!TypeOK'
    <2>1. k \in 0 .. Chunk
      BY <1>3, UploadTypes
    <2> QED
      BY <1>1, <1>2, <2>1 DEF UploadInv, Sending!TypeOK
  <1>6. UploadPorts' /\ UploadCalls'
    BY <1>1, <1>4 DEF UploadInv, UploadPorts, UploadCalls
  <1>7. VisitorHas(u)'
    <2>1. VisitorHas(u) /\ remaining[u] \in Nat /\ Size \in Nat /\ Size # 0
      BY UploadTypes DEF UploadInv, UploadFiles
    <2>2. visitor[u] # Nobody /\ got[visitor[u]].units = Size - remaining[u]
          /\ (remaining[u] # Size => got[visitor[u]].of = u)
      BY <1>1, <2>1 DEF VisitorHas
    <2>3. visitor[u] \in Transfer
      BY <2>2, UploadTypes
    <2>4. remaining[u] = 0 => got[visitor[u]] = [of |-> u, units |-> Size]
      <3>1. got[visitor[u]] \in [of : Transfer \cup {Nobody}, units : 0 .. Size]
        BY <2>3 DEF UploadInv, UploadFiles
      <3> QED
        BY <2>1, <2>2, <3>1
    <2>5. CASE k = 0
      <3>1. upload'[u] = "close"
        BY <1>4, <2>5
      <3> QED
        BY <1>1, <2>2, <2>4, <3>1 DEF VisitorHas
    <2>6. CASE k # 0
      <3>1. upload'[u] = "send" /\ took'[u] = k
        BY <1>4, <2>6
      <3> QED
        BY <1>1, <1>3, <2>2, <2>6, <3>1 DEF VisitorHas
    <2> QED
      BY <2>5, <2>6
  <1>8. ASSUME NEW v \in Transfer, v # u PROVE VisitorHas(v)'
    <2>1. VisitorHas(v) /\ UNCHANGED <<visitor, remaining, got>>
      BY <1>1 DEF UploadInv, UploadFiles
    <2>2. upload'[v] = upload[v] /\ took'[v] = took[v]
      BY <1>4, <1>8
    <2> QED
      BY <2>1, <2>2 DEF VisitorHas
  <1>9. UploadFiles'
    BY <1>1, <1>7, <1>8 DEF UploadInv, UploadFiles, Sending!OwnFile, Sending!None
  <1> QED
    BY <1>5, <1>6, <1>9 DEF UploadInv

\* What was read is sent, or a part of it.
LEMMA UploadSend == ASSUME UploadInv, NEW u \in Transfer, Sending!Send(u) PROVE UploadInv'
  <1> DEFINE r == visitor[u]
  <1>1. upload[u] = "send" /\ UNCHANGED <<port, named, offer, caller, visitor, took, silent, late>>
    BY DEF Sending!Send
  <1>2. /\ Size \in Nat /\ Size # 0 /\ remaining[u] \in Nat /\ remaining[u] <= Size /\ took[u] \in Nat
        /\ r \in Transfer /\ took[u] # 0 /\ took[u] <= remaining[u] /\ got[r].units = Size - remaining[u]
    BY <1>1, UploadTypes DEF UploadInv, UploadFiles, VisitorHas
  <1>3. PICK k \in 0 .. took[u], s \in {"read", "close"} :
          /\ got' = [got EXCEPT ![r] = [of |-> u, units |-> @.units + k]]
          /\ upload' = [upload EXCEPT ![u] = s]
          /\ \/ s = "read" /\ k = took[u] /\ remaining' = [remaining EXCEPT ![u] = @ - took[u]]
             \/ s = "close" /\ remaining' = remaining
    <2>1. CASE /\ Sending!To(u, "read") /\ Sending!Deliver(u, took[u])
               /\ remaining' = [remaining EXCEPT ![u] = @ - took[u]]
      <3>1. took[u] \in 0 .. took[u]
        BY <1>2
      <3>2. got' = [got EXCEPT ![r] = [of |-> u, units |-> @.units + took[u]]] /\ upload' = [upload EXCEPT ![u] = "read"]
        BY <2>1 DEF Sending!Deliver, Sending!To
      <3> QED
        BY <2>1, <3>1, <3>2
    <2>2. CASE /\ \E k \in 0 .. took[u] - 1 : Sending!Deliver(u, k)
               /\ Sending!To(u, "close") /\ UNCHANGED remaining
      <3>1. PICK k \in 0 .. took[u] - 1 : Sending!Deliver(u, k)
        BY <2>2
      <3>2. k \in 0 .. took[u]
        BY <1>2
      <3> QED
        BY <2>2, <3>1, <3>2 DEF Sending!Deliver, Sending!To
    <2> QED
      BY <2>1, <2>2 DEF Sending!Send
  <1> HIDE DEF r
  <1>4. /\ \A v \in Transfer : v # u => upload'[v] = upload[v] /\ remaining'[v] = remaining[v]
        /\ upload'[u] = s /\ remaining'[u] = IF s = "read" THEN remaining[u] - took[u] ELSE remaining[u]
    BY <1>3 DEF UploadInv, Sending!TypeOK
  <1>5. /\ \A v \in Transfer : v # r => got'[v] = got[v]
        /\ got'[r] = [of |-> u, units |-> got[r].units + k]
    BY <1>2, <1>3 DEF UploadInv, UploadFiles
  <1>6. remaining'[u] \in 0 .. Size /\ got[r].units + k \in 0 .. Size /\ k \in Nat
    BY <1>2, <1>4
  <1>7. got' \in [Transfer -> [of : Transfer \cup {Nobody}, units : 0 .. Size]]
    <2>1. [of |-> u, units |-> got[r].units + k] \in [of : Transfer \cup {Nobody}, units : 0 .. Size]
      BY <1>6
    <2> QED
      BY <1>3, <2>1 DEF UploadInv, UploadFiles
  <1>8. Sending!TypeOK'
    <2>1. remaining' \in [Transfer -> 0 .. Size]
      <3>1. remaining' \in [Transfer -> 0 .. Size] \/ remaining' = [remaining EXCEPT ![u] = remaining'[u]]
        BY <1>3 DEF UploadInv, Sending!TypeOK
      <3> QED
        BY <1>6, <3>1 DEF UploadInv, Sending!TypeOK
    <2>2. upload' \in [Transfer -> {"none", "bound", "told", "wait", "tls", "read", "send", "close", "done", "failed", "no thread"}]
      BY <1>3 DEF UploadInv, Sending!TypeOK
    <2>3. \A v \in Transfer : got'[v].of \in Transfer \cup {Nobody} /\ got'[v].units \in 0 .. Size
      BY <1>7
    <2> QED
      BY <1>1, <2>1, <2>2, <2>3 DEF UploadInv, Sending!TypeOK
  <1>9. UploadPorts' /\ UploadCalls'
    BY <1>1, <1>4 DEF UploadInv, UploadPorts, UploadCalls
  <1>10. VisitorHas(u)'
    <2>1. got'[visitor'[u]] = [of |-> u, units |-> got[r].units + k] /\ visitor'[u] # Nobody
      BY <1>1, <1>2, <1>5, UploadTypes DEF r
    <2>2. CASE s = "read"
      <3>1. remaining'[u] = remaining[u] - took[u] /\ k = took[u] /\ upload'[u] = "read"
        BY <1>3, <1>4, <2>2
      <3>2. got[r].units + k = Size - remaining'[u]
        BY <1>2, <3>1
      <3> QED
        BY <2>1, <3>1, <3>2 DEF VisitorHas
    <2>3. CASE s = "close"
      <3>1. remaining'[u] = remaining[u] /\ remaining[u] # 0 /\ upload'[u] = "close"
        BY <1>2, <1>4, <2>3
      <3> QED
        BY <2>1, <3>1 DEF VisitorHas
    <2> QED
      BY <2>2, <2>3
  <1>11. ASSUME NEW v \in Transfer, v # u PROVE VisitorHas(v)'
    <2>1. VisitorHas(v) /\ visitor' = visitor /\ took' = took
      BY <1>1 DEF UploadInv, UploadFiles
    <2>2. upload'[v] = upload[v] /\ remaining'[v] = remaining[v]
      BY <1>4, <1>11
    <2>3. visitor[v] # r
      BY <1>2, <1>11, UploadTypes DEF r, UploadInv, UploadCalls
    <2>4. visitor[v] = Nobody \/ got'[visitor[v]] = got[visitor[v]]
      BY <1>5, <2>3, UploadTypes
    <2>5. remaining[v] = 0 => visitor[v] # Nobody
      BY <1>2, <2>1 DEF VisitorHas
    <2> QED
      BY <2>1, <2>2, <2>4, <2>5 DEF VisitorHas
  <1>12. \A v \in Transfer : got'[v] = Sending!None \/ \E w \in Transfer : visitor'[w] = v
    <2>1. visitor'[u] = r
      BY <1>1 DEF r
    <2> QED
      BY <1>1, <1>5, <2>1 DEF UploadInv, UploadFiles
  <1>13. Sending!OwnFile'
    <2>1. r = u \/ r \in late
      BY <1>2, UploadTypes DEF r, UploadInv, UploadCalls
    <2> QED
      BY <1>1, <1>5, <2>1 DEF UploadInv, UploadFiles, Sending!OwnFile
  <1>14. UploadFiles'
    BY <1>7, <1>10, <1>11, <1>12, <1>13 DEF UploadFiles, Sending!None
  <1> QED
    BY <1>8, <1>9, <1>14 DEF UploadInv

\* The connection is closed, and who waits is turned away.
LEMMA UploadClose == ASSUME UploadInv, NEW u \in Transfer, Sending!Close(u) PROVE UploadInv'
  <1>1. upload[u] = "close" /\ upload' = [upload EXCEPT ![u] = "done"]
        /\ port' = [port EXCEPT ![u] = 0] /\ caller' = [caller EXCEPT ![u] = Nobody]
        /\ offer' = [r \in Transfer |-> IF r \in {caller[u], visitor[u]} THEN "over" ELSE offer[r]]
        /\ UNCHANGED <<named, visitor, remaining, took, got, silent, late>>
    BY DEF Sending!Close, Sending!To
  <1>2. \A v \in Transfer : /\ upload'[v] = IF v = u THEN "done" ELSE upload[v]
                            /\ port'[v] = IF v = u THEN 0 ELSE port[v]
                            /\ caller'[v] = IF v = u THEN Nobody ELSE caller[v]
                            /\ offer'[v] = IF v \in {caller[u], visitor[u]} THEN "over" ELSE offer[v]
    BY <1>1 DEF UploadInv, Sending!TypeOK
  <1>3. Sending!TypeOK'
    BY <1>1 DEF UploadInv, Sending!TypeOK
  <1>4. \A v \in Transfer : v \in {caller[u], visitor[u]} => offer[v] \in {"calling", "over"}
    BY UploadTypes DEF UploadInv, UploadCalls
  <1>5. \A v \in Transfer : offer[v] = "none" => offer'[v] = "none"
    BY <1>2, <1>4
  <1>6. UploadPorts'
    BY <1>1, <1>2, <1>5 DEF UploadInv, UploadPorts
  <1>7. UploadCalls'
    <2>1. \A v \in Transfer : caller'[v] # Nobody => /\ offer'[caller'[v]] = "calling"
                                                     /\ caller'[v] = v \/ caller'[v] \in late
      BY <1>2, UploadTypes DEF UploadInv, UploadCalls
    <2>2. \A v \in Transfer : visitor[v] # Nobody => /\ offer'[visitor[v]] \in {"calling", "over"}
                                                     /\ visitor[v] = v \/ visitor[v] \in late
      BY <1>2, UploadTypes DEF UploadInv, UploadCalls
    <2>3. \A v, w \in Transfer : caller'[v] # Nobody => caller'[v] # visitor[w] /\ (v # w => caller'[v] # caller'[w])
      BY <1>2 DEF UploadInv, UploadCalls
    <2>4. \A v, w \in Transfer : visitor[v] # Nobody /\ v # w => visitor[v] # visitor[w]
      BY DEF UploadInv, UploadCalls
    <2>5. visitor' = visitor /\ late' = late
      BY <1>1
    <2> QED
      BY <2>1, <2>2, <2>3, <2>4, <2>5 DEF UploadCalls
  <1>8. ASSUME NEW v \in Transfer PROVE VisitorHas(v)'
    <2>1. VisitorHas(v) /\ UNCHANGED <<visitor, remaining, took, got>>
      BY <1>1 DEF UploadInv, UploadFiles
    <2>2. upload'[v] = upload[v] \/ (upload[v] = "close" /\ upload'[v] = "done")
      BY <1>1, <1>2
    <2> QED
      BY <2>1, <2>2 DEF VisitorHas
  <1>9. UploadFiles'
    BY <1>1, <1>8 DEF UploadInv, UploadFiles, Sending!OwnFile, Sending!None
  <1> QED
    BY <1>3, <1>6, <1>7, <1>9 DEF UploadInv

\* A receiver hears of a file, calls, or falls silent.
LEMMA UploadReceivers ==
  ASSUME UploadInv, NEW r \in Transfer, Sending!Hear(r) \/ Sending!Call(r) \/ Sending!FallSilent(r)
  PROVE  UploadInv'
  <1>1. CASE Sending!Hear(r)
    <2>1. PICK s \in {"heard", "over"} : offer' = [offer EXCEPT ![r] = s]
      BY <1>1 DEF Sending!Hear
    <2>2. offer[r] = "queued" /\ UNCHANGED <<upload, port, named, caller, visitor, remaining, took, got, silent, late>>
      BY <1>1 DEF Sending!Hear
    <2>3. \A v \in Transfer : offer'[v] = IF v = r THEN s ELSE offer[v]
      BY <2>1 DEF UploadInv, Sending!TypeOK
    <2>4. Sending!TypeOK'
      BY <2>1, <2>2 DEF UploadInv, Sending!TypeOK
    <2>5. UploadPorts'
      BY <2>2, <2>3 DEF UploadInv, UploadPorts
    <2>6. \A v \in Transfer : offer[v] \in {"calling", "over"} => offer'[v] = offer[v]
      BY <2>2, <2>3
    <2>7. UploadCalls'
      BY <2>2, <2>6, UploadTypes DEF UploadInv, UploadCalls
    <2>8. UploadFiles'
      BY <2>2 DEF UploadInv, UploadFiles, VisitorHas, Sending!OwnFile, Sending!None
    <2> QED
      BY <2>4, <2>5, <2>7, <2>8 DEF UploadInv
  <1>2. CASE Sending!Call(r)
    <2>1. offer[r] = "heard" /\ late' = (IF port[r] # named[r] THEN late \cup {r} ELSE late)
          /\ UNCHANGED <<upload, port, named, visitor, remaining, took, got, silent>>
      BY <1>2 DEF Sending!Call
    <2>2. PICK u \in Transfer : /\ port[u] = named[r] /\ caller[u] = Nobody
                                /\ caller' = [caller EXCEPT ![u] = r]
                               /\ offer' = [offer EXCEPT ![r] = "calling"]
      BY <1>2 DEF Sending!Call
    <2>3. \A v \in Transfer : /\ caller'[v] = IF v = u THEN r ELSE caller[v]
                              /\ offer'[v] = IF v = r THEN "calling" ELSE offer[v]
      BY <2>2 DEF UploadInv, Sending!TypeOK
    <2>4. Sending!TypeOK'
      BY <2>1, <2>2 DEF UploadInv, Sending!TypeOK
    <2>5. UploadPorts'
      BY <2>1, <2>3 DEF UploadInv, UploadPorts
    <2>6. late \subseteq late' /\ (r = u \/ r \in late')
      BY <2>1, <2>2 DEF UploadInv, UploadPorts
    <2>7. r # Nobody /\ \A v \in Transfer : caller[v] # r /\ visitor[v] # r
      BY <2>1, UploadTypes DEF UploadInv, UploadCalls
    <2>8. UploadCalls'
      <3>1. \A v \in Transfer : caller'[v] # Nobody => /\ offer'[caller'[v]] = "calling"
                                                       /\ caller'[v] = v \/ caller'[v] \in late'
        BY <2>3, <2>6, <2>7, UploadTypes DEF UploadInv, UploadCalls
      <3>2. \A v \in Transfer : visitor[v] # Nobody => /\ offer'[visitor[v]] \in {"calling", "over"}
                                                       /\ visitor[v] = v \/ visitor[v] \in late'
        BY <2>3, <2>6, <2>7, UploadTypes DEF UploadInv, UploadCalls
      <3>3. \A v, w \in Transfer : caller'[v] # Nobody => caller'[v] # visitor[w] /\ (v # w => caller'[v] # caller'[w])
        BY <2>3, <2>7 DEF UploadInv, UploadCalls
      <3>4. \A v, w \in Transfer : visitor[v] # Nobody /\ v # w => visitor[v] # visitor[w]
        BY DEF UploadInv, UploadCalls
      <3>5. visitor' = visitor
        BY <2>1
      <3> QED
        BY <3>1, <3>2, <3>3, <3>4, <3>5 DEF UploadCalls
    <2>9. UploadFiles'
      BY <2>1, <2>6 DEF UploadInv, UploadFiles, VisitorHas, Sending!OwnFile, Sending!None
    <2> QED
      BY <2>4, <2>5, <2>8, <2>9 DEF UploadInv
  <1>3. CASE Sending!FallSilent(r)
    <2>1. silent' \subseteq Transfer /\ UNCHANGED <<upload, port, named, offer, caller, visitor, remaining, took, got, late>>
      BY <1>3 DEF Sending!FallSilent, UploadInv, Sending!TypeOK
    <2>2. Sending!TypeOK'
      BY <2>1 DEF UploadInv, Sending!TypeOK
    <2>3. UploadPorts' /\ UploadCalls'
      BY <2>1 DEF UploadInv, UploadPorts, UploadCalls
    <2>4. UploadFiles'
      BY <2>1 DEF UploadInv, UploadFiles, VisitorHas, Sending!OwnFile, Sending!None
    <2> QED
      BY <2>2, <2>3, <2>4 DEF UploadInv
  <1> QED
    BY <1>1, <1>2, <1>3

\* No step of an upload or of a receiver disturbs it.
LEMMA UploadStep == UploadInv /\ [Sending!Next]_sendingVars => UploadInv'
  <1> SUFFICES ASSUME UploadInv, [Sending!Next]_sendingVars PROVE UploadInv'
    OBVIOUS
  <1>1. CASE UNCHANGED sendingVars
    <2>1. Sending!TypeOK'
      BY <1>1 DEF sendingVars, UploadInv, Sending!TypeOK
    <2>2. UploadPorts' /\ UploadCalls'
      BY <1>1 DEF sendingVars, UploadInv, UploadPorts, UploadCalls
    <2>3. UploadFiles'
      BY <1>1 DEF sendingVars, UploadInv, UploadFiles, VisitorHas, Sending!OwnFile, Sending!None
    <2> QED
      BY <2>1, <2>2, <2>3 DEF UploadInv
  <1> QED
    BY <1>1, UploadBind, UploadAnnounce, UploadStarts, UploadAccept, UploadRead, UploadSend, UploadClose, UploadReceivers
    DEF Sending!Next, Sending!Thread

\* It says that a receiver gets its own file, and all of it.
LEMMA UploadHolds == UploadInv => Sending!TypeOK /\ Sending!OwnFile /\ Sending!RestIsMissing
  <1> SUFFICES ASSUME UploadInv PROVE Sending!RestIsMissing
    BY DEF UploadInv, UploadFiles
  <1> SUFFICES ASSUME NEW u \in Transfer
               PROVE  /\ upload[u] = "read" => got[visitor[u]].units = Size - remaining[u]
                      /\ upload[u] = "done" /\ remaining[u] = 0 => got[visitor[u]] = [of |-> u, units |-> Size]
    BY DEF Sending!RestIsMissing
  <1>1. VisitorHas(u)
    BY DEF UploadInv, UploadFiles
  <1> QED
    BY <1>1 DEF VisitorHas
-----------------------------------------------------------------------------

(* NxLink: when the tool says that it sent the program, the console has all of it. *)

Items == {"name", "size", "block", "end", "args"}

\* The blocks in a sequence of items, and how many they are.
BlocksIn(s) == {i \in DOMAIN s : s[i] = "block"}
Count(s) == Cardinality(BlocksIn(s))

\* The loader has every block and the end of the compressed data.
Whole == stored /\ loader # <<>> /\ loader[Len(loader)] = "end" /\ Count(loader) = blocks

\* The tool's own variables.
UpTypes ==
  /\ stage \in {"find", "connect", "name", "size", "answer", "data", "stored", "args", "sent", "failed", "log_only"}
  /\ pings \in 0 .. Pings /\ reads \in 0 .. MaxReads /\ blocks \in 0 .. MaxBlocks
  /\ toSwitch \in Seq(Items) /\ loader \in Seq(Items) /\ toHost \in Seq(Tool!Answers)
  /\ link \in BOOLEAN /\ stored \in BOOLEAN

\* What is on its way, and what the loader has, at each stage.
UpPlaces ==
  /\ ~link => toSwitch = <<>> /\ toHost = <<>>
  /\ stage \in {"find", "connect", "name", "size", "answer", "data"} => reads # 0
  /\ stage \in {"find", "connect", "name", "log_only"} =>
       toSwitch = <<>> /\ loader = <<>> /\ toHost = <<>> /\ blocks = 0
  /\ stage \in {"size", "answer"} =>
       /\ blocks = 0
       /\ \A i \in DOMAIN loader : loader[i] # "block"
       /\ \A i \in DOMAIN toSwitch : toSwitch[i] \in {"name", "size"}
  /\ stage = "size" => toHost = <<>> /\ \A i \in DOMAIN toSwitch : toSwitch[i] # "size"
  /\ stage = "answer" =>
       /\ toHost # <<>> => toSwitch = <<>> /\ Len(toHost) = 1
       /\ \A i \in DOMAIN toSwitch : toSwitch[i] = "size" => i = Len(toSwitch)
  /\ stage = "data" => toHost = <<>> /\ \A i \in DOMAIN toSwitch : toSwitch[i] = "block"
  /\ stage = "stored" =>
       /\ toHost # <<>> => toSwitch = <<>> /\ Whole
       /\ \A i \in DOMAIN toSwitch : toSwitch[i] \in {"block", "end"} /\ (toSwitch[i] = "end" => i = Len(toSwitch))
  /\ stage \in {"data", "stored"} /\ link => Count(loader) + Count(toSwitch) = blocks
  /\ stage = "args" => toSwitch = <<>> /\ Whole
  /\ stage = "sent" =>
       /\ stored /\ loader # <<>> /\ loader[Len(loader)] \in {"end", "args"} /\ Count(loader) = blocks
       /\ \A i \in DOMAIN toSwitch : toSwitch[i] = "args"

\* The log server reads one connection at a time, and prints what has arrived.
LogServed ==
  /\ listening \in BOOLEAN /\ turn \in {"accept", "data"}
  /\ backlog \in Seq(LogConn) /\ datafd \in LogConn \cup {NoLogConn}
  /\ turn = "data" => datafd \in LogConn
  /\ logged \in [LogConn -> 0 .. MaxBytes] /\ unread \in [LogConn -> Nat] /\ printed \in [LogConn -> Nat]
  /\ \A c \in LogConn : printed[c] + unread[c] <= logged[c]

UpInv == UpTypes /\ UpPlaces
NxInv == UpInv /\ LogServed

\* A sequence of items has a number of blocks, and none if it is empty.
LEMMA CountType ==
  ASSUME NEW s \in Seq(Items)
  PROVE  /\ IsFiniteSet(BlocksIn(s)) /\ Count(s) \in Nat
         /\ (\A i \in DOMAIN s : s[i] # "block") => Count(s) = 0
  <1>1. DOMAIN s = 1 .. Len(s) /\ Len(s) \in Nat
    OBVIOUS
  <1>2. IsFiniteSet(1 .. Len(s))
    BY <1>1, FS_Interval
  <1>3. IsFiniteSet(BlocksIn(s))
    BY <1>1, <1>2, FS_Subset DEF BlocksIn
  <1>4. Count(s) \in Nat
    BY <1>3, FS_CardinalityType DEF Count
  <1>5. ASSUME \A i \in DOMAIN s : s[i] # "block" PROVE Count(s) = 0
    <2>1. BlocksIn(s) = {}
      BY <1>5 DEF BlocksIn
    <2> QED
      BY <2>1, FS_EmptySet DEF Count
  <1> QED
    BY <1>3, <1>4, <1>5

LEMMA CountEmpty == <<>> \in Seq(Items) /\ Count(<<>>) = 0
  <1>1. BlocksIn(<<>>) = {}
    BY DEF BlocksIn
  <1> QED
    BY <1>1, FS_EmptySet DEF Count

\* What is sent on an empty connection is all that is on it.
LEMMA OneItem ==
  ASSUME NEW x \in Items
  PROVE  /\ Append(<<>>, x) \in Seq(Items)
         /\ \A i \in DOMAIN Append(<<>>, x) : Append(<<>>, x)[i] = x
  <1>1. Append(<<>>, x) = <<x>>
    OBVIOUS
  <1> QED
    BY <1>1

\* A block at the end of the sequence is one more.
LEMMA CountAppend ==
  ASSUME NEW s \in Seq(Items), NEW x \in Items
  PROVE  Count(Append(s, x)) = Count(s) + IF x = "block" THEN 1 ELSE 0
  <1> DEFINE t == Append(s, x)
  <1>1. Len(s) \in Nat /\ DOMAIN s = 1 .. Len(s) /\ DOMAIN t = 1 .. Len(s) + 1
        /\ t[Len(s) + 1] = x /\ \A i \in 1 .. Len(s) : t[i] = s[i]
    BY AppendProperties
  <1> HIDE DEF t
  <1>2. CASE x = "block"
    <2>1. BlocksIn(t) = BlocksIn(s) \cup {Len(s) + 1}
      BY <1>1, <1>2 DEF BlocksIn
    <2>2. Len(s) + 1 \notin BlocksIn(s)
      BY <1>1 DEF BlocksIn
    <2> QED
      BY <1>2, <2>1, <2>2, CountType, FS_AddElement DEF Count, t
  <1>3. CASE x # "block"
    <2>1. BlocksIn(t) = BlocksIn(s)
      BY <1>1, <1>3 DEF BlocksIn
    <2>2. Count(t) = Count(s) /\ Count(s) \in Nat
      BY <2>1, CountType DEF Count
    <2> QED
      BY <1>3, <2>2 DEF t
  <1> QED
    BY <1>2, <1>3

\* One at its beginning is one less without it.
LEMMA CountTail ==
  ASSUME NEW s \in Seq(Items), s # <<>>
  PROVE  Count(Tail(s)) + (IF s[1] = "block" THEN 1 ELSE 0) = Count(s)
  <1> DEFINE t == Tail(s)
             f == [i \in BlocksIn(t) |-> i + 1]
             T == BlocksIn(s) \ {1}
  <1>1. /\ Len(s) \in Nat /\ Len(s) # 0 /\ t \in Seq(Items)
        /\ DOMAIN s = 1 .. Len(s) /\ DOMAIN t = 1 .. Len(s) - 1
        /\ \A i \in 1 .. Len(s) - 1 : t[i] = s[i + 1]
    BY HeadTailProperties, EmptySeq
  <1> HIDE DEF t
  <1>2. \A i \in BlocksIn(t) : i \in Int /\ i + 1 \in T
    BY <1>1 DEF BlocksIn
  <1>3. \A j \in T : j - 1 \in BlocksIn(t) /\ j = (j - 1) + 1
    BY <1>1 DEF BlocksIn
  <1>4. f \in Bijection(BlocksIn(t), T)
    <2>1. f \in [BlocksIn(t) -> T]
      BY <1>2
    <2>2. \A i, j \in BlocksIn(t) : f[i] = f[j] => i = j
      BY <1>2
    <2>3. \A j \in T : \E i \in BlocksIn(t) : f[i] = j
      BY <1>3
    <2> QED
      BY <2>1, <2>2, <2>3 DEF Bijection, Injection, Surjection, IsInjective
  <1>5. Cardinality(T) = Count(t)
    BY <1>1, <1>4, CountType, FS_Bijection DEF ExistsBijection, Count
  <1>6. 1 \in BlocksIn(s) <=> s[1] = "block"
    BY <1>1 DEF BlocksIn
  <1>7. Cardinality(T) = IF s[1] = "block" THEN Count(s) - 1 ELSE Count(s)
    BY <1>6, CountType, FS_RemoveElement DEF Count
  <1>8. Count(s) \in Nat
    BY CountType
  <1> QED
    BY <1>5, <1>7, <1>8 DEF t

\* Nothing is sent at the start.
LEMMA NxInit == Tool!Init => NxInv
  <1> SUFFICES ASSUME Tool!Init PROVE NxInv
    OBVIOUS
  <1>1. UpTypes
    <2>1. pings \in 0 .. Pings /\ reads \in 0 .. MaxReads /\ blocks \in 0 .. MaxBlocks
      BY WireAssumption DEF Tool!Init
    <2>2. <<>> \in Seq(Items) /\ <<>> \in Seq(Tool!Answers)
      BY CountEmpty
    <2>3. stage \in {"find", "log_only"} /\ toSwitch = <<>> /\ loader = <<>> /\ toHost = <<>> /\ link = TRUE /\ stored = FALSE
      BY DEF Tool!Init
    <2> QED
      BY <2>1, <2>2, <2>3 DEF UpTypes
  <1>2. UpPlaces
    BY WireAssumption DEF Tool!Init, UpPlaces
  <1>3. LogServed
    BY WireAssumption DEF Tool!Init, LogServed
  <1> QED
    BY <1>1, <1>2, <1>3 DEF NxInv, UpInv

\* An item is sent, or the tool gives up.
LEMMA NxSends ==
  ASSUME UpInv, NEW x \in Items, NEW next, Tool!Sending(<<x>>, next)
  PROVE  \/ link /\ stage' = next /\ toSwitch' = Append(toSwitch, x)
         \/ ~link /\ stage' \in {next, "failed"} /\ toSwitch' = toSwitch
  <1>1. Append(toSwitch, x) = toSwitch \o <<x>>
    BY AppendIsConcat DEF UpInv, UpTypes
  <1> QED
    BY <1>1 DEF Tool!Sending, UpInv, UpTypes

\* The file is found a way, and its name and size are sent.
LEMMA NxBegins ==
  ASSUME UpInv, Tool!Ping \/ Tool!ConnectLoader \/ Tool!SendName \/ Tool!SendSize
  PROVE  UpInv'
  <1>0. pings \in Nat /\ Pings \in Nat /\ pings <= Pings
    BY WireAssumption DEF UpInv, UpTypes
  <1>1. CASE Tool!Ping
    <2>1. pings' \in 0 .. Pings /\ stage' \in {"find", "connect", "failed"} /\ stage = "find"
          /\ UNCHANGED <<reads, blocks, toSwitch, toHost, link, loader, stored>>
      BY <1>0, <1>1 DEF Tool!Ping
    <2> QED
      BY <2>1 DEF UpInv, UpTypes, UpPlaces
  <1>2. CASE Tool!ConnectLoader
    <2>1. stage = "connect" /\ stage' \in {"name", "failed"}
          /\ UNCHANGED <<pings, reads, blocks, toSwitch, toHost, link, loader, stored>>
      BY <1>2 DEF Tool!ConnectLoader
    <2> QED
      BY <2>1 DEF UpInv, UpTypes, UpPlaces
  <1>3. CASE Tool!SendName
    <2>1. stage = "name" /\ UNCHANGED <<pings, reads, blocks, toHost, link, loader, stored>>
      BY <1>3 DEF Tool!SendName
    <2>2. stage' \in {"size", "failed"} /\ (toSwitch' = toSwitch \/ (link /\ toSwitch' = Append(toSwitch, "name")))
      BY <1>3, NxSends DEF Tool!SendName, Items
    <2>3. toSwitch = <<>> /\ loader = <<>> /\ toHost = <<>> /\ blocks = 0 /\ reads # 0
      BY <2>1 DEF UpInv, UpPlaces
    <2>4. toSwitch' \in Seq(Items) /\ \A i \in DOMAIN toSwitch' : toSwitch'[i] = "name"
      <3>1. toSwitch' = <<>> \/ toSwitch' = Append(<<>>, "name")
        BY <2>2, <2>3
      <3>2. "name" \in Items
        BY DEF Items
      <3>3. Append(<<>>, "name") \in Seq(Items) /\ \A i \in DOMAIN Append(<<>>, "name") : Append(<<>>, "name")[i] = "name"
        BY <3>2, OneItem
      <3>4. CASE toSwitch' = <<>>
        BY <3>4, CountEmpty
      <3>5. CASE toSwitch' = Append(<<>>, "name")
        BY <3>3, <3>5, Zenon
      <3> QED
        BY <3>1, <3>4, <3>5
    <2>5. ~link => toSwitch' = <<>>
      BY <2>2, <2>3
    <2>6. UpTypes'
      BY <2>1, <2>2, <2>4 DEF UpInv, UpTypes
    <2>7. UpPlaces'
      BY <2>1, <2>2, <2>3, <2>4, <2>5 DEF UpPlaces
    <2> QED
      BY <2>6, <2>7 DEF UpInv
  <1>4. CASE Tool!SendSize
    <2>1. stage = "size" /\ UNCHANGED <<pings, reads, blocks, toHost, link, loader, stored>>
      BY <1>4 DEF Tool!SendSize
    <2>2. stage' \in {"answer", "failed"}
          /\ ((toSwitch' = toSwitch /\ ~link) \/ (link /\ toSwitch' = Append(toSwitch, "size")))
      BY <1>4, NxSends DEF Tool!SendSize, Items
    <2>3. toHost = <<>> /\ blocks = 0 /\ reads # 0 /\ \A i \in DOMAIN loader : loader[i] # "block"
      BY <2>1 DEF UpInv, UpPlaces
    <2>4. toSwitch \in Seq(Items) /\ \A i \in DOMAIN toSwitch : toSwitch[i] = "name"
      BY <2>1 DEF UpInv, UpTypes, UpPlaces
    <2>5. /\ toSwitch' \in Seq(Items)
          /\ \A i \in DOMAIN toSwitch' : toSwitch'[i] \in {"name", "size"} /\ (toSwitch'[i] = "size" => i = Len(toSwitch'))
      <3>1. CASE toSwitch' = toSwitch
        BY <2>4, <3>1
      <3>2. CASE toSwitch' = Append(toSwitch, "size")
        <4>1. "size" \in Items
          BY DEF Items
        <4>2. /\ toSwitch' \in Seq(Items) /\ Len(toSwitch') = Len(toSwitch) + 1 /\ toSwitch'[Len(toSwitch) + 1] = "size"
              /\ \A i \in 1 .. Len(toSwitch) : toSwitch'[i] = toSwitch[i]
          BY <2>4, <3>2, <4>1, AppendProperties
        <4>3. DOMAIN toSwitch' = 1 .. Len(toSwitch) + 1 /\ DOMAIN toSwitch = 1 .. Len(toSwitch) /\ Len(toSwitch) \in Nat
          BY <2>4, <4>2
        <4> QED
          BY <2>4, <4>2, <4>3
      <3> QED
        BY <2>2, <3>1, <3>2
    <2>6. ~link => toSwitch' = <<>>
      BY <2>2 DEF UpInv, UpPlaces
    <2>7. UpTypes'
      BY <2>1, <2>2, <2>5 DEF UpInv, UpTypes
    <2>8. UpPlaces'
      BY <2>1, <2>2, <2>3, <2>5, <2>6 DEF UpPlaces
    <2> QED
      BY <2>7, <2>8 DEF UpInv
  <1> QED
    BY <1>1, <1>2, <1>3, <1>4

\* The answers of the loader.
LEMMA NxAnswers ==
  ASSUME UpInv, Tool!ReadAnswer \/ Tool!ReadStored
  PROVE  UpInv'
  <1>1. UNCHANGED <<pings, reads, blocks, toSwitch, link, loader, stored>>
    BY DEF Tool!ReadAnswer, Tool!ReadStored
  <1>2. toHost' \in Seq(Tool!Answers)
    <2>1. toHost \in Seq(Tool!Answers)
      BY DEF UpInv, UpTypes
    <2>2. toHost # <<>> => Tail(toHost) \in Seq(Tool!Answers)
      BY <2>1, HeadTailProperties
    <2> QED
      BY <2>1, <2>2 DEF Tool!ReadAnswer, Tool!ReadStored
  <1>3. CASE Tool!ReadAnswer
    <2>1. stage = "answer" /\ stage' \in {"data", "failed"}
          /\ (stage' = "data" => toHost # <<>> /\ toHost' = Tail(toHost))
          /\ (stage' = "failed" => ~link \/ toHost # <<>>)
      BY <1>3 DEF Tool!ReadAnswer
    <2>2. UpTypes'
      BY <1>1, <1>2, <2>1 DEF UpInv, UpTypes
    <2>3. CASE stage' = "data"
      <3>1. toHost # <<>> /\ toSwitch = <<>> /\ Len(toHost) = 1 /\ blocks = 0 /\ reads # 0
            /\ \A i \in DOMAIN loader : loader[i] # "block"
        BY <2>1, <2>3 DEF UpInv, UpPlaces
      <3>2. toHost' = <<>>
        <4>1. Len(Tail(toHost)) = 0 /\ Tail(toHost) \in Seq(Tool!Answers)
          BY <3>1, HeadTailProperties DEF UpInv, UpTypes
        <4> QED
          BY <2>1, <2>3, <4>1, EmptySeq
      <3>3. Count(loader) = 0 /\ Count(toSwitch) = 0
        <4>1. loader \in Seq(Items)
          BY DEF UpInv, UpTypes
        <4> QED
          BY <3>1, <4>1, CountEmpty, CountType
      <3>4. UpPlaces'
        BY <1>1, <2>3, <3>1, <3>2, <3>3 DEF UpPlaces
      <3> QED
        BY <2>2, <3>4 DEF UpInv
    <2>4. CASE stage' = "failed"
      <3>1. ~link => toHost' = <<>> /\ toSwitch = <<>>
        BY <1>3 DEF UpInv, UpPlaces, Tool!ReadAnswer
      <3>2. UpPlaces'
        BY <1>1, <2>4, <3>1 DEF UpPlaces
      <3> QED
        BY <2>2, <3>2 DEF UpInv
    <2> QED
      BY <2>1, <2>3, <2>4
  <1>4. CASE Tool!ReadStored
    <2>1. stage = "stored" /\ stage' \in {"args", "failed"} /\ (stage' = "args" => toHost # <<>>)
      BY <1>4 DEF Tool!ReadStored
    <2>2. ~link => toHost' = <<>> /\ toSwitch = <<>>
      BY <1>4 DEF UpInv, UpPlaces, Tool!ReadStored
    <2>3. UpTypes'
      BY <1>1, <1>2, <2>1 DEF UpInv, UpTypes
    <2>4. stage' = "args" => toSwitch = <<>> /\ Whole
      BY <2>1 DEF UpInv, UpPlaces
    <2>5. Whole => Whole'
      BY <1>1 DEF Whole
    <2>6. UpPlaces'
      BY <1>1, <2>1, <2>2, <2>4, <2>5 DEF UpPlaces
    <2> QED
      BY <2>3, <2>6 DEF UpInv
  <1> QED
    BY <1>3, <1>4

\* The blocks of the program, and their end.
LEMMA NxDeflates ==
  ASSUME UpInv, Tool!DeflateFull \/ Tool!DeflateRest
  PROVE  UpInv'
  <1>1. stage = "data" /\ UNCHANGED <<pings, toHost, link, loader, stored>>
    BY DEF Tool!DeflateFull, Tool!DeflateRest
  <1>2. reads \in Nat /\ reads # 0 /\ reads <= MaxReads /\ MaxReads \in Nat /\ blocks \in Nat /\ blocks <= MaxBlocks
        /\ MaxBlocks \in Nat /\ toSwitch \in Seq(Items) /\ loader \in Seq(Items)
    BY <1>1, WireAssumption DEF UpInv, UpTypes, UpPlaces
  <1>3. toHost = <<>> /\ (\A i \in DOMAIN toSwitch : toSwitch[i] = "block")
        /\ (link => Count(loader) + Count(toSwitch) = blocks)
    BY <1>1 DEF UpInv, UpPlaces
  <1>4. Count(loader) \in Nat /\ Count(toSwitch) \in Nat
    BY <1>2, CountType
  <1>5. ~link => toSwitch = <<>>
    BY DEF UpInv, UpPlaces
  <1>6. reads' \in 0 .. MaxReads /\ blocks' \in 0 .. MaxBlocks
    BY <1>2 DEF Tool!DeflateFull, Tool!DeflateRest
  <1>7. CASE /\ stage' = "data" /\ reads' # 0
             /\ \/ toSwitch' = toSwitch /\ blocks' = blocks
                \/ link /\ toSwitch' = Append(toSwitch, "block") /\ blocks' = blocks + 1
    <2>1. CASE toSwitch' = toSwitch /\ blocks' = blocks
      BY <1>1, <1>3, <1>5, <1>6, <1>7, <2>1 DEF UpInv, UpTypes, UpPlaces
    <2>2. CASE link /\ toSwitch' = Append(toSwitch, "block") /\ blocks' = blocks + 1
      <3>1. "block" \in Items
        BY DEF Items
      <3>2. toSwitch' \in Seq(Items) /\ Len(toSwitch') = Len(toSwitch) + 1 /\ toSwitch'[Len(toSwitch) + 1] = "block"
            /\ \A i \in 1 .. Len(toSwitch) : toSwitch'[i] = toSwitch[i]
        BY <1>2, <2>2, <3>1, AppendProperties
      <3>3. \A i \in DOMAIN toSwitch' : toSwitch'[i] = "block"
        <4>1. Len(toSwitch) \in Nat /\ DOMAIN toSwitch = 1 .. Len(toSwitch) /\ DOMAIN toSwitch' = 1 .. Len(toSwitch) + 1
          BY <1>2, <3>2
        <4> QED
          BY <1>3, <3>2, <4>1
      <3>4. Count(loader) + Count(toSwitch') = blocks'
        <4>1. Count(toSwitch') = Count(toSwitch) + 1
          BY <1>2, <2>2, <3>1, CountAppend
        <4>2. Count(loader) + Count(toSwitch) = blocks /\ blocks' = blocks + 1
          BY <1>3, <2>2
        <4> QED
          BY <1>4, <4>1, <4>2
      <3>5. UpTypes'
        BY <1>1, <1>6, <1>7, <3>2 DEF UpInv, UpTypes
      <3>6. UpPlaces'
        BY <1>1, <1>3, <1>7, <2>2, <3>3, <3>4 DEF UpPlaces
      <3> QED
        BY <3>5, <3>6 DEF UpInv
    <2> QED
      BY <1>7, <2>1, <2>2
  <1>8. CASE stage' = "failed" /\ toSwitch' = toSwitch /\ ~link
    BY <1>1, <1>3, <1>5, <1>6, <1>8 DEF UpInv, UpTypes, UpPlaces
  <1>9. CASE ~link /\ stage' = "data" /\ toSwitch' = toSwitch /\ reads' # 0
    BY <1>1, <1>3, <1>5, <1>6, <1>9 DEF UpInv, UpTypes, UpPlaces
  <1>10. CASE stage' = "stored" /\ blocks' = blocks /\ (toSwitch' = toSwitch \/ (link /\ toSwitch' = Append(toSwitch, "end")))
    <2>1. toSwitch' \in Seq(Items) /\ (link => Count(toSwitch') = Count(toSwitch))
          /\ \A i \in DOMAIN toSwitch' : toSwitch'[i] \in {"block", "end"} /\ (toSwitch'[i] = "end" => i = Len(toSwitch'))
      <3>1. CASE toSwitch' = toSwitch
        BY <1>2, <1>3, <3>1
      <3>2. CASE toSwitch' = Append(toSwitch, "end")
        <4>1. "end" \in Items
          BY DEF Items
        <4>2. /\ toSwitch' \in Seq(Items) /\ Len(toSwitch') = Len(toSwitch) + 1 /\ toSwitch'[Len(toSwitch) + 1] = "end"
              /\ \A i \in 1 .. Len(toSwitch) : toSwitch'[i] = toSwitch[i]
          BY <1>2, <3>2, <4>1, AppendProperties
        <4>3. DOMAIN toSwitch' = 1 .. Len(toSwitch) + 1 /\ DOMAIN toSwitch = 1 .. Len(toSwitch) /\ Len(toSwitch) \in Nat
          BY <1>2, <4>2
        <4>4. Count(toSwitch') = Count(toSwitch)
          BY <1>2, <1>4, <3>2, <4>1, CountAppend
        <4>5. \A i \in DOMAIN toSwitch' : toSwitch'[i] \in {"block", "end"} /\ (toSwitch'[i] = "end" => i = Len(toSwitch'))
          BY <1>3, <4>2, <4>3
        <4> QED
          BY <4>2, <4>4, <4>5
      <3> QED
        BY <1>10, <3>1, <3>2
    <2>2. UpTypes'
      BY <1>1, <1>6, <1>10, <2>1 DEF UpInv, UpTypes
    <2>3. UpPlaces'
      BY <1>1, <1>3, <1>5, <1>10, <2>1 DEF UpPlaces
    <2> QED
      BY <2>2, <2>3 DEF UpInv
  <1>11. CASE Tool!DeflateFull
    <2>1. blocks' = blocks + 1 /\ reads' = reads /\ Tool!Sending(<<"block">>, "data")
      BY <1>11 DEF Tool!DeflateFull
    <2>2. "block" \in Items
      BY DEF Items
    <2> QED
      BY <1>2, <1>7, <1>8, <1>9, <2>1, <2>2, NxSends
  <1>12. CASE Tool!DeflateRest
    <2>1. reads' = reads - 1
      BY <1>12 DEF Tool!DeflateRest
    <2>2. "block" \in Items /\ "end" \in Items
      BY DEF Items
    <2>3. CASE reads > 1 /\ UNCHANGED <<blocks, toSwitch>> /\ stage' = "data"
      BY <1>2, <1>7, <2>1, <2>3
    <2>4. CASE reads > 1 /\ blocks' = blocks + 1 /\ Tool!Sending(<<"block">>, "data")
      <3>1. reads' # 0
        BY <1>2, <2>1, <2>4
      <3> QED
        BY <1>7, <1>8, <1>9, <2>2, <2>4, <3>1, NxSends
    <2>5. CASE blocks' = blocks /\ Tool!Sending(<<"end">>, "stored")
      BY <1>8, <1>10, <2>2, <2>5, NxSends
    <2> QED
      BY <1>12, <2>3, <2>4, <2>5 DEF Tool!DeflateRest
  <1> QED
    BY <1>11, <1>12

\* The arguments are sent last.
LEMMA NxSendArgs == ASSUME UpInv, Tool!SendArgs PROVE UpInv'
  <1>1. stage = "args" /\ UNCHANGED <<pings, reads, blocks, toHost, link, loader, stored>>
    BY DEF Tool!SendArgs
  <1>2. stage' \in {"sent", "failed"} /\ (toSwitch' = toSwitch \/ (link /\ toSwitch' = Append(toSwitch, "args")))
    BY NxSends DEF Tool!SendArgs, Items
  <1>3. toSwitch = <<>> /\ Whole /\ (~link => toHost = <<>>)
    BY <1>1 DEF UpInv, UpPlaces
  <1>4. toSwitch' = <<>> \/ (link /\ toSwitch' = Append(<<>>, "args"))
    BY <1>2, <1>3
  <1>5. toSwitch' \in Seq(Items) /\ (\A i \in DOMAIN toSwitch' : toSwitch'[i] = "args") /\ (~link => toSwitch' = <<>>)
    <2>1. "args" \in Items
      BY DEF Items
    <2>2. Append(<<>>, "args") \in Seq(Items) /\ \A i \in DOMAIN Append(<<>>, "args") : Append(<<>>, "args")[i] = "args"
      BY <2>1, OneItem
    <2>3. CASE toSwitch' = <<>>
      BY <2>3, CountEmpty
    <2>4. CASE link /\ toSwitch' = Append(<<>>, "args")
      BY <2>2, <2>4, Zenon
    <2> QED
      BY <1>4, <2>3, <2>4
  <1>6. UpTypes'
    BY <1>1, <1>2, <1>5 DEF UpInv, UpTypes
  <1>7. UpPlaces'
    BY <1>1, <1>2, <1>3, <1>5 DEF UpPlaces, Whole
  <1> QED
    BY <1>6, <1>7 DEF UpInv

\* The loader takes what is sent, and answers.
LEMMA NxLoads == ASSUME UpInv, Tool!Loader PROVE UpInv'
  <1> DEFINE x == toSwitch[1]
  <1>1. toSwitch # <<>> /\ link /\ toSwitch' = Tail(toSwitch) /\ loader' = Append(loader, x)
        /\ stored' = (stored \/ x = "end") /\ UNCHANGED <<stage, pings, reads, blocks, link>>
    BY DEF Tool!Loader
  <1>2. toSwitch \in Seq(Items) /\ loader \in Seq(Items) /\ toHost \in Seq(Tool!Answers)
    BY DEF UpInv, UpTypes
  <1>3. Len(toSwitch) \in Nat /\ Len(toSwitch) # 0 /\ DOMAIN toSwitch = 1 .. Len(toSwitch) /\ x \in Items
    BY <1>1, <1>2, EmptySeq
  <1>4. /\ toSwitch' \in Seq(Items) /\ Len(toSwitch') = Len(toSwitch) - 1 /\ DOMAIN toSwitch' = 1 .. Len(toSwitch) - 1
        /\ \A i \in 1 .. Len(toSwitch) - 1 : toSwitch'[i] = toSwitch[i + 1]
    BY <1>1, <1>2, HeadTailProperties
  <1>5. /\ loader' \in Seq(Items) /\ loader' # <<>> /\ Len(loader') = Len(loader) + 1 /\ loader'[Len(loader')] = x
        /\ DOMAIN loader' = 1 .. Len(loader) + 1 /\ DOMAIN loader = 1 .. Len(loader) /\ Len(loader) \in Nat
        /\ \A i \in 1 .. Len(loader) : loader'[i] = loader[i]
    BY <1>1, <1>2, <1>3, AppendProperties
  <1>6. /\ toHost' \in Seq(Tool!Answers)
        /\ x \notin {"size", "end"} => toHost' = toHost
        /\ x = "size" /\ toHost = <<>> => Len(toHost') = 1
    <2>1. CASE x = "size"
      <3>1. PICK v \in Tool!Answers : toHost' = Append(toHost, v)
        BY <2>1 DEF Tool!Loader
      <3> QED
        BY <1>2, <2>1, <3>1, AppendProperties
    <2>2. CASE x = "end"
      <3>1. toHost' = Append(toHost, 0) /\ 0 \in Tool!Answers
        BY <2>2 DEF Tool!Loader, Tool!Answers
      <3> QED
        BY <1>2, <2>2, <3>1, AppendProperties
    <2>3. CASE x \notin {"size", "end"}
      BY <1>2, <2>3 DEF Tool!Loader
    <2> QED
      BY <2>1, <2>2, <2>3
  <1>7. /\ Count(loader') = Count(loader) + IF x = "block" THEN 1 ELSE 0
        /\ Count(toSwitch') + (IF x = "block" THEN 1 ELSE 0) = Count(toSwitch)
        /\ Count(loader) \in Nat /\ Count(toSwitch') \in Nat /\ Count(toSwitch) \in Nat
    BY <1>1, <1>2, <1>3, <1>4, CountAppend, CountTail, CountType
  <1>8. x = toSwitch[1] /\ 1 \in DOMAIN toSwitch
    BY <1>3
  <1> HIDE DEF x
  <1>9. UpTypes'
    BY <1>1, <1>4, <1>5, <1>6 DEF UpInv, UpTypes
  <1>10. stage \notin {"find", "connect", "name", "log_only", "args"}
    BY <1>1 DEF UpInv, UpPlaces
  <1>11. Len(toSwitch) = 1 => toSwitch' = <<>>
    BY <1>4, EmptySeq
  <1>12. CASE stage = "size"
    <2>1. /\ blocks = 0 /\ toHost = <<>> /\ reads # 0 /\ \A i \in DOMAIN loader : loader[i] # "block"
          /\ \A i \in DOMAIN toSwitch : toSwitch[i] \in {"name", "size"} /\ toSwitch[i] # "size"
      BY <1>12 DEF UpInv, UpPlaces
    <2>2. x = "name" /\ toHost' = <<>>
      BY <1>6, <1>8, <2>1
    <2>3. \A i \in DOMAIN loader' : loader'[i] # "block"
      BY <1>5, <2>1, <2>2
    <2>4. \A i \in DOMAIN toSwitch' : toSwitch'[i] = "name"
      BY <1>3, <1>4, <2>1
    <2>5. UpPlaces'
      BY <1>1, <1>12, <2>1, <2>2, <2>3, <2>4 DEF UpPlaces
    <2> QED
      BY <1>9, <2>5 DEF UpInv
  <1>13. CASE stage = "answer"
    <2>1. /\ blocks = 0 /\ toHost = <<>> /\ reads # 0 /\ \A i \in DOMAIN loader : loader[i] # "block"
          /\ \A i \in DOMAIN toSwitch : toSwitch[i] \in {"name", "size"} /\ (toSwitch[i] = "size" => i = Len(toSwitch))
      BY <1>1, <1>13 DEF UpInv, UpPlaces
    <2>2. x \in {"name", "size"} /\ (x = "size" => Len(toSwitch) = 1)
      BY <1>8, <2>1
    <2>3. toHost' # <<>> => toSwitch' = <<>> /\ Len(toHost') = 1
      BY <1>6, <1>11, <2>1, <2>2
    <2>4. \A i \in DOMAIN loader' : loader'[i] # "block"
      BY <1>5, <2>1, <2>2
    <2>5. \A i \in DOMAIN toSwitch' : toSwitch'[i] \in {"name", "size"} /\ (toSwitch'[i] = "size" => i = Len(toSwitch'))
      BY <1>3, <1>4, <2>1
    <2>6. UpPlaces'
      BY <1>1, <1>13, <2>1, <2>3, <2>4, <2>5 DEF UpPlaces
    <2> QED
      BY <1>9, <2>6 DEF UpInv
  <1>14. CASE stage = "data"
    <2>1. toHost = <<>> /\ reads # 0 /\ (\A i \in DOMAIN toSwitch : toSwitch[i] = "block")
          /\ Count(loader) + Count(toSwitch) = blocks
      BY <1>1, <1>14 DEF UpInv, UpPlaces
    <2>2. x = "block" /\ toHost' = <<>>
      BY <1>6, <1>8, <2>1
    <2>3. \A i \in DOMAIN toSwitch' : toSwitch'[i] = "block"
      BY <1>3, <1>4, <2>1
    <2>4. Count(loader') + Count(toSwitch') = blocks
      BY <1>7, <2>1, <2>2
    <2>5. UpPlaces'
      BY <1>1, <1>14, <2>1, <2>2, <2>3, <2>4 DEF UpPlaces
    <2> QED
      BY <1>9, <2>5 DEF UpInv
  <1>15. CASE stage = "stored"
    <2>1. /\ toHost = <<>> /\ Count(loader) + Count(toSwitch) = blocks
          /\ \A i \in DOMAIN toSwitch : toSwitch[i] \in {"block", "end"} /\ (toSwitch[i] = "end" => i = Len(toSwitch))
      BY <1>1, <1>15 DEF UpInv, UpPlaces
    <2>2. x \in {"block", "end"} /\ (x = "end" => Len(toSwitch) = 1)
      BY <1>8, <2>1
    <2>3. Count(loader') + Count(toSwitch') = blocks
      BY <1>7, <2>1
    <2>4. toHost' # <<>> => toSwitch' = <<>> /\ Whole'
      <3>1. SUFFICES ASSUME toHost' # <<>> PROVE toSwitch' = <<>> /\ Whole'
        OBVIOUS
      <3>2. x = "end" /\ toSwitch' = <<>>
        BY <1>6, <1>11, <2>1, <2>2, <3>1
      <3>3. Count(toSwitch') = 0
        BY <3>2, CountEmpty
      <3>4. Count(loader') = blocks'
        <4>1. Count(loader') \in Nat /\ blocks' = blocks
          BY <1>1, <1>5, CountType
        <4> QED
          BY <2>3, <3>3, <4>1
      <3> QED
        BY <1>1, <1>5, <3>2, <3>4 DEF Whole
    <2>5. \A i \in DOMAIN toSwitch' : toSwitch'[i] \in {"block", "end"} /\ (toSwitch'[i] = "end" => i = Len(toSwitch'))
      BY <1>3, <1>4, <2>1
    <2>6. UpPlaces'
      BY <1>1, <1>15, <2>3, <2>4, <2>5 DEF UpPlaces
    <2> QED
      BY <1>9, <2>6 DEF UpInv
  <1>16. CASE stage = "sent"
    <2>1. stored /\ Count(loader) = blocks /\ \A i \in DOMAIN toSwitch : toSwitch[i] = "args"
      BY <1>16 DEF UpInv, UpPlaces
    <2>2. x = "args" /\ \A i \in DOMAIN toSwitch' : toSwitch'[i] = "args"
      BY <1>3, <1>4, <1>8, <2>1
    <2>3. Count(loader') = blocks
      BY <1>7, <2>1, <2>2
    <2>4. UpPlaces'
      BY <1>1, <1>5, <1>16, <2>1, <2>2, <2>3 DEF UpPlaces
    <2> QED
      BY <1>9, <2>4 DEF UpInv
  <1>17. CASE stage = "failed"
    <2>1. UpPlaces'
      BY <1>1, <1>17 DEF UpPlaces
    <2> QED
      BY <1>9, <2>1 DEF UpInv
  <1> QED
    BY <1>10, <1>12, <1>13, <1>14, <1>15, <1>16, <1>17 DEF UpInv, UpTypes

\* The connection breaks.
LEMMA NxBreaks == ASSUME UpInv, Tool!BreakLink PROVE UpInv'
  <1>1. link' = FALSE /\ toSwitch' = <<>> /\ toHost' = <<>> /\ UNCHANGED <<stage, pings, reads, blocks, loader, stored>>
    BY DEF Tool!BreakLink
  <1>2. UpTypes'
    <2>1. toSwitch' \in Seq(Items) /\ toHost' \in Seq(Tool!Answers)
      BY <1>1, CountEmpty
    <2> QED
      BY <1>1, <2>1 DEF UpInv, UpTypes
  <1>3. UpPlaces'
    BY <1>1 DEF UpInv, UpPlaces, Whole
  <1> QED
    BY <1>2, <1>3 DEF UpInv

\* No step of the log server, or of a program that logs, disturbs what it has.
LEMMA NxLogs ==
  ASSUME LogServed, Tool!Program \/ Tool!AcceptLog \/ Tool!PrintLog \/ Tool!EndLog
  PROVE  LogServed'
  <1>0. MaxBytes \in Nat /\ MaxBytes # 0 /\ NoLogConn \notin LogConn
    BY WireAssumption
  <1>1. \A c \in LogConn : /\ logged[c] \in Nat /\ logged[c] <= MaxBytes /\ unread[c] \in Nat /\ printed[c] \in Nat
                           /\ printed[c] + unread[c] <= logged[c]
    BY <1>0 DEF LogServed
  <1>2. ASSUME NEW c \in LogConn, Tool!Dial(c) PROVE LogServed'
    <2>1. logged[c] = 0 /\ backlog' = Append(backlog, c) /\ UNCHANGED <<listening, turn, datafd, closedBy, printed>>
          /\ logged' = [logged EXCEPT ![c] = 1] /\ unread' = [unread EXCEPT ![c] = 1]
      BY <1>2 DEF Tool!Dial, Tool!Unused
    <2>2. printed[c] = 0
      BY <1>1, <2>1
    <2>3. 1 \in 0 .. MaxBytes
      BY <1>0
    <2>4. logged' \in [LogConn -> 0 .. MaxBytes] /\ unread' \in [LogConn -> Nat]
      BY <2>1, <2>3 DEF LogServed
    <2>5. \A d \in LogConn : printed'[d] + unread'[d] <= logged'[d]
      BY <1>1, <2>1, <2>2 DEF LogServed
    <2>6. backlog' \in Seq(LogConn)
      BY <2>1, AppendProperties DEF LogServed
    <2> QED
      BY <2>1, <2>4, <2>5, <2>6 DEF LogServed
  <1>3. ASSUME NEW c \in LogConn, Tool!Log(c) PROVE LogServed'
    <2>1. logged[c] \in 1 .. MaxBytes - 1 /\ UNCHANGED <<listening, backlog, turn, datafd, closedBy, printed>>
          /\ logged' = [logged EXCEPT ![c] = @ + 1] /\ unread' = [unread EXCEPT ![c] = @ + 1]
      BY <1>3 DEF Tool!Log
    <2>2. logged[c] + 1 \in 0 .. MaxBytes /\ unread[c] + 1 \in Nat
      BY <1>0, <1>1, <2>1
    <2>3. logged' \in [LogConn -> 0 .. MaxBytes] /\ unread' \in [LogConn -> Nat]
      BY <2>1, <2>2 DEF LogServed
    <2>4. \A d \in LogConn : printed'[d] + unread'[d] <= logged'[d]
      BY <1>1, <2>1 DEF LogServed
    <2> QED
      BY <2>1, <2>3, <2>4 DEF LogServed
  <1>4. ASSUME NEW c \in LogConn, Tool!HangUp(c) PROVE LogServed'
    BY <1>4 DEF Tool!HangUp, LogServed
  <1>5. CASE Tool!AcceptLog
    <2>1. UNCHANGED <<listening, logged, unread, closedBy, printed>> /\ turn' = (IF datafd' = NoLogConn THEN "accept" ELSE "data")
      BY <1>5 DEF Tool!AcceptLog
    <2>2. backlog' \in Seq(LogConn) /\ datafd' \in LogConn \cup {NoLogConn}
      <3>1. CASE backlog # <<>>
        <4>1. datafd' = backlog[1] /\ backlog' = Tail(backlog)
          BY <1>5, <3>1 DEF Tool!AcceptLog
        <4>2. Len(backlog) \in Nat \ {0} /\ backlog \in Seq(LogConn)
          BY <3>1, EmptySeq DEF LogServed
        <4>3. Tail(backlog) \in Seq(LogConn)
          BY <3>1, <4>2, HeadTailProperties
        <4>4. backlog[1] \in LogConn
          BY <4>2, ElementOfSeq
        <4> QED
          BY <4>1, <4>3, <4>4
      <3>2. CASE backlog = <<>>
        BY <1>5, <3>2 DEF Tool!AcceptLog, LogServed
      <3> QED
        BY <3>1, <3>2
    <2> QED
      BY <2>1, <2>2 DEF LogServed
  <1>6. CASE Tool!PrintLog
    <2>1. turn = "data" /\ turn' = "accept" /\ UNCHANGED <<listening, backlog, datafd, logged, closedBy>>
      BY <1>6 DEF Tool!PrintLog
    <2>2. datafd \in LogConn
      BY <2>1 DEF LogServed
    <2>3. CASE unread[datafd] = 0
      <3>1. UNCHANGED <<printed, unread>>
        BY <1>6, <2>3 DEF Tool!PrintLog
      <3> QED
        BY <2>1, <3>1 DEF LogServed
    <2>4. CASE unread[datafd] # 0
      <3>1. printed' = [printed EXCEPT ![datafd] = @ + 1] /\ unread' = [unread EXCEPT ![datafd] = @ - 1]
        BY <1>6, <2>4 DEF Tool!PrintLog
      <3>2. printed[datafd] + 1 \in Nat /\ unread[datafd] - 1 \in Nat
        BY <1>1, <2>2, <2>4
      <3>3. printed' \in [LogConn -> Nat] /\ unread' \in [LogConn -> Nat]
        BY <3>1, <3>2 DEF LogServed
      <3>4. \A d \in LogConn : printed'[d] + unread'[d] <= logged[d]
        <4>1. \A d \in LogConn : printed'[d] + unread'[d] = printed[d] + unread[d]
          BY <1>1, <2>2, <2>4, <3>1 DEF LogServed
        <4> QED
          BY <1>1, <4>1
      <3> QED
        BY <2>1, <3>3, <3>4 DEF LogServed
    <2> QED
      BY <2>3, <2>4
  <1>7. CASE Tool!EndLog
    BY <1>7 DEF Tool!EndLog, LogServed
  <1> QED
    BY <1>2, <1>3, <1>4, <1>5, <1>6, <1>7 DEF Tool!Program

\* No step of the tool, of the loader or of a program disturbs it.
LEMMA NxStep == NxInv /\ [Tool!Next]_toolVars => NxInv'
  <1> SUFFICES ASSUME NxInv, [Tool!Next]_toolVars PROVE NxInv'
    OBVIOUS
  <1>1. ASSUME UNCHANGED <<stage, pings, reads, blocks, toSwitch, toHost, link, loader, stored>> PROVE UpInv'
    BY <1>1 DEF NxInv, UpInv, UpTypes, UpPlaces, Whole
  <1>2. ASSUME UNCHANGED <<listening, backlog, turn, datafd, logged, unread, closedBy, printed>> PROVE LogServed'
    BY <1>2 DEF NxInv, LogServed
  <1>3. CASE UNCHANGED toolVars
    BY <1>1, <1>2, <1>3 DEF toolVars, NxInv
  <1>4. CASE Tool!Ping \/ Tool!ConnectLoader \/ Tool!SendName \/ Tool!SendSize
    <2>1. UNCHANGED <<listening, backlog, turn, datafd, logged, unread, closedBy, printed>>
      BY <1>4 DEF Tool!Ping, Tool!ConnectLoader, Tool!SendName, Tool!SendSize, Tool!logVars
    <2> QED
      BY <1>2, <1>4, <2>1, NxBegins DEF NxInv
  <1>5. CASE Tool!ReadAnswer \/ Tool!ReadStored
    <2>1. UNCHANGED <<listening, backlog, turn, datafd, logged, unread, closedBy, printed>>
      BY <1>5 DEF Tool!ReadAnswer, Tool!ReadStored, Tool!logVars
    <2> QED
      BY <1>2, <1>5, <2>1, NxAnswers DEF NxInv
  <1>6. CASE Tool!DeflateFull \/ Tool!DeflateRest
    <2>1. UNCHANGED <<listening, backlog, turn, datafd, logged, unread, closedBy, printed>>
      BY <1>6 DEF Tool!DeflateFull, Tool!DeflateRest, Tool!logVars
    <2> QED
      BY <1>2, <1>6, <2>1, NxDeflates DEF NxInv
  <1>7. CASE Tool!SendArgs
    <2>1. LogServed'
      BY <1>7 DEF Tool!SendArgs, NxInv, LogServed
    <2> QED
      BY <1>7, <2>1, NxSendArgs DEF NxInv
  <1>8. CASE Tool!Loader
    <2>1. UNCHANGED <<listening, backlog, turn, datafd, logged, unread, closedBy, printed>>
      BY <1>8 DEF Tool!Loader, Tool!logVars
    <2> QED
      BY <1>2, <1>8, <2>1, NxLoads DEF NxInv
  <1>9. CASE Tool!BreakLink
    <2>1. UNCHANGED <<listening, backlog, turn, datafd, logged, unread, closedBy, printed>>
      BY <1>9 DEF Tool!BreakLink, Tool!logVars
    <2> QED
      BY <1>2, <1>9, <2>1, NxBreaks DEF NxInv
  <1>10. CASE Tool!Program \/ Tool!AcceptLog \/ Tool!PrintLog \/ Tool!EndLog
    <2>1. UNCHANGED <<stage, pings, reads, blocks, toSwitch, toHost, link, loader, stored>>
      BY <1>10 DEF Tool!Program, Tool!Dial, Tool!Log, Tool!HangUp, Tool!AcceptLog, Tool!PrintLog, Tool!EndLog, Tool!upVars
    <2> QED
      BY <1>1, <1>10, <2>1, NxLogs DEF NxInv
  <1> QED
    BY <1>3, <1>4, <1>5, <1>6, <1>7, <1>8, <1>9, <1>10 DEF Tool!Next, Tool!Upload

\* It says that what was sent is stored.
LEMMA NxHolds == NxInv => Tool!TypeOK /\ Tool!SentIsStored
  <1> SUFFICES ASSUME NxInv PROVE Tool!TypeOK /\ Tool!SentIsStored
    OBVIOUS
  <1>1. Tool!TypeOK
    <2>1. \A c \in LogConn : logged[c] \in 0 .. MaxBytes /\ unread[c] \in Nat /\ printed[c] \in Nat /\ printed[c] + unread[c] <= logged[c]
      BY DEF NxInv, LogServed
    <2>2. \A c \in LogConn : unread[c] \in 0 .. logged[c] /\ printed[c] \in 0 .. logged[c]
      BY <2>1, WireAssumption
    <2>3. \A i \in DOMAIN toHost : toHost[i] \in Tool!Answers
      BY DEF NxInv, UpInv, UpTypes
    <2> QED
      BY <2>1, <2>2, <2>3 DEF NxInv, UpInv, UpTypes, LogServed, Tool!TypeOK
  <1>2. Tool!Cardinality({i \in DOMAIN loader : loader[i] = "block"}) = Count(loader)
    BY DEF Count, BlocksIn, Tool!Cardinality, Cardinality
  <1>3. Tool!SentIsStored
    BY <1>2 DEF NxInv, UpInv, UpPlaces, Tool!SentIsStored
  <1> QED
    BY <1>1, <1>3
-----------------------------------------------------------------------------

(* The whole: a step is one of a part, and the others are left alone. *)

\* What the parts rest on.
WireInv == FrameInv /\ MeetInv /\ SearchInv /\ UploadInv /\ NxInv

\* A step of a part, which is a stutter of the others.
LEMMA WireStep == WireInv /\ [WireNext]_wireVars => WireInv'
  <1> SUFFICES ASSUME WireInv, [WireNext]_wireVars PROVE WireInv'
    OBVIOUS
  <1>1. /\ [Frames!Next]_framesVars /\ [Two!Next]_meetingVars /\ [Search!Next]_searchVars
        /\ [Sending!Next]_sendingVars /\ [Tool!Next]_toolVars
    BY DEF WireNext, wireVars
  <1> QED
    BY <1>1, FrameStep, MeetStep, SearchStep, UploadStep, NxStep DEF WireInv

\* The invariants of the parts, which the theorem below rests on, hold from the start
\* and through every step.
THEOREM WireInductive == WireSpec => []WireInv
  <1>1. WireInit => WireInv
    BY FrameInit, MeetInit, SearchInit, UploadInit, NxInit DEF WireInit, WireInv
  <1> QED
    BY <1>1, WireStep, PTL DEF WireSpec

\* What arrives is what was sent, whole and once.  io_loop hands over the peer's lines
\* each whole, once and in order, however records split or join them, and send_queue
\* is sent in order; two consoles at rest agree on the connection they use, after any
\* losses and restarts; a device never probes itself, and the last it says is that it
\* leaves; a receiver gets the file it was told of, unless it connected late, and has
\* all of it that the upload does not count as remaining; and when nxlink says that it
\* sent the program, the loader has all of its blocks.
THEOREM WireIsWholeTheorem == WireSpec => []WireIsWhole
  <1>1. WireInv => WireIsWhole
    BY FrameHolds, MeetHolds, UploadHolds, NxHolds DEF WireInv, SearchInv, WireIsWhole
  <1> QED
    BY <1>1, WireInductive, PTL

=============================================================================
