----------------------------- MODULE Application -----------------------------
(***************************************************************************)
(* NxApplication (sysmodule/src/nx_application.cpp) and the IPC thread's   *)
(* hold on the client (sysmodule/src/ipc/ipc_service.cpp).                 *)
(*                                                                         *)
(* The client is kept by a shared pointer, client_, which main replaces on *)
(* a restart and which the IPC thread copies for each command, without a   *)
(* lock.  Whichever of them drops the last reference destroys the client,  *)
(* that is, runs its stop().  A copy that is counted after the last        *)
(* reference went revives the count, and the client is destroyed twice:    *)
(* revived tells of that, and then only who owns a client is kept to.      *)
(* What goes on inside a client is the subject of Sessions; here it runs,  *)
(* and sometimes asks for a restart.                                       *)
(***************************************************************************)
EXTENDS Integers, FiniteSets

CONSTANTS
  Client,     \* memory for clients; a destroyed one's is used again
  NoClient    \* a null pointer

ASSUME ApplicationAssumption == NoClient \notin Client

VARIABLES
  main,       \* where main is
  ret,        \* where restart_client returns to
  slot,       \* client_
  dying,      \* the client main is destroying
  ipc,        \* where the IPC thread is
  held,       \* the client it has copied the pointer of
  state,      \* how far each client is
  refs,       \* its use count
  needs,      \* needs_restart_
  udp,        \* the client that has the UDP port
  online,     \* the state of the network
  wasOnline,  \* was_online_
  cool,       \* restart_cooldown_ has passed since last_restart_
  revived     \* history: a copy was counted after the last reference had gone

mainVars == <<main, ret, slot, dying>>
ipcVars == <<ipc, held>>
clientVars == <<state, refs, needs, udp, revived>>
worldVars == <<online, wasOnline, cool>>
vars == <<mainVars, ipcVars, clientVars, worldVars>>

MainPc == {"needs", "online", "reset", "destroy", "make", "start"}

IpcPc == {"wait", "copy", "command", "destroy", "crash"}

TypeOK ==
  /\ main \in MainPc
  /\ ret \in {"needs", "online"}
  /\ slot \in Client \cup {NoClient}
  /\ dying \in Client \cup {NoClient}
  /\ ipc \in IpcPc
  /\ held \in Client \cup {NoClient}
  /\ ipc \in {"copy", "command", "destroy"} => held \in Client
  /\ main \in {"needs", "online", "reset", "start"} => slot \in Client
  /\ state \in [Client -> {"gone", "made", "running", "failed", "closing"}]
  /\ refs \in [Client -> Int]
  /\ needs \in [Client -> BOOLEAN]
  /\ udp \in Client \cup {NoClient}
  /\ online \in BOOLEAN /\ wasOnline \in BOOLEAN /\ cool \in BOOLEAN
  /\ revived \in BOOLEAN /\ (ipc = "crash" => revived)

\* The constructor has started the IPC service, and the client is next.
Init ==
  /\ main = "make" /\ ret = "needs" /\ slot = NoClient /\ dying = NoClient
  /\ ipc = "wait" /\ held = NoClient
  /\ state = [c \in Client |-> "gone"]
  /\ refs = [c \in Client |-> 0]
  /\ needs = [c \in Client |-> FALSE]
  /\ udp = NoClient /\ revived = FALSE
  /\ online \in BOOLEAN /\ wasOnline = online /\ cool = FALSE

Crashed == ipc = "crash"

-----------------------------------------------------------------------------
(* The end of a client.                                                    *)

\* A reference is dropped; the last one to go begins the destructor, whose
\* stop() has nothing to do for a client that never ran.  That goes by the count
\* alone: one that was revived comes to its last reference again.
Drop(c) ==
  /\ refs' = [refs EXCEPT ![c] = @ - 1]
  /\ state' = IF refs[c] # 1 THEN state
              ELSE [state EXCEPT ![c] = IF @ \in {"running", "closing"} THEN "closing" ELSE "gone"]

\* Whether the thread that drops its reference has a client that ran to destroy.
MustStop(c) == refs[c] = 1 /\ state[c] \in {"running", "closing"}

\* stop() returns: the sockets are closed, and the client is destroyed.
Destroyed(c) ==
  /\ state' = [state EXCEPT ![c] = "gone"]
  /\ udp' = IF udp = c THEN NoClient ELSE udp
  /\ UNCHANGED <<refs, needs, revived>>

-----------------------------------------------------------------------------
(* main: processEvents and restart_client.                                 *)

Restart(l) == main' = "reset" /\ ret' = l

\* The client asks for a restart; within the cooldown that is put off.
CheckNeeds ==
  /\ main = "needs"
  /\ IF needs[slot] /\ cool THEN Restart("online") ELSE main' = "online" /\ UNCHANGED ret
  /\ UNCHANGED <<slot, dying, ipcVars, clientVars, worldVars>>

\* The network is back: a restart that does not wait.  The plugins' events, and 100 ms
\* of sleep, come next, and then the next round.
CheckOnline ==
  /\ main = "online"
  /\ IF ~wasOnline /\ online THEN Restart("needs") ELSE main' = "needs" /\ UNCHANGED ret
  /\ wasOnline' = online
  /\ UNCHANGED <<slot, dying, ipcVars, clientVars, online, cool>>

\* Mutant: the old client is not let go of.
ResetKeeps ==
  /\ main = "reset"
  /\ slot' = NoClient
  /\ cool' = FALSE
  /\ main' = "make"
  /\ UNCHANGED <<ret, dying, ipcVars, clientVars, online, wasOnline>>

\* client_.reset(), with last_restart_ taken just before.
Reset ==
  /\ main = "reset"
  /\ slot' = NoClient
  /\ cool' = FALSE
  /\ Drop(slot)
  /\ IF MustStop(slot)
     THEN main' = "destroy" /\ dying' = slot
     ELSE main' = "make" /\ dying' = NoClient
  /\ UNCHANGED <<ret, ipcVars, needs, udp, revived, online, wasOnline>>

MainDestroyed ==
  /\ main = "destroy"
  /\ Destroyed(dying)
  /\ main' = "make"
  /\ dying' = NoClient
  /\ UNCHANGED <<ret, slot, ipcVars, worldVars>>

\* A new client is counted once, whoever still has a pointer into that memory.
Make(c) ==
  /\ main = "make"
  /\ state[c] = "gone"
  /\ slot' = c
  /\ state' = [state EXCEPT ![c] = "made"]
  /\ refs' = [refs EXCEPT ![c] = 1]
  /\ needs' = [needs EXCEPT ![c] = FALSE]
  /\ main' = "start"
  /\ UNCHANGED <<ret, dying, ipcVars, udp, revived, worldVars>>

\* The client starts.  It does without the UDP port if that is taken.
StartOk ==
  /\ main = "start"
  /\ state[slot] = "made"
  /\ state' = [state EXCEPT ![slot] = "running"]
  /\ udp' = IF udp = NoClient THEN slot ELSE udp
  /\ main' = ret /\ ret' = "needs"
  /\ UNCHANGED <<slot, dying, ipcVars, refs, needs, revived, worldVars>>

\* Mutant: the failure is only logged.
StartFailsQuietly ==
  /\ main = "start"
  /\ state[slot] = "made"
  /\ state' = [state EXCEPT ![slot] = "failed"]
  /\ main' = ret /\ ret' = "needs"
  /\ UNCHANGED <<slot, dying, ipcVars, refs, needs, udp, revived, worldVars>>

\* No TLS identity, or no TCP port.
StartFails ==
  /\ main = "start"
  /\ state[slot] = "made"
  /\ state' = [state EXCEPT ![slot] = "failed"]
  /\ needs' = [needs EXCEPT ![slot] = TRUE]
  /\ main' = ret /\ ret' = "needs"
  /\ UNCHANGED <<slot, dying, ipcVars, refs, udp, revived, worldVars>>

\* A command whose reference was not counted has destroyed the client meanwhile.
StartDestroyed ==
  /\ main = "start"
  /\ state[slot] # "made"
  /\ main' = ret /\ ret' = "needs"
  /\ UNCHANGED <<slot, dying, ipcVars, clientVars, worldVars>>

-----------------------------------------------------------------------------
(* The IPC thread: handle_command.                                         *)

\* A command: client_ is read; while it is null the command is refused.
IpcCopy ==
  /\ ipc = "wait"
  /\ slot # NoClient
  /\ ipc' = "copy"
  /\ held' = slot
  /\ UNCHANGED <<mainVars, clientVars, worldVars>>

\* The copy counts itself as a reference.  Nothing keeps main from having dropped
\* the last one meanwhile: the count is revived, and the command uses a client that
\* is being destroyed, or is gone.
IpcRef ==
  /\ ipc = "copy"
  /\ refs' = [refs EXCEPT ![held] = @ + 1]
  /\ revived' = (revived \/ state[held] \in {"gone", "closing"})
  /\ ipc' = "command"
  /\ UNCHANGED <<mainVars, held, state, needs, udp, worldVars>>

\* Mutant: the IPC thread lets go of the client and does not look back.
IpcEndDrops ==
  /\ ipc = "command"
  /\ refs' = [refs EXCEPT ![held] = @ - 1]
  /\ ipc' = "wait" /\ held' = NoClient
  /\ UNCHANGED <<mainVars, state, needs, udp, revived, worldVars>>

\* The command is done.
IpcEnd ==
  /\ ipc = "command"
  /\ Drop(held)
  /\ IF MustStop(held)
     THEN ipc' = "destroy" /\ UNCHANGED held
     ELSE ipc' = "wait" /\ held' = NoClient
  /\ UNCHANGED <<mainVars, needs, udp, revived, worldVars>>

IpcDestroyed ==
  /\ ipc = "destroy"
  /\ Destroyed(held)
  /\ ipc' = "wait" /\ held' = NoClient
  /\ UNCHANGED <<mainVars, worldVars>>

-----------------------------------------------------------------------------

\* The listener of a client breaks (see NetFail in Sessions).
ListenerFails(c) ==
  /\ state[c] = "running"
  /\ needs' = [needs EXCEPT ![c] = TRUE]
  /\ UNCHANGED <<mainVars, ipcVars, state, refs, udp, revived, worldVars>>

Network == online' = ~online /\ UNCHANGED <<mainVars, ipcVars, clientVars, wasOnline, cool>>

\* Three seconds have passed.
CoolDown ==
  /\ ~cool
  /\ cool' = TRUE
  /\ UNCHANGED <<mainVars, ipcVars, clientVars, online, wasOnline>>

\* A client that was used after its end, or destroyed twice, may bring the process
\* down, whichever thread comes across it.  Its memory and sockets go with it.
Die ==
  /\ revived
  /\ ipc' = "crash" /\ held' = NoClient
  /\ main' = "make" /\ ret' = "needs" /\ slot' = NoClient /\ dying' = NoClient
  /\ state' = [c \in Client |-> "gone"]
  /\ refs' = [c \in Client |-> 0]
  /\ needs' = [c \in Client |-> FALSE]
  /\ udp' = NoClient
  /\ UNCHANGED <<revived, worldVars>>

MainStep ==
  \/ CheckNeeds \/ CheckOnline \/ Reset \/ MainDestroyed
  \/ (\E c \in Client : Make(c)) \/ StartOk \/ StartFails \/ StartDestroyed

IpcStep == IpcRef \/ IpcEnd \/ IpcDestroyed

\* A crash takes the whole process down.
Next ==
  \/ ~Crashed /\ (MainStep \/ IpcCopy \/ IpcStep)
  \/ ~Crashed /\ ((\E c \in Client : ListenerFails(c)) \/ Network \/ CoolDown \/ Die)
  \/ Crashed /\ UNCHANGED vars

Spec == Init /\ [][Next]_vars

\* Threads run on, stop() returns (StopTerminates of Sessions), time passes,
\* and a start that is tried again and again succeeds in the end.
FairSpec ==
  /\ Spec
  /\ WF_vars(~Crashed /\ MainStep)
  /\ WF_vars(~Crashed /\ IpcStep)
  /\ WF_vars(~Crashed /\ CoolDown)
  /\ SF_vars(~Crashed /\ StartOk)

-----------------------------------------------------------------------------

\* A client that was not destroyed is in client_ or used by a command, and one that is
\* being destroyed has a thread that does it: no interleaving of a restart and a command
\* leaks a client that runs on, with its sockets and threads.  As long as no copy was
\* counted late, exactly one thread destroys it, and neither main nor a command uses
\* one that is being destroyed, or gone.
NoStray ==
  \A c \in Client :
    LET used == slot = c \/ (ipc = "command" /\ held = c)
        byMain == main = "destroy" /\ dying = c
        byIpc == ipc = "destroy" /\ held = c
    IN /\ state[c] \in {"made", "running", "failed"} => used
       /\ state[c] = "closing" => byMain \/ byIpc
       /\ ~revived =>
            /\ used => state[c] \notin {"closing", "gone"}
            /\ byMain \/ byIpc => state[c] = "closing"
            /\ ~(byMain /\ byIpc)

\* A client that asks for a restart, or could not be started, is replaced by
\* one that runs: the request outlives the cooldown and failed attempts.
RestartRetried ==
  (slot # NoClient /\ needs[slot]) ~>
    (revived \/ (slot # NoClient /\ state[slot] = "running" /\ ~needs[slot]))

\* A client that was replaced is destroyed when the command that holds it is
\* done, although nobody is told.
ReplacedIsDestroyed ==
  \A c \in Client : state[c] = "running" /\ slot # c ~> revived \/ state[c] = "gone"

=============================================================================
