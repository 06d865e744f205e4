-------------------------------- MODULE MCHost --------------------------------
(***************************************************************************)
(* The services of the sysmodule that share no state with each other or    *)
(* with the client, each checked by itself: part is the one a behaviour is *)
(* about, and the others stay in an initial state.                         *)
(***************************************************************************)
EXTENDS Identity, FiniteSets

CONSTANTS
  Key, Value, Step, Unset,                 \* Settings
  Sess, NoSess, MaxSessions, MaxOther,     \* IpcServer
  Worker, Ptr, BufSize, MaxAllocs, Points, Columns, \* TraceTools
  MaxCache, MaxMsg, MaxConnects, MaxFails, \* LogSink
  User, MaxKeys, MaxTurns,                 \* Keyboard
  MaxShot, Polls,                          \* Screenshot
  MaxRequests,                             \* PscMonitor
  Cert, Lengths, Chunk, NoRecord           \* Records

\* The bounds are numbers.  There are settings, and the screen offers values of
\* them, one of which is the least; no text of a record and no chunk is empty; what
\* stands for nothing is nothing else.
ASSUME HostAssumption ==
  /\ Key # {} /\ Step \subseteq Value /\ Unset \notin Value
  /\ \E v \in Step : \A w \in Step : v <= w
  /\ NoSess \notin Sess /\ MaxSessions \in Nat /\ MaxOther \in Nat
  /\ Ptr # {} /\ MaxAllocs \in Nat
  /\ IsFiniteSet(Worker) /\ BufSize \in Nat \ {0}
  /\ MaxCache \in Nat /\ MaxMsg \in Nat
  /\ IsFiniteSet(User) /\ MaxKeys \in Nat /\ MaxTurns \in Nat
  /\ MaxShot \in Nat /\ Polls \in Nat
  /\ MaxRequests \in Nat
  /\ Lengths \subseteq Nat \ {0} /\ Chunk \in Nat \ {0}
  /\ NoRecord \notin [cert : Cert, length : Lengths]

VARIABLES
  part,
  boot, values, saved, cmd, copy, screen, want, whole, hurt, astray,
  sys, name, server, client, msg, table, srv, cur, gui, found, conn, refCnt, budget,
  fd, block, at, call, arg, wbuf, file, clock, stamp, allocs, untraced, hole, refill,
  sock, cache, holder, last, bg, main, shut, net, connects, fails, sent, dropped, lost, beside,
  count, guard, act, left, old, layout, choice, keys, turns, failed, together,
  shot, prev, picked, tries, today, day, album, begun, blind, result,
  psc, running, event, cancel, request, hears, awake, console, owner, requests, missed,
  stored, storing, toStore, written, mayBe, unbroken

Store == INSTANCE Settings
Ipc == INSTANCE IpcServer
Mem == INSTANCE TraceTools
Log == INSTANCE LogSink
Keys == INSTANCE Keyboard
Shots == INSTANCE Screenshot
Psc == INSTANCE PscMonitor
Paired == INSTANCE Records

idVars == <<pc, disk, chain, key, devId, how, made, known>>
storeVars == <<boot, values, saved, cmd, copy, screen, want, whole, hurt, astray>>
ipcVars == <<sys, name, server, client, msg, table, srv, cur, gui, found, conn, refCnt, budget>>
memVars == <<fd, block, at, call, arg, wbuf, file, clock, stamp, allocs, untraced, hole, refill>>
logVars == <<sock, cache, holder, last, bg, main, shut, net, connects, fails, sent, dropped, lost, beside>>
keysVars == <<count, guard, act, left, old, layout, choice, keys, turns, failed, together>>
shotsVars == <<shot, prev, picked, tries, today, day, album, begun, blind, result>>
pscVars == <<psc, running, event, cancel, request, hears, awake, console, owner, requests, missed>>
recVars == <<stored, storing, toStore, written, mayBe, unbroken>>
hostVars == <<part, idVars, storeVars, ipcVars, memVars, logVars, keysVars, shotsVars, pscVars, recVars>>

Part == {"id", "store", "ipc", "mem", "log", "keys", "shots", "psc", "records"}

HostInit ==
  /\ part \in Part
  /\ Init
  /\ Store!Init /\ (part # "store" => saved = Store!Nothing)
  /\ Ipc!Init
  /\ Mem!Init
  /\ Log!Init
  /\ Keys!Init /\ (part # "keys" => layout = "us")
  /\ Shots!Init /\ (part # "shots" => Shots!Taken = {})
  /\ Psc!Init
  /\ Paired!Init

HostNext ==
  /\ UNCHANGED part
  /\ \/ part = "id" /\ Next /\ UNCHANGED <<storeVars, ipcVars, memVars, logVars, keysVars, shotsVars, pscVars, recVars>>
     \/ part = "store" /\ Store!Next /\ UNCHANGED <<idVars, ipcVars, memVars, logVars, keysVars, shotsVars, pscVars, recVars>>
     \/ part = "ipc" /\ Ipc!Next /\ UNCHANGED <<idVars, storeVars, memVars, logVars, keysVars, shotsVars, pscVars, recVars>>
     \/ part = "mem" /\ Mem!Next /\ UNCHANGED <<idVars, storeVars, ipcVars, logVars, keysVars, shotsVars, pscVars, recVars>>
     \/ part = "log" /\ Log!Next /\ UNCHANGED <<idVars, storeVars, ipcVars, memVars, keysVars, shotsVars, pscVars, recVars>>
     \/ part = "keys" /\ Keys!Next /\ UNCHANGED <<idVars, storeVars, ipcVars, memVars, logVars, shotsVars, pscVars, recVars>>
     \/ part = "shots" /\ Shots!Next /\ UNCHANGED <<idVars, storeVars, ipcVars, memVars, logVars, keysVars, pscVars, recVars>>
     \/ part = "psc" /\ Psc!Next /\ UNCHANGED <<idVars, storeVars, ipcVars, memVars, logVars, keysVars, shotsVars, recVars>>
     \/ part = "records" /\ Paired!Next /\ UNCHANGED <<idVars, storeVars, ipcVars, memVars, logVars, keysVars, shotsVars, pscVars>>

\* A part is scheduled fairly where its module says that it is.
IpcServe == part = "ipc" /\ Ipc!Serve /\ UNCHANGED <<part, idVars, storeVars, memVars, logVars, keysVars, shotsVars, pscVars, recVars>>
IpcGui == part = "ipc" /\ Ipc!Gui /\ UNCHANGED <<part, idVars, storeVars, memVars, logVars, keysVars, shotsVars, pscVars, recVars>>
LogBackground == part = "log" /\ Log!Background /\ UNCHANGED <<part, idVars, storeVars, ipcVars, memVars, keysVars, shotsVars, pscVars, recVars>>
LogHolder == part = "log" /\ Log!Holder /\ UNCHANGED <<part, idVars, storeVars, ipcVars, memVars, keysVars, shotsVars, pscVars, recVars>>
PscThread == part = "psc" /\ Psc!Thread /\ UNCHANGED <<part, idVars, storeVars, ipcVars, memVars, logVars, keysVars, shotsVars, recVars>>
PscOwner == part = "psc" /\ Psc!Owner /\ UNCHANGED <<part, idVars, storeVars, ipcVars, memVars, logVars, keysVars, shotsVars, recVars>>

HostSpec ==
  /\ HostInit /\ [][HostNext]_hostVars
  /\ WF_hostVars(IpcServe)
  /\ WF_hostVars(IpcGui)
  /\ WF_hostVars(LogBackground)
  /\ WF_hostVars(LogHolder)
  /\ WF_hostVars(PscThread)
  /\ WF_hostVars(PscOwner)

-----------------------------------------------------------------------------

\* Every variable of every part is of the type that its module states.
TypesOK ==
  /\ part = "id" => TypeOK
  /\ part = "store" => Store!TypeOK
  /\ part = "ipc" => Ipc!TypeOK
  /\ part = "mem" => Mem!TypeOK
  /\ part = "log" => Log!TypeOK
  /\ part = "keys" => Keys!TypeOK
  /\ part = "shots" => Shots!TypeOK
  /\ part = "psc" => Psc!TypeOK
  /\ part = "records" => Paired!RecordsTypeOK

(* What the parts promise, as the conjunction of what their modules state. *)

\* A setting that the user chose is found by a restart and used by every program that
\* serves commands, but not by one whose IPC service could not be started; a torn file is
\* all defaults, and the settings screen shows what is in effect.  A paired device is found
\* as it was saved, and after a save that was broken off within the first chunk not as a
\* mixture.
FilesHold ==
  /\ part = "store" => Store!ChoiceLasts /\ Store!NoMixture /\ Store!ScreenIsTrue
  /\ part = "records" => Paired!SavedIsLoaded /\ Paired!BrokenOffIsWhole

\* The IPC server's table holds the open sessions, each once, and the overlay's
\* use count says whether it has one.
TableIsOpen == part = "ipc" => Ipc!TableIsOpen /\ Ipc!CountIsConnection

\* An IPC command returns or its session is closed, and an open overlay finds the
\* way to a service that stays up.
IpcAnswers == Ipc!CommandReturns /\ Ipc!Reconnects

\* The allocation trace can be replayed, its buffer does not run over while there is
\* a file and takes no more than a record of each thread afterwards, and both tools
\* find live what the program has, from a trace that may be cut anywhere.
TraceReplays == part = "mem" => Mem!TraceReplays /\ Mem!BufferFits /\ Mem!WholeIsRead /\ Mem!ReportsAgree

\* The log is written to the host in order, unless a connection is made just before a
\* thread's own message, and where messages are missing there is a warning, but for one
\* for each connection that failed and one for the shutdown.
LogIsTold == part = "log" => Log!InOrder /\ Log!GapIsSaid /\ Log!LossIsOne

\* A message that waits is sent or kept, and a host that can be reached is
\* connected to.
LogArrives == Log!WaitingIsKept /\ Log!Connects

\* As long as no initialisation of hiddbg has failed, it is initialised while it has
\* users and only then; no key stays pressed; and the user's keyboard layout comes
\* back, as long as no two threads have typed together.
KeyboardIsBack == part = "keys" => Keys!HidIsHeld /\ Keys!NoStuckKey /\ Keys!LayoutIsBack

\* The screenshot that is sent was taken after the command, by the press of the button
\* that the command makes or by one of the user's, unless the album could not be read
\* before it; and a picture that is sent was written to its end.
SentIsNew == part = "shots" => Shots!SentIsNew /\ Shots!OpenedIsWhole

\* The monitor has understood the last state it acknowledged, and its thread has
\* ended when it is destroyed.
AwakeIsKnown == part = "psc" => Psc!AwakeIsKnown /\ Psc!EndsFirst

\* The power manager is answered as long as its requests can be got, and
\* PscMonitor::stop returns.
MonitorReturns == Psc!RequestAnswered /\ Psc!StopReturns

=============================================================================
