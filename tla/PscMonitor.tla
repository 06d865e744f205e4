------------------------------ MODULE PscMonitor ------------------------------
(***************************************************************************)
(* PscMonitor (sysmodule/src/utils/psc_monitor.cpp): the thread that hears *)
(* from the power manager that the console sleeps, wakes or shuts down,    *)
(* and its end.  The power manager waits for each answer before it goes    *)
(* on; it and the kernel's waiting are external.                           *)
(***************************************************************************)
EXTENDS Naturals

CONSTANTS
  MaxRequests   \* bound: the requests of the power manager

VARIABLES
  psc,        \* where thread_func is
  running,    \* running_
  event,      \* module_.event: none, open with or without a signal, closed
  cancel,     \* svcCancelSynchronization was called for the thread
  request,    \* the state asked for, until it is acknowledged
  hears,      \* what the thread has got from the power manager
  awake,      \* s_is_awake
  console,    \* the console: the last state that was acknowledged
  owner,      \* where start() or stop() is
  requests,
  missed      \* history: a request could not be got although there was one

pscVars == <<psc, running, event, cancel, request, hears, awake, console, owner, requests, missed>>

Asked == {"Awake", "ReadyAwaken", "ReadySleep", "ReadyShutdown"}

TypeOK ==
  /\ psc \in {"none", "check", "wait", "get", "answer", "note", "ended"}
  /\ running \in BOOLEAN /\ cancel \in BOOLEAN /\ awake \in BOOLEAN
  /\ event \in {"none", "open", "signaled", "closed"}
  /\ request \in Asked \cup {"none"}
  /\ hears \in Asked /\ console \in Asked
  /\ owner \in {"new", "started", "closing", "cancel", "join", "freed"}
  /\ requests \in 0 .. MaxRequests /\ missed \in BOOLEAN

Init ==
  /\ psc = "none" /\ running = FALSE /\ event = "none" /\ cancel = FALSE
  /\ request = "none" /\ hears = "Awake" /\ awake = TRUE /\ console = "Awake"
  /\ owner = "new" /\ requests = 0 /\ missed = FALSE

-----------------------------------------------------------------------------
(* NxApplication's constructor and destructor.                             *)

\* start(): everything is there, or nothing is left.
Start ==
  /\ owner = "new"
  /\ owner' = "started"
  /\ \/ running' = TRUE /\ event' = "open" /\ psc' = "check"
     \/ UNCHANGED <<running, event, psc>>
  /\ UNCHANGED <<cancel, request, hears, awake, console, requests, missed>>

\* stop(): a monitor that is not running is left as it is.
Stop ==
  /\ owner = "started"
  /\ running' = FALSE
  /\ owner' = IF running THEN "closing" ELSE "freed"
  /\ UNCHANGED <<psc, event, cancel, request, hears, awake, console, requests, missed>>

Close ==
  /\ owner = "closing"
  /\ event' = "closed" /\ owner' = "cancel"
  /\ UNCHANGED <<psc, running, cancel, request, hears, awake, console, requests, missed>>

\* Mutant: the thread is not forced out of its wait.
NoCancel ==
  /\ owner = "cancel"
  /\ owner' = "join"
  /\ UNCHANGED <<psc, running, event, cancel, request, hears, awake, console, requests, missed>>

Cancel ==
  /\ owner = "cancel"
  /\ cancel' = TRUE /\ owner' = "join"
  /\ UNCHANGED <<psc, running, event, request, hears, awake, console, requests, missed>>

\* Mutant: the thread is not waited for.
JoinNot ==
  /\ owner = "join"
  /\ owner' = "freed"
  /\ UNCHANGED <<psc, running, event, cancel, request, hears, awake, console, requests, missed>>

Join ==
  /\ owner = "join" /\ psc = "ended"
  /\ owner' = "freed"
  /\ UNCHANGED <<psc, running, event, cancel, request, hears, awake, console, requests, missed>>

-----------------------------------------------------------------------------
(* thread_func.                                                            *)

Check ==
  /\ psc = "check"
  /\ psc' = IF ~running THEN "ended" ELSE IF event = "closed" THEN "ended" ELSE "wait"
  /\ UNCHANGED <<running, event, cancel, request, hears, awake, console, owner, requests, missed>>

\* waitSingle: an event that is closed under the wait does not end it.
Wait ==
  /\ psc = "wait"
  /\ \/ event = "signaled" /\ event' = "open" /\ psc' = "get"
     \/ cancel /\ psc' = "ended" /\ UNCHANGED event
  /\ UNCHANGED <<running, cancel, request, hears, awake, console, owner, requests, missed>>

\* pscPmModuleGetRequest.  When it fails the thread waits again, and the signal
\* that it was woken by is gone.
GetRequest ==
  /\ psc = "get"
  /\ \/ /\ event # "closed"
        /\ psc' = "answer" /\ hears' = request
        /\ UNCHANGED missed
     \/ /\ psc' = "check"
        /\ missed' = (missed \/ event # "closed")
        /\ UNCHANGED hears
  /\ UNCHANGED <<running, event, cancel, request, awake, console, owner, requests>>

\* Mutant: only the states that matter are acknowledged.
AnswerHandled ==
  /\ psc = "answer"
  /\ psc' = "note"
  /\ IF event = "closed" \/ hears = "ReadyAwaken" THEN UNCHANGED <<request, console>>
     ELSE request' = "none" /\ console' = hears
  /\ UNCHANGED <<running, event, cancel, hears, awake, owner, requests, missed>>

\* pscPmModuleAcknowledge, whose result the code does not look at; it fails only
\* once the module is closed.
Answer ==
  /\ psc = "answer"
  /\ psc' = "note"
  /\ IF event = "closed" THEN UNCHANGED <<request, console>>
     ELSE request' = "none" /\ console' = hears
  /\ UNCHANGED <<running, event, cancel, hears, awake, owner, requests, missed>>

\* Mutant: the console is awake as soon as it is about to awaken.
NoteEarly ==
  /\ psc = "note"
  /\ awake' = (hears \in {"Awake", "ReadyAwaken"})
  /\ running' = IF hears = "ReadyShutdown" THEN FALSE ELSE running
  /\ psc' = "check"
  /\ UNCHANGED <<event, cancel, request, hears, console, owner, requests, missed>>

\* The switch; a console that shuts down ends the thread.
Note ==
  /\ psc = "note"
  /\ awake' = IF hears = "Awake" THEN TRUE ELSE IF hears = "ReadyAwaken" THEN awake ELSE FALSE
  /\ running' = IF hears = "ReadyShutdown" THEN FALSE ELSE running
  /\ psc' = "check"
  /\ UNCHANGED <<event, cancel, request, hears, console, owner, requests, missed>>

-----------------------------------------------------------------------------

\* The power manager asks, once the last request was acknowledged.
Ask ==
  /\ event = "open" /\ request = "none" /\ console # "ReadyShutdown" /\ requests < MaxRequests
  /\ \E s \in Asked :
       /\ console \in {"ReadySleep"} => s \in {"ReadyAwaken", "ReadyShutdown"}
       /\ console = "ReadyAwaken" => s \in {"Awake", "ReadySleep"}
       /\ console = "Awake" => s \in {"ReadySleep", "ReadyShutdown"}
       /\ request' = s
  /\ event' = "signaled"
  /\ requests' = requests + 1
  /\ UNCHANGED <<psc, running, cancel, hears, awake, console, owner, missed>>

Thread == Check \/ Wait \/ GetRequest \/ Answer \/ Note
Owner == Close \/ Cancel \/ Join

Next == Start \/ Stop \/ Owner \/ Thread \/ Ask

-----------------------------------------------------------------------------

\* Notifications are recorded and not shown until the console is fully awake:
\* when the thread waits for the next request it has drawn the conclusion from
\* the last, through any sequence of them.
AwakeIsKnown == psc = "wait" => awake = (console = "Awake")

\* The power manager gets an answer to what it has asked, unless the monitor is
\* being stopped; or the thread could not get what is asked, for then it waits for
\* a signal that does not come before an answer.
RequestAnswered == request # "none" ~> request = "none" \/ ~running \/ missed

\* stop() returns, wherever the thread is.
StopReturns == owner = "closing" ~> owner = "freed"

\* The thread is not running any more when its monitor is destroyed; unless the
\* console shuts down, for then stop() finds that it is not running, and does
\* not wait for it.
EndsFirst == owner = "freed" /\ hears # "ReadyShutdown" => psc \in {"none", "ended"}

=============================================================================
