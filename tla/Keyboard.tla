------------------------------- MODULE Keyboard -------------------------------
(***************************************************************************)
(* Keys that are typed for a remote device (sysmodule/src/plugins/         *)
(* mousepad_plugin.cpp) and the count of hiddbg's users (sysmodule/src/    *)
(* utils/hiddbg_util.cpp): a MousepadPlugin for every session, whose keys  *)
(* its io thread injects, and the screenshot's button.                     *)
(*                                                                         *)
(* hiddbg and set:sys are external.  libnx counts the initialisations of a *)
(* service itself.                                                         *)
(***************************************************************************)
EXTENDS Integers, FiniteSets

CONSTANTS
  User,      \* sessions, and the IPC thread
  MaxKeys,   \* bound: the keys of one packet
  MaxTurns   \* bound: how often a plugin is created

VARIABLES
  count,     \* s_hiddbg_refcount
  guard,     \* libnx's count for the service
  act,       \* where each user's thread is
  left,      \* the keys it still has to inject
  old,       \* old_layout
  layout,    \* the console's keyboard layout
  choice,    \* history: the layout the user of the console has chosen
  keys,      \* what hiddbg makes the keyboard be
  turns,
  failed,    \* history: hiddbgInitialize has failed once
  together   \* history: two threads have typed at the same time

keyVars == <<count, guard, act, left, old, layout, choice, keys, turns, failed, together>>

Layout == {"us", "other"}

\* A plugin exists, and its thread does nothing for it.
Ready(u) == act[u] = "ready"

Typing == {"get", "set", "type", "hold", "dummy"}

TypeOK ==
  /\ count \in Int /\ guard \in Nat
  /\ act \in [User -> {"none", "init", "ready", "exit"} \cup Typing]
  /\ left \in [User -> 0 .. MaxKeys]
  /\ old \in [User -> Layout]
  /\ layout \in Layout /\ choice \in Layout
  /\ keys \in User \cup {"none", "dummy"}
  /\ turns \in 0 .. MaxTurns
  /\ failed \in BOOLEAN /\ together \in BOOLEAN

Init ==
  /\ count = 0 /\ guard = 0
  /\ act = [u \in User |-> "none"] /\ left = [u \in User |-> 0] /\ old = [u \in User |-> "us"]
  /\ layout \in Layout /\ choice = layout
  /\ keys = "none" /\ turns = 0
  /\ failed = FALSE /\ together = FALSE

Goto(u, where) == act' = [act EXCEPT ![u] = where]

-----------------------------------------------------------------------------
(* hiddbg_retain and hiddbg_release.                                       *)

\* MousepadPlugin::on_create, or press_capture_button.
Retain(u) ==
  /\ act[u] = "none" /\ turns < MaxTurns
  /\ count' = count + 1 /\ turns' = turns + 1
  /\ Goto(u, IF count = 0 THEN "init" ELSE "ready")
  /\ UNCHANGED <<guard, left, old, layout, choice, keys, failed, together>>

\* hiddbgInitialize; when it fails the use is taken back, although its user will
\* release it again.
Initialise(u) ==
  /\ act[u] = "init"
  /\ Goto(u, "ready")
  /\ \/ guard' = guard + 1 /\ UNCHANGED <<count, failed>>
     \/ count' = count - 1 /\ failed' = TRUE /\ UNCHANGED guard
  /\ UNCHANGED <<left, old, layout, choice, keys, turns, together>>

\* Mutant: whoever finds nobody after it ends the service.
ReleaseLate(u) ==
  /\ Ready(u)
  /\ count' = count - 1
  /\ Goto(u, IF count <= 2 THEN "exit" ELSE "none")
  /\ UNCHANGED <<guard, left, old, layout, choice, keys, turns, failed, together>>

\* on_destroy; the io thread has been joined.
Release(u) ==
  /\ Ready(u)
  /\ count' = count - 1
  /\ Goto(u, IF count = 1 THEN "exit" ELSE "none")
  /\ UNCHANGED <<guard, left, old, layout, choice, keys, turns, failed, together>>

\* hiddbgExit.
Exit(u) ==
  /\ act[u] = "exit"
  /\ guard' = IF guard > 0 THEN guard - 1 ELSE 0
  /\ Goto(u, "none")
  /\ UNCHANGED <<count, left, old, layout, choice, keys, turns, failed, together>>

-----------------------------------------------------------------------------
(* inject_key.                                                             *)

\* Without hiddbg the packet is answered all the same, and no key typed.  What
\* has no key code is left out, so that there may be nothing to type.
Packet(u) ==
  /\ Ready(u) /\ count > 0
  /\ \E n \in 0 .. MaxKeys : left' = [left EXCEPT ![u] = n]
  /\ Goto(u, "get")
  /\ together' = (together \/ \E v \in User : act[v] \in Typing)
  /\ UNCHANGED <<count, guard, old, layout, choice, keys, turns, failed>>

\* Mutant: the layout is read when it has been set.
GetLayoutSet(u) ==
  /\ act[u] = "get"
  /\ old' = [old EXCEPT ![u] = "us"]
  /\ Goto(u, "set")
  /\ UNCHANGED <<count, guard, left, layout, choice, keys, turns, failed, together>>

GetLayout(u) ==
  /\ act[u] = "get"
  /\ old' = [old EXCEPT ![u] = layout]
  /\ Goto(u, "set")
  /\ UNCHANGED <<count, guard, left, layout, choice, keys, turns, failed, together>>

SetLayout(u) ==
  /\ act[u] = "set"
  /\ layout' = "us"
  /\ Goto(u, "type")
  /\ UNCHANGED <<count, guard, left, old, choice, keys, turns, failed, together>>

\* do_inject_hid: the key is held, then a key that does not exist, so that the
\* same one can follow, and then hiddbg lets go of the keyboard.
Press(u) ==
  /\ act[u] = "type" /\ left[u] > 0
  /\ keys' = u
  /\ Goto(u, "hold")
  /\ UNCHANGED <<count, guard, left, old, layout, choice, turns, failed, together>>

Dummy(u) ==
  /\ act[u] = "hold"
  /\ keys' = "dummy"
  /\ Goto(u, "dummy")
  /\ UNCHANGED <<count, guard, left, old, layout, choice, turns, failed, together>>

\* Mutant: the last key is not let go of.
LetGoOfOthers(u) ==
  /\ act[u] = "dummy"
  /\ left' = [left EXCEPT ![u] = left[u] - 1]
  /\ keys' = IF left[u] = 1 THEN keys ELSE "none"
  /\ Goto(u, "type")
  /\ UNCHANGED <<count, guard, old, layout, choice, turns, failed, together>>

LetGo(u) ==
  /\ act[u] = "dummy"
  /\ left' = [left EXCEPT ![u] = left[u] - 1]
  /\ keys' = "none"
  /\ Goto(u, "type")
  /\ UNCHANGED <<count, guard, old, layout, choice, turns, failed, together>>

\* The layout it found is put back, if it was another.
Restore(u) ==
  /\ act[u] = "type" /\ left[u] = 0
  /\ layout' = IF old[u] # "us" THEN old[u] ELSE layout
  /\ Goto(u, "ready")
  /\ UNCHANGED <<count, guard, left, old, choice, keys, turns, failed, together>>

Next ==
  \E u \in User :
    \/ Retain(u) \/ Initialise(u) \/ Release(u) \/ Exit(u)
    \/ Packet(u) \/ GetLayout(u) \/ SetLayout(u) \/ Press(u) \/ Dummy(u) \/ LetGo(u) \/ Restore(u)

-----------------------------------------------------------------------------

Quiet == \A u \in User : act[u] \in {"none", "ready"}

\* As long as hiddbg could be initialised, it is there while a plugin is, and
\* given back after the last, in whatever order the threads come and go.  After
\* a failure the count is below the number of users for ever.
HidIsHeld ==
  Quiet /\ ~failed =>
    /\ count = Cardinality({u \in User : Ready(u)})
    /\ guard = IF count > 0 THEN 1 ELSE 0

\* Nobody is left with a key pressed on the console: the remote keyboard is
\* given up when the last thread has typed, although they share one.
NoStuckKey == (\A u \in User : act[u] \notin Typing) => keys = "none"

\* The console gets back the layout its user has chosen, as long as one device
\* types at a time.
LayoutIsBack == (\A u \in User : act[u] \notin Typing) /\ ~together => layout = choice

=============================================================================
