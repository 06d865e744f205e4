-------------------------------- MODULE Volume --------------------------------
(***************************************************************************)
(* The console's volume (plugins/system_volume_plugin.cpp): every device's *)
(* session turns it, with a volume_ and a muted_ of its own, there is only *)
(* one master volume, and the console's user turns that too.               *)
(***************************************************************************)
EXTENDS Integers

CONSTANTS
  Phone,      \* the devices that turn the console's volume
  Level,      \* volumes of the console
  AtStart,      \* the volume_ of a new session: 50
  MaxTurnings \* bound: requests, sessions and what the user does

VARIABLES
  master,     \* the console's master volume
  volOf,      \* volume_ of each session
  muteOf,     \* muted_ of each session
  asked,      \* the volume the phone asked for last; Absent: none in this session
  turner,     \* the phone whose request set the master volume last, if it was one
  unmuted,    \* the phones that set a volume while they had it muted
  turnings

vars == <<master, volOf, muteOf, asked, turner, unmuted, turnings>>

Absent == -1

TypeOK ==
  /\ master \in Level
  /\ volOf \in [Phone -> Level]
  /\ muteOf \in [Phone -> BOOLEAN]
  /\ asked \in [Phone -> Level \cup {Absent}]
  /\ turner \in SUBSET Phone
  /\ unmuted \in SUBSET Phone
  /\ turnings \in 0 .. MaxTurnings

Init ==
  /\ master = AtStart
  /\ volOf = [p \in Phone |-> AtStart]
  /\ muteOf = [p \in Phone |-> FALSE]
  /\ asked = [p \in Phone |-> Absent]
  /\ turner = {}
  /\ unmuted = {}
  /\ turnings = 0

Count == turnings < MaxTurnings /\ turnings' = turnings + 1

-----------------------------------------------------------------------------
\* The console's user turns it.
UserTurns ==
  /\ Count
  /\ master' \in Level \ {master}
  /\ turner' = {}
  /\ UNCHANGED <<volOf, muteOf, asked, unmuted>>

\* A request of a phone may name a volume, a mute, or both; the mute is handled
\* second, and lowers the volume because audctl has no mute.
Lowered(p, muted) == IF muted THEN 0 ELSE volOf'[p]

\* Mutant: muting overwrites the volume that unmuting is to restore.
RequestForgets(p, v, mute) ==
  /\ Count
  /\ v # Absent \/ mute # {}
  /\ volOf' = [volOf EXCEPT ![p] = IF TRUE \in mute THEN 0 ELSE IF v = Absent THEN @ ELSE v]
  /\ muteOf' = [muteOf EXCEPT ![p] = IF mute = {} THEN @ ELSE TRUE \in mute]  \* and the reply says it
  /\ master' = IF mute # {} THEN Lowered(p, TRUE \in mute) ELSE v
  /\ asked' = [asked EXCEPT ![p] = IF v = Absent THEN @ ELSE v]
  /\ unmuted' = IF mute # {} THEN unmuted \ {p}
                ELSE IF muteOf[p] /\ v > 0 THEN unmuted \cup {p} ELSE unmuted
  /\ turner' = {p}

Request(p, v, mute) ==
  /\ Count
  /\ v # Absent \/ mute # {}
  /\ volOf' = [volOf EXCEPT ![p] = IF v = Absent THEN @ ELSE v]
  /\ muteOf' = [muteOf EXCEPT ![p] = IF mute = {} THEN @ ELSE TRUE \in mute]  \* and the reply says it
  /\ master' = IF mute # {} THEN Lowered(p, TRUE \in mute) ELSE v
  /\ asked' = [asked EXCEPT ![p] = IF v = Absent THEN @ ELSE v]
  /\ unmuted' = IF mute # {} THEN unmuted \ {p}
                ELSE IF muteOf[p] /\ v > 0 THEN unmuted \cup {p} ELSE unmuted
  /\ turner' = {p}

\* A session begins, and sends its sink list: the master volume, not muted.
Connect(p) ==
  /\ Count
  /\ volOf' = [volOf EXCEPT ![p] = AtStart]
  /\ muteOf' = [muteOf EXCEPT ![p] = FALSE]
  /\ asked' = [asked EXCEPT ![p] = Absent]
  /\ unmuted' = unmuted \ {p}
  /\ turner' = turner \ {p}
  /\ UNCHANGED master

Next ==
  \/ UserTurns
  \/ \E p \in Phone :
       \/ Connect(p)
       \/ \E v \in Level \cup {Absent}, mute \in {{}, {TRUE}, {FALSE}} : Request(p, v, mute)

Spec == Init /\ [][Next]_vars

-----------------------------------------------------------------------------

\* The console is as loud as the phone that turned it last believes: silent if it
\* was told muted, and otherwise at the volume it asked for, also when it has muted
\* and unmuted since.  (Except after a volume was set during a mute, which sounds,
\* system_volume_plugin.cpp:66-73.)
SaidIsSo ==
  \A p \in turner \ unmuted :
    /\ muteOf[p] => master = 0
    /\ ~muteOf[p] /\ asked[p] # Absent => master = asked[p]

=============================================================================
