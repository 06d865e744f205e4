------------------------------ MODULE DeviceList ------------------------------
(***************************************************************************)
(* The list of devices that the overlay shows (GetDevices of               *)
(* ipc/ipc_service.cpp, gui/main_gui.cpp).                                 *)
(*                                                                         *)
(* The list is put together while other threads go on: from the sessions,  *)
(* one field after the other, and then from the files of those devices     *)
(* that have no session by that time.  What a device supports is only read *)
(* when its entry changes, and is left out.                                *)
(***************************************************************************)
EXTENDS Naturals, FiniteSets

CONSTANTS
  Known,     \* bound: the devices
  Places,    \* kMaxDevices
  MaxEvents  \* bound: what happens to the devices

VARIABLES
  client,    \* whether the application has a client
  conn,      \* sessions_: whether a device has a session, and if it is disconnected
  bond,      \* paired of the sessions
  wish,      \* pair_state of the sessions
  saved,     \* the devices that have a file in paired/
  poll,      \* how far GetDevices is
  snap,      \* devices_map, what is left of it
  kept,      \* those of them whose session was replaced since: how it was left
  half,      \* the session that is being read
  rows,    \* recv_buf
  orphan,    \* the poll has a client that was stopped since
  left,      \* what is left of offline_paired_devices
  screen,    \* devices_
  touched,   \* history: the devices that something happened to since the last poll
  stops,     \* history: a client was stopped during the poll
  events

vars == <<client, conn, bond, wish, saved, poll, snap, kept, half, rows, orphan, left,
          screen, touched, stops, events>>

devices == <<client, conn, bond, wish, saved>>

NoHalf == [id |-> {}, paired |-> FALSE]

Entry == [id : Known, pair : {"None", "ByMe", "ByPeer", "Paired"}, connected : BOOLEAN,
          from : {"session", "file"}]

TypeOK ==
  /\ client \in BOOLEAN
  /\ conn \in [Known -> {"none", "up", "down"}]
  /\ bond \in [Known -> BOOLEAN]
  /\ wish \in [Known -> {"None", "ByMe", "ByPeer"}]
  /\ saved \subseteq Known
  /\ poll \in {"idle", "sessions", "active", "files", "end"}
  /\ snap \subseteq Known /\ left \subseteq Known
  /\ DOMAIN kept \subseteq Known
  /\ rows \subseteq Entry /\ screen \subseteq Entry
  /\ orphan \in BOOLEAN /\ stops \in BOOLEAN
  /\ touched \subseteq Known
  /\ events \in 0 .. MaxEvents

Init ==
  /\ client = TRUE
  /\ conn = [d \in Known |-> "none"]
  /\ bond = [d \in Known |-> FALSE] /\ wish = [d \in Known |-> "None"]
  /\ saved \in SUBSET Known
  /\ poll = "idle" /\ snap = {} /\ kept = [d \in {} |-> FALSE] /\ half = NoHalf
  /\ rows = {} /\ orphan = FALSE /\ left = {}
  /\ screen = {} /\ touched = Known /\ stops = FALSE
  /\ events = 0

-----------------------------------------------------------------------------

(* What happens to the devices. *)

Happens(d) ==
  /\ events < MaxEvents
  /\ events' = events + 1
  /\ touched' = touched \cup {d}
  /\ UNCHANGED <<poll, snap, half, rows, left, screen>>

\* A session is installed, for one that is disconnected or for none.
Connect(d) ==
  /\ client /\ conn[d] # "up"
  /\ conn' = [conn EXCEPT ![d] = "up"]
  /\ bond' = [bond EXCEPT ![d] = d \in saved]
  /\ wish' = [wish EXCEPT ![d] = "None"]
  /\ kept' = IF d \in snap \cup half.id /\ d \notin DOMAIN kept /\ ~orphan
             THEN [e \in DOMAIN kept \cup {d} |-> IF e = d THEN bond[d] ELSE kept[e]] ELSE kept
  /\ Happens(d)
  /\ UNCHANGED <<client, saved, orphan, stops>>

\* Its io thread ends; the session stays in sessions_.
\* Mutant: it is taken out of there.
DropErases(d) ==
  /\ conn[d] = "up"
  /\ conn' = [conn EXCEPT ![d] = "none"]
  /\ Happens(d)
  /\ UNCHANGED <<client, bond, wish, saved, kept, orphan, stops>>

Drop(d) ==
  /\ conn[d] = "up"
  /\ conn' = [conn EXCEPT ![d] = "down"]
  /\ Happens(d)
  /\ UNCHANGED <<client, bond, wish, saved, kept, orphan, stops>>

\* One side asks for pairing.
Wish(d) ==
  /\ conn[d] = "up" /\ ~bond[d] /\ wish[d] = "None"
  /\ \E w \in {"ByMe", "ByPeer"} : wish' = [wish EXCEPT ![d] = w]
  /\ Happens(d)
  /\ UNCHANGED <<client, conn, bond, saved, kept, orphan, stops>>

\* The other one agrees, or does not.
Decide(d) ==
  /\ conn[d] = "up" /\ wish[d] # "None"
  /\ wish' = [wish EXCEPT ![d] = "None"]
  /\ \E yes \in BOOLEAN :
       /\ bond' = [bond EXCEPT ![d] = yes]
       /\ saved' = IF yes THEN saved \cup {d} ELSE saved
  /\ Happens(d)
  /\ UNCHANGED <<client, conn, kept, orphan, stops>>

\* A device is unpaired, with a session or without.
Unpair(d) ==
  /\ d \in saved
  /\ bond' = [bond EXCEPT ![d] = FALSE]
  /\ saved' = saved \ {d}
  /\ Happens(d)
  /\ UNCHANGED <<client, conn, wish, kept, orphan, stops>>

\* The client is stopped; a poll that has it goes on with it.
Stop ==
  /\ client
  /\ client' = FALSE
  /\ conn' = [d \in Known |-> "none"]
  /\ bond' = [d \in Known |-> FALSE] /\ wish' = [d \in Known |-> "None"]
  /\ orphan' = (poll # "idle")
  /\ kept' = IF orphan \/ poll = "idle" THEN kept
             ELSE [e \in DOMAIN kept \cup snap \cup half.id |->
                     IF e \in DOMAIN kept THEN kept[e] ELSE bond[e]]
  /\ stops' = (stops \/ poll # "idle")
  /\ touched' = Known
  /\ events < MaxEvents /\ events' = events + 1
  /\ UNCHANGED <<saved, poll, snap, half, rows, left, screen>>

\* The application makes the next one.
Make ==
  /\ ~client
  /\ client' = TRUE
  /\ UNCHANGED <<conn, bond, wish, saved, poll, snap, kept, half, rows, orphan, left,
                 screen, touched, stops, events>>

-----------------------------------------------------------------------------

(* The poll. *)

Room == Cardinality(rows) < Places

Sessions == {d \in Known : conn[d] # "none"}

\* update calls GetDevices, which gets the map of the sessions.
Begin ==
  /\ poll = "idle" /\ client
  /\ poll' = "sessions" /\ snap' = Sessions /\ rows' = {}
  /\ kept' = [d \in {} |-> FALSE] /\ orphan' = FALSE
  /\ touched' = {} /\ stops' = FALSE
  /\ UNCHANGED <<devices, half, left, screen, events>>

\* Whether a session is paired is read first.
ReadPaired(d) ==
  /\ poll = "sessions" /\ half = NoHalf /\ d \in snap /\ Room
  /\ half' = [id |-> {d}, paired |-> IF d \in DOMAIN kept THEN kept[d] ELSE bond[d]]
  /\ snap' = snap \ {d}
  /\ UNCHANGED <<devices, poll, kept, rows, orphan, left, screen, touched, stops, events>>

\* Then what it is about to be, and whether it is connected.
ReadRest(d) ==
  /\ half.id = {d}
  /\ rows' = rows \cup
       {[id |-> d, from |-> "session",
         pair |-> IF half.paired THEN "Paired" ELSE IF d \in DOMAIN kept THEN "None" ELSE wish[d],
         connected |-> d \notin DOMAIN kept /\ conn[d] = "up"]}
  /\ half' = NoHalf
  /\ UNCHANGED <<devices, poll, snap, kept, orphan, left, screen, touched, stops, events>>

EndSessions ==
  /\ poll = "sessions" /\ half = NoHalf /\ (snap = {} \/ ~Room)
  /\ poll' = "active" /\ snap' = {}
  /\ UNCHANGED <<devices, kept, half, rows, orphan, left, screen, touched, stops, events>>

\* offline_paired_devices gets the sessions anew, and then the files of the others.
\* Mutant: the files of all devices.
ReadActiveAll ==
  /\ poll = "active"
  /\ poll' = "files" /\ left' = saved
  /\ UNCHANGED <<devices, snap, kept, half, rows, orphan, screen, touched, stops, events>>

ReadActive ==
  /\ poll = "active"
  /\ poll' = "files" /\ left' = IF orphan THEN saved ELSE saved \ Sessions
  /\ UNCHANGED <<devices, snap, kept, half, rows, orphan, screen, touched, stops, events>>

\* A file that is gone by now is passed over.
ReadFile(d) ==
  /\ poll = "files" /\ d \in left
  /\ left' = left \ {d}
  /\ rows' = IF d \in saved /\ Room
               THEN rows \cup {[id |-> d, from |-> "file", pair |-> "Paired", connected |-> FALSE]}
               ELSE rows
  /\ UNCHANGED <<devices, poll, snap, kept, half, orphan, screen, touched, stops, events>>

\* Mutant: only who is listed and how it is paired is compared.
ChangedPairs(a, b) == {<<e.id, e.pair>> : e \in a} # {<<e.id, e.pair>> : e \in b}

\* devicesChanged.
Changed(a, b) ==
  {<<e.id, e.pair, e.connected>> : e \in a} # {<<e.id, e.pair, e.connected>> : e \in b}

\* update shows what came, if it is not what is shown.
Show ==
  /\ poll = "files" /\ left = {}
  /\ poll' = "idle"
  /\ screen' = IF Changed(screen, rows) THEN rows ELSE screen
  /\ UNCHANGED <<devices, snap, kept, half, rows, orphan, left, touched, stops, events>>

Device(d) == Connect(d) \/ Drop(d) \/ Wish(d) \/ Decide(d) \/ Unpair(d)

Read(d) == ReadPaired(d) \/ ReadRest(d) \/ ReadFile(d)

Next ==
  \/ Stop \/ Make \/ Begin \/ EndSessions \/ ReadActive \/ Show
  \/ \E d \in Known : Device(d) \/ Read(d)

Spec == Init /\ [][Next]_vars

-----------------------------------------------------------------------------

Truth(d) ==
  IF conn[d] # "none"
  THEN {[id |-> d, pair |-> IF bond[d] THEN "Paired" ELSE wish[d], connected |-> conn[d] = "up"]}
  ELSE IF d \in saved THEN {[id |-> d, pair |-> "Paired", connected |-> FALSE]} ELSE {}

Displayed(d) ==
  {[id |-> e.id, pair |-> e.pair, connected |-> e.connected] : e \in {s \in screen : s.id = d}}

\* A device that nothing happened to since the poll began is on the screen as it is,
\* whatever happened to the others meanwhile, if the list has room for all.
UntouchedIsShown ==
  (poll = "idle" /\ Cardinality(screen) < Places) =>
    \A d \in Known \ touched : Displayed(d) = Truth(d)

\* No device is listed twice, with its session and with its file, unless the client
\* was stopped in between.
ListedOnce ==
  ~stops => \A e, f \in rows : e.id = f.id => e = f

=============================================================================
