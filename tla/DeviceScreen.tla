----------------------------- MODULE DeviceScreen -----------------------------
(***************************************************************************)
(* What the user asks a phone for: the screens of one device               *)
(* (gui/device_gui.cpp, gui/commands_gui.cpp), the IPC commands behind     *)
(* them and the phone's commands (plugins/run_command_plugin.cpp).         *)
(*                                                                         *)
(* A screen is made once, from what the console knew then, and stays as it *)
(* is while the phone is unpaired, edits its commands, or connects anew.   *)
(* The commands that are handled do not look at paired.                    *)
(***************************************************************************)
EXTENDS FiniteSets, Sequences, Naturals

CONSTANTS
  Key,       \* the phone's commands; an id is never used again for another one
  Entries,   \* kMaxCommands
  MaxNews    \* bound: what the phone's user, the network and the user's pairing do

VARIABLES
  trusts,    \* session->paired, and the device's file
  linked,    \* the session is not disconnected
  starting,  \* handle_new_connection has still to call on_connected
  accepting, \* accept_pair has sent its answer and not set paired yet
  menu,      \* remote_commands_
  page,      \* the screen that is open
  row,       \* the device in MainGui::devices_ and, copied from there, in dev_
  shown,     \* the commands on the screen
  theyTrust, \* the phone: it is paired
  theirs,    \*   and the commands it has
  toThem,    \* send_queue and what is on its way
  toMe,      \* what the phone has sent
  parted,    \* history: the user has unpaired the phone since they were paired
  pestered,  \* history: it was asked for something after that
  news

vars == <<trusts, linked, starting, accepting, menu, page, row, shown, theyTrust, theirs,
          toThem, toMe, parted, pestered, news>>

phone == <<theyTrust, theirs>>
screens == <<page, row, shown>>
history == <<parted, pestered>>

List(s) == [is |-> "list", of |-> s]
Unpaired == [is |-> "unpair", of |-> {}]

TypeOK ==
  /\ {trusts, linked, starting, accepting, theyTrust, parted, pestered} \subseteq BOOLEAN
  /\ page \in {"list", "device", "commands"}
  /\ row \in [paired : BOOLEAN, connected : BOOLEAN]
  /\ menu \subseteq Key /\ shown \subseteq Key /\ theirs \subseteq Key
  /\ \A i \in DOMAIN toMe : toMe[i] \in {Unpaired} \cup {List(s) : s \in SUBSET Key}
  /\ \A i \in DOMAIN toThem : toThem[i] \in {"pair", "unpair", "ask", "run", "ping", "ring"}
  /\ news \in 0 .. MaxNews

\* A paired phone has connected, and none of its screens is open.
Init ==
  /\ trusts = TRUE /\ theyTrust = TRUE /\ linked = TRUE
  /\ starting = TRUE /\ accepting = FALSE
  /\ menu = {} /\ theirs = Key
  /\ page = "list" /\ row = [paired |-> TRUE, connected |-> TRUE] /\ shown = {}
  /\ toThem = <<>> /\ toMe = <<>>
  /\ parted = FALSE /\ pestered = FALSE
  /\ news = 0

Count == news < MaxNews /\ news' = news + 1

-----------------------------------------------------------------------------

(* The phone. *)

Tell(m) == toMe' = IF linked THEN Append(toMe, m) ELSE toMe

\* Its user edits the commands, which a paired console is told of.
Edit ==
  /\ Count
  /\ theirs' \in SUBSET Key \ {theirs}
  /\ IF theyTrust THEN Tell(List(theirs')) ELSE UNCHANGED toMe
  /\ UNCHANGED <<trusts, linked, starting, accepting, menu, screens, theyTrust, toThem, history>>

TheyUnpair ==
  /\ Count
  /\ theyTrust /\ linked
  /\ theyTrust' = FALSE
  /\ Tell(Unpaired)
  /\ UNCHANGED <<trusts, linked, starting, accepting, menu, screens, theirs, toThem, history>>

TheyTake ==
  /\ toThem # <<>>
  /\ LET m == Head(toThem)
     IN /\ theyTrust' = IF m = "pair" THEN TRUE ELSE IF m = "unpair" THEN FALSE ELSE theyTrust
        /\ IF m = "pair" \/ (m = "ask" /\ theyTrust) THEN Tell(List(theirs)) ELSE UNCHANGED toMe
  /\ toThem' = Tail(toThem)
  /\ UNCHANGED <<trusts, linked, starting, accepting, menu, screens, theirs, history, news>>

-----------------------------------------------------------------------------

(* The session. *)

\* send_packet, to a session that is not disconnected.
SendAll(ms) == toThem' = IF linked THEN toThem \o ms ELSE toThem

\* on_connected: the phone is asked for its commands.
\* Mutant: the list is only asked for when the screen is opened.
OnConnectedNothing == <<>>
OnConnected == <<"ask">>

Drop ==
  /\ Count
  /\ linked
  /\ linked' = FALSE
  /\ toThem' = <<>> /\ toMe' = <<>>
  /\ UNCHANGED <<trusts, starting, accepting, menu, screens, phone, history>>

\* A new session has plugins of its own; its io thread runs before they are told.
Connect ==
  /\ Count
  /\ ~linked /\ ~starting
  /\ linked' = TRUE /\ starting' = TRUE
  /\ menu' = {}
  /\ UNCHANGED <<trusts, accepting, screens, phone, toThem, toMe, history>>

\* handle_new_connection ends.
Start ==
  /\ starting
  /\ starting' = FALSE
  /\ SendAll(IF trusts THEN OnConnected ELSE <<"unpair">>)
  /\ UNCHANGED <<trusts, linked, accepting, menu, screens, phone, toMe, history, news>>

\* Mutant: commands that the phone has no more stay.
TakeListAdds(s) == menu' = menu \cup s

TakeList(s) == menu' = s

\* handle_packet: nothing but pairing is taken of a phone that is not paired.
Take ==
  /\ toMe # <<>>
  /\ LET m == Head(toMe)
     IN IF m.is = "unpair"
        THEN trusts' = FALSE /\ UNCHANGED menu
        ELSE /\ IF trusts THEN TakeList(m.of) ELSE UNCHANGED menu
             /\ UNCHANGED trusts
  /\ toMe' = Tail(toMe)
  /\ UNCHANGED <<linked, starting, accepting, screens, phone, toThem, history, news>>

-----------------------------------------------------------------------------

(* The overlay. *)

Row == [paired |-> trusts, connected |-> linked]

Refresh ==
  /\ page = "list" /\ row # Row
  /\ row' = Row
  /\ UNCHANGED <<trusts, linked, starting, accepting, menu, page, shown, phone, toThem, toMe, history, news>>

OpenDevice ==
  /\ page = "list"
  /\ page' = "device"
  /\ UNCHANGED <<trusts, linked, starting, accepting, menu, row, shown, phone, toThem, toMe, history, news>>

\* What the device screen offers.
\* Mutant: also for a phone that is not paired.
OffersConnected == page = "device" /\ row.connected

Offers == page = "device" /\ row.paired /\ row.connected

\* Requests that the user makes go to the session there is now.
Request(m) ==
  /\ SendAll(<<m>>)
  /\ pestered' = (pestered \/ (parted /\ linked))
  /\ UNCHANGED <<trusts, linked, starting, accepting, menu, screens, phone, toMe, parted, news>>

Ping == Request("ping")

Ring == Request("ring")

RunCommand == Request("run")

\* "Ping" and "Ring" of the device screen.
Press ==
  /\ Offers /\ Len(toThem) < 2
  /\ Ping \/ Ring

\* What the buffer of the overlay holds, ...
Fits(s) == Cardinality(s) = IF Cardinality(menu) < Entries THEN Cardinality(menu) ELSE Entries

\* ... in the order of an unordered map.
GetCommandList == {s \in SUBSET menu : Fits(s)}

OpenCommands ==
  /\ Offers
  /\ page' = "commands"
  /\ shown' \in GetCommandList
  /\ UNCHANGED <<trusts, linked, starting, accepting, menu, row, phone, toThem, toMe, history, news>>

PressCommand ==
  /\ page = "commands" /\ shown # {} /\ Len(toThem) < 2
  /\ RunCommand

Back ==
  /\ page # "list"
  /\ page' = IF page = "commands" THEN "device" ELSE "list"
  /\ shown' = {}
  /\ UNCHANGED <<trusts, linked, starting, accepting, menu, row, phone, toThem, toMe, history, news>>

\* The list of devices is made anew in place of it and the device's screen.
\* Mutant: the device's screen stays.
ToListStays == UNCHANGED screens

ToList == page' = "list" /\ row' = [paired |-> trusts', connected |-> linked] /\ UNCHANGED shown

\* unpair: of a phone that is not connected, of one that has unpaired itself, or else.
Unpair ==
  /\ page = "device" /\ row.paired
  /\ trusts' = FALSE
  /\ IF trusts /\ linked THEN SendAll(<<"unpair">>) ELSE UNCHANGED toThem
  /\ parted' = TRUE
  /\ ToList
  /\ UNCHANGED <<linked, starting, accepting, menu, phone, toMe, pestered, news>>

\* accept_pair, of a phone that has asked: the answer is sent, ...
Accept ==
  /\ Count
  /\ page = "device" /\ ~row.paired
  /\ ~trusts /\ ~theyTrust /\ linked /\ ~starting /\ ~accepting
  /\ "unpair" \notin {toThem[i] : i \in DOMAIN toThem} /\ toMe = <<>>
  /\ SendAll(<<"pair">>)
  /\ accepting' = TRUE
  /\ UNCHANGED <<trusts, linked, starting, menu, screens, phone, toMe, history>>

\* ... the phone is paired, and its plugins are told.
Accepted ==
  /\ accepting
  /\ accepting' = FALSE
  /\ trusts' = TRUE /\ parted' = FALSE
  /\ SendAll(OnConnected)
  /\ ToList
  /\ UNCHANGED <<linked, starting, menu, phone, toMe, pestered, news>>

Overlay ==
  \/ Refresh \/ OpenDevice \/ Press \/ OpenCommands \/ PressCommand \/ Back \/ Unpair \/ Accept

Next ==
  \/ Edit \/ TheyUnpair \/ TheyTake
  \/ Drop \/ Connect \/ Start \/ Take \/ Accepted
  \/ (~accepting /\ Overlay)

Spec == Init /\ [][Next]_vars

-----------------------------------------------------------------------------

\* After the user has unpaired a phone, none of its screens asks it for anything until
\* they are paired again, although the commands behind them do not check.
UnpairedIsLeft == ~pestered

\* When nothing is on its way, the console knows the commands that a paired phone has,
\* whatever was edited, lost or dropped while they were not connected or not paired.
MenuIsTheirs ==
  (trusts /\ theyTrust /\ linked /\ ~starting /\ ~accepting /\ toThem = <<>> /\ toMe = <<>>) =>
    menu = theirs

=============================================================================
