-------------------------------- MODULE Media --------------------------------
(***************************************************************************)
(* The media remote: MprisPlugin's picture of the players of another       *)
(* device (sysmodule/src/plugins/mpris_plugin.cpp), written by the io      *)
(* thread; the IPC commands that read it and that seek (sysmodule/src/ipc/ *)
(* ipc_service.cpp); and the overlay's media screen and seek bar.          *)
(*                                                                         *)
(* A field of the state is modelled by whose it is, and a position also by *)
(* the number of seeks that it comes after.  The other device is external: *)
(* its packets keep their order, and take their time.                      *)
(***************************************************************************)
EXTENDS Naturals, Sequences, SequencesExt

CONSTANTS
  Player, NoPlayer,
  MaxSeeks,     \* bound: the seeks of each player
  MaxInbox      \* bound: the packets on their way

VARIABLES
  front,    \* the player that the other device names first
  spot,     \* the seeks that each player there has made
  inbox,    \* the packets on their way from there
  outbox,   \* and the seeks on their way to it
  player,   \* current_player_
  title,    \* whose title, artist and album are in state_
  length,   \* whose length is, if it is known
  place,    \* state_.position
  lock,     \* seek_lock_until_ms_ lies ahead
  step,     \* where the IPC thread is
  target,   \* the player it has read
  bar,      \* what the media screen shows
  seeks,    \* the seeks sent to each player
  mixed,    \* history: the player changed between a seek and its anchor
  torn,     \* history: ... between the two reads of what is shown
  early     \* history: the lock ended before the other device had followed

peerVars == <<front, spot, inbox, outbox>>
stateVars == <<player, title, length, place, lock>>
mediaVars == <<peerVars, stateVars, step, target, bar, seeks, mixed, torn, early>>

Nowhere == [of |-> NoPlayer, after |-> 0]
NoList == [kind |-> "list", player |-> NoPlayer]
Packet == [kind : {"list"}, player : Player \cup {NoPlayer}]
          \cup [kind : {"all", "moved", "buffers"}, player : Player, after : 0 .. MaxSeeks]

TypeOK ==
  /\ front \in Player \cup {NoPlayer} /\ spot \in [Player -> 0 .. MaxSeeks]
  /\ inbox \in Seq(Packet) /\ outbox \in Seq([player : Player, after : 1 .. MaxSeeks])
  /\ {player, title, length, target} \subseteq Player \cup {NoPlayer}
  /\ place \in [of : Player \cup {NoPlayer}, after : 0 .. MaxSeeks]
  /\ step \in {"idle", "state", "send", "anchor"}
  /\ bar \in [name : Player \cup {NoPlayer}, title : Player \cup {NoPlayer}, seekable : BOOLEAN]
  /\ seeks \in [Player -> 0 .. MaxSeeks]
  /\ {lock, mixed, torn, early} \subseteq BOOLEAN

Init ==
  /\ front = NoPlayer /\ spot = [p \in Player |-> 0] /\ inbox = <<>> /\ outbox = <<>>
  /\ player = NoPlayer /\ title = NoPlayer /\ length = NoPlayer /\ place = Nowhere /\ lock = FALSE
  /\ step = "idle" /\ target = NoPlayer
  /\ bar = [name |-> NoPlayer, title |-> NoPlayer, seekable |-> FALSE]
  /\ seeks = spot /\ mixed = FALSE /\ torn = FALSE /\ early = FALSE

\* The other device, or a packet of it, does not know of the last seek of p yet.
Behind(p) ==
  \/ spot[p] < seeks[p]
  \/ \E i \in 1 .. Len(inbox) :
       inbox[i].kind # "list" /\ inbox[i].player = p /\ inbox[i].after < seeks[p]

-----------------------------------------------------------------------------
(* The other device.                                                       *)

\* Players come and go; the one used last is first.  It reports on every player,
\* all it knows or how far the track is, and odd values while it loads a track.
PeerSends ==
  /\ Len(inbox) < MaxInbox
  /\ \/ \E p \in (Player \cup {NoPlayer}) \ {front} :
          front' = p /\ inbox' = Append(inbox, [NoList EXCEPT !.player = p])
     \/ /\ \E p \in Player, k \in {"all", "moved", "buffers"} :
             inbox' = Append(inbox, [kind |-> k, player |-> p, after |-> spot[p]])
        /\ UNCHANGED front
  /\ UNCHANGED <<spot, outbox, stateVars, step, target, bar, seeks, mixed, torn, early>>

PeerSeeks ==
  /\ outbox # <<>>
  /\ spot' = [spot EXCEPT ![Head(outbox).player] = Head(outbox).after]
  /\ outbox' = Tail(outbox)
  /\ UNCHANGED <<front, inbox, stateVars, step, target, bar, seeks, mixed, torn, early>>

-----------------------------------------------------------------------------
(* MprisPlugin::on_packet_received, on the io thread.                      *)

\* Mutant: the state of the last player is kept.
SelectKeeps(p) ==
  /\ player' = p
  /\ early' = (early \/ Behind(p)) /\ torn' = (torn \/ step = "state")
  /\ UNCHANGED <<title, length, place, lock>>

\* The first player of a list is selected, and its status requested.
Select(p) ==
  /\ player' = p
  /\ title' = NoPlayer /\ length' = NoPlayer /\ place' = Nowhere /\ lock' = FALSE
  /\ early' = (early \/ Behind(p)) /\ torn' = (torn \/ step = "state")

\* A list without players changes nothing.
OnList ==
  /\ inbox # <<>> /\ Head(inbox).kind = "list"
  /\ inbox' = Tail(inbox)
  /\ IF Head(inbox).player \notin {player, NoPlayer}
     THEN Select(Head(inbox).player)
     ELSE UNCHANGED <<stateVars, early, torn>>
  /\ UNCHANGED <<front, spot, outbox, step, target, bar, seeks, mixed>>

\* Mutant: a position of 0 while the length is unknown is a position.
HasPositionAlways(m) == TRUE

\* "pos:0 when the same packet carries length:-1" is none.
HasPosition(m) == m.kind # "buffers"

\* Only the selected player counts, and any of them before one is.  Every packet
\* is incremental.
OnStatus ==
  /\ inbox # <<>> /\ Head(inbox).kind # "list"
  /\ inbox' = Tail(inbox)
  /\ LET m == Head(inbox)
     IN IF player \in {m.player, NoPlayer}
        THEN /\ IF m.kind = "all" THEN title' = m.player /\ length' = m.player
                ELSE UNCHANGED <<title, length>>
             /\ place' = IF HasPosition(m) /\ ~lock
                         THEN [of |-> m.player, after |-> IF m.kind = "buffers" THEN 0 ELSE m.after] ELSE place
        ELSE UNCHANGED <<title, length, place>>
  /\ UNCHANGED <<front, spot, outbox, player, lock, step, target, bar, seeks, mixed, torn, early>>

\* 500 ms after a seek.
Unlock ==
  /\ lock /\ lock' = FALSE
  /\ early' = (early \/ (player # NoPlayer /\ Behind(player)))
  /\ UNCHANGED <<peerVars, player, title, length, place, step, target, bar, seeks, mixed, torn>>

-----------------------------------------------------------------------------
(* The IPC thread, for the overlay, which waits.                           *)

\* MediaGui::pollAndUpdate: GetMediaInfo reads current_player() ...
ReadPlayer ==
  /\ step = "idle" /\ player # NoPlayer
  /\ target' = player /\ step' = "state" /\ torn' = FALSE
  /\ UNCHANGED <<peerVars, stateVars, bar, seeks, mixed, early>>

\* ... and then player_state().  The bar can be used if the length is known.
ReadState ==
  /\ step = "state"
  /\ step' = "idle"
  /\ bar' = [name |-> target, title |-> title, seekable |-> length # NoPlayer]
  /\ UNCHANGED <<peerVars, stateVars, target, seeks, mixed, torn, early>>

\* The user lets go of the seek bar (fireSendPosition); SendMediaAction seeks in
\* the player that is selected now.
Release ==
  /\ step = "idle" /\ bar.seekable /\ player # NoPlayer /\ seeks[player] < MaxSeeks
  /\ target' = player /\ step' = "send"
  /\ UNCHANGED <<peerVars, stateVars, bar, seeks, mixed, torn, early>>

\* set_position: the packet goes first.
SendPosition ==
  /\ step = "send" /\ step' = "anchor"
  /\ seeks' = [seeks EXCEPT ![target] = @ + 1]
  /\ outbox' = Append(outbox, [player |-> target, after |-> seeks'[target]])
  /\ UNCHANGED <<front, spot, inbox, stateVars, target, bar, mixed, torn, early>>

\* Mutant: positions are not ignored after a seek.
AnchorOpen ==
  /\ step = "anchor" /\ step' = "idle"
  /\ place' = [of |-> target, after |-> seeks[target]]
  /\ mixed' = (mixed \/ target # player)
  /\ UNCHANGED <<peerVars, player, title, length, lock, target, bar, seeks, torn, early>>

\* The state is anchored at the new position, whosever it is by now.
Anchor ==
  /\ step = "anchor" /\ step' = "idle"
  /\ place' = [of |-> target, after |-> seeks[target]]
  /\ lock' = TRUE
  /\ mixed' = (mixed \/ target # player)
  /\ UNCHANGED <<peerVars, player, title, length, target, bar, seeks, torn, early>>

Next ==
  \/ PeerSends \/ PeerSeeks
  \/ OnList \/ OnStatus \/ Unlock
  \/ ReadPlayer \/ ReadState \/ Release \/ SendPosition \/ Anchor

-----------------------------------------------------------------------------

\* "packets from the non-selected one corrupt state" (mpris_plugin.cpp): whatever
\* players a device has and however they take turns, what is known of a track is
\* of the selected player.  A position is, too, unless the selection changed
\* between a seek and its anchor.
StateIsOfOne ==
  player # NoPlayer =>
    /\ {title, length} \subseteq {player, NoPlayer}
    /\ ~mixed => place.of \in {player, NoPlayer}

\* The position does not jump back to where the track was before a seek, while
\* packets that do not know of it come in; if the other device follows within
\* 500 ms and keeps the player selected.
NoJumpBack ==
  player # NoPlayer /\ step \notin {"send", "anchor"} /\ ~early /\ ~mixed /\ place.of = player
    => place.after = seeks[player]

\* The screen shows a player's name with its own track, unless the selection
\* changed between the two reads of the command, and then until the next poll.
ShownIsOne == step = "idle" /\ ~torn => bar.title \in {bar.name, NoPlayer}

=============================================================================
