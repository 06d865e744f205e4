-------------------------------- MODULE MCPeer --------------------------------
(***************************************************************************)
(* What a connected phone and the user of the console see of each other:   *)
(* pairing (module Pairing, which this one extends, with threads that do   *)
(* not overlap), the plugins with their screens, the documents that their  *)
(* packets are kept in, and the packets that the console is found by, each *)
(* checked by itself.  They share nothing but the session that carries     *)
(* what they send.  part is the one that a behaviour is about, and the     *)
(* others stay in an initial state.                                        *)
(***************************************************************************)
EXTENDS Pairing, FiniteSets

CONSTANTS
  Player, NoPlayer, MaxSeeks, MaxInbox,                              \* Media
  Phone, Level, AtStart, MaxTurnings,                                \* Volume
  Full, MaxVolume, MaxMoves,                                         \* Sinks
  Id, NoId, MaxPosted, MaxHashes, MaxTime, MaxPackets,               \* Notices
  Charge, Low, MaxTurns,                                             \* Battery
  Harmless, Power, MaxSteps,                                         \* Commands
  Hash, Side, Dim, Wide, High, MaxPolls,                             \* TitleBar
  Body, Doc, NoDoc, Scalar,                                          \* JsonBody
  Capacity, TableSize, MaxRefs, MaxLabels, Qualified, MaxDatagrams,  \* Mdns
  Known, Places, MaxEvents,                                          \* DeviceList
  Key, Entries, MaxNews                                              \* DeviceScreen

\* Bounds are numbers; null values are not values; a computer counts its volume at
\* least as finely as the slider; covers and their places have a size; what is not in
\* a document is no value of a field; there are finitely many devices and commands.
ASSUME PeerAssumption ==
  /\ NoPlayer \notin Player /\ MaxSeeks \in Nat
  /\ Level \subseteq Nat /\ 0 \in Level /\ AtStart \in Level /\ MaxTurnings \in Nat
  /\ Full \in Nat \ {0} /\ MaxVolume \in Nat /\ Full <= MaxVolume /\ MaxMoves \in Nat
  /\ NoId \notin Id /\ MaxPosted \in Nat \ {0} /\ MaxTime \in Nat /\ MaxPackets \in Nat
  /\ 0 \in Charge /\ MaxTurns \in Nat
  /\ MaxSteps \in Nat
  /\ "" \notin Hash /\ Side \subseteq Nat \ {0} /\ {Dim, Wide, High} \subseteq Nat \ {0} /\ MaxPolls \in Nat
  /\ NoDoc \notin Body \cup Doc /\ {"absent", "none", "freed"} \cap Scalar = {}
  /\ IsFiniteSet(Known) /\ Places \in Nat /\ MaxEvents \in Nat
  /\ IsFiniteSet(Key) /\ Entries \in Nat /\ MaxNews \in Nat

VARIABLES
  part,
  front, spot, inbox, outbox, player, title, length, place, lock, step, target, bar, seeks, mixed, torn, early,
  master, volOf, muteOf, asked, turner, unmuted, turnings,
  raw, quiet, listed, pct, hush, toSink, toUs, slider, loudest, moved, moves,
  posted, hashed, open, iconed, files, onScreen, due, hidden, lately, twice, packets,
  battery, cached, valid, active, at, got, told, crossed, phone, reports, remote, remoteAt, overlay, overlayAt, met, acts,
  allowed, resend, ioDoes, ioSaw, offered, stale, order, could, wrong, steps,
  top, size, cover, hash, pixels, memory, changes,
  heap, doc, root, owns, lent, meant,
  host, addrs, buffer, sent, heard, found, datagrams,
  client, conn, bond, wish, saved, poll, snap, kept, half, rows, orphan, left, screen, touched, stops, events,
  trusts, linked, starting, accepting, menu, page, row, shown, theyTrust, theirs, toThem, toMe, parted, pestered, news

Track == INSTANCE Media
Own == INSTANCE Volume
Theirs == INSTANCE Sinks
News == INSTANCE Notices
Charged == INSTANCE Battery
Orders == INSTANCE Commands
Cover == INSTANCE TitleBar
Json == INSTANCE JsonBody
Dns == INSTANCE Mdns
Listing == INSTANCE DeviceList
OnScreen == INSTANCE DeviceScreen

pairVars == <<stored, made, table, pairState, paired, cert, disc, outq, inq, io, hs, hsPaired, ipc, view, peer, userYes, peerYes, intent, ops>>
mediaVars == <<front, spot, inbox, outbox, player, title, length, place, lock, step, target, bar, seeks, mixed, torn, early>>
volumeVars == <<master, volOf, muteOf, asked, turner, unmuted, turnings>>
sinksVars == <<raw, quiet, listed, pct, hush, toSink, toUs, slider, loudest, moved, moves>>
noticesVars == <<posted, hashed, open, iconed, files, onScreen, due, hidden, lately, twice, packets>>
batteryVars == <<battery, cached, valid, active, at, got, told, crossed, phone, reports, remote, remoteAt, overlay, overlayAt, met, acts>>
commandsVars == <<allowed, resend, ioDoes, ioSaw, offered, stale, order, could, wrong, steps>>
coverVars == <<top, size, cover, hash, pixels, memory, changes>>
jsonVars == <<heap, doc, root, owns, lent, meant>>
mdnsVars == <<host, addrs, buffer, sent, heard, found, datagrams>>
listVars == <<client, conn, bond, wish, saved, poll, snap, kept, half, rows, orphan, left, screen, touched, stops, events>>
screenVars == <<trusts, linked, starting, accepting, menu, page, row, shown, theyTrust, theirs, toThem, toMe, parted, pestered, news>>
phonesVars == <<part, pairVars, mediaVars, volumeVars, sinksVars, noticesVars, batteryVars, commandsVars, coverVars, jsonVars, mdnsVars, listVars, screenVars>>

Part == {"pair", "media", "volume", "sinks", "notices", "battery", "commands", "cover", "json", "mdns", "list", "screen"}

PhonesInit ==
  /\ part \in Part
  /\ Init /\ (part # "pair" => ~stored)
  /\ Track!Init
  /\ Own!Init
  /\ Theirs!Init
  /\ News!Init /\ (part # "notices" => open /\ iconed)
  /\ Charged!Init /\ (part # "battery" => battery = (CHOOSE b \in Charged!Status : TRUE) /\ cached = Charged!Unknown)
  /\ Orders!Init /\ (part # "commands" => allowed)
  /\ Cover!Init /\ (part # "cover" => top /\ size = CHOOSE s \in Cover!Size : TRUE)
  /\ Json!Init
  /\ Dns!Init /\ (part # "mdns" => /\ host = CHOOSE h \in Dns!Hosts : TRUE
                        /\ addrs = CHOOSE a \in Dns!Addresses : TRUE)
  /\ Listing!Init /\ (part # "list" => saved = {})
  /\ OnScreen!Init

PhonesNext ==
  /\ UNCHANGED part
  /\ \/ part = "pair" /\ SerialNext /\ UNCHANGED <<mediaVars, volumeVars, sinksVars, noticesVars, batteryVars, commandsVars, coverVars, jsonVars, mdnsVars, listVars, screenVars>>
     \/ part = "media" /\ Track!Next /\ UNCHANGED <<pairVars, volumeVars, sinksVars, noticesVars, batteryVars, commandsVars, coverVars, jsonVars, mdnsVars, listVars, screenVars>>
     \/ part = "volume" /\ Own!Next /\ UNCHANGED <<pairVars, mediaVars, sinksVars, noticesVars, batteryVars, commandsVars, coverVars, jsonVars, mdnsVars, listVars, screenVars>>
     \/ part = "sinks" /\ Theirs!Next /\ UNCHANGED <<pairVars, mediaVars, volumeVars, noticesVars, batteryVars, commandsVars, coverVars, jsonVars, mdnsVars, listVars, screenVars>>
     \/ part = "notices" /\ News!Next /\ UNCHANGED <<pairVars, mediaVars, volumeVars, sinksVars, batteryVars, commandsVars, coverVars, jsonVars, mdnsVars, listVars, screenVars>>
     \/ part = "battery" /\ Charged!Next /\ UNCHANGED <<pairVars, mediaVars, volumeVars, sinksVars, noticesVars, commandsVars, coverVars, jsonVars, mdnsVars, listVars, screenVars>>
     \/ part = "commands" /\ Orders!Next /\ UNCHANGED <<pairVars, mediaVars, volumeVars, sinksVars, noticesVars, batteryVars, coverVars, jsonVars, mdnsVars, listVars, screenVars>>
     \/ part = "cover" /\ Cover!Next /\ UNCHANGED <<pairVars, mediaVars, volumeVars, sinksVars, noticesVars, batteryVars, commandsVars, jsonVars, mdnsVars, listVars, screenVars>>
     \/ part = "json" /\ Json!Next /\ UNCHANGED <<pairVars, mediaVars, volumeVars, sinksVars, noticesVars, batteryVars, commandsVars, coverVars, mdnsVars, listVars, screenVars>>
     \/ part = "mdns" /\ Dns!Next /\ UNCHANGED <<pairVars, mediaVars, volumeVars, sinksVars, noticesVars, batteryVars, commandsVars, coverVars, jsonVars, listVars, screenVars>>
     \/ part = "list" /\ Listing!Next /\ UNCHANGED <<pairVars, mediaVars, volumeVars, sinksVars, noticesVars, batteryVars, commandsVars, coverVars, jsonVars, mdnsVars, screenVars>>
     \/ part = "screen" /\ OnScreen!Next /\ UNCHANGED <<pairVars, mediaVars, volumeVars, sinksVars, noticesVars, batteryVars, commandsVars, coverVars, jsonVars, mdnsVars, listVars>>

PhonesSpec ==
  /\ PhonesInit /\ [][PhonesNext]_phonesVars

-----------------------------------------------------------------------------

\* What the parts keep is of the types that their modules state, and the documents
\* that packets are kept in have one owner each, which uses no other and acts as a value;
\* what is parsed from an mDNS packet is what the console put into it, about itself.
PeerIsSound ==
  /\ part = "pair" => TypeOK
  /\ part = "media" => Track!TypeOK
  /\ part = "volume" => Own!TypeOK
  /\ part = "sinks" => Theirs!TypeOK
  /\ part = "notices" => News!TypeOK
  /\ part = "battery" => Charged!TypeOK
  /\ part = "commands" => Orders!TypeOK
  /\ part = "cover" => Cover!TypeOK
  /\ part = "json" => Json!TypeOK /\ Json!OneOwner /\ Json!ActsAsValue
  /\ part = "mdns" => Dns!TypeOK /\ Dns!PacketIsRead /\ Dns!FoundIsSender /\ Dns!QuestionIsAnswered
  /\ part = "list" => Listing!TypeOK
  /\ part = "screen" => OnScreen!TypeOK

(* What the parts promise, as the conjunction of what their modules state. *)

\* What a screen of the overlay shows is what the phone reported last: one track
\* with its own state and position, the volume that a sink was set to, its
\* battery, its notification, unless its file could not be written, shown once unless it
\* was evicted, and its picture, unless it has fewer pixels than the square at the side; its
\* list of devices shows each one as it is, and the commands that the console knows of a
\* phone are its commands.
ScreensAreTrue ==
  /\ part = "media" => Track!StateIsOfOne /\ Track!NoJumpBack /\ Track!ShownIsOne
  /\ part = "sinks" => Theirs!NeverLouder /\ Theirs!SliderIsSo
  /\ part = "notices" => News!NewestIsShown /\ News!NotTwice
  /\ part = "battery" => Charged!OverlayIsReported
  /\ part = "cover" => Cover!CoverIsShown
  /\ part = "list" => Listing!UntouchedIsShown /\ Listing!ListedOnce
  /\ part = "screen" => OnScreen!MenuIsTheirs

\* What a phone is told of the console is so: its volume, its battery, and the
\* commands that it may run and that are run for it; and it is asked for nothing after
\* the user has unpaired it.
PhonesAreTold ==
  /\ part = "volume" => Own!SaidIsSo
  /\ part = "battery" => Charged!ToldIsTrue
  /\ part = "commands" => Orders!OfferIsAllowed /\ Orders!PowerIsAllowed
  /\ part = "screen" => OnScreen!UnpairedIsLeft

=============================================================================
