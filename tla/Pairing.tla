------------------------------ MODULE Pairing -------------------------------
(***************************************************************************)
(* Pairing with one device (sysmodule/src/net/kdeconnect_client.cpp,       *)
(* utils/storage.cpp, ipc/ipc_service.cpp, overlay/src/gui).               *)
(*                                                                         *)
(* What "paired" means is kept three times: pair_state and paired of the   *)
(* session, which the io thread, the IPC thread and the connection handler *)
(* read and write without a lock, and the record in storage, which         *)
(* outlives the session.  Every such read and write is a step of its own.  *)
(* The device may disconnect, losing the packets on the way, and come back *)
(* as a new session; handlers that race for one device are the subject of  *)
(* Sessions, here they run one after the other.                            *)
(*                                                                         *)
(* The peer is external.  It follows the same packet rules, in one step    *)
(* per packet, and tells us on connecting if it is not paired, as our own  *)
(* handler does.                                                           *)
(***************************************************************************)
EXTENDS Naturals, Sequences

CONSTANTS
  MaxSess,    \* bound: how many sessions the device has, one after the other
  MaxOps,     \* bound: how often the two users act
  MaxQueue,   \* bound: packets on the way in one direction
  PeerIsNx,   \* TRUE iff the peer runs this program too
  PeerClock,  \* how the peer's requests are stamped: subset of Stamp
  Certs       \* whether the peer presents a certificate: subset of BOOLEAN


Sess == 1 .. MaxSess

NoSess == 0

PairState == {"NotPaired", "Requested", "RequestedByPeer", "Paired"}

\* The timestamp of a pair packet: in seconds and within 30 minutes of our
\* clock (or absent), in seconds of a clock that is off, or in milliseconds.
Stamp == {"ok", "skewed", "ms"}

ASSUME PairingAssumption ==
  /\ MaxSess \in Nat /\ MaxOps \in Nat /\ MaxQueue \in Nat
  /\ PeerIsNx \in BOOLEAN
  /\ PeerClock \subseteq Stamp
  /\ Certs \subseteq BOOLEAN

Packet == [pair : BOOLEAN, ts : Stamp]

Unpair == [pair |-> FALSE, ts |-> "ok"]

IpcOp == {"request", "accept", "reject", "unpair"}

VARIABLES
  stored,     \* the device's record is in storage
  made,       \* the newest session made
  table,      \* the session sessions_ holds
  pairState,  \* pair_state
  paired,     \* paired
  cert,       \* cert_pem is not empty
  disc,       \* disconnected
  outq,       \* send_queue and what is on the way to the peer
  inq,        \* what is on the way from the peer
  io,         \* where handle_pair_packet is, in the session's io thread
  hs,         \* where the connection handler is
  hsPaired,   \* what it read from storage
  ipc,        \* where the IPC thread is: [pc, op, s]
  view,       \* what the overlay last showed of the device
  peer,       \* the peer's pair state
  userYes,    \* the user has asked for, or accepted, a pairing
  peerYes,    \* so has the peer's
  intent,     \* what the user wanted last
  ops         \* how often the users have acted

sessVars == <<made, table, pairState, paired, cert, disc, io>>
wireVars == <<outq, inq>>
handlerVars == <<hs, hsPaired>>
peerVars == <<peer, peerYes>>
userVars == <<view, userYes, intent>>
vars == <<stored, sessVars, wireVars, handlerVars, ipc, userVars, peerVars, ops>>

IoPc == {"idle", "pair1", "pair2", "pair3", "prompt", "un1", "un2", "un3"}

IpcPc == {"idle", "send", "w1", "w2", "w3", "off1", "off2", "off3"}

TypeOK ==
  /\ stored \in BOOLEAN
  /\ made \in 0 .. MaxSess
  /\ table \in 0 .. MaxSess
  /\ pairState \in [Sess -> PairState]
  /\ paired \in [Sess -> BOOLEAN]
  /\ cert \in [Sess -> BOOLEAN]
  /\ disc \in [Sess -> BOOLEAN]
  /\ outq \in [Sess -> Seq(Packet)]
  /\ inq \in [Sess -> Seq(Packet)]
  /\ io \in [Sess -> IoPc]
  /\ hs \in {"idle", "loaded", "publish", "check", "announce"}
  /\ hsPaired \in BOOLEAN
  /\ ipc \in [pc : IpcPc, op : IpcOp, s : 0 .. MaxSess]
  /\ view \in {"gone", "None", "RequestedByMe", "RequestedByPeer", "Paired"}
  /\ peer \in PairState
  /\ userYes \in BOOLEAN
  /\ peerYes \in BOOLEAN
  /\ intent \in {"any", "yes", "no"}
  /\ ops \in Nat

NoIpc == [pc |-> "idle", op |-> "request", s |-> NoSess]

\* The program starts: the devices are strangers, or paired in an earlier run.
Init ==
  /\ stored \in BOOLEAN
  /\ userYes = stored /\ peerYes = stored
  /\ peer = IF stored THEN "Paired" ELSE "NotPaired"
  /\ made = NoSess /\ table = NoSess
  /\ pairState = [s \in Sess |-> "NotPaired"]
  /\ paired = [s \in Sess |-> FALSE]
  /\ cert \in [Sess -> Certs]
  /\ disc = [s \in Sess |-> FALSE]
  /\ outq = [s \in Sess |-> <<>>]
  /\ inq = [s \in Sess |-> <<>>]
  /\ io = [s \in Sess |-> "idle"]
  /\ hs = "idle" /\ hsPaired = FALSE
  /\ ipc = NoIpc
  /\ view = "gone"
  /\ intent = "any"
  /\ ops = 0

\* The session whose connection is up, or NoSess.
Link == IF made # NoSess /\ ~disc[made] THEN made ELSE NoSess

-----------------------------------------------------------------------------
(* handle_new_connection                                                   *)

\* The device counts as not connected; its record is read.
HsLoad ==
  /\ hs = "idle"
  /\ table # NoSess => disc[table]
  /\ made < MaxSess
  /\ hsPaired' = stored
  /\ hs' = "loaded"
  /\ UNCHANGED <<stored, sessVars, wireVars, ipc, userVars, peerVars, ops>>

\* The handshake fails, and the socket is closed again.
HsFail ==
  /\ hs = "loaded"
  /\ hs' = "idle"
  /\ UNCHANGED <<hsPaired, stored, sessVars, wireVars, ipc, userVars, peerVars, ops>>

\* The handshake is done; the session is made, with what was read before it,
\* and its io thread starts.  A peer that is not paired says so.
HsStart ==
  /\ hs = "loaded"
  /\ hs' = "publish"
  /\ made' = made + 1
  /\ paired' = [paired EXCEPT ![made + 1] = hsPaired]
  /\ pairState' = [pairState EXCEPT ![made + 1] = IF hsPaired THEN "Paired" ELSE "NotPaired"]
  /\ inq' = [inq EXCEPT ![made + 1] = IF peer = "Paired" THEN <<>> ELSE <<Unpair>>]
  /\ UNCHANGED <<hsPaired, stored, table, cert, disc, io, outq, ipc, userVars, peerVars, ops>>

HsPublish ==
  /\ hs = "publish"
  /\ table' = made
  /\ hs' = "check"
  /\ UNCHANGED <<hsPaired, stored, made, pairState, paired, cert, disc, io, wireVars, ipc, userVars, peerVars, ops>>

\* Is the new session paired?
HsCheck ==
  /\ hs = "check"
  /\ hs' = IF paired[made] THEN "idle" ELSE "announce"
  /\ UNCHANGED <<hsPaired, stored, sessVars, wireVars, ipc, userVars, peerVars, ops>>

\* send_packet: the session in the table gets the packet unless it is
\* disconnected.
CanSend == table # NoSess /\ ~disc[table]

Send(p) == outq' = [outq EXCEPT ![table] = Append(@, p)]

\* Mutant: nothing is announced.
HsAnnounceNothing ==
  /\ hs = "announce"
  /\ hs' = "idle"
  /\ UNCHANGED <<hsPaired, stored, sessVars, wireVars, ipc, userVars, peerVars, ops>>

\* "Send an unpair packet in case the remote still thinks we are connected".
HsAnnounce ==
  /\ hs = "announce"
  /\ IF CanSend THEN Send(Unpair) ELSE UNCHANGED outq
  /\ hs' = "idle"
  /\ UNCHANGED <<hsPaired, stored, sessVars, inq, ipc, userVars, peerVars, ops>>

-----------------------------------------------------------------------------
(* handle_pair_packet, in the io thread of session s.                      *)

IoGoto(s, l) == io' = [io EXCEPT ![s] = l]

\* Mutant: pair packets are taken for acceptances, whatever the state.
VerdictTrusting(s, p) ==
  CASE ~p.pair                     -> "un1"
    [] p.pair /\ p.ts # "ok"       -> "idle"
    [] p.pair /\ p.ts = "ok"       -> IF cert[s] THEN "pair1" ELSE "idle"

\* What handle_pair_packet makes of a packet before it writes anything.
Verdict(s, p) ==
  CASE ~p.pair                                       -> "un1"
    [] p.pair /\ p.ts # "ok"                         -> "idle"
    [] p.pair /\ p.ts = "ok" /\ pairState[s] # "Requested" -> "prompt"
    [] p.pair /\ p.ts = "ok" /\ pairState[s] = "Requested" ->
         IF cert[s] THEN "pair1" ELSE "idle"

IoRecv(s) ==
  /\ s <= made
  /\ io[s] = "idle"
  /\ ~disc[s]
  /\ inq[s] # <<>>
  /\ IoGoto(s, Verdict(s, Head(inq[s])))
  /\ inq' = [inq EXCEPT ![s] = Tail(@)]
  /\ UNCHANGED <<stored, made, table, pairState, paired, cert, disc, outq, handlerVars, ipc, userVars, peerVars, ops>>

\* A request of the peer waits for the user.
IoPrompt(s) ==
  /\ io[s] = "prompt"
  /\ pairState' = [pairState EXCEPT ![s] = "RequestedByPeer"]
  /\ IoGoto(s, "idle")
  /\ UNCHANGED <<stored, made, table, paired, cert, disc, wireVars, handlerVars, ipc, userVars, peerVars, ops>>

\* The three writes of a pairing (pair1..3) or of an unpairing (un1..3).
IoWrite1(s) ==
  /\ io[s] \in {"pair1", "un1"}
  /\ pairState' = [pairState EXCEPT ![s] = IF io[s] = "pair1" THEN "Paired" ELSE "NotPaired"]
  /\ IoGoto(s, IF io[s] = "pair1" THEN "pair2" ELSE "un2")
  /\ UNCHANGED <<stored, made, table, paired, cert, disc, wireVars, handlerVars, ipc, userVars, peerVars, ops>>

IoWrite2(s) ==
  /\ io[s] \in {"pair2", "un2"}
  /\ paired' = [paired EXCEPT ![s] = (io[s] = "pair2")]
  /\ IoGoto(s, IF io[s] = "pair2" THEN "pair3" ELSE "un3")
  /\ UNCHANGED <<stored, made, table, pairState, cert, disc, wireVars, handlerVars, ipc, userVars, peerVars, ops>>

IoWrite3(s) ==
  /\ io[s] \in {"pair3", "un3"}
  /\ stored' = (io[s] = "pair3")
  /\ IoGoto(s, "idle")
  /\ UNCHANGED <<made, table, pairState, paired, cert, disc, wireVars, handlerVars, ipc, userVars, peerVars, ops>>

\* The connection breaks: what is on the way is lost, and so is what the peer
\* had not settled.
Disconnect(s) ==
  /\ s <= made
  /\ io[s] = "idle"
  /\ ~disc[s]
  /\ disc' = [disc EXCEPT ![s] = TRUE]
  /\ inq' = [inq EXCEPT ![s] = <<>>]
  /\ outq' = [outq EXCEPT ![s] = <<>>]
  /\ peer' = IF peer = "Paired" THEN peer ELSE "NotPaired"
  /\ UNCHANGED <<stored, made, table, pairState, paired, cert, io, handlerVars, ipc, userVars, peerYes, ops>>

-----------------------------------------------------------------------------
(* The overlay and the pairing commands of the IPC thread.                 *)

\* GetDevices, as the overlay gets to see it.
CurrentView ==
  CASE table = NoSess /\ ~stored -> "gone"
    [] table = NoSess /\ stored -> "Paired"
    [] table # NoSess /\ paired[table] -> "Paired"
    [] table # NoSess /\ ~paired[table] ->
         CASE pairState[table] = "RequestedByPeer" -> "RequestedByPeer"
           [] pairState[table] = "Requested" -> "RequestedByMe"
           [] pairState[table] \in {"NotPaired", "Paired"} -> "None"

Refresh ==
  /\ ipc.pc = "idle"
  /\ view # CurrentView
  /\ view' = CurrentView
  /\ UNCHANGED <<stored, sessVars, wireVars, handlerVars, ipc, userYes, intent, peerVars, ops>>

\* The buttons DeviceGui offers for what it was opened with.
Offered(op) ==
  CASE op = "request" -> view = "None"
    [] op \in {"accept", "reject"} -> view = "RequestedByPeer"
    [] op = "unpair" -> view = "Paired"

\* Where the command goes after its checks; "idle" is a return.
FirstStep(op) ==
  CASE op = "unpair" /\ (table = NoSess \/ disc[table]) -> "off1"
    [] op = "unpair" /\ table # NoSess /\ ~disc[table] -> IF paired[table] THEN "send" ELSE "idle"
    [] op # "unpair" /\ table = NoSess -> "idle"
    [] op = "request" /\ table # NoSess -> IF paired[table] THEN "idle" ELSE "send"
    [] op = "accept" /\ table # NoSess -> IF cert[table] THEN "send" ELSE "idle"
    [] op = "reject" /\ table # NoSess -> "send"

\* The user presses a button; afterwards the overlay fetches the list anew.
IpcBegin(op) ==
  /\ ipc.pc = "idle"
  /\ Offered(op)
  /\ ops < MaxOps
  /\ ops' = ops + 1
  /\ ipc' = [pc |-> FirstStep(op), op |-> op, s |-> table]
  /\ intent' = IF op \in {"request", "accept"} THEN "yes" ELSE "no"
  /\ userYes' = (userYes \/ op \in {"request", "accept"})
  /\ view' = "gone"
  /\ UNCHANGED <<stored, sessVars, wireVars, handlerVars, peerVars>>

IpcGoto(l) == ipc' = [ipc EXCEPT !.pc = l]

\* request_pair stamps in seconds, accept_pair in milliseconds.
IpcPacket ==
  [pair |-> ipc.op \in {"request", "accept"},
   ts |-> IF ipc.op = "accept" THEN "ms" ELSE "ok"]

IpcSend ==
  /\ ipc.pc = "send"
  /\ IF CanSend THEN Send(IpcPacket) /\ IpcGoto("w1") ELSE IpcGoto("idle") /\ UNCHANGED outq
  /\ UNCHANGED <<stored, sessVars, inq, handlerVars, userVars, peerVars, ops>>

IpcWrite1 ==
  /\ ipc.pc = "w1"
  /\ pairState' = [pairState EXCEPT ![ipc.s] =
                     CASE ipc.op = "request" -> "Requested"
                       [] ipc.op = "accept" -> "Paired"
                       [] ipc.op \in {"reject", "unpair"} -> "NotPaired"]
  /\ IpcGoto(IF ipc.op = "request" THEN "idle" ELSE "w2")
  /\ UNCHANGED <<stored, made, table, paired, cert, disc, io, wireVars, handlerVars, userVars, peerVars, ops>>

IpcWrite2 ==
  /\ ipc.pc = "w2"
  /\ paired' = [paired EXCEPT ![ipc.s] = (ipc.op = "accept")]
  /\ IpcGoto("w3")
  /\ UNCHANGED <<stored, made, table, pairState, cert, disc, io, wireVars, handlerVars, userVars, peerVars, ops>>

\* Mutant: the record is neither saved nor removed.
IpcWrite3Nothing ==
  /\ ipc.pc = "w3"
  /\ IpcGoto("idle")
  /\ UNCHANGED <<stored, sessVars, wireVars, handlerVars, userVars, peerVars, ops>>

IpcWrite3 ==
  /\ ipc.pc = "w3"
  /\ stored' = (ipc.op = "accept")
  /\ IpcGoto("idle")
  /\ UNCHANGED <<sessVars, wireVars, handlerVars, userVars, peerVars, ops>>

\* Mutant: the record of an offline device stays.
IpcOffline1Keeps ==
  /\ ipc.pc = "off1"
  /\ IpcGoto(IF ipc.s = NoSess THEN "idle" ELSE "off2")
  /\ UNCHANGED <<stored, sessVars, wireVars, handlerVars, userVars, peerVars, ops>>

\* unpair of a device that is offline.
IpcOffline1 ==
  /\ ipc.pc = "off1"
  /\ stored' = FALSE
  /\ IpcGoto(IF ipc.s = NoSess THEN "idle" ELSE "off2")
  /\ UNCHANGED <<sessVars, wireVars, handlerVars, userVars, peerVars, ops>>

IpcOffline2 ==
  /\ ipc.pc = "off2"
  /\ pairState' = [pairState EXCEPT ![ipc.s] = "NotPaired"]
  /\ IpcGoto("off3")
  /\ UNCHANGED <<stored, made, table, paired, cert, disc, io, wireVars, handlerVars, userVars, peerVars, ops>>

IpcOffline3 ==
  /\ ipc.pc = "off3"
  /\ paired' = [paired EXCEPT ![ipc.s] = FALSE]
  /\ IpcGoto("idle")
  /\ UNCHANGED <<stored, made, table, pairState, cert, disc, io, wireVars, handlerVars, userVars, peerVars, ops>>

-----------------------------------------------------------------------------
(* The peer (external).                                                    *)

\* A peer discards a request whose timestamp is off; one that runs this
\* program discards an acceptance for that, too.
PeerTakes(p) == p.ts = "ok" \/ (~PeerIsNx /\ peer = "Requested")

PeerRecv(s) ==
  /\ s = Link
  /\ outq[s] # <<>>
  /\ LET p == Head(outq[s]) IN
       peer' = CASE ~p.pair -> "NotPaired"
                 [] p.pair /\ ~PeerTakes(p) -> peer
                 [] p.pair /\ PeerTakes(p) ->
                      CASE peer = "Requested" -> "Paired"
                        [] peer = "Paired" -> "Paired"
                        [] peer \in {"NotPaired", "RequestedByPeer"} -> "RequestedByPeer"
  /\ outq' = [outq EXCEPT ![s] = Tail(@)]
  /\ UNCHANGED <<stored, sessVars, inq, handlerVars, ipc, userVars, peerYes, ops>>

PeerSays(s, p) ==
  /\ s = Link
  /\ ops < MaxOps
  /\ ops' = ops + 1
  /\ Len(inq[s]) < MaxQueue
  /\ inq' = [inq EXCEPT ![s] = Append(@, p)]
  /\ UNCHANGED <<stored, sessVars, outq, handlerVars, ipc, userVars>>

PeerRequest(s) ==
  /\ peer = "NotPaired"
  /\ peer' = "Requested" /\ peerYes' = TRUE
  /\ \E ts \in PeerClock : PeerSays(s, [pair |-> TRUE, ts |-> ts])

PeerAccept(s) ==
  /\ peer = "RequestedByPeer"
  /\ peer' = "Paired" /\ peerYes' = TRUE
  /\ PeerSays(s, [pair |-> TRUE, ts |-> IF PeerIsNx THEN "ms" ELSE "ok"])

PeerRefuse(s) ==
  /\ peer # "NotPaired"
  /\ peer' = "NotPaired" /\ UNCHANGED peerYes
  /\ PeerSays(s, Unpair)

-----------------------------------------------------------------------------

\* A thread of ours starts on something new ...
Start ==
  \/ HsLoad \/ Refresh
  \/ \E op \in IpcOp : IpcBegin(op)
  \/ \E s \in Sess : IoRecv(s) \/ Disconnect(s)

\* ... or goes on with it ...
Continue ==
  \/ HsFail \/ HsStart \/ HsPublish \/ HsCheck \/ HsAnnounce
  \/ \E s \in Sess : IoPrompt(s) \/ IoWrite1(s) \/ IoWrite2(s) \/ IoWrite3(s)
  \/ IpcSend \/ IpcWrite1 \/ IpcWrite2 \/ IpcWrite3
  \/ IpcOffline1 \/ IpcOffline2 \/ IpcOffline3

\* ... or the peer does something.
PeerStep ==
  \E s \in Sess : PeerRecv(s) \/ PeerRequest(s) \/ PeerAccept(s) \/ PeerRefuse(s)

Next == Start \/ Continue \/ PeerStep

\* No thread of ours is in the middle of anything.
AllIdle ==
  /\ hs = "idle"
  /\ ipc.pc = "idle"
  /\ \A s \in Sess : io[s] = "idle"

\* Every interleaving of the threads.
Spec == Init /\ [][Next]_vars

\* The threads never overlap, packets do not cross, and the users act on what
\* is the case.
Quiet == AllIdle /\ \A s \in Sess : inq[s] = <<>> /\ outq[s] = <<>>

SerialNext ==
  \/ AllIdle /\ Start /\ (ipc'.pc # "idle" => Quiet /\ view = CurrentView)
  \/ Continue
  \/ PeerStep /\ (ops' # ops => Quiet)

SerialSpec == Init /\ [][SerialNext]_vars

-----------------------------------------------------------------------------

\* Nobody is paired, and no record is kept, unless both users once said yes:
\* ours by requesting or accepting, the peer's likewise.  Holds whatever the
\* threads do to each other.
MutualConsent ==
  /\ stored => userYes /\ peerYes
  /\ \A s \in Sess : paired[s] => userYes /\ peerYes

\* When no thread is busy, a connected device is paired iff its record is
\* stored: what the user is shown is what the next connection will find.
PairedIsStored ==
  AllIdle /\ Link # NoSess => (paired[Link] <=> stored)

\* A user who rejected or unpaired is not paired again until he asks for it,
\* although the device may reconnect and packets may cross.
UnpairSticks ==
  AllIdle /\ intent = "no" => ~stored /\ (Link # NoSess => ~paired[Link])

\* When the device is connected, nothing is on the way and nobody is asked,
\* the two sides agree on whether they are paired.
PairingAgrees ==
  /\ AllIdle
  /\ Link # NoSess
  /\ inq[Link] = <<>> /\ outq[Link] = <<>>
  /\ pairState[Link] # "RequestedByPeer" /\ peer # "RequestedByPeer"
  => (paired[Link] <=> peer = "Paired")

=============================================================================
