--------------------------- MODULE PairingProofs ----------------------------
(***************************************************************************)
(* Proof that nobody is paired without the consent of both users, however  *)
(* the io thread, the IPC thread and the connection handler interleave and *)
(* whatever packets are lost; and, for threads that take turns, that the   *)
(* record follows the session, that an unpairing lasts, and that the two   *)
(* sides come to agree.                                                    *)
(***************************************************************************)
EXTENDS Pairing, TLAPS

Consent == userYes /\ peerYes

\* Where the connection handler is, and what it has read.
HandlerInv ==
  /\ hs = "loaded" => made < MaxSess
  /\ hs \in {"publish", "check", "announce"} => made # NoSess
  /\ hsPaired => Consent

\* Every place that leads to a pairing carries the consent it takes: ours
\* where we have asked, the peer's where it has.
Evidence ==
  /\ \A s \in Sess :
       /\ pairState[s] = "Requested" => userYes
       /\ pairState[s] = "RequestedByPeer" => peerYes
       /\ io[s] \in {"pair1", "pair2", "pair3"} => Consent
       /\ io[s] = "prompt" => peerYes
       /\ \A i \in 1 .. Len(inq[s]) : inq[s][i].pair => peerYes
  /\ view = "RequestedByPeer" => peerYes

\* Where the IPC thread is with a command.
IpcInv ==
  /\ ipc.pc \in {"send", "w1", "w2", "w3"} /\ ipc.op = "request" => userYes
  /\ ipc.pc \in {"send", "w1", "w2", "w3"} /\ ipc.op = "accept" => Consent
  /\ ipc.pc \in {"send", "w1", "w2", "w3", "off2", "off3"} => ipc.s # NoSess

PInv == TypeOK /\ MutualConsent /\ HandlerInv /\ Evidence /\ IpcInv

-----------------------------------------------------------------------------

\* What is taken from the head of a queue leaves nothing new behind.
LEMMA TailElements ==
  ASSUME NEW S, NEW q \in Seq(S), q # <<>>
  PROVE  /\ Head(q) = q[1] /\ 1 \in 1 .. Len(q)
         /\ Tail(q) \in Seq(S)
         /\ \A i \in 1 .. Len(Tail(q)) : i + 1 \in 1 .. Len(q) /\ Tail(q)[i] = q[i + 1]
  OBVIOUS

\* What is appended to a queue is the only new element in it.
LEMMA AppendElements ==
  ASSUME NEW S, NEW q \in Seq(S), NEW e \in S
  PROVE  /\ Append(q, e) \in Seq(S)
         /\ \A i \in 1 .. Len(Append(q, e)) :
              Append(q, e)[i] = e \/ (i \in 1 .. Len(q) /\ Append(q, e)[i] = q[i])
  OBVIOUS

\* The program starts with strangers, or with a record both users agreed to.
LEMMA PInvInit == Init => PInv
  <1> SUFFICES ASSUME Init PROVE PInv
    OBVIOUS
  <1> USE PairingAssumption DEF Init, NoSess
  <1>1. TypeOK
    <2>1. cert \in [Sess -> BOOLEAN] /\ stored \in BOOLEAN /\ userYes \in BOOLEAN /\ peerYes \in BOOLEAN
      OBVIOUS
    <2>2. <<>> \in Seq(Packet)
      OBVIOUS
    <2>3. outq \in [Sess -> Seq(Packet)] /\ inq \in [Sess -> Seq(Packet)]
      BY <2>2
    <2>4. /\ pairState \in [Sess -> PairState] /\ io \in [Sess -> IoPc]
          /\ ipc \in [pc : IpcPc, op : IpcOp, s : 0 .. MaxSess]
          /\ peer \in PairState
      BY DEF PairState, IoPc, IpcPc, IpcOp, NoIpc
    <2>5. /\ made \in 0 .. MaxSess /\ table \in 0 .. MaxSess /\ ops \in Nat
          /\ view = "gone" /\ hs = "idle" /\ intent = "any" /\ hsPaired = FALSE
      OBVIOUS
    <2>6. paired \in [Sess -> BOOLEAN] /\ disc \in [Sess -> BOOLEAN]
      OBVIOUS
    <2> HIDE DEF Init
    <2> QED
      BY <2>1, <2>3, <2>4, <2>5, <2>6 DEF TypeOK
  <1>2. MutualConsent /\ HandlerInv /\ Evidence /\ IpcInv
    BY DEF MutualConsent, HandlerInv, Evidence, IpcInv, Consent, NoIpc
  <1> QED
    BY <1>1, <1>2 DEF PInv

-----------------------------------------------------------------------------
(* Types.                                                                  *)

\* handle_new_connection keeps the types.
LEMMA TypeHandler ==
  ASSUME PInv, HsLoad \/ HsFail \/ HsStart \/ HsPublish \/ HsCheck \/ HsAnnounce
  PROVE  TypeOK'
  <1> USE DEF PInv, TypeOK, HandlerInv, sessVars, wireVars, userVars, peerVars, Sess, NoSess
  <1>1. CASE HsLoad \/ HsFail \/ HsPublish \/ HsCheck
    BY <1>1 DEF HsLoad, HsFail, HsPublish, HsCheck
  <1>2. CASE HsStart
    <2>1. <<>> \in Seq(Packet) /\ <<Unpair>> \in Seq(Packet)
      BY DEF Packet, Unpair, Stamp
    <2>2. made + 1 \in Sess
      BY <1>2, PairingAssumption DEF HsStart
    <2> QED
      BY <1>2, <2>1, <2>2 DEF HsStart, PairState
  <1>3. CASE HsAnnounce
    <2>1. ASSUME CanSend PROVE outq' \in [Sess -> Seq(Packet)]
      <3>1. Append(outq[table], Unpair) \in Seq(Packet)
        BY <2>1, AppendElements DEF CanSend, Packet, Unpair, Stamp
      <3> QED
        BY <1>3, <2>1, <3>1 DEF HsAnnounce, Send
    <2> QED
      BY <1>3, <2>1 DEF HsAnnounce
  <1> QED
    BY <1>1, <1>2, <1>3

\* handle_pair_packet and the end of a connection keep the types.
LEMMA TypeIo ==
  ASSUME PInv, NEW s \in Sess,
         IoRecv(s) \/ IoPrompt(s) \/ IoWrite1(s) \/ IoWrite2(s) \/ IoWrite3(s) \/ Disconnect(s)
  PROVE  TypeOK'
  <1> USE DEF PInv, TypeOK, handlerVars, userVars, peerVars, IoPc
  <1>1. CASE IoRecv(s)
    <2>1. Verdict(s, Head(inq[s])) \in IoPc
      BY <1>1 DEF Verdict, IoRecv, PairState
    <2>2. Tail(inq[s]) \in Seq(Packet)
      BY <1>1, TailElements DEF IoRecv
    <2> QED
      BY <1>1, <2>1, <2>2 DEF IoRecv, IoGoto
  <1>2. CASE IoPrompt(s)
    BY <1>2 DEF IoPrompt, IoGoto, wireVars, PairState
  <1>3. CASE IoWrite1(s)
    BY <1>3 DEF IoWrite1, IoGoto, wireVars, PairState
  <1>4. CASE IoWrite2(s)
    BY <1>4 DEF IoWrite2, IoGoto, wireVars
  <1>5. CASE IoWrite3(s)
    BY <1>5 DEF IoWrite3, IoGoto, wireVars
  <1>6. CASE Disconnect(s)
    BY <1>6 DEF Disconnect, PairState
  <1> QED
    BY <1>1, <1>2, <1>3, <1>4, <1>5, <1>6

\* The overlay and the pairing commands keep the types.
LEMMA TypeIpc ==
  ASSUME PInv,
         \/ Refresh \/ \E op \in IpcOp : IpcBegin(op)
         \/ IpcSend \/ IpcWrite1 \/ IpcWrite2 \/ IpcWrite3
         \/ IpcOffline1 \/ IpcOffline2 \/ IpcOffline3
  PROVE  TypeOK'
  <1> USE DEF PInv, TypeOK, handlerVars, userVars, peerVars, wireVars, IpcPc, IpcGoto
  <1>1. CASE Refresh
    <2>1. CurrentView \in {"gone", "None", "RequestedByMe", "RequestedByPeer", "Paired"}
      BY DEF CurrentView, PairState, Sess, NoSess
    <2> QED
      BY <1>1, <2>1 DEF Refresh, sessVars
  <1>2. ASSUME NEW op \in IpcOp, IpcBegin(op) PROVE TypeOK'
    <2>1. FirstStep(op) \in IpcPc
      BY DEF FirstStep, IpcOp
    <2> QED
      BY <1>2, <2>1 DEF IpcBegin, sessVars
  <1>3. CASE IpcSend
    <2>1. ASSUME CanSend PROVE outq' \in [Sess -> Seq(Packet)]
      <3>1. IpcPacket \in Packet
        BY DEF IpcPacket, Packet, Stamp
      <3>2. Append(outq[table], IpcPacket) \in Seq(Packet)
        BY <2>1, <3>1, AppendElements DEF CanSend, Sess, NoSess
      <3> QED
        BY <1>3, <2>1, <3>2 DEF IpcSend, Send
    <2>2. outq' \in [Sess -> Seq(Packet)] /\ ipc' \in [pc : IpcPc, op : IpcOp, s : 0 .. MaxSess]
      BY <1>3, <2>1 DEF IpcSend
    <2> QED
      BY <1>3, <2>2 DEF IpcSend, sessVars
  <1>4. ASSUME NEW l \in IpcPc, IpcGoto(l)
        PROVE  ipc' \in [pc : IpcPc, op : IpcOp, s : 0 .. MaxSess]
    BY <1>4
  <1>5. CASE IpcWrite1
    <2>1. pairState' \in [Sess -> PairState]
      BY <1>5 DEF IpcWrite1, IpcOp, PairState
    <2> QED
      BY <1>4, <1>5, <2>1 DEF IpcWrite1
  <1>6. CASE IpcWrite2
    BY <1>4, <1>6 DEF IpcWrite2
  <1>7. CASE IpcWrite3
    BY <1>4, <1>7 DEF IpcWrite3, sessVars
  <1>8. CASE IpcOffline1
    <2>1. ipc' \in [pc : IpcPc, op : IpcOp, s : 0 .. MaxSess]
      BY <1>4, <1>8 DEF IpcOffline1
    <2> QED
      BY <1>8, <2>1 DEF IpcOffline1, sessVars
  <1>9. CASE IpcOffline2
    <2>1. pairState' \in [Sess -> PairState]
      BY <1>9 DEF IpcOffline2, PairState
    <2> QED
      BY <1>4, <1>9, <2>1 DEF IpcOffline2
  <1>10. CASE IpcOffline3
    BY <1>4, <1>10 DEF IpcOffline3
  <1> QED
    BY <1>1, <1>2, <1>3, <1>5, <1>6, <1>7, <1>8, <1>9, <1>10

\* The peer keeps the types.
LEMMA TypePeer ==
  ASSUME PInv, PeerStep
  PROVE  TypeOK'
  <1> USE DEF PInv, TypeOK, handlerVars, userVars, sessVars
  <1>1. ASSUME NEW s \in Sess, PeerRecv(s) PROVE TypeOK'
    <2>1. Tail(outq[s]) \in Seq(Packet)
      BY <1>1, TailElements DEF PeerRecv
    <2>2. peer' \in PairState
      BY <1>1 DEF PeerRecv, PairState
    <2> QED
      BY <1>1, <2>1, <2>2 DEF PeerRecv
  <1>2. ASSUME NEW s \in Sess, NEW p \in Packet, PeerSays(s, p), peer' \in PairState, peerYes' \in BOOLEAN
        PROVE  TypeOK'
    <2>1. Append(inq[s], p) \in Seq(Packet)
      BY AppendElements
    <2> QED
      BY <1>2, <2>1 DEF PeerSays
  <1>3. ASSUME NEW s \in Sess, PeerRequest(s) \/ PeerAccept(s) \/ PeerRefuse(s) PROVE TypeOK'
    BY <1>2, <1>3, PairingAssumption DEF PeerRequest, PeerAccept, PeerRefuse, Packet, Stamp, Unpair, PairState
  <1> QED
    BY <1>1, <1>3 DEF PeerStep

\* Every step keeps the types.
LEMMA TypeStep ==
  ASSUME PInv, [Next]_vars
  PROVE  TypeOK'
  <1>1. CASE UNCHANGED vars
    BY <1>1 DEF PInv, TypeOK, vars, sessVars, wireVars, handlerVars, userVars, peerVars
  <1> QED
    BY <1>1, TypeHandler, TypeIo, TypeIpc, TypePeer DEF Next, Start, Continue

-----------------------------------------------------------------------------
(* Consent.                                                                *)

ConsentInv == MutualConsent /\ HandlerInv /\ Evidence /\ IpcInv

\* handle_new_connection marks a session paired only from a record, which
\* both users agreed to.
LEMMA ConsentHandler ==
  ASSUME PInv, HsLoad \/ HsFail \/ HsStart \/ HsPublish \/ HsCheck \/ HsAnnounce
  PROVE  ConsentInv'
  <1> USE PairingAssumption
      DEF PInv, TypeOK, ConsentInv, MutualConsent, HandlerInv, Evidence, IpcInv, Consent,
          sessVars, wireVars, userVars, peerVars, NoSess
  <1>1. CASE HsLoad
    BY <1>1 DEF HsLoad
  <1>2. CASE HsFail
    BY <1>2 DEF HsFail
  <1>3. CASE HsStart
    <2>1. ASSUME NEW i \in 1 .. Len(<<Unpair>>) PROVE ~<<Unpair>>[i].pair
      BY DEF Unpair
    <2>2. ASSUME NEW s \in Sess, NEW i \in 1 .. Len(inq'[s]), inq'[s][i].pair PROVE peerYes
      BY <1>3, <2>1, <2>2 DEF HsStart
    <2>3. /\ \A s \in Sess : pairState'[s] \in {pairState[s], "Paired", "NotPaired"}
          /\ \A s \in Sess : paired'[s] => paired[s] \/ hsPaired
      BY <1>3 DEF HsStart
    <2>4. HandlerInv'
      BY <1>3 DEF HsStart, Sess
    <2> QED
      BY <1>3, <2>2, <2>3, <2>4 DEF HsStart
  <1>4. CASE HsPublish
    BY <1>4 DEF HsPublish
  <1>5. CASE HsCheck
    BY <1>5 DEF HsCheck
  <1>6. CASE HsAnnounce
    BY <1>6 DEF HsAnnounce
  <1> QED
    BY <1>1, <1>2, <1>3, <1>4, <1>5, <1>6

\* handle_pair_packet pairs only after our user's request and on the peer's
\* packet, and prompts only on a packet the peer's user caused.
LEMMA ConsentIo ==
  ASSUME PInv, NEW s \in Sess,
         IoRecv(s) \/ IoPrompt(s) \/ IoWrite1(s) \/ IoWrite2(s) \/ IoWrite3(s) \/ Disconnect(s)
  PROVE  ConsentInv'
  <1> USE DEF PInv, TypeOK, ConsentInv, MutualConsent, HandlerInv, Evidence, IpcInv, Consent,
              IoGoto, handlerVars, wireVars, userVars, peerVars
  <1>1. CASE IoRecv(s)
    <2>1. ASSUME Head(inq[s]).pair PROVE peerYes
      BY <1>1, <2>1, TailElements DEF IoRecv
    <2>2. /\ Verdict(s, Head(inq[s])) = "prompt" => Head(inq[s]).pair
          /\ Verdict(s, Head(inq[s])) \in {"pair1", "pair2", "pair3"} =>
               Head(inq[s]).pair /\ pairState[s] = "Requested"
      BY <1>1, TailElements DEF IoRecv, Verdict, Packet, Stamp
    <2>3. ASSUME NEW t \in Sess, NEW i \in 1 .. Len(inq'[t]), inq'[t][i].pair PROVE peerYes
      BY <1>1, <2>3, TailElements DEF IoRecv
    <2> QED
      BY <1>1, <2>1, <2>2, <2>3 DEF IoRecv
  <1>2. CASE IoPrompt(s)
    BY <1>2 DEF IoPrompt
  <1>3. CASE IoWrite1(s)
    BY <1>3 DEF IoWrite1
  <1>4. CASE IoWrite2(s)
    BY <1>4 DEF IoWrite2
  <1>5. CASE IoWrite3(s)
    BY <1>5 DEF IoWrite3
  <1>6. CASE Disconnect(s)
    <2>1. ASSUME NEW t \in Sess, NEW i \in 1 .. Len(inq'[t]), inq'[t][i].pair PROVE peerYes
      BY <1>6, <2>1 DEF Disconnect
    <2> QED
      BY <1>6, <2>1 DEF Disconnect
  <1> QED
    BY <1>1, <1>2, <1>3, <1>4, <1>5, <1>6

\* accept_pair runs only when the overlay has shown the peer's request;
\* request_pair records our user's consent.
LEMMA ConsentIpc ==
  ASSUME PInv,
         \/ Refresh \/ \E op \in IpcOp : IpcBegin(op)
         \/ IpcSend \/ IpcWrite1 \/ IpcWrite2 \/ IpcWrite3
         \/ IpcOffline1 \/ IpcOffline2 \/ IpcOffline3
  PROVE  ConsentInv'
  <1> USE DEF PInv, TypeOK, ConsentInv, MutualConsent, HandlerInv, Evidence, IpcInv, Consent,
              IpcGoto, handlerVars, peerVars, NoSess
  <1>1. CASE Refresh
    <2>1. CurrentView = "RequestedByPeer" => peerYes
      BY DEF CurrentView, PairState, Sess
    <2> QED
      BY <1>1, <2>1 DEF Refresh, sessVars, wireVars
  <1>2. ASSUME NEW op \in IpcOp, IpcBegin(op) PROVE ConsentInv'
    <2>1. FirstStep(op) \in {"send", "w1", "w2", "w3", "off2", "off3"} => table # NoSess
      BY DEF FirstStep, IpcOp
    <2>2. op = "accept" => peerYes
      BY <1>2 DEF IpcBegin, Offered
    <2> QED
      BY <1>2, <2>1, <2>2 DEF IpcBegin, sessVars, wireVars
  <1>3. CASE IpcSend
    BY <1>3 DEF IpcSend, sessVars, userVars
  <1>4. CASE IpcWrite1
    BY <1>4 DEF IpcWrite1, wireVars, userVars, IpcOp, Sess
  <1>5. CASE IpcWrite2
    BY <1>5 DEF IpcWrite2, wireVars, userVars
  <1>6. CASE IpcWrite3
    BY <1>6 DEF IpcWrite3, sessVars, wireVars, userVars
  <1>7. CASE IpcOffline1
    BY <1>7 DEF IpcOffline1, sessVars, wireVars, userVars
  <1>8. CASE IpcOffline2
    BY <1>8 DEF IpcOffline2, wireVars, userVars
  <1>9. CASE IpcOffline3
    BY <1>9 DEF IpcOffline3, wireVars, userVars
  <1> QED
    BY <1>1, <1>2, <1>3, <1>4, <1>5, <1>6, <1>7, <1>8, <1>9

\* The peer sends a pair packet only when its user wants to pair.
LEMMA ConsentPeer ==
  ASSUME PInv, PeerStep
  PROVE  ConsentInv'
  <1> USE DEF PInv, TypeOK, ConsentInv, MutualConsent, HandlerInv, Evidence, IpcInv, Consent,
              handlerVars, sessVars, userVars
  <1>1. ASSUME NEW s \in Sess, PeerRecv(s) PROVE ConsentInv'
    BY <1>1 DEF PeerRecv
  <1>2. ASSUME NEW s \in Sess, NEW p \in Packet, PeerSays(s, p),
               peerYes => peerYes', p.pair => peerYes'
        PROVE  ConsentInv'
    <2>1. ASSUME NEW t \in Sess, NEW i \in 1 .. Len(inq'[t]), inq'[t][i].pair PROVE peerYes'
      BY <1>2, <2>1, AppendElements DEF PeerSays
    <2> QED
      BY <1>2, <2>1 DEF PeerSays
  <1>3. ASSUME NEW s \in Sess, PeerRequest(s) PROVE ConsentInv'
    BY <1>2, <1>3, PairingAssumption DEF PeerRequest, Packet
  <1>4. ASSUME NEW s \in Sess, PeerAccept(s) PROVE ConsentInv'
    BY <1>2, <1>4, PairingAssumption DEF PeerAccept, Packet, Stamp
  <1>5. ASSUME NEW s \in Sess, PeerRefuse(s) PROVE ConsentInv'
    BY <1>2, <1>5 DEF PeerRefuse, Packet, Stamp, Unpair
  <1> QED
    BY <1>1, <1>3, <1>4, <1>5 DEF PeerStep

\* The inductive step: every step of a thread or of the peer keeps PInv.
LEMMA PInvStep == PInv /\ [Next]_vars => PInv'
  <1> SUFFICES ASSUME PInv, [Next]_vars PROVE PInv'
    OBVIOUS
  <1>1. TypeOK'
    BY TypeStep
  <1>2. ConsentInv'
    <2>1. CASE UNCHANGED vars
      BY <2>1 DEF PInv, ConsentInv, MutualConsent, HandlerInv, Evidence, IpcInv, Consent,
                  vars, sessVars, wireVars, handlerVars, userVars, peerVars
    <2> QED
      BY <2>1, ConsentHandler, ConsentIo, ConsentIpc, ConsentPeer DEF Next, Start, Continue
  <1> QED
    BY <1>1, <1>2 DEF PInv, ConsentInv

\* PInv holds throughout, in every interleaving.
THEOREM PairingInductive == Spec => []PInv
  BY PInvInit, PInvStep, PTL DEF Spec

\* The variables keep their types: no handler makes more sessions than there
\* are, and the IPC thread writes only to sessions that exist.
THEOREM PairingTypeCorrect == Spec => []TypeOK
  <1>1. PInv => TypeOK
    BY DEF PInv
  <1> QED
    BY <1>1, PairingInductive, PTL

\* No session is paired and no record is stored without the consent of both
\* users, for every interleaving of the three threads.
THEOREM MutualConsentTheorem == Spec => []MutualConsent
  <1>1. PInv => MutualConsent
    BY DEF PInv
  <1> QED
    BY <1>1, PairingInductive, PTL

-----------------------------------------------------------------------------
(* The threads take turns (SerialSpec).                                    *)

\* While the handler is at work no other thread is, an io thread at work is
\* alone and serves the connection that is up, and the IPC thread is at work
\* on the newest session.
OneThread ==
  /\ hs # "idle" => ipc.pc = "idle" /\ \A s \in Sess : io[s] = "idle"
  /\ ipc.pc # "idle" => \A s \in Sess : io[s] = "idle"
  /\ \A s \in Sess : io[s] # "idle" => s = Link
  /\ \A s \in Sess : (s < made => disc[s]) /\ (s > made => ~disc[s])
  /\ table = IF hs = "publish" THEN made - 1 ELSE made
  /\ hs = "loaded" => Link = NoSess
  /\ hs \in {"publish", "check", "announce"} => Link # NoSess
  /\ ipc.pc # "idle" => ipc.s = made /\ view = "gone"
  /\ ipc.pc \in {"off1", "off2", "off3"} => Link = NoSess /\ ipc.op = "unpair"
  /\ made = NoSess => view \in {"gone", "Paired"}

\* No thread is at work when the program starts.
LEMMA OneThreadInit == Init => OneThread
  BY PairingAssumption DEF Init, OneThread, Link, NoSess, NoIpc

\* The connection handler runs alone, on the session it made.
LEMMA OneThreadHandler ==
  ASSUME PInv, OneThread,
         (AllIdle /\ HsLoad) \/ HsFail \/ HsStart \/ HsPublish \/ HsCheck \/ HsAnnounce
  PROVE  OneThread'
  <1> USE DEF PInv, TypeOK, HandlerInv, OneThread, Link, sessVars, wireVars, userVars, peerVars, Sess, NoSess
  <1>1. CASE AllIdle /\ HsLoad
    BY <1>1 DEF HsLoad, AllIdle
  <1>2. CASE HsFail
    BY <1>2 DEF HsFail
  <1>3. CASE HsStart
    <2>1. made + 1 \in Sess /\ made' = made + 1 /\ disc' = disc /\ ~disc[made + 1]
      BY <1>3, PairingAssumption DEF HsStart
    <2>2. Link' = made + 1
      BY <2>1
    <2> QED
      BY <1>3, <2>1, <2>2 DEF HsStart
  <1>4. CASE HsPublish
    BY <1>4 DEF HsPublish
  <1>5. CASE HsCheck
    BY <1>5 DEF HsCheck
  <1>6. CASE HsAnnounce
    BY <1>6 DEF HsAnnounce
  <1> QED
    BY <1>1, <1>2, <1>3, <1>4, <1>5, <1>6

\* So does an io thread, on the session that is connected.
LEMMA OneThreadIo ==
  ASSUME PInv, OneThread, NEW s \in Sess,
         \/ AllIdle /\ (IoRecv(s) \/ Disconnect(s))
         \/ IoPrompt(s) \/ IoWrite1(s) \/ IoWrite2(s) \/ IoWrite3(s)
  PROVE  OneThread'
  <1> USE DEF PInv, TypeOK, OneThread, Link, handlerVars, wireVars, userVars, peerVars, Sess, NoSess, IoGoto
  <1>1. CASE AllIdle /\ IoRecv(s)
    BY <1>1 DEF IoRecv, AllIdle
  <1>2. CASE AllIdle /\ Disconnect(s)
    BY <1>2 DEF Disconnect, AllIdle
  <1>3. CASE IoPrompt(s)
    BY <1>3 DEF IoPrompt
  <1>4. CASE IoWrite1(s)
    BY <1>4 DEF IoWrite1
  <1>5. CASE IoWrite2(s)
    BY <1>5 DEF IoWrite2
  <1>6. CASE IoWrite3(s)
    BY <1>6 DEF IoWrite3
  <1> QED
    BY <1>1, <1>2, <1>3, <1>4, <1>5, <1>6

\* So does the IPC thread, on the newest session or on no connection.
LEMMA OneThreadIpc ==
  ASSUME PInv, OneThread,
         \/ AllIdle /\ (Refresh \/ \E op \in IpcOp : IpcBegin(op))
         \/ IpcSend \/ IpcWrite1 \/ IpcWrite2 \/ IpcWrite3
         \/ IpcOffline1 \/ IpcOffline2 \/ IpcOffline3
  PROVE  OneThread'
  <1> USE DEF PInv, TypeOK, IpcInv, OneThread, Link, handlerVars, wireVars, sessVars, userVars, peerVars, Sess, NoSess, IpcGoto
  <1>1. CASE AllIdle /\ Refresh
    BY <1>1 DEF Refresh, AllIdle, CurrentView
  <1>2. ASSUME AllIdle, NEW op \in IpcOp, IpcBegin(op) PROVE OneThread'
    <2>1. FirstStep(op) \in {"off1", "off2", "off3"} => Link = NoSess /\ op = "unpair"
      BY <1>2 DEF FirstStep, IpcOp, AllIdle
    <2> QED
      BY <1>2, <2>1 DEF IpcBegin, AllIdle
  <1>3. CASE IpcSend
    BY <1>3 DEF IpcSend
  <1>4. CASE IpcWrite1
    BY <1>4 DEF IpcWrite1
  <1>5. CASE IpcWrite2
    BY <1>5 DEF IpcWrite2
  <1>8. CASE IpcWrite3
    BY <1>8 DEF IpcWrite3
  <1>6. CASE IpcOffline1
    BY <1>6 DEF IpcOffline1
  <1>7. CASE IpcOffline2
    BY <1>7 DEF IpcOffline2
  <1>9. CASE IpcOffline3
    BY <1>9 DEF IpcOffline3
  <1> QED
    BY <1>1, <1>2, <1>3, <1>4, <1>5, <1>6, <1>7, <1>8, <1>9

\* The peer moves none of our threads.
LEMMA OneThreadPeer ==
  ASSUME PInv, OneThread, PeerStep
  PROVE  OneThread'
  BY DEF OneThread, Link, PeerStep, PeerRecv, PeerRequest, PeerAccept, PeerRefuse, PeerSays, sessVars, handlerVars, userVars

\* The record follows the newest session: they differ only between the last
\* two writes of a pairing or an unpairing.
Recorded ==
  /\ hs = "loaded" => hsPaired = stored
  /\ made # NoSess =>
       /\ io[made] = "pair3" => paired[made] = TRUE
       /\ io[made] = "un3" => paired[made] = FALSE
       /\ ipc.pc = "w3" => paired[made] = (ipc.op = "accept")
       /\ ipc.pc \in {"off2", "off3"} => stored = FALSE
       /\ io[made] \notin {"pair3", "un3"} /\ ipc.pc \notin {"w3", "off2", "off3"} => paired[made] = stored

\* Only our own request leaves a session in "Requested", and no session of a
\* paired device is.
Asked ==
  /\ made # NoSess /\ pairState[made] = "Requested" => paired[made] = FALSE /\ view # "Paired"
  /\ made # NoSess /\ io[made] \in {"pair2", "pair3"} => pairState[made] # "Requested"
  /\ ipc.pc \in {"send", "w1"} /\ ipc.op = "request" => paired[made] = FALSE
  /\ ipc.pc \in {"w2", "w3"} => ipc.op # "request" /\ pairState[made] # "Requested"

\* Where the IPC thread is with an unpairing or a refusal, and what is settled
\* when it is done.
NotWanted ==
  intent = "no" =>
    /\ ipc.pc = "idle" => stored = FALSE
    /\ ipc.pc = "idle" /\ made # NoSess =>
         pairState[made] # "Requested" /\ io[made] \notin {"pair1", "pair2", "pair3"}
    /\ ipc.pc # "idle" => ipc.op \in {"reject", "unpair"}
    /\ ipc.pc = "send" /\ ipc.op = "unpair" => CanSend
    /\ ipc.pc = "send" /\ ipc.op = "reject" => stored = FALSE /\ pairState[made] # "Requested"
    /\ ipc.pc \in {"off2", "off3"} => stored = FALSE
    /\ ipc.pc = "off3" => pairState[made] # "Requested"

\* What holds throughout when the threads take turns.
SerialInv == PInv /\ OneThread /\ Recorded /\ Asked /\ NotWanted

\* No session has been made, and no user has said no.
LEMMA StoredInit == Init => Recorded /\ Asked /\ NotWanted
  BY PairingAssumption DEF Init, Recorded, Asked, NotWanted, NoSess, NoIpc

\* handle_new_connection makes a session of what is stored.
LEMMA StoredHandler ==
  ASSUME SerialInv,
         (AllIdle /\ HsLoad) \/ HsFail \/ HsStart \/ HsPublish \/ HsCheck \/ HsAnnounce
  PROVE  Recorded' /\ Asked' /\ NotWanted'
  <1> USE DEF SerialInv, PInv, TypeOK, HandlerInv, OneThread, Recorded, Asked, NotWanted, CanSend,
              Link, sessVars, wireVars, userVars, peerVars, Sess, NoSess
  <1>1. CASE AllIdle /\ HsLoad
    BY <1>1 DEF HsLoad, AllIdle
  <1>2. CASE HsFail
    BY <1>2 DEF HsFail
  <1>3. CASE HsStart
    <2>1. made + 1 \in Sess /\ made' = made + 1 /\ ipc' = ipc /\ io' = io
      BY <1>3, PairingAssumption DEF HsStart
    <2>2. ipc.pc = "idle" /\ io[made + 1] = "idle" /\ hsPaired = stored /\ stored' = stored /\ intent' = intent
      BY <1>3, <2>1 DEF HsStart
    <2>3. paired'[made + 1] = stored
      BY <1>3, <2>1, <2>2 DEF HsStart
    <2>4. pairState'[made + 1] # "Requested"
      BY <1>3, <2>1, <2>2 DEF HsStart
    <2>5. hs' = "publish"
      BY <1>3 DEF HsStart
    <2> QED
      BY <2>1, <2>2, <2>3, <2>4, <2>5
  <1>4. CASE HsPublish
    BY <1>4 DEF HsPublish
  <1>5. CASE HsCheck
    BY <1>5 DEF HsCheck
  <1>6. CASE HsAnnounce
    BY <1>6 DEF HsAnnounce
  <1> QED
    BY <1>1, <1>2, <1>3, <1>4, <1>5, <1>6

\* handle_pair_packet follows our request, or ends a pairing.
LEMMA StoredIo ==
  ASSUME SerialInv, NEW s \in Sess,
         \/ AllIdle /\ (IoRecv(s) \/ Disconnect(s))
         \/ IoPrompt(s) \/ IoWrite1(s) \/ IoWrite2(s) \/ IoWrite3(s)
  PROVE  Recorded' /\ Asked' /\ NotWanted'
  <1> USE DEF SerialInv, PInv, TypeOK, OneThread, Recorded, Asked, NotWanted, CanSend,
              Link, handlerVars, wireVars, userVars, peerVars, Sess, NoSess, IoGoto
  <1>1. CASE AllIdle /\ IoRecv(s)
    <2>1. Verdict(s, Head(inq[s])) \in {"un1", "idle", "prompt", "pair1"}
      BY DEF Verdict, PairState
    <2>2. Verdict(s, Head(inq[s])) = "pair1" => pairState[s] = "Requested"
      BY DEF Verdict, PairState
    <2> QED
      BY <1>1, <2>1, <2>2 DEF IoRecv, AllIdle
  <1>2. CASE AllIdle /\ Disconnect(s)
    BY <1>2 DEF Disconnect, AllIdle
  <1>3. CASE IoPrompt(s)
    BY <1>3 DEF IoPrompt
  <1>4. CASE IoWrite1(s)
    BY <1>4 DEF IoWrite1
  <1>5. CASE IoWrite2(s)
    <2>1. s = made /\ made # NoSess
      BY <1>5 DEF IoWrite2
    <2>2. paired'[made] = (io[made] = "pair2") /\ io'[made] = IF io[made] = "pair2" THEN "pair3" ELSE "un3"
      BY <1>5, <2>1 DEF IoWrite2
    <2>3. Recorded'
      BY <1>5, <2>1, <2>2 DEF IoWrite2
    <2>4. Asked'
      BY <1>5, <2>1, <2>2 DEF IoWrite2
    <2>5. NotWanted'
      BY <1>5, <2>1, <2>2 DEF IoWrite2
    <2> QED
      BY <2>3, <2>4, <2>5
  <1>6. CASE IoWrite3(s)
    BY <1>6 DEF IoWrite3
  <1> QED
    BY <1>1, <1>2, <1>3, <1>4, <1>5, <1>6

\* The overlay's commands, given for what is the case.
LEMMA StoredIpc ==
  ASSUME SerialInv,
         \/ AllIdle /\ (Refresh \/ \E op \in IpcOp : IpcBegin(op) /\ (ipc'.pc # "idle" => view = CurrentView))
         \/ IpcSend \/ IpcWrite1 \/ IpcWrite2 \/ IpcWrite3
         \/ IpcOffline1 \/ IpcOffline2 \/ IpcOffline3
  PROVE  Recorded' /\ Asked' /\ NotWanted'
  <1> USE DEF SerialInv, PInv, TypeOK, IpcInv, OneThread, Recorded, Asked, NotWanted, CanSend,
              Link, handlerVars, wireVars, sessVars, userVars, peerVars, Sess, NoSess, IpcGoto
  <1>1. CASE AllIdle /\ Refresh
    BY <1>1 DEF Refresh, AllIdle, CurrentView
  <1>2. ASSUME AllIdle, NEW op \in IpcOp, IpcBegin(op), ipc'.pc # "idle" => view = CurrentView
        PROVE Recorded' /\ Asked' /\ NotWanted'
    <2>1. FirstStep(op) \in {"send", "off1", "idle"}
      BY <1>2 DEF FirstStep, IpcOp, AllIdle
    <2>2. /\ stored' = stored /\ pairState' = pairState /\ paired' = paired /\ io' = io /\ hs' = hs
          /\ made' = made /\ table' = table /\ disc' = disc /\ view' = "gone" /\ hsPaired' = hsPaired
          /\ ipc' = [pc |-> FirstStep(op), op |-> op, s |-> table]
          /\ intent' = IF op \in {"request", "accept"} THEN "yes" ELSE "no"
          /\ table = made /\ ipc.pc = "idle" /\ hs = "idle" /\ \A s \in Sess : io[s] = "idle"
      BY <1>2 DEF IpcBegin, AllIdle
    <2>3. Recorded'
      BY <2>1, <2>2
    <2>4. Asked'
      BY <2>1, <2>2 DEF FirstStep, IpcOp
    <2>5. op \in {"request", "accept", "reject", "unpair"} /\ Offered(op)
      BY <1>2 DEF IpcBegin, IpcOp
    <2>6. CASE op \in {"request", "accept"}
      <3>1. intent' = "yes"
        BY <2>2, <2>6
      <3> QED
        BY <2>3, <2>4, <3>1
    <2>7. CASE op = "unpair" /\ FirstStep(op) = "send"
      BY <2>2, <2>7 DEF FirstStep
    <2>8. CASE op = "unpair" /\ FirstStep(op) = "off1"
      BY <2>2, <2>8
    <2>9. CASE op = "unpair" /\ FirstStep(op) = "idle"
      <3>1. made # NoSess /\ paired[made] = FALSE /\ view = "Paired"
        BY <2>2, <2>5, <2>9 DEF FirstStep, Offered
      <3>2. stored = FALSE /\ pairState[made] # "Requested"
        BY <2>2, <3>1
      <3> QED
        BY <2>2, <2>9, <3>2
    <2>10. CASE op = "reject"
      <3>1. made # NoSess /\ view = "RequestedByPeer"
        BY <2>5, <2>10 DEF Offered
      <3>2. FirstStep(op) = "send"
        BY <2>2, <2>10, <3>1 DEF FirstStep
      <3>3. view = CurrentView
        BY <1>2, <2>2, <3>2
      <3>4. paired[made] = FALSE /\ pairState[made] = "RequestedByPeer"
        BY <2>2, <3>1, <3>3 DEF CurrentView, PairState
      <3>5. stored = FALSE
        BY <2>2, <3>1, <3>4
      <3>6. ipc'.pc = "send" /\ ipc'.op = "reject" /\ stored' = FALSE /\ pairState'[made'] = "RequestedByPeer"
        BY <2>2, <2>10, <3>2, <3>4, <3>5
      <3> QED
        BY <2>3, <2>4, <3>6
    <2>11. NotWanted'
      BY <2>1, <2>3, <2>4, <2>5, <2>6, <2>7, <2>8, <2>9, <2>10
    <2> QED
      BY <2>3, <2>4, <2>11
  <1>3. CASE IpcSend
    BY <1>3 DEF IpcSend
  <1>4. CASE IpcWrite1
    <2>1. made # NoSess /\ made \in Sess
      BY <1>4 DEF IpcWrite1
    <2>2. pairState'[made] = CASE ipc.op = "request" -> "Requested"
                               [] ipc.op = "accept" -> "Paired"
                               [] ipc.op \in {"reject", "unpair"} -> "NotPaired"
      BY <1>4, <2>1 DEF IpcWrite1
    <2>3. ipc' = [ipc EXCEPT !.pc = IF ipc.op = "request" THEN "idle" ELSE "w2"] /\ ipc.op \in IpcOp
      BY <1>4 DEF IpcWrite1
    <2>4. Recorded'
      BY <1>4, <2>1, <2>3 DEF IpcWrite1
    <2>5. Asked'
      BY <1>4, <2>1, <2>2, <2>3 DEF IpcWrite1, IpcOp
    <2>6. NotWanted'
      BY <1>4, <2>1, <2>2, <2>3 DEF IpcWrite1, IpcOp
    <2> QED
      BY <2>4, <2>5, <2>6
  <1>5. CASE IpcWrite2
    BY <1>5 DEF IpcWrite2
  <1>6. CASE IpcWrite3
    BY <1>6 DEF IpcWrite3
  <1>7. CASE IpcOffline1
    BY <1>7 DEF IpcOffline1
  <1>8. CASE IpcOffline2
    BY <1>8 DEF IpcOffline2
  <1>9. CASE IpcOffline3
    <2>1. made # NoSess /\ made \in Sess /\ ipc.s = made
      BY <1>9 DEF IpcOffline3
    <2>2. paired'[made] = FALSE /\ stored = FALSE
      BY <1>9, <2>1 DEF IpcOffline3
    <2>3. Recorded'
      BY <1>9, <2>1, <2>2 DEF IpcOffline3
    <2>4. Asked'
      BY <1>9, <2>1, <2>2 DEF IpcOffline3
    <2>5. NotWanted'
      BY <1>9, <2>1, <2>2 DEF IpcOffline3
    <2> QED
      BY <2>3, <2>4, <2>5
  <1> QED
    BY <1>1, <1>2, <1>3, <1>4, <1>5, <1>6, <1>7, <1>8, <1>9

\* The peer writes neither record nor session.
LEMMA StoredPeer ==
  ASSUME SerialInv, PeerStep
  PROVE  Recorded' /\ Asked' /\ NotWanted'
  BY DEF SerialInv, Recorded, Asked, NotWanted, CanSend, PeerStep, PeerRecv, PeerRequest, PeerAccept, PeerRefuse, PeerSays,
         sessVars, handlerVars, userVars

\* The serial invariant holds when the program starts.
LEMMA SerialInvInit == Init => SerialInv
  BY PInvInit, OneThreadInit, StoredInit DEF SerialInv

\* Every step of the serial specification is one of the specification.
LEMMA SerialIsNext == SerialNext => Next
  BY DEF SerialNext, Next

\* Every step of the serial specification keeps it.
LEMMA SerialInvStep == SerialInv /\ [SerialNext]_vars => SerialInv'
  <1> SUFFICES ASSUME SerialInv, [SerialNext]_vars PROVE SerialInv'
    OBVIOUS
  <1>1. PInv'
    BY SerialIsNext, PInvStep DEF SerialInv
  <1>2. CASE UNCHANGED vars
    <2>1. OneThread' /\ Recorded' /\ Asked' /\ NotWanted'
      BY <1>2 DEF SerialInv, OneThread, Recorded, Asked, NotWanted, Link, CanSend,
                  vars, sessVars, wireVars, handlerVars, userVars, peerVars
    <2> QED
      BY <1>1, <2>1 DEF SerialInv
  <1>3. CASE AllIdle /\ Start /\ (ipc'.pc # "idle" => Quiet /\ view = CurrentView)
    BY <1>1, <1>3, OneThreadHandler, OneThreadIo, OneThreadIpc, StoredHandler, StoredIo, StoredIpc
       DEF SerialInv, Start
  <1>4. CASE Continue
    BY <1>1, <1>4, OneThreadHandler, OneThreadIo, OneThreadIpc, StoredHandler, StoredIo, StoredIpc
       DEF SerialInv, Continue
  <1>5. CASE PeerStep
    BY <1>1, <1>5, OneThreadPeer, StoredPeer DEF SerialInv
  <1> QED
    BY <1>2, <1>3, <1>4, <1>5 DEF SerialNext

\* The serial invariant holds throughout.
THEOREM SerialInductive == SerialSpec => []SerialInv
  BY SerialInvInit, SerialInvStep, PTL DEF SerialSpec

\* When no thread is busy, a connected device is paired iff its record is
\* stored, however many sessions it had and whatever the peer sends.
THEOREM PairedIsStoredTheorem == SerialSpec => []PairedIsStored
  <1>1. SerialInv => PairedIsStored
    BY DEF SerialInv, PInv, TypeOK, Recorded, PairedIsStored, AllIdle, Link, Sess, NoSess
  <1> QED
    BY <1>1, SerialInductive, PTL

\* Who rejected or unpaired a device does not find it paired again, whatever
\* the peer sends and however often it reconnects, until he asks for it.
THEOREM UnpairSticksTheorem == SerialSpec => []UnpairSticks
  <1>1. SerialInv => UnpairSticks
    BY DEF SerialInv, PInv, TypeOK, Recorded, NotWanted, UnpairSticks, AllIdle, Link, Sess, NoSess
  <1> QED
    BY <1>1, SerialInductive, PTL

-----------------------------------------------------------------------------
(* The two sides.                                                          *)

\* The peer does not run this program, its clock is right, and it presents a
\* certificate.
Compatible == PeerIsNx = FALSE /\ PeerClock = {"ok"} /\ Certs = {TRUE}

\* The packets of request_pair and of accept_pair.
Request == [pair |-> TRUE, ts |-> "ok"]
Acceptance == [pair |-> TRUE, ts |-> "ms"]

\* What is on the way, what the session holds, and the peer's side of it.
At(i, o, ps, p, q) ==
  /\ inq[made] = i /\ outq[made] = o
  /\ pairState[made] = ps /\ paired[made] = p /\ peer = q

\* The handler has made the session and not told the peer about it.
Fresh ==
  \/ \E ps \in {"NotPaired", "Paired"} : At(<<>>, <<>>, ps, ps = "Paired", "Paired")
  \/ \E ps \in {"NotPaired", "Paired"} : At(<<Unpair>>, <<>>, ps, ps = "Paired", "NotPaired")

\* No thread is at work: the sides agree, or one packet on the way or one user
\* will settle it.
AtRest ==
  \/ At(<<>>, <<>>, "NotPaired", FALSE, "NotPaired")
  \/ At(<<>>, <<>>, "Requested", FALSE, "RequestedByPeer")
  \/ At(<<>>, <<>>, "RequestedByPeer", FALSE, "Requested")
  \/ At(<<>>, <<>>, "Paired", TRUE, "Paired")
  \/ At(<<>>, <<Request>>, "Requested", FALSE, "NotPaired")
  \/ At(<<>>, <<Acceptance>>, "Paired", TRUE, "Requested")
  \/ \E q \in PairState : At(<<>>, <<Unpair>>, "NotPaired", FALSE, q)
  \/ At(<<Request>>, <<>>, "NotPaired", FALSE, "Requested")
  \/ At(<<Request>>, <<>>, "Requested", FALSE, "Paired")
  \/ \E ps \in PairState, p \in BOOLEAN : At(<<Unpair>>, <<>>, ps, p, "NotPaired")
  \/ At(<<Unpair>>, <<Unpair>>, "NotPaired", FALSE, "NotPaired")

\* An io thread is at work on the packet of the peer it has taken.
Reading ==
  /\ io[made] = "prompt" => At(<<>>, <<>>, "NotPaired", FALSE, "Requested")
  /\ io[made] = "pair1" => At(<<>>, <<>>, "Requested", FALSE, "Paired")
  /\ io[made] = "pair2" => At(<<>>, <<>>, "Paired", FALSE, "Paired")
  /\ io[made] = "pair3" => At(<<>>, <<>>, "Paired", TRUE, "Paired")
  /\ io[made] \in {"un1", "un2", "un3"} =>
       \E o \in {<<>>, <<Unpair>>}, ps \in PairState, p \in BOOLEAN :
         /\ At(<<>>, o, ps, p, "NotPaired")
         /\ o # <<>> \/ io[made] # "un1" => ps = "NotPaired"
         /\ o # <<>> \/ io[made] = "un3" => p = FALSE

\* The packet is on the way, or the peer has read it.
Delivered(pkt, ps, p, q, qq) ==
  At(<<>>, <<pkt>>, ps, p, q) \/ At(<<>>, <<>>, ps, p, qq)

\* The IPC thread is at work on a command.
Commanding ==
  /\ ipc.pc = "send" =>
       CASE ipc.op = "request" -> At(<<>>, <<>>, "NotPaired", FALSE, "NotPaired")
         [] ipc.op \in {"accept", "reject"} -> At(<<>>, <<>>, "RequestedByPeer", FALSE, "Requested")
         [] ipc.op = "unpair" -> At(<<>>, <<>>, "Paired", TRUE, "Paired")
  /\ ipc.pc \in {"w1", "w2", "w3"} =>
       CASE ipc.op = "request" ->
              ipc.pc = "w1" /\ Delivered(Request, "NotPaired", FALSE, "NotPaired", "RequestedByPeer")
         [] ipc.op = "accept" ->
              Delivered(Acceptance, IF ipc.pc = "w1" THEN "RequestedByPeer" ELSE "Paired", ipc.pc = "w3", "Requested", "Paired")
         [] ipc.op \in {"reject", "unpair"} ->
              \E ps \in PairState, p \in BOOLEAN, q \in PairState :
                /\ Delivered(Unpair, ps, p, q, "NotPaired")
                /\ ipc.pc # "w1" => ps = "NotPaired"
                /\ ipc.pc = "w3" => p = FALSE

\* Where the two sides are with each other, at every step of every thread.
Agreeing ==
  /\ \A s \in Sess : cert[s] = TRUE
  /\ \A s \in Sess : s # Link => inq[s] = <<>> /\ outq[s] = <<>>
  /\ Link = NoSess => peer \in {"NotPaired", "Paired"}
  /\ Link # NoSess =>
       /\ hs \in {"publish", "check", "announce"} => Fresh
       /\ hs = "announce" => paired[made] = FALSE
       /\ AllIdle => AtRest
       /\ Reading
       /\ Commanding

\* The serial invariant and where the two sides are.
AgreeInv == SerialInv /\ Agreeing

\* A queue of one packet.
LEMMA OnePacket ==
  ASSUME NEW p
  PROVE  /\ <<p>> # <<>>
         /\ Head(<<p>>) = p /\ Tail(<<p>>) = <<>>
         /\ Append(<<>>, p) = <<p>>
  OBVIOUS

\* What the packets say.
LEMMA ThreePackets ==
  /\ Request.pair = TRUE /\ Request.ts = "ok"
  /\ Acceptance.pair = TRUE /\ Acceptance.ts = "ms"
  /\ Unpair.pair = FALSE
  BY DEF Request, Acceptance, Unpair

\* The two sides start apart, and agree.
LEMMA AgreeInit ==
  ASSUME Compatible, Init PROVE Agreeing
  BY PairingAssumption DEF Compatible, Init, Agreeing, Link, NoSess, Sess

\* A new connection: the side that is not paired says so.
LEMMA AgreeHandler ==
  ASSUME AgreeInv,
         (AllIdle /\ HsLoad) \/ HsFail \/ HsStart \/ HsPublish \/ HsCheck \/ HsAnnounce
  PROVE  Agreeing'
  <1> USE DEF AgreeInv, SerialInv, PInv, OneThread, NoSess, Sess
  <1>0. /\ made \in 0 .. MaxSess /\ peer \in PairState /\ ipc.pc \in IpcPc
        /\ disc \in [Sess -> BOOLEAN] /\ paired \in [Sess -> BOOLEAN] /\ io \in [Sess -> IoPc]
        /\ inq \in [Sess -> Seq(Packet)] /\ outq \in [Sess -> Seq(Packet)]
    BY DEF TypeOK
  <1>1. CASE AllIdle /\ HsLoad
    <2>1. Link = NoSess /\ Link' = NoSess
      BY <1>1 DEF HsLoad, AllIdle, Link, sessVars
    <2> QED
      BY <1>1, <2>1 DEF HsLoad, Agreeing, sessVars, wireVars, peerVars
  <1>2. CASE HsFail
    <2>1. Link = NoSess /\ Link' = NoSess
      BY <1>2 DEF HsFail, Link, sessVars
    <2> QED
      BY <1>2, <2>1 DEF HsFail, Agreeing, sessVars, wireVars, peerVars
  <1>3. CASE HsStart
    <2>1. made + 1 \in Sess /\ made' = made + 1 /\ Link = NoSess /\ Link' = made + 1 /\ hs' = "publish"
      BY <1>0, <1>3, PairingAssumption DEF HsStart, HandlerInv, Link
    <2>2. /\ ipc' = ipc /\ io' = io /\ peer' = peer /\ outq' = outq /\ cert' = cert
          /\ ipc.pc = "idle" /\ io[made + 1] = "idle"
      BY <1>3, <2>1 DEF HsStart, peerVars
    <2>3. peer \in {"NotPaired", "Paired"} /\ outq[made + 1] = <<>>
      BY <2>1 DEF Agreeing
    <2>4. /\ paired'[made + 1] = hsPaired /\ hsPaired \in BOOLEAN
          /\ pairState'[made + 1] = IF hsPaired THEN "Paired" ELSE "NotPaired"
          /\ inq'[made + 1] = IF peer = "Paired" THEN <<>> ELSE <<Unpair>>
          /\ \A s \in Sess : s # made + 1 => inq'[s] = inq[s]
      BY <1>0, <1>3, <2>1 DEF HsStart, TypeOK
    <2>5. Fresh'
      BY <2>1, <2>2, <2>3, <2>4 DEF Fresh, At
    <2>6. Reading' /\ Commanding' /\ ~AllIdle'
      BY <2>1, <2>2 DEF Reading, Commanding, AllIdle
    <2>7. \A s \in Sess : s # Link' => inq'[s] = <<>> /\ outq'[s] = <<>>
      BY <2>1, <2>2, <2>4 DEF Agreeing
    <2> QED
      BY <2>1, <2>2, <2>5, <2>6, <2>7 DEF Agreeing
  <1>4. CASE HsPublish
    <2>1. Link' = Link /\ hs = "publish" /\ hs' = "check"
      BY <1>4 DEF HsPublish, Link
    <2> QED
      BY <1>4, <2>1 DEF HsPublish, Agreeing, Fresh, At, Reading, Commanding, AllIdle, wireVars, peerVars
  <1>5. CASE HsCheck
    <2>1. Link' = Link /\ Link = made /\ made \in Sess /\ UNCHANGED <<made, pairState, paired, inq, outq, peer, cert, io, ipc>>
      BY <1>0, <1>5 DEF HsCheck, Link, sessVars, wireVars, peerVars
    <2>2. Fresh /\ ipc.pc = "idle" /\ io[made] = "idle"
      BY <1>5, <2>1 DEF HsCheck, Agreeing
    <2>3. CASE paired[made]
      <3>1. AtRest'
        BY <2>1, <2>2, <2>3 DEF Fresh, AtRest, At, PairState
      <3> QED
        BY <1>5, <2>1, <2>2, <2>3, <3>1 DEF HsCheck, Agreeing, Reading, Commanding
    <2>4. CASE paired[made] = FALSE
      <3>1. hs' = "announce" /\ Fresh'
        BY <1>5, <2>1, <2>2, <2>4 DEF HsCheck, Fresh, At
      <3> QED
        BY <1>5, <2>1, <2>2, <2>4, <3>1 DEF HsCheck, Agreeing, Reading, Commanding, AllIdle
    <2> QED
      BY <1>0, <2>1, <2>3, <2>4
  <1>6. CASE HsAnnounce
    <2>1. Link' = Link /\ Link = made /\ made \in Sess /\ UNCHANGED <<made, pairState, paired, inq, peer, cert, io, ipc>>
      BY <1>0, <1>6 DEF HsAnnounce, Link, sessVars, peerVars
    <2>2. Fresh /\ ipc.pc = "idle" /\ io[made] = "idle" /\ paired[made] = FALSE
      BY <1>6, <2>1 DEF HsAnnounce, Agreeing
    <2>3. table = made /\ CanSend
      BY <1>6, <2>1 DEF HsAnnounce, CanSend, Link
    <2>4. outq[made] = <<>>
      BY <2>2 DEF Fresh, At
    <2>5. outq'[made] = <<Unpair>> /\ \A s \in Sess : s # made => outq'[s] = outq[s]
      <3>1. outq' = [outq EXCEPT ![made] = Append(outq[made], Unpair)]
        BY <1>6, <2>3 DEF HsAnnounce, Send
      <3>2. Append(outq[made], Unpair) = <<Unpair>>
        BY <2>4, OnePacket
      <3> QED
        BY <1>0, <2>1, <3>1, <3>2
    <2>6. AtRest'
      BY <1>0, <2>1, <2>2, <2>5 DEF Fresh, AtRest, At
    <2> QED
      BY <1>6, <2>1, <2>2, <2>5, <2>6 DEF HsAnnounce, Agreeing, Reading, Commanding
  <1> QED
    BY <1>1, <1>2, <1>3, <1>4, <1>5, <1>6

\* A packet of the peer is read, or the connection breaks.
LEMMA AgreeIo ==
  ASSUME AgreeInv, NEW s \in Sess,
         \/ AllIdle /\ (IoRecv(s) \/ Disconnect(s))
         \/ IoPrompt(s) \/ IoWrite1(s) \/ IoWrite2(s) \/ IoWrite3(s)
  PROVE  Agreeing'
  <1> USE DEF AgreeInv, SerialInv, PInv, OneThread, NoSess, Sess, IoGoto
  <1>0. /\ made \in 0 .. MaxSess /\ peer \in PairState /\ pairState \in [Sess -> PairState]
        /\ disc \in [Sess -> BOOLEAN] /\ paired \in [Sess -> BOOLEAN] /\ io \in [Sess -> IoPc]
        /\ inq \in [Sess -> Seq(Packet)] /\ outq \in [Sess -> Seq(Packet)]
    BY DEF TypeOK
  <1>1. CASE AllIdle /\ IoRecv(s)
    <2>1. s = made /\ Link = made /\ Link' = made' /\ made # NoSess
      BY <1>0, <1>1 DEF IoRecv, Link
    <2>2. AtRest /\ cert[made] = TRUE
      BY <1>1, <2>1 DEF Agreeing
    <2>3. /\ UNCHANGED <<made, pairState, paired, outq, peer, cert, hs, ipc>>
          /\ inq' = [inq EXCEPT ![made] = Tail(inq[made])]
          /\ io' = [io EXCEPT ![made] = Verdict(made, Head(inq[made]))]
          /\ inq[made] # <<>> /\ hs = "idle" /\ ipc.pc = "idle"
      BY <1>1, <2>1 DEF IoRecv, AllIdle, handlerVars, peerVars
    <2>4. ASSUME At(<<Request>>, <<>>, "NotPaired", FALSE, "Requested")
          PROVE  Reading' /\ io'[made] # "idle"
      <3>1. io'[made] = "prompt"
        BY <1>0, <2>1, <2>3, <2>4, OnePacket, ThreePackets DEF At, Verdict
      <3>2. At(<<>>, <<>>, "NotPaired", FALSE, "Requested")'
        BY <1>0, <2>1, <2>3, <2>4, OnePacket DEF At
      <3> QED
        BY <2>1, <2>3, <3>1, <3>2 DEF Reading
    <2>5. ASSUME At(<<Request>>, <<>>, "Requested", FALSE, "Paired")
          PROVE  Reading' /\ io'[made] # "idle"
      <3>1. io'[made] = "pair1"
        BY <1>0, <2>1, <2>2, <2>3, <2>5, OnePacket, ThreePackets DEF At, Verdict
      <3>2. At(<<>>, <<>>, "Requested", FALSE, "Paired")'
        BY <1>0, <2>1, <2>3, <2>5, OnePacket DEF At
      <3> QED
        BY <2>1, <2>3, <3>1, <3>2 DEF Reading
    <2>6. ASSUME NEW ps \in PairState, NEW p \in BOOLEAN, NEW o \in {<<>>, <<Unpair>>},
                 At(<<Unpair>>, o, ps, p, "NotPaired"),
                 o # <<>> => ps = "NotPaired" /\ p = FALSE
          PROVE  Reading' /\ io'[made] # "idle"
      <3>1. io'[made] = "un1"
        BY <1>0, <2>1, <2>3, <2>6, OnePacket, ThreePackets DEF At, Verdict
      <3>2. At(<<>>, o, ps, p, "NotPaired")'
        BY <1>0, <2>1, <2>3, <2>6, OnePacket DEF At
      <3> QED
        BY <2>1, <2>3, <2>6, <3>1, <3>2 DEF Reading
    <2>7. ASSUME \E ps \in PairState, p \in BOOLEAN : At(<<Unpair>>, <<>>, ps, p, "NotPaired")
          PROVE  Reading' /\ io'[made] # "idle"
      BY <2>6, <2>7
    <2>8. ASSUME At(<<Unpair>>, <<Unpair>>, "NotPaired", FALSE, "NotPaired")
          PROVE  Reading' /\ io'[made] # "idle"
      BY <2>6, <2>8 DEF PairState
    <2>9. Reading' /\ io'[made] # "idle"
      BY <2>2, <2>3, <2>4, <2>5, <2>7, <2>8 DEF AtRest, At
    <2>10. ~AllIdle'
      BY <1>0, <2>1, <2>9 DEF AllIdle
    <2>11. \A t \in Sess : t # made => inq'[t] = inq[t]
      BY <1>0, <2>3
    <2> QED
      BY <1>0, <2>1, <2>3, <2>9, <2>10, <2>11 DEF Agreeing, Commanding
  <1>2. CASE AllIdle /\ Disconnect(s)
    <2>1. s = made /\ Link = made /\ made' = made /\ Link' = NoSess
      BY <1>0, <1>2 DEF Disconnect, Link
    <2>2. peer' \in {"NotPaired", "Paired"} /\ cert' = cert
      BY <1>2 DEF Disconnect
    <2>3. \A t \in Sess : inq'[t] = <<>> /\ outq'[t] = <<>>
      BY <1>0, <1>2, <2>1 DEF Disconnect, Agreeing
    <2> QED
      BY <2>1, <2>2, <2>3 DEF Agreeing
  <1>3. ASSUME io[s] # "idle", UNCHANGED <<made, disc, inq, outq, peer, cert, hs, ipc>>
        PROVE  /\ s = made /\ Link = made /\ Link' = made' /\ made # NoSess
               /\ hs = "idle" /\ ipc.pc = "idle" /\ Reading /\ Commanding'
               /\ \A t \in Sess : io[t] # "idle" => t = made
    <2>1. s = Link /\ s # NoSess /\ Link' = Link
      BY <1>3 DEF Link
    <2>2. Link = made
      BY <2>1 DEF Link
    <2>3. hs = "idle" /\ ipc.pc = "idle"
      BY <1>3
    <2> QED
      BY <1>0, <1>3, <2>1, <2>2, <2>3 DEF Agreeing, Commanding
  <1>4. CASE IoPrompt(s)
    <2>1. UNCHANGED <<made, disc, inq, outq, peer, cert, hs, ipc, paired>>
      BY <1>4 DEF IoPrompt, wireVars, handlerVars, peerVars
    <2>2. pairState'[made] = "RequestedByPeer" /\ io'[made] = "idle"
      BY <1>0, <1>3, <1>4, <2>1 DEF IoPrompt
    <2>3. AtRest' /\ Reading'
      BY <1>3, <1>4, <2>1, <2>2 DEF IoPrompt, Reading, AtRest, At
    <2> QED
      BY <1>3, <1>4, <2>1, <2>3 DEF IoPrompt, Agreeing
  <1>5. CASE IoWrite1(s)
    <2>1. UNCHANGED <<made, disc, inq, outq, peer, cert, hs, ipc, paired>>
      BY <1>5 DEF IoWrite1, wireVars, handlerVars, peerVars
    <2>2. /\ pairState'[made] = IF io[made] = "pair1" THEN "Paired" ELSE "NotPaired"
          /\ io'[made] = IF io[made] = "pair1" THEN "pair2" ELSE "un2"
      BY <1>0, <1>3, <1>5, <2>1 DEF IoWrite1
    <2>3. ASSUME io[made] = "pair1" PROVE Reading'
      <3>1. At(<<>>, <<>>, "Paired", FALSE, "Paired")'
        BY <1>3, <1>5, <2>1, <2>2, <2>3 DEF IoWrite1, Reading, At
      <3> QED
        BY <2>1, <2>2, <2>3, <3>1 DEF Reading
    <2>4. ASSUME io[made] = "un1" PROVE Reading'
      <3>1. PICK o \in {<<>>, <<Unpair>>}, ps \in PairState, p \in BOOLEAN :
              At(<<>>, o, ps, p, "NotPaired") /\ (o # <<>> => p = FALSE)
        BY <1>3, <1>5, <2>1, <2>4 DEF IoWrite1, Reading
      <3>2. At(<<>>, o, "NotPaired", p, "NotPaired")'
        BY <2>1, <2>2, <2>4, <3>1 DEF At
      <3> QED
        BY <2>1, <2>2, <2>4, <3>1, <3>2 DEF Reading, PairState
    <2>5. Reading' /\ ~AllIdle'
      BY <1>3, <1>5, <2>1, <2>2, <2>3, <2>4 DEF IoWrite1, AllIdle
    <2> QED
      BY <1>3, <1>5, <2>1, <2>5 DEF IoWrite1, Agreeing
  <1>6. CASE IoWrite2(s)
    <2>1. UNCHANGED <<made, disc, inq, outq, peer, cert, hs, ipc, pairState>>
      BY <1>6 DEF IoWrite2, wireVars, handlerVars, peerVars
    <2>2. /\ paired'[made] = (io[made] = "pair2")
          /\ io'[made] = IF io[made] = "pair2" THEN "pair3" ELSE "un3"
      BY <1>0, <1>3, <1>6, <2>1 DEF IoWrite2
    <2>3. ASSUME io[made] = "pair2" PROVE Reading'
      <3>1. At(<<>>, <<>>, "Paired", TRUE, "Paired")'
        BY <1>3, <1>6, <2>1, <2>2, <2>3 DEF IoWrite2, Reading, At
      <3> QED
        BY <2>1, <2>2, <2>3, <3>1 DEF Reading
    <2>4. ASSUME io[made] = "un2" PROVE Reading'
      <3>1. PICK o \in {<<>>, <<Unpair>>}, ps \in PairState, p \in BOOLEAN :
              At(<<>>, o, ps, p, "NotPaired") /\ ps = "NotPaired"
        BY <1>3, <1>6, <2>1, <2>4 DEF IoWrite2, Reading
      <3>2. At(<<>>, o, "NotPaired", FALSE, "NotPaired")'
        BY <2>1, <2>2, <2>4, <3>1 DEF At
      <3> QED
        BY <2>1, <2>2, <2>4, <3>1, <3>2 DEF Reading
    <2>5. Reading' /\ ~AllIdle'
      BY <1>3, <1>6, <2>1, <2>2, <2>3, <2>4 DEF IoWrite2, AllIdle
    <2> QED
      BY <1>3, <1>6, <2>1, <2>5 DEF IoWrite2, Agreeing
  <1>7. CASE IoWrite3(s)
    <2>1. UNCHANGED <<made, disc, inq, outq, peer, cert, hs, ipc, pairState, paired>>
      BY <1>7 DEF IoWrite3, wireVars, handlerVars, peerVars
    <2>2. io'[made] = "idle"
      BY <1>0, <1>3, <1>7, <2>1 DEF IoWrite3
    <2>3. Reading' /\ AtRest'
      BY <1>0, <1>3, <1>7, <2>1, <2>2 DEF IoWrite3, Reading, AtRest, At
    <2> QED
      BY <1>3, <1>7, <2>1, <2>3 DEF IoWrite3, Agreeing
  <1> QED
    BY <1>1, <1>2, <1>4, <1>5, <1>6, <1>7

\* The overlay's commands, sent before they are written down.
LEMMA AgreeIpc ==
  ASSUME AgreeInv,
         \/ AllIdle /\ Refresh
         \/ AllIdle /\ \E op \in IpcOp : IpcBegin(op) /\ (ipc'.pc # "idle" => Quiet /\ view = CurrentView)
         \/ IpcSend \/ IpcWrite1 \/ IpcWrite2 \/ IpcWrite3
         \/ IpcOffline1 \/ IpcOffline2 \/ IpcOffline3
  PROVE  Agreeing'
  <1> USE DEF AgreeInv, SerialInv, PInv, OneThread, NoSess, Sess
  <1>0. /\ made \in 0 .. MaxSess /\ table \in 0 .. MaxSess /\ peer \in PairState /\ pairState \in [Sess -> PairState]
        /\ disc \in [Sess -> BOOLEAN] /\ paired \in [Sess -> BOOLEAN] /\ io \in [Sess -> IoPc]
        /\ inq \in [Sess -> Seq(Packet)] /\ outq \in [Sess -> Seq(Packet)]
        /\ ipc \in [pc : IpcPc, op : IpcOp, s : 0 .. MaxSess]
    BY DEF TypeOK
  <1>1. CASE AllIdle /\ Refresh
    <2>1. UNCHANGED <<made, disc, inq, outq, peer, cert, hs, ipc, pairState, paired, io>>
      BY <1>1 DEF Refresh, sessVars, wireVars, handlerVars, peerVars
    <2> QED
      BY <1>1, <2>1 DEF Agreeing, AtRest, Reading, Commanding, Fresh, At, Delivered, Link, AllIdle
  <1>2. ASSUME AllIdle, NEW op \in IpcOp, IpcBegin(op), ipc'.pc # "idle" => Quiet /\ view = CurrentView
        PROVE  Agreeing'
    <2>1. /\ UNCHANGED <<made, disc, inq, outq, peer, cert, hs, pairState, paired, io, stored, table>>
          /\ ipc' = [pc |-> FirstStep(op), op |-> op, s |-> table]
          /\ Link' = Link
          /\ table = made /\ hs = "idle" /\ \A s \in Sess : io[s] = "idle"
      BY <1>2 DEF IpcBegin, sessVars, wireVars, handlerVars, peerVars, Link, AllIdle
    <2>2. FirstStep(op) \in {"send", "off1", "idle"}
      BY <2>1 DEF FirstStep, IpcOp
    <2>3. Link # NoSess => AtRest /\ Link = made
      BY <1>2 DEF Agreeing, Link
    <2>4. AtRest <=> AtRest'
      BY <2>1 DEF AtRest, At
    <2>5. ASSUME Link # NoSess, FirstStep(op) = "send" PROVE Commanding'
      <3>1. inq[made] = <<>> /\ outq[made] = <<>> /\ view = CurrentView /\ Offered(op)
        BY <1>0, <1>2, <2>1, <2>3, <2>5 DEF Quiet, IpcBegin
      <3>2. \/ At(<<>>, <<>>, "NotPaired", FALSE, "NotPaired")
            \/ At(<<>>, <<>>, "Requested", FALSE, "RequestedByPeer")
            \/ At(<<>>, <<>>, "RequestedByPeer", FALSE, "Requested")
            \/ At(<<>>, <<>>, "Paired", TRUE, "Paired")
        BY <2>3, <2>5, <3>1, OnePacket DEF AtRest, At
      <3>3. /\ paired[made] = TRUE => CurrentView = "Paired"
            /\ paired[made] = FALSE /\ pairState[made] = "NotPaired" => CurrentView = "None"
            /\ paired[made] = FALSE /\ pairState[made] = "Requested" => CurrentView = "RequestedByMe"
            /\ paired[made] = FALSE /\ pairState[made] = "RequestedByPeer" => CurrentView = "RequestedByPeer"
        <4>1. table = made /\ table # NoSess
          BY <2>1, <2>3, <2>5
        <4> QED
          BY <4>1 DEF CurrentView
      <3>4. CASE op = "request"
        <4>1. At(<<>>, <<>>, "NotPaired", FALSE, "NotPaired")'
          BY <2>1, <3>1, <3>2, <3>3, <3>4 DEF Offered, At
        <4> QED
          BY <2>1, <2>5, <3>4, <4>1 DEF Commanding
      <3>5. CASE op \in {"accept", "reject"}
        <4>1. At(<<>>, <<>>, "RequestedByPeer", FALSE, "Requested")'
          BY <2>1, <3>1, <3>2, <3>3, <3>5 DEF Offered, At
        <4> QED
          BY <2>1, <2>5, <3>5, <4>1 DEF Commanding
      <3>6. CASE op = "unpair"
        <4>1. At(<<>>, <<>>, "Paired", TRUE, "Paired")'
          BY <2>1, <3>1, <3>2, <3>3, <3>6 DEF Offered, At
        <4> QED
          BY <2>1, <2>5, <3>6, <4>1 DEF Commanding
      <3> QED
        BY <3>4, <3>5, <3>6 DEF IpcOp
    <2>6. Link # NoSess => Commanding'
      BY <2>1, <2>2, <2>5 DEF Commanding
    <2>7. ASSUME Link # NoSess PROVE Reading' /\ AtRest'
      <3>1. made' = made /\ io'[made] = "idle"
        BY <1>0, <2>1, <2>3, <2>7
      <3> QED
        BY <2>3, <2>4, <2>7, <3>1 DEF Reading
    <2> QED
      BY <2>1, <2>6, <2>7 DEF Agreeing
  <1>3. ASSUME ipc.pc # "idle", UNCHANGED <<made, disc, inq, peer, cert, hs, io>>, Link # NoSess
        PROVE  /\ Link = made /\ Link' = made' /\ made # NoSess /\ ipc.s = made /\ table = made
               /\ hs = "idle" /\ Commanding /\ Reading' /\ CanSend
               /\ \A s \in Sess : io[s] = "idle"
    <2>1. Link = made /\ Link' = made' /\ made' = made /\ made \in Sess /\ disc[made] = FALSE
      BY <1>0, <1>3 DEF Link
    <2>2. hs = "idle" /\ table = made /\ ipc.s = made /\ CanSend /\ \A s \in Sess : io[s] = "idle"
      BY <1>0, <1>3, <2>1 DEF CanSend
    <2>3. Commanding
      BY <1>3 DEF Agreeing
    <2>4. Reading'
      BY <1>3, <2>1, <2>2 DEF Reading
    <2> QED
      BY <1>3, <2>1, <2>2, <2>3, <2>4
  <1>4. CASE IpcSend
    <2>1. UNCHANGED <<made, disc, inq, peer, cert, hs, io, pairState, paired>> /\ ipc.pc = "send"
      BY <1>4 DEF IpcSend, sessVars, handlerVars, peerVars
    <2>2. CASE Link = NoSess
      <3>1. table = made /\ ~CanSend
        BY <2>1, <2>2 DEF CanSend, Link
      <3> QED
        BY <1>4, <2>1, <2>2, <3>1 DEF IpcSend, Agreeing, Link
    <2>3. CASE Link # NoSess
      <3>1. ipc' = [ipc EXCEPT !.pc = "w1"] /\ outq' = [outq EXCEPT ![made] = Append(outq[made], IpcPacket)]
        BY <1>3, <1>4, <2>1, <2>3 DEF IpcSend, IpcGoto, Send
      <3>2. ipc'.pc = "w1" /\ ipc'.op = ipc.op /\ ipc.op \in IpcOp
        BY <1>0, <3>1
      <3>3. \A s \in Sess : s # made => outq'[s] = outq[s]
        BY <1>0, <3>1
      <3>4. outq[made] = <<>>
        BY <1>3, <2>1, <2>3, <3>2 DEF Commanding, At, IpcOp
      <3>5. outq'[made] = <<IpcPacket>>
        BY <1>0, <1>3, <2>1, <2>3, <3>1, <3>4, OnePacket
      <3>6. CASE ipc.op = "request"
        <4>1. IpcPacket = Request
          BY <3>6 DEF IpcPacket, Request
        <4>2. At(<<>>, <<Request>>, "NotPaired", FALSE, "NotPaired")'
          BY <1>3, <2>1, <2>3, <3>5, <3>6, <4>1 DEF Commanding, At
        <4>3. Commanding'
          BY <3>2, <3>6, <4>2 DEF Commanding, Delivered
        <4> QED
          BY <1>3, <2>1, <2>3, <3>2, <3>3, <4>3 DEF Agreeing, AllIdle
      <3>7. CASE ipc.op = "accept"
        <4>1. IpcPacket = Acceptance
          BY <3>7 DEF IpcPacket, Acceptance
        <4>2. At(<<>>, <<Acceptance>>, "RequestedByPeer", FALSE, "Requested")'
          BY <1>3, <2>1, <2>3, <3>5, <3>7, <4>1 DEF Commanding, At
        <4>3. Commanding'
          BY <3>2, <3>7, <4>2 DEF Commanding, Delivered
        <4> QED
          BY <1>3, <2>1, <2>3, <3>2, <3>3, <4>3 DEF Agreeing, AllIdle
      <3>8. CASE ipc.op \in {"reject", "unpair"}
        <4>1. IpcPacket = Unpair
          <5>1. (ipc.op \in {"request", "accept"}) = FALSE /\ ipc.op # "accept"
            BY <3>8
          <5> QED
            BY <5>1 DEF IpcPacket, Unpair
        <4>2. \E ps \in PairState, p \in BOOLEAN, q \in PairState : At(<<>>, <<Unpair>>, ps, p, q)'
          BY <1>3, <2>1, <2>3, <3>5, <3>8, <4>1 DEF Commanding, At, PairState
        <4>3. Commanding'
          BY <3>2, <3>8, <4>2 DEF Commanding, Delivered
        <4> QED
          BY <1>3, <2>1, <2>3, <3>2, <3>3, <4>3 DEF Agreeing, AllIdle
      <3> QED
        BY <3>2, <3>6, <3>7, <3>8 DEF IpcOp
    <2> QED
      BY <2>2, <2>3
  <1>5. CASE Link = NoSess /\ UNCHANGED <<made, disc, inq, outq, peer, cert>>
    BY <1>5 DEF Agreeing, Link
  <1>6. CASE Link # NoSess /\ IpcWrite1
    <2>1. UNCHANGED <<made, disc, inq, outq, peer, cert, hs, io, paired>> /\ ipc.pc = "w1"
      BY <1>6 DEF IpcWrite1, wireVars, handlerVars, peerVars
    <2>2. pairState'[made] = CASE ipc.op = "request" -> "Requested"
                               [] ipc.op = "accept" -> "Paired"
                               [] ipc.op \in {"reject", "unpair"} -> "NotPaired"
      <3>1. made \in Sess /\ ipc.s = made
        BY <1>0, <1>3, <1>6, <2>1
      <3> QED
        BY <1>0, <1>6, <3>1 DEF IpcWrite1
    <2>3. ipc'.pc = (IF ipc.op = "request" THEN "idle" ELSE "w2") /\ ipc'.op = ipc.op /\ ipc.op \in IpcOp
      BY <1>0, <1>6 DEF IpcWrite1, IpcGoto
    <2>4. CASE ipc.op = "request"
      <3>1. AtRest'
        BY <1>3, <1>6, <2>1, <2>2, <2>4 DEF Commanding, Delivered, AtRest, At
      <3> QED
        BY <1>3, <1>6, <2>1, <2>3, <2>4, <3>1 DEF Agreeing, Commanding
    <2>5. CASE ipc.op = "accept"
      <3>1. Delivered(Acceptance, "Paired", FALSE, "Requested", "Paired")'
        BY <1>3, <1>6, <2>1, <2>2, <2>5 DEF Commanding, Delivered, At
      <3>2. Commanding' /\ ~AllIdle'
        BY <2>3, <2>5, <3>1 DEF Commanding, AllIdle, Delivered
      <3> QED
        BY <1>3, <1>6, <2>1, <3>2 DEF Agreeing
    <2>6. CASE ipc.op \in {"reject", "unpair"}
      <3>1. \E p \in BOOLEAN, q \in PairState : Delivered(Unpair, "NotPaired", p, q, "NotPaired")'
        BY <1>3, <1>6, <2>1, <2>2, <2>6 DEF Commanding, Delivered, At
      <3>2. Commanding' /\ ~AllIdle'
        BY <2>3, <2>6, <3>1 DEF Commanding, AllIdle, PairState
      <3> QED
        BY <1>3, <1>6, <2>1, <3>2 DEF Agreeing
    <2> QED
      BY <2>3, <2>4, <2>5, <2>6 DEF IpcOp
  <1>7. CASE Link # NoSess /\ IpcWrite2
    <2>1. UNCHANGED <<made, disc, inq, outq, peer, cert, hs, io, pairState>> /\ ipc.pc = "w2"
      BY <1>7 DEF IpcWrite2, wireVars, handlerVars, peerVars
    <2>2. paired'[made] = (ipc.op = "accept")
      BY <1>0, <1>3, <1>7, <2>1 DEF IpcWrite2
    <2>3. ipc'.pc = "w3" /\ ipc'.op = ipc.op /\ ipc.op \in IpcOp /\ ipc.op # "request"
      BY <1>0, <1>7 DEF IpcWrite2, IpcGoto, Asked
    <2>5. CASE ipc.op = "accept"
      <3>1. Delivered(Acceptance, "Paired", TRUE, "Requested", "Paired")'
        BY <1>3, <1>7, <2>1, <2>2, <2>5 DEF Commanding, Delivered, At
      <3>2. Commanding' /\ ~AllIdle'
        BY <2>3, <2>5, <3>1 DEF Commanding, AllIdle, Delivered
      <3> QED
        BY <1>3, <1>7, <2>1, <3>2 DEF Agreeing
    <2>6. CASE ipc.op \in {"reject", "unpair"}
      <3>1. \E q \in PairState : Delivered(Unpair, "NotPaired", FALSE, q, "NotPaired")'
        BY <1>3, <1>7, <2>1, <2>2, <2>6 DEF Commanding, Delivered, At
      <3>2. Commanding' /\ ~AllIdle'
        BY <2>3, <2>6, <3>1 DEF Commanding, AllIdle, PairState
      <3> QED
        BY <1>3, <1>7, <2>1, <3>2 DEF Agreeing
    <2> QED
      BY <2>3, <2>5, <2>6 DEF IpcOp
  <1>8. CASE Link # NoSess /\ IpcWrite3
    <2>1. UNCHANGED <<made, disc, inq, outq, peer, cert, hs, io, pairState, paired>> /\ ipc.pc = "w3"
      BY <1>8 DEF IpcWrite3, sessVars, wireVars, handlerVars, peerVars
    <2>2. ipc'.pc = "idle" /\ ipc.op \in IpcOp /\ ipc.op # "request"
      BY <1>0, <1>8 DEF IpcWrite3, IpcGoto, Asked
    <2>3. CASE ipc.op = "accept"
      BY <1>3, <1>8, <2>1, <2>2, <2>3 DEF Commanding, Delivered, At, AtRest, Agreeing
    <2>4. CASE ipc.op \in {"reject", "unpair"}
      <3>1. AtRest'
        BY <1>3, <1>8, <2>1, <2>2, <2>4 DEF Commanding, Delivered, At, AtRest
      <3> QED
        BY <1>3, <1>8, <2>1, <2>2, <3>1 DEF Agreeing, Commanding
    <2> QED
      BY <2>2, <2>3, <2>4 DEF IpcOp
  <1>9. CASE IpcOffline1 \/ IpcOffline2 \/ IpcOffline3
    <2>1. Link = NoSess /\ UNCHANGED <<made, disc, inq, outq, peer, cert>>
      BY <1>9 DEF IpcOffline1, IpcOffline2, IpcOffline3, sessVars, wireVars, peerVars
    <2> QED
      BY <1>5, <2>1
  <1>10. CASE Link = NoSess /\ (IpcWrite1 \/ IpcWrite2 \/ IpcWrite3)
    BY <1>5, <1>10 DEF IpcWrite1, IpcWrite2, IpcWrite3, sessVars, wireVars, peerVars
  <1> QED
    BY <1>1, <1>2, <1>4, <1>6, <1>7, <1>8, <1>9, <1>10

\* The peer reads a packet.
LEMMA AgreePeerRecv ==
  ASSUME Compatible, AgreeInv, NEW s \in Sess, PeerRecv(s)
  PROVE  Agreeing'
  <1> USE DEF AgreeInv, SerialInv, PInv, OneThread, NoSess, Sess
  <1>0. /\ made \in 0 .. MaxSess /\ peer \in PairState
        /\ io \in [Sess -> IoPc] /\ outq \in [Sess -> Seq(Packet)]
    BY DEF TypeOK
  <1>1. /\ s = made /\ Link = made /\ Link' = made /\ made \in Sess
        /\ UNCHANGED <<made, disc, inq, pairState, paired, cert, hs, io, ipc>>
        /\ outq[made] # <<>> /\ outq' = [outq EXCEPT ![made] = Tail(outq[made])]
    <2>1. s = Link /\ UNCHANGED <<sessVars, inq, handlerVars, ipc>>
          /\ outq[s] # <<>> /\ outq' = [outq EXCEPT ![s] = Tail(outq[s])]
      BY DEF PeerRecv
    <2>2. Link = made /\ Link' = Link /\ made \in Sess
      BY <1>0, <2>1 DEF Link, sessVars
    <2> QED
      BY <2>1, <2>2 DEF sessVars, handlerVars
  <1>2. ASSUME NEW i, NEW ps, NEW p, At(i, <<Request>>, ps, p, "NotPaired")
        PROVE  At(i, <<>>, ps, p, "RequestedByPeer")'
    <2>1. Head(outq[made]) = Request /\ Tail(outq[made]) = <<>>
      BY <1>2, OnePacket DEF At
    <2>2. peer' = "RequestedByPeer"
      BY <1>1, <1>2, <2>1, ThreePackets DEF PeerRecv, PeerTakes, At
    <2> QED
      BY <1>0, <1>1, <1>2, <2>1, <2>2 DEF At
  <1>3. ASSUME NEW i, NEW ps, NEW p, At(i, <<Acceptance>>, ps, p, "Requested")
        PROVE  At(i, <<>>, ps, p, "Paired")'
    <2>1. Head(outq[made]) = Acceptance /\ Tail(outq[made]) = <<>>
      BY <1>3, OnePacket DEF At
    <2>2. peer' = "Paired"
      BY <1>1, <1>3, <2>1, ThreePackets DEF PeerRecv, PeerTakes, At, Compatible
    <2> QED
      BY <1>0, <1>1, <1>3, <2>1, <2>2 DEF At
  <1>4. ASSUME NEW i, NEW ps, NEW p, NEW q, At(i, <<Unpair>>, ps, p, q)
        PROVE  At(i, <<>>, ps, p, "NotPaired")'
    <2>1. Head(outq[made]) = Unpair /\ Tail(outq[made]) = <<>>
      BY <1>4, OnePacket DEF At
    <2>2. peer' = "NotPaired"
      BY <1>1, <1>4, <2>1, ThreePackets DEF PeerRecv, At
    <2> QED
      BY <1>0, <1>1, <1>4, <2>1, <2>2 DEF At
  <1>5. hs = "idle"
    BY <1>1 DEF Agreeing, Fresh, At, TypeOK
  <1>6. ASSUME AllIdle PROVE AtRest'
    <2>1. AtRest
      BY <1>1, <1>6 DEF Agreeing
    <2>2. \/ At(<<>>, <<Request>>, "Requested", FALSE, "NotPaired")
          \/ At(<<>>, <<Acceptance>>, "Paired", TRUE, "Requested")
          \/ \E q \in PairState : At(<<>>, <<Unpair>>, "NotPaired", FALSE, q)
          \/ At(<<Unpair>>, <<Unpair>>, "NotPaired", FALSE, "NotPaired")
      BY <1>1, <2>1 DEF AtRest, At
    <2>3. CASE At(<<>>, <<Request>>, "Requested", FALSE, "NotPaired")
      BY <1>2, <2>3 DEF AtRest
    <2>4. CASE At(<<>>, <<Acceptance>>, "Paired", TRUE, "Requested")
      BY <1>3, <2>4 DEF AtRest
    <2>5. CASE \E q \in PairState : At(<<>>, <<Unpair>>, "NotPaired", FALSE, q)
      BY <1>4, <2>5 DEF AtRest
    <2>6. CASE At(<<Unpair>>, <<Unpair>>, "NotPaired", FALSE, "NotPaired")
      <3>1. At(<<Unpair>>, <<>>, "NotPaired", FALSE, "NotPaired")'
        BY <1>4, <2>6
      <3> QED
        BY <3>1 DEF AtRest, PairState
    <2> QED
      BY <2>2, <2>3, <2>4, <2>5, <2>6
  <1>7. Reading'
    <2>1. io[made] \notin {"prompt", "pair1", "pair2", "pair3"}
      BY <1>1 DEF Agreeing, Reading, At
    <2>2. ASSUME io[made] \in {"un1", "un2", "un3"} PROVE Reading'
      <3>1. PICK o \in {<<>>, <<Unpair>>}, ps \in PairState, p \in BOOLEAN :
              /\ At(<<>>, o, ps, p, "NotPaired")
              /\ o # <<>> \/ io[made] # "un1" => ps = "NotPaired"
              /\ o # <<>> \/ io[made] = "un3" => p = FALSE
        <4>1. Reading
          BY <1>1 DEF Agreeing
        <4> QED
          BY <2>2, <4>1 DEF Reading
      <3>2. o = <<Unpair>> /\ ps = "NotPaired" /\ p = FALSE
        BY <1>1, <3>1 DEF At
      <3>3. At(<<>>, <<>>, "NotPaired", FALSE, "NotPaired")'
        BY <1>4, <3>1, <3>2
      <3> QED
        BY <1>1, <2>1, <3>3 DEF Reading, PairState
    <2> QED
      BY <1>1, <2>1, <2>2 DEF Reading
  <1>8. Commanding'
    <2>1. ipc.pc # "send"
      <3>1. Commanding /\ ipc.op \in IpcOp
        BY <1>1 DEF Agreeing, TypeOK
      <3> QED
        BY <1>1, <3>1 DEF Commanding, At, IpcOp
    <2>2. ASSUME ipc.pc \in {"w1", "w2", "w3"} PROVE Commanding'
      <3>1. ipc.op \in IpcOp /\ Commanding
        BY <1>1 DEF TypeOK, Agreeing
      <3>2. CASE ipc.op = "request"
        <4>1. Delivered(Request, "NotPaired", FALSE, "NotPaired", "RequestedByPeer") /\ ipc.pc = "w1"
          BY <2>2, <3>1, <3>2 DEF Commanding
        <4>2. At(<<>>, <<>>, "NotPaired", FALSE, "RequestedByPeer")'
          BY <1>1, <1>2, <4>1 DEF Delivered, At
        <4> QED
          BY <1>1, <3>2, <4>1, <4>2 DEF Commanding, Delivered
      <3>3. CASE ipc.op = "accept"
        <4> DEFINE ps == IF ipc.pc = "w1" THEN "RequestedByPeer" ELSE "Paired"
                   p == ipc.pc = "w3"
        <4>1. Delivered(Acceptance, ps, p, "Requested", "Paired")
          BY <2>2, <3>1, <3>3 DEF Commanding
        <4>2. At(<<>>, <<Acceptance>>, ps, p, "Requested")
          BY <1>1, <4>1 DEF Delivered, At
        <4>3. At(<<>>, <<>>, ps, p, "Paired")'
          BY <1>1, <1>3, <4>2 DEF At
        <4> QED
          BY <1>1, <2>2, <3>3, <4>3 DEF Commanding, Delivered, At
      <3>4. CASE ipc.op \in {"reject", "unpair"}
        <4>1. PICK ps \in PairState, p \in BOOLEAN, q \in PairState :
                /\ Delivered(Unpair, ps, p, q, "NotPaired")
                /\ ipc.pc # "w1" => ps = "NotPaired"
                /\ ipc.pc = "w3" => p = FALSE
          BY <2>2, <3>1, <3>4 DEF Commanding
        <4>2. At(<<>>, <<>>, ps, p, "NotPaired")'
          BY <1>1, <1>4, <4>1 DEF Delivered, At
        <4> QED
          BY <1>1, <2>2, <3>4, <4>1, <4>2 DEF Commanding, Delivered
      <3> QED
        BY <3>1, <3>2, <3>3, <3>4 DEF IpcOp
    <2> QED
      BY <1>1, <2>1, <2>2 DEF Commanding
  <1>9. \A t \in Sess : t # made => outq'[t] = outq[t]
    BY <1>0, <1>1
  <1> QED
    BY <1>1, <1>5, <1>6, <1>7, <1>8, <1>9 DEF Agreeing, AllIdle

\* The user of the peer acts while nothing is on the way.
LEMMA AgreePeerSays ==
  ASSUME Compatible, AgreeInv, NEW s \in Sess,
         PeerRequest(s) \/ PeerAccept(s) \/ PeerRefuse(s), Quiet
  PROVE  Agreeing'
  <1> USE DEF AgreeInv, SerialInv, PInv, OneThread, NoSess, Sess
  <1>0. /\ made \in 0 .. MaxSess /\ peer \in PairState
        /\ io \in [Sess -> IoPc] /\ inq \in [Sess -> Seq(Packet)]
    BY DEF TypeOK
  <1>1. /\ s = made /\ Link = made /\ Link' = made /\ made \in Sess
        /\ UNCHANGED <<made, disc, outq, pairState, paired, cert, hs, io, ipc>>
    <2>1. s = Link /\ UNCHANGED <<sessVars, outq, handlerVars, ipc>>
      BY DEF PeerRequest, PeerAccept, PeerRefuse, PeerSays
    <2>2. Link = made /\ Link' = Link /\ made \in Sess
      BY <1>0, <2>1 DEF Link, sessVars
    <2> QED
      BY <2>1, <2>2 DEF sessVars, handlerVars
  <1>2. AllIdle /\ hs = "idle" /\ ipc.pc = "idle" /\ io[made] = "idle" /\ inq[made] = <<>> /\ outq[made] = <<>>
    BY <1>1 DEF Quiet, AllIdle
  <1>3. \/ At(<<>>, <<>>, "NotPaired", FALSE, "NotPaired")
        \/ At(<<>>, <<>>, "Requested", FALSE, "RequestedByPeer")
        \/ At(<<>>, <<>>, "RequestedByPeer", FALSE, "Requested")
        \/ At(<<>>, <<>>, "Paired", TRUE, "Paired")
    <2>1. AtRest
      BY <1>1, <1>2 DEF Agreeing
    <2> QED
      BY <1>2, <2>1 DEF AtRest, At
  <1>4. ASSUME NEW p, inq' = [inq EXCEPT ![s] = Append(@, p)]
        PROVE  inq'[made] = <<p>> /\ \A t \in Sess : t # made => inq'[t] = inq[t]
    <2>1. Append(inq[made], p) = <<p>>
      BY <1>2, OnePacket
    <2> QED
      BY <1>0, <1>1, <1>4, <2>1
  <1>5. ASSUME AtRest', \A t \in Sess : t # made => inq'[t] = inq[t]
        PROVE  Agreeing'
    BY <1>1, <1>2, <1>5 DEF Agreeing, Reading, Commanding
  <1>6. CASE PeerRequest(s)
    <2>1. PeerSays(s, Request) /\ peer = "NotPaired" /\ peer' = "Requested"
      BY <1>6 DEF PeerRequest, Compatible, Request
    <2>2. inq'[made] = <<Request>> /\ \A t \in Sess : t # made => inq'[t] = inq[t]
      BY <1>4, <2>1 DEF PeerSays
    <2>3. At(<<Request>>, <<>>, "NotPaired", FALSE, "Requested")'
      BY <1>1, <1>3, <2>1, <2>2 DEF At
    <2> QED
      BY <1>5, <2>2, <2>3 DEF AtRest
  <1>7. CASE PeerAccept(s)
    <2>1. PeerSays(s, Request) /\ peer = "RequestedByPeer" /\ peer' = "Paired"
      BY <1>7 DEF PeerAccept, Compatible, Request
    <2>2. inq'[made] = <<Request>> /\ \A t \in Sess : t # made => inq'[t] = inq[t]
      BY <1>4, <2>1 DEF PeerSays
    <2>3. At(<<Request>>, <<>>, "Requested", FALSE, "Paired")'
      BY <1>1, <1>3, <2>1, <2>2 DEF At
    <2> QED
      BY <1>5, <2>2, <2>3 DEF AtRest
  <1>8. CASE PeerRefuse(s)
    <2>1. PeerSays(s, Unpair) /\ peer' = "NotPaired"
      BY <1>8 DEF PeerRefuse
    <2>2. inq'[made] = <<Unpair>> /\ \A t \in Sess : t # made => inq'[t] = inq[t]
      BY <1>4, <2>1 DEF PeerSays
    <2>3. \E ps \in PairState, p \in BOOLEAN : At(<<Unpair>>, <<>>, ps, p, "NotPaired")'
      BY <1>1, <1>3, <2>1, <2>2 DEF At, PairState
    <2> QED
      BY <1>5, <2>2, <2>3 DEF AtRest
  <1> QED
    BY <1>6, <1>7, <1>8

\* The acts of the user of the peer are counted.
LEMMA PeerActs ==
  ASSUME PInv, NEW s \in Sess, PeerRequest(s) \/ PeerAccept(s) \/ PeerRefuse(s)
  PROVE  ops' # ops
  <1>1. ops \in Nat
    BY DEF PInv, TypeOK
  <1>2. ops' = ops + 1
    BY DEF PeerRequest, PeerAccept, PeerRefuse, PeerSays
  <1> QED
    BY <1>1, <1>2

\* Every serial step keeps the two sides in step.
LEMMA AgreeStep ==
  ASSUME Compatible
  PROVE  AgreeInv /\ [SerialNext]_vars => AgreeInv'
  <1> SUFFICES ASSUME AgreeInv, [SerialNext]_vars PROVE AgreeInv'
    OBVIOUS
  <1>1. SerialInv'
    BY SerialInvStep DEF AgreeInv
  <1>2. CASE UNCHANGED vars
    <2>1. UNCHANGED <<made, disc, inq, outq, pairState, paired, peer, cert, hs, io, ipc>>
      BY <1>2 DEF vars, sessVars, wireVars, handlerVars, peerVars
    <2>2. /\ Link' = Link /\ (AllIdle' <=> AllIdle) /\ (Fresh' <=> Fresh) /\ (AtRest' <=> AtRest)
          /\ (Reading' <=> Reading) /\ (Commanding' <=> Commanding)
      BY <2>1 DEF Fresh, AtRest, Reading, Commanding, Delivered, At, AllIdle, Link
    <2> QED
      BY <1>1, <2>1, <2>2 DEF AgreeInv, Agreeing
  <1>3. CASE AllIdle /\ Start /\ (ipc'.pc # "idle" => Quiet /\ view = CurrentView)
    BY <1>1, <1>3, AgreeHandler, AgreeIo, AgreeIpc DEF AgreeInv, Start
  <1>4. CASE Continue
    BY <1>1, <1>4, AgreeHandler, AgreeIo, AgreeIpc DEF AgreeInv, Continue
  <1>5. CASE PeerStep /\ (ops' # ops => Quiet)
    <2>1. PInv
      BY DEF AgreeInv, SerialInv
    <2> QED
      BY <1>1, <1>5, <2>1, PeerActs, AgreePeerRecv, AgreePeerSays DEF AgreeInv, PeerStep
  <1> QED
    BY <1>2, <1>3, <1>4, <1>5 DEF SerialNext

\* With a peer that is not this program, whose clock is right and who presents
\* a certificate, the two sides agree on whether they are paired whenever they
\* are connected, nothing is on the way and nobody is being asked.
THEOREM PairingAgreesTheorem ==
  ASSUME Compatible
  PROVE  SerialSpec => []PairingAgrees
  <1>1. Init => AgreeInv
    BY SerialInvInit, AgreeInit DEF AgreeInv
  <1>2. AgreeInv /\ [SerialNext]_vars => AgreeInv'
    BY AgreeStep
  <1>3. AgreeInv => PairingAgrees
    <2> SUFFICES ASSUME AgreeInv, AllIdle, Link # NoSess, inq[Link] = <<>>, outq[Link] = <<>>,
                        pairState[Link] # "RequestedByPeer", peer # "RequestedByPeer"
                 PROVE  paired[Link] <=> peer = "Paired"
      BY DEF PairingAgrees
    <2>1. Link = made /\ AtRest
      BY DEF AgreeInv, Agreeing, Link
    <2>2. \/ At(<<>>, <<>>, "NotPaired", FALSE, "NotPaired")
          \/ At(<<>>, <<>>, "Requested", FALSE, "RequestedByPeer")
          \/ At(<<>>, <<>>, "RequestedByPeer", FALSE, "Requested")
          \/ At(<<>>, <<>>, "Paired", TRUE, "Paired")
      BY <2>1, OnePacket DEF AtRest, At
    <2> QED
      BY <2>1, <2>2 DEF At
  <1> QED
    BY <1>1, <1>2, <1>3, PTL DEF SerialSpec

=============================================================================
