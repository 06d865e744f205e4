--------------------------------- MODULE Mdns ---------------------------------
(***************************************************************************)
(* What the program says of itself by mDNS, and what a program like it     *)
(* reads from that (mdns/mdns.h, mdns/mdns_discovery.cpp).                 *)
(*                                                                         *)
(* A packet is a sequence of cells instead of bytes: a label, a reference  *)
(* to an earlier cell, the zero that ends a name, the head of a record     *)
(* with its length, an address.  A name that is written twice is written   *)
(* once and then referred to, by a table of the places of its labels.  The *)
(* buffers are static: a packet is written over the one before it.         *)
(***************************************************************************)
EXTENDS Integers, Sequences

CONSTANTS
  Capacity,    \* bound: the cells of a buffer
  TableSize,   \* the places that a string table holds
  MaxRefs,     \* references followed for one label
  MaxLabels,   \* MDNS_MAX_SUBSTRINGS
  Qualified,   \* gethostname answers with a name that ends in ".local"
  MaxDatagrams   \* bound: packets that are sent

VARIABLES
  host,        \* announced.hostname
  addrs,       \* announced.addresses_v4
  buffer,      \* the static buffers: of announce, and of service_callback
  sent,        \* the records of the last packet, none if it was not sent
  heard,       \* the records that were parsed from it
  found,       \* what discovery_callback made of them
  datagrams

vars == <<host, addrs, buffer, sent, heard, found, datagrams>>

Service == <<"_kdeconnect", "_udp", "local">>
Instance == <<"id">> \o Service
Hosts == IF Qualified THEN {<<"h", "local", "local">>}
         ELSE {<<"h", "local">>, <<"id", "local">>, <<"10", "7", "local">>}
Addresses == {<<>>, <<"a1", "a2">>}

Zero == [k |-> "zero"]
Label(l) == [k |-> "label", l |-> l]
Ref(to) == [k |-> "ref", to |-> to]
HeadOf(type, length) == [k |-> "head", type |-> type, length |-> length]
Address(a) == [k |-> "addr", a |-> a]

-----------------------------------------------------------------------------

(* Reading names. *)

\* Where the references from a cell lead to, 0 if out of the packet or round and round.
Follow(b, size, at) ==
  LET to[c \in Nat, n \in Int] ==
        IF c > size \/ n < 0 THEN 0 ELSE IF b[c].k = "ref" THEN to[b[c].to, n - 1] ELSE c
  IN to[at, MaxRefs]

\* The label at a cell or at the place it refers to, "" at the end of a name.
Substring(b, size, at, to) ==
  [valid |-> to # 0,
   ref |-> at <= size /\ b[at].k = "ref",
   label |-> IF to # 0 /\ b[to].k = "label" THEN b[to].l ELSE "",
   next |-> to + 1]

NextSubstring(b, size, at) == Substring(b, size, at, Follow(b, size, at))

\* The place after a name, 0 if it has none.
\* Mutant: the name goes on where its reference leads to.
SkipInto(b, size, at) ==
  LET after[c \in Nat, n \in Nat] ==
        LET s == NextSubstring(b, size, c)
        IN IF ~s.valid \/ n = 0 THEN 0
           ELSE IF s.label = "" THEN s.next ELSE after[s.next, n - 1]
  IN after[at, MaxLabels]

Skip(b, size, at) ==
  LET after[c \in Nat, n \in Nat] ==
        LET s == NextSubstring(b, size, c)
        IN IF ~s.valid \/ n = 0 THEN 0
           ELSE IF s.ref \/ s.label = "" THEN c + 1 ELSE after[s.next, n - 1]
  IN after[at, MaxLabels]

Extract(b, size, at) ==
  LET labels[c \in Nat, n \in Nat] ==
        LET s == NextSubstring(b, size, c)
        IN IF ~s.valid \/ n = 0 THEN <<"?">>
           ELSE IF s.label = "" THEN <<>> ELSE <<s.label>> \o labels[s.next, n - 1]
  IN labels[at, MaxLabels]

(* Writing names.  A packet in the making has its cells, the place of the  *)
(* next one, 0 after something did not fit, and the table.                 *)

Fits(p, n) == p.at # 0 /\ p.at + n - 1 <= Capacity

Put(p, cell) == [p EXCEPT !.b[p.at] = cell, !.at = @ + 1]

Dropped(p) == [p EXCEPT !.at = 0]

PutIfFits(p, cell) == IF Fits(p, 1) THEN Put(p, cell) ELSE Dropped(p)

\* The labels of name are those at a place of the table, which may have more.
\* Mutant: only the first label is compared.
FirstMatches(b, at, name) == NextSubstring(b, Capacity, at).label = name[1]

Matches(b, at, name) ==
  LET same[c \in Nat, i \in 1 .. Len(name)] ==
        LET s == NextSubstring(b, Capacity, c)
        IN s.valid /\ s.label = name[i] /\ (i < Len(name) => same[s.next, i + 1])
  IN same[at, 1]

TableFind(p, name) ==
  LET place[i \in 1 .. TableSize + 1] ==
        IF i > TableSize THEN 0
        ELSE IF p.table[i] # 0 /\ Matches(p.b, p.table[i], name) THEN p.table[i] ELSE place[i + 1]
  IN place[1]

TableAdd(p) ==
  [p EXCEPT !.table[p.nextEntry] = p.at,
            !.nextEntry = IF @ = TableSize THEN 1 ELSE @ + 1]

\* A name in the making: the packet so far, and whether the name has ended.
Ended(p) == [p |-> p, ended |-> TRUE]

\* A label, or a reference to where the rest of the name is, which ends it.
PutLabel(p, label, known) ==
  IF ~Fits(p, 1) THEN Ended(Dropped(p))
  ELSE IF known # 0 THEN Ended(Put(p, Ref(known)))
  ELSE IF ~Fits(p, 2) THEN Ended(Dropped(p))
  ELSE [p |-> Put(TableAdd(p), Label(label)), ended |-> FALSE]

PutRest(w, rest) == IF w.ended THEN w ELSE PutLabel(w.p, rest[1], TableFind(w.p, rest))

PutEnd(w) == IF w.ended THEN w.p ELSE PutIfFits(w.p, Zero)

MakeString(p, name) ==
  LET written[i \in 0 .. Len(name)] ==
        IF i = 0 THEN [p |-> p, ended |-> FALSE] ELSE PutRest(written[i - 1], SubSeq(name, i, Len(name)))
  IN PutEnd(written[Len(name)])

-----------------------------------------------------------------------------

(* The records, and the packets of them. *)

Ptr == [type |-> "ptr", name |-> Service, to |-> Instance]
Srv == [type |-> "srv", name |-> Instance, to |-> host]
A(a) == [type |-> "a", name |-> host, to |-> <<a>>]
Txt(texts) == [type |-> "txt", name |-> Instance, to |-> texts]

AddHeader(p, r) == PutIfFits(MakeString(p, r.name), HeadOf(r.type, 0))

\* The length of a record is filled in when its data is written.
SetLength(p, start) ==
  IF p.at = 0 THEN p ELSE [p EXCEPT !.b[start - 1].length = p.at - start]

PutAll(p, cells) ==
  LET put[i \in 0 .. Len(cells)] ==
        IF i = 0 THEN p ELSE PutIfFits(put[i - 1], cells[i])
  IN put[Len(cells)]

\* The texts of all TXT records are one record.
AddData(p, r) ==
  CASE r.type \in {"ptr", "srv"} -> MakeString(p, r.to)
    [] r.type = "a" -> PutAll(p, <<Address(r.to[1])>>)
    [] r.type = "txt" -> PutAll(p, [i \in DOMAIN r.to |-> Label(r.to[i])])

AddBody(p, r) == IF p.at = 0 THEN p ELSE SetLength(AddData(p, r), p.at)

AddRecord(p, r) == AddBody(AddHeader(p, r), r)

AddRecords(p, records) ==
  LET added[i \in 0 .. Len(records)] == IF i = 0 THEN p ELSE AddRecord(added[i - 1], records[i])
  IN added[Len(records)]

\* A question, which a unicast answer repeats before the records.
AddQuestion(p, question) ==
  PutIfFits(MakeString(p, question.name), [k |-> "question", type |-> question.type])

\* The question in a packet; one for all services of the network is like any other.
Listen(b, size) == [name |-> Extract(b, size, 1), type |-> b[Skip(b, size, 1)].type]

Empty(b) == [b |-> b, at |-> 1, table |-> [i \in 1 .. TableSize |-> 0], nextEntry |-> 1]

\* The texts of a TXT record; of a text only the key matters.
ParseTxt(b, start, length) == [i \in 1 .. length |-> b[start + i - 1].l]

\* The data of the record whose head is at a cell.
DataParse(b, size, head) ==
  CASE b[head].type \in {"ptr", "srv"} -> Extract(b, size, head + 1)
    [] b[head].type = "a" -> <<b[head + 1].a>>
    [] OTHER -> ParseTxt(b, head + 1, b[head].length)

\* The record with that head, whose name is at a cell before; none if it is cut off.
RecordParse(b, size, at, head) ==
  IF b[head].length <= size - head
  THEN <<[type |-> b[head].type, name |-> Extract(b, size, at), to |-> DataParse(b, size, head)]>>
  ELSE <<>>

\* The records of b from a place on, at most so many of them.
RecordsParse(b, size, from, most) ==
  LET heads == [at \in Nat |-> IF Skip(b, size, at) = 0 THEN at ELSE Skip(b, size, at)]
      parsed[at \in Nat, n \in 0 .. most] ==
        IF n = 0 \/ heads[at] > size \/ b[heads[at]].k # "head" THEN <<>>
        ELSE RecordParse(b, size, at, heads[at]) \o parsed[heads[at] + 1 + b[heads[at]].length, n - 1]
  IN parsed[from, most]

\* All TXT records count as one.
\* Mutant: they are not counted.
RecordCountPlain(records) == Len(SelectSeq(records, LAMBDA r : r.type # "txt"))

RecordCount(records) == Len(records)

QueryRecv(b, size, question, n) ==
  LET at == IF question THEN Skip(b, size, 1) + 1 ELSE 1
  IN RecordsParse(b, size, at, n)

\* What discovery_callback has after the records of a packet: the last one of
\* its kind counts, and a PTR record says that the sender has the address.
Discover(state, r) ==
  CASE r.type = "ptr" -> [state EXCEPT !.ptr = TRUE, !.host = "from"]
    [] r.type = "a" -> [state EXCEPT !.host = r.to[1]]
    [] r.type = "txt" /\ "id" \in {r.to[i] : i \in DOMAIN r.to} -> [state EXCEPT !.id = r.name[1]]
    [] OTHER -> state

Discovered(state, records) ==
  LET so[i \in 0 .. Len(records)] == IF i = 0 THEN state ELSE Discover(so[i - 1], records[i])
  IN so[Len(records)]

NoQuestion == [name |-> <<>>, type |-> ""]

Questions ==
  [name : {Service, Instance, host, <<"_services", "_dns-sd", "_udp", "local">>, <<"id", "local">>},
   type : {"ptr", "srv", "a", "txt", "any"}]

Nobody == [ptr |-> FALSE, host |-> "", id |-> ""]

-----------------------------------------------------------------------------

Init ==
  /\ host \in Hosts /\ addrs \in Addresses
  /\ buffer = [w \in {"announce", "answer"} |-> [i \in 1 .. Capacity |-> Zero]]
  /\ sent = <<>> /\ heard = <<>> /\ found = Nobody
  /\ datagrams = 0

AddressRecords == [i \in DOMAIN addrs |-> A(addrs[i])]

Texts == Txt(<<"id", "name">>)

\* Write a packet over the one before it, send it, and parse it where it arrives.
Send(which, question, records) ==
  \E p \in {AddRecords(IF question = NoQuestion THEN Empty(buffer[which])
                      ELSE AddQuestion(Empty(buffer[which]), question), records)} :
     /\ datagrams < MaxDatagrams
     /\ datagrams' = datagrams + 1
     /\ buffer' = [buffer EXCEPT ![which] = p.b]
     /\ sent' = IF p.at = 0 THEN <<>> ELSE records
     /\ heard' = IF p.at = 0 THEN <<>>
                 ELSE QueryRecv(p.b, p.at - 1, question # NoQuestion, RecordCount(records))
     /\ found' = Discovered(Nobody, heard')
     /\ UNCHANGED <<host, addrs>>

All == <<Ptr, Srv>> \o AddressRecords \o <<Texts>>

\* Impl::announce, with a time to live of zero when it stops.
Announce == Send("announce", NoQuestion, All)

\* service_callback: what a question is answered with.
\* Mutant: whatever type of record is asked for.
AnswersOfAny(question) ==
  CASE question.name = Service -> All
    [] question.name = Instance -> Tail(All)
    [] question.name = host /\ addrs # <<>> -> <<A(addrs[1]), Texts>>
    [] OTHER -> <<>>

Answers(question) ==
  CASE question.name = Service /\ question.type \in {"ptr", "any"} -> All
    [] question.name = Instance /\ question.type \in {"srv", "any"} -> Tail(All)
    [] question.name = host /\ question.type \in {"a", "any"} /\ addrs # <<>> ->
         <<A(addrs[1]), Texts>>
    [] OTHER -> <<>>

\* The question that arrives when one is asked.
Arrived(question) ==
  LET p == AddQuestion(Empty([i \in 1 .. Capacity |-> Zero]), question)
  IN Listen(p.b, p.at - 1)

\* mdns_socket_listen with service_callback: the answer goes to everybody, or to
\* the one who asked, who gets the question back.
Answer ==
  \E question \in Questions, unicast \in BOOLEAN :
    \E records \in {Answers(Arrived(question))} :
      /\ records # <<>>
      /\ Send("answer", IF unicast THEN question ELSE NoQuestion, records)

\* The client is replaced, on another network, and collects anew.
Restart ==
  /\ host' \in Hosts /\ addrs' \in Addresses
  /\ <<host', addrs'>> # <<host, addrs>>
  /\ sent' = <<>> /\ heard' = <<>> /\ found' = Nobody
  /\ UNCHANGED <<buffer, datagrams>>

Next == Announce \/ Answer \/ Restart

Spec == Init /\ [][Next]_vars

-----------------------------------------------------------------------------

TypeOK ==
  /\ host \in Hosts /\ addrs \in Addresses
  /\ \A w \in {"announce", "answer"} : DOMAIN buffer[w] = 1 .. Capacity
  /\ found.ptr \in BOOLEAN
  /\ datagrams \in 0 .. MaxDatagrams

\* What is parsed from a packet is what was put into it, whatever the buffer
\* held before and whichever of its names are references.
PacketIsRead == sent # <<>> => heard = sent

\* A question is answered with the record that it is about, if there is one, before
\* the others.  A question for the texts alone is never answered, although there is
\* a record of them (mdns_discovery.cpp:181-182): they come with the other answers.
QuestionIsAnswered ==
  datagrams = 0 =>
    \A question \in Questions :
      LET answer == Answers(Arrived(question))
          about == SelectSeq(All, LAMBDA r : /\ r.name = question.name
                                             /\ question.type \in {r.type, "any"})
      IN IF about = <<>> \/ question.type = "txt"
         THEN answer = <<>> ELSE answer # <<>> /\ answer[1] = about[1]

\* A device that is found by its service is found with its own id, and at one
\* of its addresses or at the one that answered.
FoundIsSender ==
  (sent # <<>> /\ sent[1] = Ptr) =>
    /\ found.ptr /\ found.id = "id"
    /\ found.host \in {addrs[i] : i \in DOMAIN addrs}
         \cup (IF addrs = <<>> THEN {"from"} ELSE {})

=============================================================================
