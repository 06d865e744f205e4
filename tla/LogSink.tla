------------------------------- MODULE LogSink -------------------------------
(***************************************************************************)
(* The log's way to a host (common/src/utils/nxlink_sink.cpp, logger.cpp)  *)
(* in a build with NXLINK_ENABLED: messages that wait while there is no    *)
(* connection, a thread that connects again, and main, which does too when *)
(* the network comes up (sysmodule/src/nx_application.cpp).                *)
(*                                                                         *)
(* mutex_ orders the messages, but sock_ is also assigned without it.  The *)
(* host and the network are external.                                      *)
(***************************************************************************)
EXTENDS Naturals, Sequences, FiniteSets, SequencesExt

CONSTANTS
  MaxCache,     \* MAX_CACHE_SIZE
  MaxMsg,       \* bound: the messages logged
  MaxConnects,  \* bound: what main does
  MaxFails      \* bound: how often the network fails

VARIABLES
  sock,      \* sock_: none, a connection that works, or one that is broken
  cache,     \* message_cache_
  holder,    \* who has mutex_, and where it is
  last,      \* the last message logged
  bg,        \* where backgroundThread is
  main,      \* where main is
  shut,      \* how far shutdown() is
  net,       \* whether the host can be reached
  connects, fails,
  sent,      \* history: what was written to a connection
  dropped,   \* history: the messages that a full cache turned away
  lost,      \* history: the messages that could not be written
  beside     \* history: a connection was made between what waited and a thread's message

logVars == <<sock, cache, holder, last, bg, main, shut, net, connects, fails, sent, dropped, lost, beside>>

Warning == 0    \* "[WARNING] Message cache overflow, ..."
Message == 1 .. MaxMsg

TypeOK ==
  /\ sock \in {"none", "works", "broken"}
  /\ cache \in Seq({Warning} \cup Message) /\ Len(cache) <= MaxCache + 1
  /\ holder \in {"nobody", "write", "flush", "send", "bgflush"}
  /\ last \in 0 .. MaxMsg
  /\ bg \in {"sleep", "connect", "lock", "flush", "done"}
  /\ main \in {"other", "connect"}
  /\ shut \in {"no", "joining", "done"}
  /\ net \in BOOLEAN
  /\ sent \in Seq({Warning} \cup Message)
  /\ dropped \subseteq Message /\ lost \subseteq Message /\ beside \in BOOLEAN

Init ==
  /\ sock = "none" /\ cache = <<>> /\ holder = "nobody" /\ last = 0
  /\ bg = "sleep" /\ main = "other" /\ shut = "no" /\ net = FALSE
  /\ connects = 0 /\ fails = 0
  /\ sent = <<>> /\ dropped = {} /\ lost = {} /\ beside = FALSE

-----------------------------------------------------------------------------
(* NxLink::write, on any thread.                                           *)

\* Before shutdown, the threads queue for mutex_; a message is one that got it.
Lock ==
  /\ holder = "nobody" /\ last < MaxMsg /\ shut = "no"
  /\ holder' = "write" /\ last' = last + 1
  /\ UNCHANGED <<sock, cache, bg, main, shut, net, connects, fails, sent, dropped, lost, beside>>

\* Mutant: a message too many is dropped without a word.
KeepQuietly(m) ==
  IF Len(cache) < MaxCache THEN cache' = Append(cache, m) /\ UNCHANGED dropped
  ELSE UNCHANGED cache /\ dropped' = dropped \cup {m}

\* Mutant: the cache is not limited.
KeepAll(m) == cache' = Append(cache, m) /\ UNCHANGED dropped

\* The message is kept; in the place of the first too many, a warning.
Keep(m) ==
  IF Len(cache) < MaxCache THEN cache' = Append(cache, m) /\ UNCHANGED dropped
  ELSE /\ cache' = IF Len(cache) = MaxCache THEN Append(cache, Warning) ELSE cache
       /\ dropped' = dropped \cup {m}

Write ==
  /\ holder = "write"
  /\ IF sock = "none" THEN Keep(last) /\ holder' = "nobody"
     ELSE holder' = "flush" /\ UNCHANGED <<cache, dropped>>
  /\ UNCHANGED <<sock, last, bg, main, shut, net, connects, fails, sent, lost, beside>>

\* A connection that broke may take some more before a write fails.
Takes == sock # "none"
Refuses == sock # "works"

\* Mutant: flushCache takes a message out before it is written.
FlushEager ==
  /\ cache # <<>>
  /\ cache' = Tail(cache)
  /\ \/ Takes /\ sent' = Append(sent, Head(cache)) /\ UNCHANGED <<sock, holder>>
     \/ Refuses /\ sock' = "none" /\ UNCHANGED sent /\ holder' = "send"

\* One turn of flushCache's loop: a message that cannot be written stays.
FlushOne ==
  /\ cache # <<>>
  /\ \/ Takes /\ sent' = Append(sent, Head(cache)) /\ cache' = Tail(cache) /\ UNCHANGED <<sock, holder>>
     \/ /\ Refuses /\ sock' = "none" /\ holder' = IF holder = "flush" THEN "send" ELSE "nobody"
        /\ UNCHANGED <<sent, cache>>

\* Mutant: the messages that wait are sent after the new one.
FlushLater ==
  /\ holder \in {"flush", "bgflush"}
  /\ \/ holder = "flush" /\ holder' = "send" /\ UNCHANGED <<sock, cache, sent>>
     \/ holder = "bgflush" /\ FlushOne
     \/ holder = "bgflush" /\ cache = <<>> /\ holder' = "nobody" /\ UNCHANGED <<sock, cache, sent>>
  /\ bg' = IF holder = "bgflush" /\ holder' = "nobody" THEN "sleep" ELSE bg
  /\ UNCHANGED <<last, main, shut, net, connects, fails, dropped, lost, beside>>

Flush ==
  /\ holder \in {"flush", "bgflush"}
  /\ \/ FlushOne
     \/ /\ cache = <<>> /\ holder' = IF holder = "flush" THEN "send" ELSE "nobody"
        /\ UNCHANGED <<sock, cache, sent>>
  /\ bg' = IF holder = "bgflush" /\ holder' = "nobody" THEN "sleep" ELSE bg
  /\ UNCHANGED <<last, main, shut, net, connects, fails, dropped, lost, beside>>

\* A message that cannot be written now is lost, without a word.
Send ==
  /\ holder = "send"
  /\ \/ Takes /\ sent' = Append(sent, last) /\ UNCHANGED <<sock, lost>>
     \/ Refuses /\ sock' = "none" /\ lost' = lost \cup {last} /\ UNCHANGED sent
  /\ holder' = "nobody"
  /\ UNCHANGED <<cache, last, bg, main, shut, net, connects, fails, dropped, beside>>

-----------------------------------------------------------------------------
(* Connecting, without the mutex.                                          *)

\* connectToHost: a connection that was there is forgotten, and stays open.
Connected ==
  IF net THEN sock' = "works" /\ beside' = (beside \/ holder = "send") ELSE UNCHANGED <<sock, beside>>

\* backgroundThread, every half second.
BgWake ==
  /\ bg = "sleep" /\ holder = "nobody"
  /\ bg' = IF shut # "no" THEN "done" ELSE IF sock = "none" THEN "connect" ELSE "sleep"
  /\ UNCHANGED <<sock, cache, holder, last, main, shut, net, connects, fails, sent, dropped, lost, beside>>

\* Mutant: the thread ends when it cannot connect.
BgConnectOnce ==
  /\ bg = "connect"
  /\ Connected
  /\ bg' = IF net THEN "lock" ELSE "done"
  /\ UNCHANGED <<cache, holder, last, main, shut, net, connects, fails, sent, dropped, lost>>

BgConnect ==
  /\ bg = "connect"
  /\ Connected
  /\ bg' = IF net THEN "lock" ELSE "sleep"
  /\ UNCHANGED <<cache, holder, last, main, shut, net, connects, fails, sent, dropped, lost>>

BgFlush ==
  /\ bg = "lock" /\ holder = "nobody"
  /\ IF shut = "no" THEN holder' = "bgflush" /\ bg' = "flush"
     ELSE UNCHANGED holder /\ bg' = "sleep"
  /\ UNCHANGED <<sock, cache, last, main, shut, net, connects, fails, sent, dropped, lost, beside>>

\* connect_nxlink: NxApplication's constructor, and processEvents each time the
\* network comes back if it was not there at first.
MainConnect ==
  /\ connects < MaxConnects /\ shut = "no"
  /\ \/ main = "other" /\ main' = "connect" /\ UNCHANGED <<sock, connects, beside>>
     \/ main = "connect" /\ main' = "other" /\ Connected /\ connects' = connects + 1
  /\ UNCHANGED <<cache, holder, last, bg, shut, net, fails, sent, dropped, lost>>

\* Logger::shutdown, by main: the thread is joined and the socket closed.
Shutdown ==
  /\ main = "other"
  /\ \/ shut = "no" /\ shut' = "joining" /\ UNCHANGED sock
     \/ shut = "joining" /\ bg = "done" /\ shut' = "done" /\ sock' = "none"
  /\ UNCHANGED <<cache, holder, last, bg, main, net, connects, fails, sent, dropped, lost, beside>>

\* The network comes and goes, and with it the connection.
Network ==
  /\ \/ ~net /\ net' = TRUE /\ UNCHANGED <<sock, fails>>
     \/ /\ net /\ fails < MaxFails /\ fails' = fails + 1
        /\ net' = FALSE
        /\ sock' = IF sock = "works" THEN "broken" ELSE sock
  /\ UNCHANGED <<cache, holder, last, bg, main, shut, connects, sent, dropped, lost, beside>>

Next ==
  \/ Lock \/ Write \/ Flush \/ Send
  \/ BgWake \/ BgConnect \/ BgFlush
  \/ MainConnect \/ Shutdown \/ Network

Background == BgWake \/ BgConnect \/ BgFlush
Holder == Write \/ Flush \/ Send

-----------------------------------------------------------------------------

\* What is written to the host is in the order it was logged, and nothing twice,
\* however often the connection failed.  It takes that nobody connects while a thread
\* is between what waited and could not be written and its own message, which then
\* would overtake: connectToHost assigns sock_ without the mutex.
InOrder ==
  ~beside => \A i, j \in DOMAIN sent :
               i < j /\ sent[i] # Warning /\ sent[j] # Warning => sent[i] < sent[j]

\* Where messages are missing there is a warning before the next one, but for those
\* that could not be written; it takes the same.
GapIsSaid ==
  LET log == sent \o cache
  IN \A i \in 2 .. Len(log) :
       ~beside /\ log[i - 1] # Warning /\ log[i] # Warning => log[i - 1] + 1 .. log[i] - 1 \subseteq lost

\* A connection that fails takes one message with it and no more, and shutdown, which
\* closes it while another thread may be writing, one.
LossIsOne == Cardinality(lost) <= fails + (IF shut = "done" THEN 1 ELSE 0)

\* What waits goes only by being written, first come first: the one that waits first is
\* not thrown away because it could not be written.
WaitingIsKept ==
  [][\/ IsPrefix(cache, cache')
     \/ cache' = Tail(cache) /\ sent' = Append(sent, Head(cache))]_logVars

\* While the host can be reached, somebody connects to it: the messages do not
\* wait for ever.
Connects == <>[](net /\ shut = "no") => <>[](sock # "none")

=============================================================================
