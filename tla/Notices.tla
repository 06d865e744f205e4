------------------------------- MODULE Notices --------------------------------
(***************************************************************************)
(* Notifications of a phone that are shown on the console                  *)
(* (plugins/notification_plugin.cpp).                                      *)
(*                                                                         *)
(* Phones send the same notification several times at once, at first       *)
(* without its icon.  The plugin remembers the last kMaxPostedIds of them: *)
(* a duplicate within two seconds is dropped unless it brings the icon.    *)
(* What is left becomes a .notify file, that Ultrahand shows and deletes.  *)
(***************************************************************************)
EXTENDS Naturals, Sequences, FiniteSets, SequencesExt

CONSTANTS
  Id,         \* notification ids; each is of an app of its own, and names a file of its own
  NoId,       \* stands for an empty id, which some phones send
  MaxPosted,  \* kMaxPostedIds
  MaxHashes,  \* kMaxAppIconHashes
  MaxTime,    \* times of a notification are 1 .. MaxTime; 0 is none
  MaxPackets  \* bound: packets of the phone

VARIABLES
  posted,     \* m_posted_ids in the order of when; recent: not 2 seconds old
  hashed,     \* the apps in m_app_icon_hash
  open,       \* settings, flag file and PscMonitor let notices be posted
  iconed,     \* NotificationShowIcon
  files,      \* the .notify files
  onScreen,   \* what Ultrahand has shown, with or without its icon
  due,        \* the time of each id's newest notice that came while open
  hidden,     \* the ids recorded in the last 2 seconds that were not posted
  lately,     \* what was posted in the last 2 seconds
  twice,      \* the same was posted twice in 2 seconds
  packets

vars == <<posted, hashed, open, iconed, files, onScreen, due, hidden, lately, twice, packets>>

Time == 1 .. MaxTime
Entry == [id : Id, time : Time, icon : BOOLEAN, recent : BOOLEAN]

\* One without an id has the number of its packet instead of a time.
Notice == [id : Id, time : Time, icon : BOOLEAN]
            \cup [id : {NoId}, time : 1 .. MaxPackets, icon : BOOLEAN]

TypeOK ==
  /\ \A i \in DOMAIN posted : posted[i] \in Entry
  /\ Len(posted) <= MaxPosted
  /\ hashed \in SUBSET Id
  /\ open \in BOOLEAN /\ iconed \in BOOLEAN /\ twice \in BOOLEAN
  /\ files \in SUBSET Notice /\ onScreen \in SUBSET Notice /\ lately \in SUBSET Notice
  /\ due \in [Id -> 0 .. MaxTime]
  /\ hidden \in SUBSET Id
  /\ packets \in 0 .. MaxPackets

Init ==
  /\ posted = <<>>
  /\ hashed = {}
  /\ open \in BOOLEAN /\ iconed \in BOOLEAN
  /\ files = {} /\ onScreen = {}
  /\ due = [n \in Id |-> 0]
  /\ hidden = {}
  /\ lately = {}
  /\ twice = FALSE
  /\ packets = 0

-----------------------------------------------------------------------------

\* The icons of an app: a packet with a payloadHash has it remembered, for which
\* another app's may be forgotten; one without takes what is remembered.
Remember(n, hash) ==
  IF ~hash THEN hashed' = hashed
  ELSE IF Cardinality(hashed) >= MaxHashes /\ n \notin hashed
       THEN \E other \in hashed : hashed' = (hashed \ {other}) \cup {n}
       ELSE hashed' = hashed \cup {n}

\* Mutant: a known id is enough, also with a new time.
SameAnyTime(n, t) == {i \in DOMAIN posted : posted[i].id = n /\ posted[i].recent}

\* The entry that was made less than two seconds ago for the same notification.
Same(n, t) == {i \in DOMAIN posted : posted[i].id = n /\ posted[i].time = t /\ posted[i].recent}

\* A duplicate that has nothing new: it was posted with its icon, or brings none.
Duplicate(n, t, icon) == \E i \in Same(n, t) : posted[i].icon \/ ~icon

\* The table without the entry of an id, if it has one: it is a map.
Without(entries, n) ==
  IF \E i \in DOMAIN entries : entries[i].id = n
  THEN RemoveAt(entries, CHOOSE i \in DOMAIN entries : entries[i].id = n)
  ELSE entries

\* Mutant: an upgrade does not record that the icon is there now.
RecordedAsWas(n, t, icon) ==
  IF Same(n, t) # {} THEN posted
  ELSE LET kept == IF Len(posted) >= MaxPosted THEN Tail(posted) ELSE posted
       IN Append(Without(kept, n),
                 [id |-> n, time |-> t, icon |-> icon, recent |-> TRUE])

\* An upgrade records the icon.  Anything else is a new entry: when the table is full
\* the oldest leaves it, even if the new one replaces another.
Recorded(n, t, icon) ==
  IF Same(n, t) # {}
  THEN [i \in DOMAIN posted |-> IF i \in Same(n, t) THEN [posted[i] EXCEPT !.icon = TRUE] ELSE posted[i]]
  ELSE LET kept == IF Len(posted) >= MaxPosted THEN Tail(posted) ELSE posted
       IN Append(Without(kept, n),
                 [id |-> n, time |-> t, icon |-> icon, recent |-> TRUE])

\* An upgrade first removes the file with the default icon.
Left(n, t) == IF Same(n, t) # {} THEN {f \in files : f.id # n \/ f.icon} ELSE files

\* post_notification writes the file of the app and the id, over what is there.  If it
\* cannot, that is as it was or is spoilt.
Spoilt(n, t, icon) == {f \in Left(n, t) : f.id # n \/ f.icon # icon}

Posted(n, t, icon) == Spoilt(n, t, icon) \cup {[id |-> n, time |-> t, icon |-> icon]}

Recent(l) == \E i \in DOMAIN posted' : posted'[i].id = l.id /\ posted'[i].time = l.time /\ posted'[i].recent

\* A notification arrives on the io thread, and its file is written or cannot be.
Arrive(n, t, hash, silent, written) ==
  /\ packets < MaxPackets /\ packets' = packets + 1
  /\ Remember(n, hash)
  /\ LET icon == hash \/ n \in hashed
         wanted == open /\ ~silent
         post == wanted /\ written
         it == [id |-> n, time |-> t, icon |-> icon]
     IN IF Duplicate(n, t, icon)
        THEN /\ due' = IF wanted /\ n \notin hidden THEN [due EXCEPT ![n] = t] ELSE due
             /\ UNCHANGED <<posted, files, hidden, lately, twice>>
        ELSE /\ posted' = Recorded(n, t, icon)
             /\ files' \in IF post THEN {Posted(n, t, icon /\ iconed)}
                          ELSE IF wanted THEN {Left(n, t), Spoilt(n, t, icon /\ iconed)}
                          ELSE {Left(n, t)}
             /\ hidden' = IF post THEN hidden \ {n} ELSE hidden \cup {n}
             /\ due' = [due EXCEPT ![n] = IF post THEN t ELSE 0]
             /\ lately' = {l \in lately \cup (IF post THEN {it} ELSE {}) : Recent(l)}
             /\ twice' = (twice \/ (post /\ it \in lately))
  /\ UNCHANGED <<open, iconed, onScreen>>

\* One without an id, of the app of n: it is never a duplicate, is not recorded, and a
\* counter names its file.
ArriveNameless(n, hash, silent, written) ==
  /\ packets < MaxPackets /\ packets' = packets + 1
  /\ Remember(n, hash)
  /\ files' = IF open /\ ~silent /\ written
              THEN files \cup {[id |-> NoId, time |-> packets', icon |-> (hash \/ n \in hashed) /\ iconed]}
              ELSE files
  /\ UNCHANGED <<posted, open, iconed, onScreen, due, hidden, lately, twice>>

\* The phone dismisses one: only the entry goes.
Cancel(n) ==
  /\ packets < MaxPackets /\ packets' = packets + 1
  /\ posted' = Without(posted, n)
  /\ hidden' = hidden \ {n}
  /\ lately' = {l \in lately : l.id # n}
  /\ UNCHANGED <<hashed, open, iconed, files, onScreen, due, twice>>

\* Two seconds have passed since the oldest recent entry was made.
Age ==
  \E i \in DOMAIN posted :
    /\ posted[i].recent /\ \A j \in 1 .. i - 1 : ~posted[j].recent
    /\ posted' = [posted EXCEPT ![i].recent = FALSE]
    /\ hidden' = hidden \ {posted[i].id}
    /\ lately' = {l \in lately : l.id # posted[i].id}
    /\ UNCHANGED <<hashed, open, iconed, files, onScreen, due, twice, packets>>

\* The console falls asleep or wakes, or the user turns the notices off or on.
Gate ==
  /\ open' = ~open
  /\ due' = [n \in Id |-> 0]
  /\ UNCHANGED <<posted, hashed, iconed, files, onScreen, hidden, lately, twice, packets>>

\* Ultrahand shows a file and deletes it.
Show ==
  \E f \in files :
    /\ files' = files \ {f}
    /\ onScreen' = onScreen \cup {f}
    /\ UNCHANGED <<posted, hashed, open, iconed, due, hidden, lately, twice, packets>>

Next ==
  \/ \E n \in Id :
       \/ \E hash, silent, written \in BOOLEAN :
            \/ \E t \in Time : Arrive(n, t, hash, silent, written)
            \/ ArriveNameless(n, hash, silent, written)
       \/ Cancel(n)
  \/ Age \/ Gate \/ Show

Spec == Init /\ [][Next]_vars

-----------------------------------------------------------------------------

\* The newest notice of every notification that came while notices were on is shown
\* or waits to be: neither a duplicate nor an upgrade nor the table's limit loses it.
\* (Two things are excepted.  When the gates change: an upgrade that comes then removes
\* the file and posts nothing, notification_plugin.cpp:126-145.  And when the file
\* cannot be written, 234-236: the notification is recorded as if it had been, so what
\* the phone sends of it in the next two seconds is dropped as a duplicate.)
NewestIsShown ==
  \A n \in Id : due[n] # 0 =>
    \E f \in files \cup onScreen : f.id = n /\ f.time = due[n]

\* The user is not told the same thing twice in two seconds, except that a notice
\* that came without its icon may be shown again with it.  (Unless another one of the
\* same id, or as many others as the table holds, came in between.)
NotTwice == ~twice
=============================================================================
