----------------------------- MODULE PluginProofs -----------------------------
(***************************************************************************)
(* The inductive invariants of the plugins (battery, commands, volume,     *)
(* media, sinks and notifications) and of the documents that their packets *)
(* are kept in, for any players, phones, sinks, notifications, commands    *)
(* and documents.  PeerProofs puts them together.                          *)
(***************************************************************************)
EXTENDS MCPeer, TLAPS, WellFoundedInduction, FiniteSetTheorems, SequenceTheorems

-----------------------------------------------------------------------------

(* What Append, Head and Tail do to the places of a sequence.               *)

\* An appended element is the last, and the others keep their places.
LEMMA Appended ==
  ASSUME NEW S, NEW s \in Seq(S), NEW e \in S
  PROVE  /\ Append(s, e) \in Seq(S) /\ Len(Append(s, e)) = Len(s) + 1 /\ Len(s) \in Nat
         /\ \A i \in 1 .. Len(s) : i \in 1 .. Len(Append(s, e)) /\ Append(s, e)[i] = s[i]
         /\ Len(s) + 1 \in 1 .. Len(Append(s, e)) /\ Append(s, e)[Len(s) + 1] = e
         /\ \A i \in 1 .. Len(Append(s, e)) : i \in 1 .. Len(s) \/ i = Len(s) + 1
  <1>1. Len(s) \in Nat
    OBVIOUS
  <1>2. /\ Append(s, e) \in Seq(S) /\ Len(Append(s, e)) = Len(s) + 1
        /\ \A i \in 1 .. Len(s) : Append(s, e)[i] = s[i]
        /\ Append(s, e)[Len(s) + 1] = e
    BY AppendProperties
  <1> QED
    BY <1>1, <1>2

\* The head of a sequence is its first element, and the others move up by one.
LEMMA Taken ==
  ASSUME NEW S, NEW s \in Seq(S), s # <<>>
  PROVE  /\ Tail(s) \in Seq(S) /\ Len(s) \in Nat \ {0} /\ Len(Tail(s)) = Len(s) - 1
         /\ 1 \in 1 .. Len(s) /\ Head(s) = s[1] /\ Head(s) \in S
         /\ \A i \in 1 .. Len(Tail(s)) : i \in Nat /\ i + 1 \in 1 .. Len(s) /\ Tail(s)[i] = s[i + 1]
  <1>1. Len(s) \in Nat /\ Len(s) # 0
    BY EmptySeq
  <1>2. /\ Head(s) \in S /\ Tail(s) \in Seq(S) /\ Len(Tail(s)) = Len(s) - 1
        /\ \A i \in 1 .. Len(Tail(s)) : Tail(s)[i] = s[i + 1]
    BY HeadTailProperties
  <1>3. Head(s) = s[1]
    BY <1>1
  <1> QED
    BY <1>1, <1>2, <1>3

\* An element of a sequence.
LEMMA Indexed ==
  ASSUME NEW S, NEW s \in Seq(S), NEW i \in 1 .. Len(s)
  PROVE  s[i] \in S /\ i \in Nat \ {0} /\ Len(s) \in Nat
  BY ElementOfSeq

\* There is a least number in a set of numbers.
LEMMA LeastNatural ==
  ASSUME NEW T, T \subseteq Nat, T # {}
  PROVE  \E x \in T : \A y \in T : x <= y
  <1> DEFINE R == OpToRel(<, Nat)
  <1>1. IsWellFoundedOn(R, Nat)
    BY NatLessThanWellFounded
  <1>2. \A x, y \in Nat : y < x => <<y, x>> \in R
    BY DEF OpToRel
  <1> HIDE DEF R
  <1>3. \E x \in T : \A y \in T : ~ (<<y, x>> \in R)
    BY <1>1, WFMin
  <1>4. PICK x \in T : \A y \in T : ~ (<<y, x>> \in R)
    BY <1>3
  <1>5. ASSUME NEW y \in T PROVE x <= y
    <2>1. x \in Nat /\ y \in Nat /\ ~ (y < x)
      BY <1>2, <1>4
    <2> QED
      BY <2>1
  <1> QED
    BY <1>5


\* A bounded count stays within its bound.
LEMMA Counts == \A m \in Nat : \A c \in 0 .. m : c + 0 = c /\ (c < m => c + 1 \in 0 .. m)
  OBVIOUS

-----------------------------------------------------------------------------

(* Division, and what scaling to and fro loses.                             *)

\* A product grows with its factors.
LEMMA TimesGrows ==
  ASSUME NEW x \in Nat, NEW y \in Nat, NEW b \in Nat, x <= y
  PROVE  x * b <= y * b
  <1>1. PICK d \in Nat : y = x + d
    <2>1. y - x \in Nat /\ y = x + (y - x)
      OBVIOUS
    <2> QED
      BY <2>1
  <1>2. y * b = x * b + d * b
    BY <1>1
  <1>3. d * b \in Nat /\ x * b \in Nat
    OBVIOUS
  <1> QED
    BY <1>2, <1>3

\* A quotient is the number of times that the divisor fits.
LEMMA Divided ==
  ASSUME NEW a \in Nat, NEW b \in Nat \ {0}
  PROVE  a \div b \in Nat /\ (a \div b) * b <= a /\ a < (a \div b) * b + b
  OBVIOUS

\* The quotient is the only number with that property.
LEMMA Quotient ==
  ASSUME NEW a \in Nat, NEW b \in Nat \ {0}, NEW q \in Nat
  PROVE  /\ q * b <= a => q <= a \div b
         /\ a < (q + 1) * b => a \div b <= q
  <1>1. PICK d \in Nat : d = a \div b
    BY Divided
  <1>2. d * b <= a /\ a < (d + 1) * b
    <2>1. d * b <= a /\ a < d * b + b
      BY <1>1, Divided
    <2>2. (d + 1) * b = d * b + b
      OBVIOUS
    <2> QED
      BY <2>1, <2>2
  <1>3. ASSUME q * b <= a, ~(q <= d) PROVE FALSE
    <2>1. d + 1 <= q
      BY <1>3
    <2>2. (d + 1) * b <= q * b
      BY <2>1, TimesGrows
    <2>3. (d + 1) * b \in Nat /\ q * b \in Nat
      OBVIOUS
    <2> QED
      BY <1>2, <1>3, <2>2, <2>3
  <1>4. ASSUME a < (q + 1) * b, ~(d <= q) PROVE FALSE
    <2>1. q + 1 <= d
      BY <1>4
    <2>2. (q + 1) * b <= d * b
      BY <2>1, TimesGrows
    <2>3. (q + 1) * b \in Nat /\ d * b \in Nat
      OBVIOUS
    <2> QED
      BY <1>2, <1>4, <2>2, <2>3
  <1> QED
    BY <1>1, <1>3, <1>4

\* Counting to n in place of m and back loses nothing that was not there.
LEMMA ScaledBack ==
  ASSUME NEW m \in Nat \ {0}, NEW n \in Nat \ {0}, NEW x \in Nat
  PROVE  /\ (x * n) \div m \in Nat
         /\ x <= m => (x * n) \div m <= n
         /\ ((x * n) \div m) * m \in Nat /\ (((x * n) \div m) * m) \div n <= x
         /\ m <= n => x <= (((x * n) \div m) * m) \div n + 1
  <1>0. x * n \in Nat
    OBVIOUS
  <1>1. PICK y \in Nat : y = (x * n) \div m
    BY <1>0, Divided
  <1>2. y * m <= x * n /\ x * n < y * m + m
    BY <1>0, <1>1, Divided
  <1>3. x <= m => y <= n
    <2> SUFFICES ASSUME x <= m PROVE y <= n
      OBVIOUS
    <2>1. x * n <= m * n
      BY TimesGrows
    <2>2. (n + 1) * m = m * n + m /\ m * n \in Nat
      OBVIOUS
    <2>3. x * n < (n + 1) * m
      BY <1>0, <2>1, <2>2
    <2> QED
      BY <1>0, <1>1, <2>3, Quotient
  <1>4. y * m \in Nat
    OBVIOUS
  <1>5. (y * m) \div n <= x
    <2>1. (x + 1) * n = x * n + n
      OBVIOUS
    <2>2. y * m < (x + 1) * n
      BY <1>0, <1>2, <1>4, <2>1
    <2> QED
      BY <1>4, <2>2, Quotient
  <1>6. m <= n => x <= (y * m) \div n + 1
    <2> SUFFICES ASSUME m <= n PROVE x <= (y * m) \div n + 1
      OBVIOUS
    <2>1. PICK z \in Nat : z = (y * m) \div n
      BY <1>4, Divided
    <2>2. CASE x = 0
      BY <2>1, <2>2
    <2>3. CASE x # 0
      <3>1. x - 1 \in Nat /\ (x - 1) * n = x * n - n
        BY <2>3
      <3>2. (x - 1) * n <= y * m
        BY <1>0, <1>2, <1>4, <3>1
      <3>3. x - 1 <= z
        BY <1>4, <2>1, <3>1, <3>2, Quotient
      <3> QED
        BY <2>1, <3>3
    <2> QED
      BY <2>2, <2>3
  <1> QED
    BY <1>1, <1>3, <1>4, <1>5, <1>6

-----------------------------------------------------------------------------

(* Battery: what is told of a battery was reported of it.                   *)

\* As long as nothing was crossed, one thread at a time has something to store or send.
\* It sends what the cache has, which is what the phone was told last when it is done.
ToldInv ==
  ~crossed =>
    /\ \A t, u \in Charged!Thread : Charged!Busy(t) /\ Charged!Busy(u) => t = u
    /\ valid =>
         /\ (\A t \in Charged!Thread : ~Charged!Busy(t)) => told = Charged!Sent(cached)
         /\ \A t \in Charged!Thread :
              /\ at[t] = "half" => got[t].charge = cached.charge
              /\ at[t] = "send" => got[t] = cached

\* The two halves of the phone's battery are of one report, unless one is being stored.
ReportInv ==
  /\ phone \in reports
  /\ remoteAt = "idle" => remote \in reports
  /\ remoteAt = "half" => remote.charge = phone.charge
  /\ overlayAt = "half" /\ ~met => remoteAt = "idle" /\ overlay.charge = remote.charge
  /\ overlayAt = "done" /\ ~met => overlay \in reports

ChargedInv == Charged!TypeOK /\ ToldInv /\ ReportInv

\* What a phone is told has the type of a report.
LEMMA SentIsReport ==
  ASSUME NEW s \in Charged!Status
  PROVE  Charged!Sent(s) \in [charge : Charge, charging : BOOLEAN, low : BOOLEAN]
  BY DEF Charged!Status, Charged!Sent

\* Nothing is known of a battery at first.
LEMMA ChargedInit == Charged!Init => ChargedInv
  <1> SUFFICES ASSUME Charged!Init PROVE ChargedInv
    OBVIOUS
  <1>1. 0 \in Charge /\ MaxTurns \in Nat
    BY PeerAssumption
  <1>2. Charged!Unknown \in Charged!Status /\ 0 \in 0 .. MaxTurns
    BY <1>1 DEF Charged!Status, Charged!Unknown
  <1>3. Charged!TypeOK
    BY <1>2, SentIsReport DEF Charged!Init, Charged!TypeOK
  <1>4. ToldInv
    BY DEF Charged!Init, ToldInv, Charged!Busy
  <1>5. ReportInv
    BY DEF Charged!Init, ReportInv
  <1> QED
    BY <1>3, <1>4, <1>5 DEF ChargedInv

\* A thread that goes on leaves the others where they are.
LEMMA GoesOn ==
  ASSUME Charged!TypeOK, NEW t \in Charged!Thread,
         NEW where \in {"idle", "read", "compare", "store", "charging", "status", "half", "send"},
         NEW what \in Charged!Status, Charged!Goes(t, where, what)
  PROVE  /\ at' \in [Charged!Thread -> {"idle", "read", "compare", "store", "charging", "status", "half", "send"}]
         /\ got' \in [Charged!Thread -> Charged!Status]
         /\ at'[t] = where /\ got'[t] = what
         /\ \A u \in Charged!Thread : u # t => at'[u] = at[u] /\ got'[u] = got[u]
  BY DEF Charged!TypeOK, Charged!Goes

\* What the actions that take more than a value put into the cache, or take from it.
LEMMA Halves ==
  ASSUME Charged!TypeOK, NEW t \in Charged!Thread
  PROVE  /\ Charged!Unknown \in Charged!Status
         /\ got[t] \in Charged!Status
         /\ [cached EXCEPT !.charge = got[t].charge] \in Charged!Status
         /\ [cached EXCEPT !.charging = got[t].charging] \in Charged!Status
         /\ [got[t] EXCEPT !.charge = cached.charge] \in Charged!Status
         /\ [got[t] EXCEPT !.charge = cached.charge].charge = cached.charge
         /\ [got[t] EXCEPT !.charging = cached.charging] \in Charged!Status
         /\ got[t].charge = cached.charge => [got[t] EXCEPT !.charging = cached.charging] = cached
  <1>1. 0 \in Charge
    BY PeerAssumption
  <1> QED
    BY <1>1 DEF Charged!TypeOK, Charged!Status, Charged!Unknown

\* And of the phone's.
LEMMA RemoteHalves ==
  ASSUME Charged!TypeOK
  PROVE  /\ Charged!ReportCharge => remote' \in Charged!Status /\ remote'.charge = phone'.charge
         /\ Charged!ReportCharging => remote' \in Charged!Status /\ (remote.charge = phone.charge => remote' = phone)
         /\ Charged!ReadCharge => overlay' \in Charged!Status /\ overlay'.charge = remote.charge
         /\ Charged!ReadCharging => overlay' \in Charged!Status /\ (overlay.charge = remote.charge => overlay' = remote)
  <1> USE DEF Charged!TypeOK, Charged!Status
  <1>1. Charged!ReportCharge => remote' \in Charged!Status /\ remote'.charge = phone'.charge
    BY DEF Charged!ReportCharge
  <1>2. Charged!ReportCharging => remote' \in Charged!Status /\ (remote.charge = phone.charge => remote' = phone)
    BY DEF Charged!ReportCharging
  <1>3. Charged!ReadCharge => overlay' \in Charged!Status /\ overlay'.charge = remote.charge
    BY DEF Charged!ReadCharge
  <1>4. Charged!ReadCharging => overlay' \in Charged!Status /\ (overlay.charge = remote.charge => overlay' = remote)
    BY DEF Charged!ReadCharging
  <1> QED
    BY <1>1, <1>2, <1>3, <1>4

\* A thread that stores is the only one, or something is crossed.  What the others have
\* read is then of no account.
LEMMA StoreKeeps ==
  ASSUME ChargedInv, NEW t \in Charged!Thread, Charged!Busy(t),
         NEW where \in {"charging", "status"}, NEW what \in Charged!Status, Charged!Goes(t, where, what),
         UNCHANGED crossed
  PROVE  ToldInv'
  <1> SUFFICES ASSUME ~crossed PROVE ToldInv'
    BY DEF ToldInv
  <1>1. at'[t] = where /\ \A u \in Charged!Thread : u # t => at'[u] = at[u]
    BY GoesOn DEF ChargedInv
  <1>2. \A u \in Charged!Thread : u # t => ~Charged!Busy(u)
    BY DEF ChargedInv, ToldInv
  <1>3. \A u \in Charged!Thread : u # t => ~Charged!Busy(u)'
    BY <1>1, <1>2 DEF Charged!Busy
  <1>4. Charged!Busy(t)' /\ at'[t] # "half" /\ at'[t] # "send"
    BY <1>1 DEF Charged!Busy
  <1>5. \A u \in Charged!Thread : at'[u] # "half" /\ at'[u] # "send"
    BY <1>3, <1>4 DEF Charged!Busy
  <1> QED
    BY <1>3, <1>4, <1>5 DEF ToldInv

\* So is one that begins with it.
LEMMA BeginKeeps ==
  ASSUME ChargedInv, NEW t \in Charged!Thread, ~Charged!Busy(t),
         NEW where \in {"store", "charging", "status"}, NEW what \in Charged!Status, Charged!Goes(t, where, what),
         Charged!OtherBusy(t) => crossed'
  PROVE  ToldInv'
  <1> SUFFICES ASSUME ~crossed' PROVE ToldInv'
    BY DEF ToldInv
  <1>1. at'[t] = where /\ \A u \in Charged!Thread : u # t => at'[u] = at[u]
    BY GoesOn DEF ChargedInv
  <1>2. \A u \in Charged!Thread : u # t => ~Charged!Busy(u)
    BY DEF Charged!OtherBusy
  <1>3. \A u \in Charged!Thread : u # t => ~Charged!Busy(u)'
    BY <1>1, <1>2 DEF Charged!Busy
  <1>4. Charged!Busy(t)' /\ at'[t] # "half" /\ at'[t] # "send"
    BY <1>1 DEF Charged!Busy
  <1>5. \A u \in Charged!Thread : at'[u] # "half" /\ at'[u] # "send"
    BY <1>3, <1>4 DEF Charged!Busy
  <1> QED
    BY <1>3, <1>4, <1>5 DEF ToldInv

\* One that has nothing to store or send, and goes where it still has not, changes nothing.
LEMMA RestKeeps ==
  ASSUME ChargedInv, NEW t \in Charged!Thread, ~Charged!Busy(t),
         NEW where \in {"idle", "read", "compare"}, NEW what \in Charged!Status, Charged!Goes(t, where, what),
         UNCHANGED <<cached, valid, told, crossed>>
  PROVE  ToldInv'
  <1> SUFFICES ASSUME ~crossed PROVE ToldInv'
    BY DEF ToldInv
  <1>1. /\ at'[t] = where /\ got'[t] = what
        /\ \A u \in Charged!Thread : u # t => at'[u] = at[u] /\ got'[u] = got[u]
    BY GoesOn DEF ChargedInv
  <1>2. \A u \in Charged!Thread : Charged!Busy(u)' <=> Charged!Busy(u)
    BY <1>1 DEF Charged!Busy
  <1>3. valid => \A u \in Charged!Thread :
          /\ at'[u] = "half" => got'[u].charge = cached'.charge
          /\ at'[u] = "send" => got'[u] = cached'
    BY <1>1 DEF ChargedInv, ToldInv
  <1> QED
    BY <1>2, <1>3 DEF ChargedInv, ToldInv

\* A status that is read and sent is the cache's.
LEMMA StatusKeeps ==
  ASSUME ChargedInv, NEW t \in Charged!Thread,
         Charged!StatusCharge(t) \/ Charged!StatusCharging(t) \/ Charged!StatusSend(t)
  PROVE  ToldInv'
  <1> SUFFICES ASSUME ~crossed PROVE ToldInv'
    BY DEF ToldInv, Charged!StatusCharge, Charged!StatusCharging, Charged!StatusSend
  <1>1. UNCHANGED <<cached, valid, crossed>> /\ Charged!Busy(t)
    BY DEF Charged!StatusCharge, Charged!StatusCharging, Charged!StatusSend, Charged!Busy
  <1>2. \A u \in Charged!Thread : u # t => ~Charged!Busy(u)
    BY <1>1 DEF ChargedInv, ToldInv
  <1>3. PICK where \in {"half", "send", "idle"}, what \in Charged!Status :
          /\ Charged!Goes(t, where, what)
          /\ valid =>
               /\ where = "half" => what.charge = cached.charge
               /\ where = "send" => what = cached
               /\ where = "idle" => told' = Charged!Sent(cached)
    <2>1. Charged!TypeOK
      BY DEF ChargedInv
    <2>2. CASE Charged!StatusCharge(t)
      <3>1. battery \in Charged!Status
        BY <2>1 DEF Charged!TypeOK
      <3> QED
        BY <2>1, <2>2, <3>1, Halves DEF Charged!StatusCharge
    <2>3. CASE Charged!StatusCharging(t)
      <3>1. valid => got[t].charge = cached.charge
        BY <2>3 DEF ChargedInv, ToldInv, Charged!StatusCharging
      <3> QED
        BY <2>1, <2>3, <3>1, Halves DEF Charged!StatusCharging
    <2>4. CASE Charged!StatusSend(t)
      <3>1. valid => got[t] = cached
        BY <2>4 DEF ChargedInv, ToldInv, Charged!StatusSend
      <3> QED
        BY <2>1, <2>4, <3>1, Halves DEF Charged!StatusSend
    <2> QED
      BY <2>2, <2>3, <2>4
  <1>4. /\ at'[t] = where /\ got'[t] = what
        /\ \A u \in Charged!Thread : u # t => at'[u] = at[u]
    BY <1>3, GoesOn DEF ChargedInv
  <1>5. \A u \in Charged!Thread : u # t => ~Charged!Busy(u)' /\ at'[u] # "half" /\ at'[u] # "send"
    BY <1>2, <1>4 DEF Charged!Busy
  <1>6. Charged!Busy(t)' <=> where # "idle"
    BY <1>4 DEF Charged!Busy
  <1>7. \A u, v \in Charged!Thread : Charged!Busy(u)' /\ Charged!Busy(v)' => u = v
    BY <1>5
  <1>8. valid' /\ (\A u \in Charged!Thread : ~Charged!Busy(u)') => told' = Charged!Sent(cached')
    <2>1. Charged!Sent(cached)' = Charged!Sent(cached)
      BY <1>1 DEF Charged!Sent
    <2> QED
      BY <1>1, <1>3, <1>6, <2>1 DEF Charged!Sent
  <1>9. valid' => \A u \in Charged!Thread :
          /\ at'[u] = "half" => got'[u].charge = cached'.charge
          /\ at'[u] = "send" => got'[u] = cached'
    BY <1>1, <1>3, <1>4, <1>5
  <1> QED
    BY <1>7, <1>8, <1>9 DEF ToldInv

\* Of the console's battery the phone is told the newest value last.
LEMMA ToldStep == ASSUME ChargedInv, Charged!Next PROVE ToldInv'
  <1>0. Charged!TypeOK /\ {"main", "io", "conn"} = Charged!Thread
    BY DEF ChargedInv, Charged!Thread
  <1>1. CASE Charged!Drain
    BY <1>1 DEF Charged!Drain, ChargedInv, ToldInv, Charged!Busy
  <1>2. CASE Charged!Connect
    <2>1. ~Charged!Busy("conn") /\ Charged!Goes("conn", "read", Charged!Unknown) /\ UNCHANGED <<cached, valid, told, crossed>>
      BY <1>2 DEF Charged!Connect, Charged!Busy
    <2> QED
      BY <1>0, <2>1, RestKeeps, Halves
  <1>3. CASE Charged!ConnectRead
    <2>1. ~Charged!Busy("conn") /\ UNCHANGED <<cached, valid, told>> /\ battery \in Charged!Status
      BY <1>0, <1>3 DEF Charged!ConnectRead, Charged!Busy, Charged!TypeOK
    <2>2. CASE Charged!Goes("conn", "store", battery) /\ crossed' = Charged!OtherBusy("conn")
      BY <1>0, <2>1, <2>2, BeginKeeps
    <2>3. CASE Charged!Goes("conn", "idle", Charged!Unknown) /\ UNCHANGED crossed
      BY <1>0, <2>1, <2>3, RestKeeps, Halves
    <2> QED
      BY <1>3, <2>2, <2>3 DEF Charged!ConnectRead
  <1>4. CASE Charged!ConnectCharge
    <2>1. Charged!Busy("conn") /\ Charged!Goes("conn", "charging", got["conn"]) /\ UNCHANGED crossed
      BY <1>4 DEF Charged!ConnectCharge, Charged!Busy
    <2> QED
      BY <1>0, <2>1, StoreKeeps, Halves
  <1>5. CASE Charged!Poll
    <2>1. ~Charged!Busy("main") /\ Charged!Goes("main", "compare", battery) /\ UNCHANGED <<cached, valid, told, crossed>>
      BY <1>5 DEF Charged!Poll, Charged!Busy
    <2>2. battery \in Charged!Status
      BY <1>0 DEF Charged!TypeOK
    <2> QED
      BY <1>0, <2>1, <2>2, RestKeeps
  <1>6. CASE Charged!PollCharge
    <2>1. ~Charged!Busy("main") /\ UNCHANGED <<valid, told>>
      BY <1>6 DEF Charged!PollCharge, Charged!Busy
    <2>2. CASE Charged!Goes("main", "charging", got["main"]) /\ crossed' = Charged!OtherBusy("main")
      BY <1>0, <2>1, <2>2, BeginKeeps, Halves
    <2>3. CASE Charged!Goes("main", "idle", Charged!Unknown) /\ UNCHANGED <<cached, crossed>>
      BY <1>0, <2>1, <2>3, RestKeeps, Halves
    <2> QED
      BY <1>6, <2>2, <2>3 DEF Charged!PollCharge
  <1>7. CASE Charged!Ask
    <2>1. /\ ~Charged!Busy("io") /\ Charged!Goes("io", "status", Charged!Unknown)
          /\ Charged!OtherBusy("io") => crossed'
      BY <1>7 DEF Charged!Ask, Charged!Busy
    <2> QED
      BY <1>0, <2>1, BeginKeeps, Halves
  <1>8. ASSUME NEW t \in Charged!Thread, Charged!StoreCharging(t) PROVE ToldInv'
    <2>1. Charged!Busy(t) /\ Charged!Goes(t, "status", Charged!Unknown) /\ UNCHANGED crossed
      BY <1>8 DEF Charged!StoreCharging, Charged!Busy
    <2> QED
      BY <1>0, <2>1, StoreKeeps, Halves
  <1>9. CASE UNCHANGED Charged!ownVars
    BY <1>9 DEF Charged!ownVars, ChargedInv, ToldInv, Charged!Busy, Charged!Sent
  <1> QED
    BY <1>1, <1>2, <1>3, <1>4, <1>5, <1>6, <1>7, <1>8, <1>9, StatusKeeps
    DEF Charged!Next, Charged!ReportCharge, Charged!ReportCharging, Charged!ReadCharge, Charged!ReadCharging

\* Of the phone's battery the overlay reads a status that was reported.
LEMMA ReportStep == ASSUME ChargedInv, Charged!Next PROVE ReportInv'
  <1> USE DEF ChargedInv, ReportInv, Charged!phoneVars, Charged!TypeOK
  <1>1. CASE UNCHANGED Charged!phoneVars
    BY <1>1
  <1>2. CASE Charged!ReportCharge
    BY <1>2, RemoteHalves DEF Charged!ReportCharge
  <1>3. CASE Charged!ReportCharging
    <2>1. remote' = phone
      BY <1>3, RemoteHalves DEF Charged!ReportCharging
    <2> QED
      BY <1>3, <2>1 DEF Charged!ReportCharging
  <1>4. CASE Charged!ReadCharge
    BY <1>4, RemoteHalves DEF Charged!ReadCharge
  <1>5. CASE Charged!ReadCharging
    <2>1. ~met => overlay' = remote
      BY <1>5, RemoteHalves DEF Charged!ReadCharging
    <2> QED
      BY <1>5, <2>1 DEF Charged!ReadCharging
  <1> QED
    BY <1>1, <1>2, <1>3, <1>4, <1>5
    DEF Charged!Next, Charged!Drain, Charged!Connect, Charged!ConnectRead, Charged!ConnectCharge,
        Charged!Poll, Charged!PollCharge, Charged!Ask, Charged!StoreCharging,
        Charged!StatusCharge, Charged!StatusCharging, Charged!StatusSend

\* The types of what is known of a battery.
LEMMA ChargedTypes == ASSUME ChargedInv, Charged!Next PROVE Charged!TypeOK'
  <1>0. MaxTurns \in Nat /\ Charged!TypeOK /\ {"main", "io", "conn"} = Charged!Thread
    BY PeerAssumption DEF ChargedInv, Charged!Thread
  <1>1. acts < MaxTurns /\ acts' = acts + 1 => acts' \in 0 .. MaxTurns
    BY <1>0 DEF Charged!TypeOK
  <1> DEFINE Stages == {"idle", "read", "compare", "store", "charging", "status", "half", "send"}
             Goes == \E t \in Charged!Thread, where \in Stages, what \in Charged!Status : Charged!Goes(t, where, what)
  <1>2. Goes => /\ at' \in [Charged!Thread -> Stages]
                /\ got' \in [Charged!Thread -> Charged!Status]
    BY <1>0, GoesOn
  <1> HIDE DEF Goes
  <1>3. CASE Charged!Drain
    BY <1>0, <1>1, <1>3 DEF Charged!Drain, Charged!Act, Charged!TypeOK, Charged!phoneVars
  <1>4. CASE Charged!Connect \/ Charged!Ask
    <2>1. Goes
      BY <1>0, <1>4, Halves DEF Charged!Connect, Charged!Ask, Goes
    <2> QED
      BY <1>0, <1>1, <1>2, <1>4, <2>1
      DEF Charged!Connect, Charged!Ask, Charged!Act, Charged!OtherBusy, Charged!TypeOK, Charged!phoneVars
  <1>5. CASE Charged!ConnectRead \/ Charged!Poll
    <2>1. battery \in Charged!Status
      BY <1>0 DEF Charged!TypeOK
    <2>2. Goes
      BY <1>0, <1>5, <2>1, Halves DEF Charged!ConnectRead, Charged!Poll, Goes
    <2> QED
      BY <1>0, <1>2, <1>5, <2>2
      DEF Charged!ConnectRead, Charged!Poll, Charged!OtherBusy, Charged!TypeOK, Charged!phoneVars
  <1>6. CASE Charged!ConnectCharge
    <2>1. Goes
      BY <1>0, <1>6, Halves DEF Charged!ConnectCharge, Goes
    <2>2. cached' \in Charged!Status
      BY <1>0, <1>6, Halves DEF Charged!ConnectCharge
    <2> QED
      BY <1>0, <1>2, <1>6, <2>1, <2>2 DEF Charged!ConnectCharge, Charged!TypeOK, Charged!phoneVars
  <1>7. CASE Charged!PollCharge
    <2>1. Goes
      BY <1>0, <1>7, Halves DEF Charged!PollCharge, Goes
    <2>2. cached' \in Charged!Status
      BY <1>0, <1>7, Halves DEF Charged!PollCharge, Charged!TypeOK
    <2> QED
      BY <1>0, <1>2, <1>7, <2>1, <2>2
      DEF Charged!PollCharge, Charged!OtherBusy, Charged!TypeOK, Charged!phoneVars
  <1>8. ASSUME NEW t \in Charged!Thread, Charged!StoreCharging(t) PROVE Charged!TypeOK'
    <2>1. Goes
      BY <1>0, <1>8, Halves DEF Charged!StoreCharging, Goes
    <2>2. cached' \in Charged!Status
      BY <1>0, <1>8, Halves DEF Charged!StoreCharging
    <2> QED
      BY <1>0, <1>2, <1>8, <2>1, <2>2 DEF Charged!StoreCharging, Charged!TypeOK, Charged!phoneVars
  <1>9. ASSUME NEW t \in Charged!Thread, Charged!StatusCharge(t) \/ Charged!StatusCharging(t) PROVE Charged!TypeOK'
    <2>1. battery \in Charged!Status
      BY <1>0 DEF Charged!TypeOK
    <2>2. Goes
      BY <1>0, <1>9, <2>1, Halves DEF Charged!StatusCharge, Charged!StatusCharging, Goes
    <2> QED
      BY <1>0, <1>2, <1>9, <2>2 DEF Charged!StatusCharge, Charged!StatusCharging, Charged!TypeOK, Charged!phoneVars
  <1>10. ASSUME NEW t \in Charged!Thread, Charged!StatusSend(t) PROVE Charged!TypeOK'
    <2>1. Goes
      BY <1>0, <1>10, Halves DEF Charged!StatusSend, Goes
    <2>2. told' \in [charge : Charge, charging : BOOLEAN, low : BOOLEAN]
      BY <1>0, <1>10, SentIsReport, Halves DEF Charged!StatusSend
    <2> QED
      BY <1>0, <1>2, <1>10, <2>1, <2>2 DEF Charged!StatusSend, Charged!TypeOK, Charged!phoneVars
  <1>11. CASE Charged!ReportCharge
    BY <1>0, <1>1, <1>11, RemoteHalves DEF Charged!ReportCharge, Charged!Act, Charged!TypeOK, Charged!ownVars
  <1>12. CASE Charged!ReportCharging
    BY <1>0, <1>12, RemoteHalves DEF Charged!ReportCharging, Charged!TypeOK, Charged!ownVars
  <1>13. CASE Charged!ReadCharge
    BY <1>0, <1>13, RemoteHalves DEF Charged!ReadCharge, Charged!TypeOK, Charged!ownVars
  <1>14. CASE Charged!ReadCharging
    BY <1>0, <1>14, RemoteHalves DEF Charged!ReadCharging, Charged!TypeOK, Charged!ownVars
  <1> QED
    BY <1>3, <1>4, <1>5, <1>6, <1>7, <1>8, <1>9, <1>10, <1>11, <1>12, <1>13, <1>14 DEF Charged!Next

\* Every step of the battery plugin keeps the invariant.
LEMMA ChargedStep == ChargedInv /\ [Charged!Next]_batteryVars => ChargedInv'
  <1>1. CASE UNCHANGED batteryVars
    BY <1>1 DEF batteryVars, ChargedInv, Charged!TypeOK, ToldInv, ReportInv, Charged!Busy, Charged!Sent
  <1> QED
    BY <1>1, ChargedTypes, ToldStep, ReportStep DEF ChargedInv

\* The invariant is what the part promises.
LEMMA ChargedHolds == ChargedInv => Charged!TypeOK /\ Charged!ToldIsTrue /\ Charged!OverlayIsReported
  <1> SUFFICES ASSUME ChargedInv PROVE Charged!TypeOK /\ Charged!ToldIsTrue /\ Charged!OverlayIsReported
    OBVIOUS
  <1>1. (\A t \in Charged!Thread : at[t] = "idle") => \A t \in Charged!Thread : ~Charged!Busy(t)
    BY DEF Charged!Busy
  <1>2. Charged!ToldIsTrue
    BY <1>1 DEF ChargedInv, ToldInv, Charged!ToldIsTrue, Charged!Changed
  <1> QED
    BY <1>2 DEF ChargedInv, ReportInv, Charged!OverlayIsReported

-----------------------------------------------------------------------------

(* Commands: what a phone is offered, and what runs for it.                 *)

\* A list that is under way was read from the setting as it is, unless that has
\* changed since, and an order whose phone could have run it since is remembered so.
OrdersInv ==
  /\ Orders!TypeOK
  /\ \A p \in Phone : ioDoes[p] = "send" /\ ~stale[p] => ioSaw[p] = allowed
  /\ Orders!OfferIsAllowed
  /\ \A p \in Phone : ioDoes[p] = "run" /\ allowed => could[p]
  /\ ~wrong

\* No phone has been told of a command at first.
LEMMA OrdersInit == Orders!Init => OrdersInv
  <1> SUFFICES ASSUME Orders!Init PROVE OrdersInv
    OBVIOUS
  <1>1. MaxSteps \in Nat
    BY PeerAssumption
  <1>2. order \in [Phone -> Orders!Command]
    BY DEF Orders!Init, Orders!Command
  <1>4. ioSaw \in [Phone -> BOOLEAN] /\ offered \in [Phone -> BOOLEAN]
    <2>1. allowed \in BOOLEAN /\ ioSaw = [p \in Phone |-> allowed] /\ offered = [p \in Phone |-> allowed]
      BY DEF Orders!Init
    <2> QED
      BY <2>1
  <1>5. stale \in [Phone -> BOOLEAN] /\ could \in [Phone -> BOOLEAN] /\ ioDoes \in [Phone -> {"idle", "send", "run"}]
    BY DEF Orders!Init
  <1>6. allowed \in BOOLEAN /\ wrong \in BOOLEAN /\ resend \in SUBSET Phone /\ steps \in 0 .. MaxSteps
    <2>1. allowed \in BOOLEAN /\ wrong = FALSE /\ resend = {} /\ steps = 0
      BY DEF Orders!Init
    <2>2. {} \in SUBSET Phone /\ 0 \in 0 .. MaxSteps
      BY <1>1
    <2> QED
      BY <2>1, <2>2
  <1>3. Orders!TypeOK
    BY <1>2, <1>4, <1>5, <1>6 DEF Orders!TypeOK
  <1> QED
    BY <1>3 DEF Orders!Init, OrdersInv, Orders!OfferIsAllowed

\* Every step of the commands keeps the invariant.
LEMMA OrdersNext == ASSUME OrdersInv, Orders!Next PROVE OrdersInv'
  <1> USE DEF OrdersInv, Orders!TypeOK, Orders!OfferIsAllowed
  <1>1. MaxSteps \in Nat
    BY PeerAssumption
  <1>2. Orders!Count => steps' \in 0 .. MaxSteps
    BY <1>1 DEF Orders!Count
  <1>3. ASSUME NEW on \in BOOLEAN, Orders!WriteSetting(on) PROVE OrdersInv'
    <2>1. Orders!TypeOK'
      BY <1>2, <1>3 DEF Orders!WriteSetting
    <2> QED
      BY <1>3, <2>1 DEF Orders!WriteSetting
  <1>4. ASSUME NEW p \in Phone, Orders!Resend(p) PROVE OrdersInv'
    BY <1>4 DEF Orders!Resend
  <1>5. ASSUME NEW p \in Phone, Orders!AskList(p) PROVE OrdersInv'
    <2>1. Orders!TypeOK'
      BY <1>2, <1>5 DEF Orders!AskList
    <2> QED
      BY <1>5, <2>1 DEF Orders!AskList
  <1>6. ASSUME NEW p \in Phone, Orders!SendList(p) PROVE OrdersInv'
    BY <1>6 DEF Orders!SendList
  <1>7. ASSUME NEW p \in Phone, Orders!RunCommand(p) PROVE OrdersInv'
    <2>1. ~wrong'
      BY <1>7 DEF Orders!RunCommand, Orders!MayRun
    <2> QED
      BY <1>7, <2>1 DEF Orders!RunCommand
  <1>8. ASSUME NEW p \in Phone, NEW c \in Orders!Command, Orders!AskCommand(p, c) PROVE OrdersInv'
    <2>1. Orders!TypeOK'
      BY <1>2, <1>8 DEF Orders!AskCommand
    <2> QED
      BY <1>8, <2>1 DEF Orders!AskCommand
  <1> QED
    BY <1>3, <1>4, <1>5, <1>6, <1>7, <1>8 DEF Orders!Next

\* So does a step of another part.
LEMMA OrdersStep == OrdersInv /\ [Orders!Next]_commandsVars => OrdersInv'
  <1>1. CASE UNCHANGED commandsVars
    BY <1>1 DEF commandsVars, OrdersInv, Orders!TypeOK, Orders!OfferIsAllowed
  <1> QED
    BY <1>1, OrdersNext

\* The invariant is what the part promises.
LEMMA OrdersHold == OrdersInv => Orders!TypeOK /\ Orders!OfferIsAllowed /\ Orders!PowerIsAllowed
  BY DEF OrdersInv, Orders!PowerIsAllowed

-----------------------------------------------------------------------------

(* Volume: the console is as loud as the phone that turned it last believes. *)

\* A session's volume_ is what its phone has asked for, if it has, and at most one
\* phone has turned the console last.
OwnInv ==
  /\ Own!TypeOK
  /\ \A p \in Phone : asked[p] # Own!Absent => asked[p] = volOf[p]
  /\ \A p, q \in turner : p = q
  /\ Own!SaidIsSo

\* No phone has turned the volume at first.
LEMMA OwnInit == Own!Init => OwnInv
  <1>1. MaxTurnings \in Nat /\ AtStart \in Level
    BY PeerAssumption
  <1> QED
    BY <1>1 DEF Own!Init, OwnInv, Own!TypeOK, Own!SaidIsSo, Own!Absent

\* Every step of the volume plugin keeps the invariant.
LEMMA OwnNext == ASSUME OwnInv, Own!Next PROVE OwnInv'
  <1> USE DEF OwnInv, Own!TypeOK, Own!SaidIsSo, Own!Absent
  <1>1. MaxTurnings \in Nat /\ Level \subseteq Nat /\ 0 \in Level /\ AtStart \in Level
    BY PeerAssumption
  <1>2. Own!Count => turnings' \in 0 .. MaxTurnings
    BY <1>1 DEF Own!Count
  <1>3. -1 \notin Nat
    OBVIOUS
  <1>4. CASE Own!UserTurns
    BY <1>2, <1>4 DEF Own!UserTurns
  <1>5. ASSUME NEW p \in Phone, Own!Connect(p) PROVE OwnInv'
    <2>1. Own!TypeOK'
      BY <1>1, <1>2, <1>5 DEF Own!Connect
    <2> QED
      BY <1>5, <2>1 DEF Own!Connect
  <1>6. ASSUME NEW p \in Phone, NEW v \in Level \cup {Own!Absent}, NEW mute \in {{}, {TRUE}, {FALSE}},
               Own!Request(p, v, mute)
        PROVE  OwnInv'
    <2>1. volOf' \in [Phone -> Level] /\ volOf'[p] = (IF v = Own!Absent THEN volOf[p] ELSE v)
      BY <1>6 DEF Own!Request
    <2>2. muteOf' \in [Phone -> BOOLEAN] /\ muteOf'[p] = (IF mute = {} THEN muteOf[p] ELSE TRUE \in mute)
      <3>1. (TRUE \in mute) \in BOOLEAN
        OBVIOUS
      <3> QED
        BY <1>6, <3>1 DEF Own!Request
    <2>3. asked' \in [Phone -> Level \cup {Own!Absent}] /\ asked'[p] = (IF v = Own!Absent THEN asked[p] ELSE v)
      BY <1>6 DEF Own!Request
    <2>4. master' \in Level
      BY <1>1, <1>6, <2>1 DEF Own!Request, Own!Lowered
    <2>5. Own!TypeOK'
      BY <1>2, <1>6, <2>1, <2>2, <2>3, <2>4 DEF Own!Request
    <2>6. \A q \in Phone : asked'[q] # Own!Absent => asked'[q] = volOf'[q]
      BY <1>6, <2>1, <2>3 DEF Own!Request
    <2>7. turner' = {p}
      BY <1>6 DEF Own!Request
    <2>8. CASE mute # {}
      <3>1. master' = IF muteOf'[p] THEN 0 ELSE volOf'[p]
        BY <1>6, <2>2, <2>8 DEF Own!Request, Own!Lowered
      <3> QED
        BY <2>5, <2>6, <2>7, <3>1
    <2>9. CASE mute = {}
      <3>1. master' = v /\ v # Own!Absent /\ muteOf'[p] = muteOf[p] /\ asked'[p] = v
        BY <1>6, <2>2, <2>3, <2>9 DEF Own!Request
      <3>2. p \notin unmuted' => ~(muteOf[p] /\ v > 0)
        BY <1>6, <2>9 DEF Own!Request
      <3>3. v \in Nat
        BY <1>1, <3>1
      <3>4. ~(v > 0) => v = 0
        BY <3>3
      <3> QED
        BY <2>5, <2>6, <2>7, <3>1, <3>2, <3>4
    <2> QED
      BY <2>8, <2>9
  <1> QED
    BY <1>4, <1>5, <1>6 DEF Own!Next

\* So does a step of another part.
LEMMA OwnStep == OwnInv /\ [Own!Next]_volumeVars => OwnInv'
  <1>1. CASE UNCHANGED volumeVars
    BY <1>1 DEF volumeVars, OwnInv, Own!TypeOK, Own!SaidIsSo
  <1> QED
    BY <1>1, OwnNext

\* The invariant is what the part promises.
LEMMA OwnHolds == OwnInv => Own!TypeOK /\ Own!SaidIsSo
  BY DEF OwnInv

-----------------------------------------------------------------------------

(* JSON documents: each has one owner, and a body acts as a value.          *)

\* A body without a document of its own has none, or is the view that an iteration
\* lends of the body that it iterates, of a field that is an object.
BodyInv(b) ==
  /\ doc[b] = NoDoc => root[b] = "root" /\ ~owns[b]
  /\ owns[b] => root[b] = "root"
  /\ doc[b] # NoDoc /\ ~owns[b] =>
       /\ root[b] = "o" /\ lent # NoDoc
       /\ doc[b] = doc[lent] /\ heap[doc[b]].o # "none"

IsView(b) == doc[b] # NoDoc /\ ~owns[b]

JsonInv ==
  /\ Json!TypeOK /\ Json!OneOwner /\ Json!ActsAsValue
  /\ \A b \in Body : BodyInv(b)
  /\ lent # NoDoc => owns[lent]
  /\ \A b, c \in Body : IsView(b) /\ IsView(c) => b = c

\* A freed document holds no tree, and what a body is empty as is one.
LEMMA FreedIsNoTree ==
  /\ Json!Freed \notin Json!Tree
  /\ Json!Empty \in Json!Tree
  /\ "none" \notin Json!Field
  /\ NoDoc \notin Body /\ NoDoc \notin Doc
  /\ \A t \in Json!Tree : Json!Child(t) \in Json!Tree /\ Json!Child(t).o = "none"
  <1>1. NoDoc \notin Body /\ NoDoc \notin Doc /\ "none" \notin Scalar /\ "freed" \notin Scalar
    BY PeerAssumption
  <1> QED
    BY <1>1 DEF Json!Freed, Json!Tree, Json!Field, Json!Empty, Json!Child

\* The value of a body is a tree.
LEMMA ValueIsTree ==
  ASSUME JsonInv, NEW b \in Body
  PROVE  Json!Value(b) \in Json!Tree
  <1>1. CASE doc[b] = NoDoc
    BY <1>1, FreedIsNoTree DEF Json!Value
  <1>2. CASE doc[b] # NoDoc
    <2>1. heap[doc[b]] \in Json!Tree
      BY <1>2 DEF JsonInv, Json!TypeOK, Json!OneOwner, Json!Alive
    <2>2. root[b] # "root" => heap[doc[b]].o # "none"
      BY <1>2 DEF JsonInv, BodyInv
    <2> QED
      BY <1>2, <2>1, <2>2 DEF Json!Value, Json!At, Json!Tree
  <1> QED
    BY <1>1, <1>2

\* Every body starts without a document.
LEMMA JsonInit == Json!Init => JsonInv
  BY FreedIsNoTree DEF Json!Init, JsonInv, BodyInv, IsView, Json!TypeOK, Json!OneOwner, Json!ActsAsValue, Json!Alive, Json!Value

\* A body gets a document that nobody has, and only the one that it owned is freed.
LEMMA OwnKeeps ==
  ASSUME JsonInv, NEW b \in Body, NEW tree \in Json!Tree, Json!Mine(b), Json!Own(b, tree, tree)
  PROVE  JsonInv'
  <1> USE DEF JsonInv, Json!TypeOK
  <1>0. lent # b /\ lent' = lent /\ root[b] = "root"
    BY DEF Json!Own, Json!Idle, Json!Mine
  <1>1. PICK d \in Doc \ Json!Alive :
          /\ heap' = [e \in Doc |-> IF e = d THEN tree
                                    ELSE IF owns[b] /\ e = doc[b] THEN Json!Freed ELSE heap[e]]
          /\ doc' = [doc EXCEPT ![b] = d]
    BY DEF Json!Own
  <1>2. /\ root' = [root EXCEPT ![b] = "root"]
        /\ owns' = [owns EXCEPT ![b] = TRUE]
        /\ meant' = [meant EXCEPT ![b] = tree]
    BY DEF Json!Own
  <1>3. /\ heap' \in [Doc -> Json!Tree \cup {Json!Freed}]
        /\ doc' \in [Body -> Doc \cup {NoDoc}]
        /\ doc'[b] = d /\ root'[b] = "root" /\ owns'[b] /\ meant'[b] = tree /\ heap'[d] = tree
        /\ d # NoDoc
    BY <1>1, <1>2, FreedIsNoTree
  <1>4. Json!TypeOK'
    BY <1>0, <1>2, <1>3
  <1>5. ASSUME NEW c \in Body, c # b
        PROVE  /\ doc'[c] = doc[c] /\ root'[c] = root[c] /\ owns'[c] = owns[c] /\ meant'[c] = meant[c]
               /\ doc[c] # NoDoc => doc[c] # d /\ heap'[doc[c]] = heap[doc[c]]
    <2>1. doc'[c] = doc[c] /\ root'[c] = root[c] /\ owns'[c] = owns[c] /\ meant'[c] = meant[c]
      BY <1>1, <1>2, <1>5
    <2>2. doc[c] # NoDoc => doc[c] \in Json!Alive
      BY DEF Json!OneOwner
    <2>3. doc[c] # NoDoc /\ owns[b] => doc[c] # doc[b]
      <3>1. owns[c] => doc[c] # doc[b] \/ ~owns[b]
        BY <1>5 DEF Json!OneOwner
      <3>2. doc[c] # NoDoc /\ ~owns[c] => doc[c] = doc[lent] /\ owns[lent] /\ lent \in Body
        BY FreedIsNoTree DEF BodyInv
      <3> QED
        BY <1>0, <3>1, <3>2 DEF Json!OneOwner
    <2>4. doc[c] # NoDoc => doc[c] \in Doc
      OBVIOUS
    <2> QED
      BY <1>1, <2>1, <2>2, <2>3, <2>4
  <1>6. Json!ActsAsValue'
    <2>1. Json!Value(b)' = tree
      BY <1>3 DEF Json!Value, Json!At
    <2>2. ASSUME NEW c \in Body, c # b PROVE Json!Value(c)' = Json!Value(c)
      BY <1>5, <2>2 DEF Json!Value, Json!At
    <2> QED
      BY <1>3, <1>5, <2>1, <2>2 DEF Json!ActsAsValue
  <1>7. \A c \in Body : BodyInv(c)'
    <2>1. BodyInv(b)'
      BY <1>3 DEF BodyInv
    <2>2. ASSUME NEW c \in Body, c # b PROVE BodyInv(c)'
      <3>1. lent # NoDoc => doc'[lent] = doc[lent]
        BY <1>0, <1>5, FreedIsNoTree
      <3> QED
        BY <1>0, <1>5, <2>2, <3>1 DEF BodyInv
    <2> QED
      BY <2>1, <2>2
  <1>8. Json!OneOwner'
    <2>1. ASSUME NEW e \in Doc, heap'[e] # Json!Freed PROVE \E c \in Body : owns'[c] /\ doc'[c] = e
      <3>1. CASE e = d
        BY <1>3, <3>1
      <3>2. CASE e # d
        <4>1. heap[e] # Json!Freed /\ ~(owns[b] /\ e = doc[b])
          BY <1>1, <2>1, <3>2
        <4>2. PICK c \in Body : owns[c] /\ doc[c] = e
          BY <4>1 DEF Json!OneOwner, Json!Alive
        <4> QED
          BY <1>5, <4>1, <4>2
      <3> QED
        BY <3>1, <3>2
    <2>2. ASSUME NEW a \in Body, NEW c \in Body, owns'[a], owns'[c], doc'[a] = doc'[c] PROVE a = c
      <3>1. \A f \in Body : f # b /\ owns'[f] => owns[f] /\ doc'[f] = doc[f] /\ doc[f] # NoDoc /\ doc[f] # d
        BY <1>5 DEF BodyInv
      <3> QED
        BY <1>3, <2>2, <3>1 DEF Json!OneOwner
    <2>3. ASSUME NEW c \in Body, doc'[c] # NoDoc PROVE doc'[c] \in Doc /\ heap'[doc'[c]] # Json!Freed
      <3>1. CASE c = b
        BY <1>3, <3>1, FreedIsNoTree
      <3>2. CASE c # b
        BY <1>3, <1>5, <2>3, <3>2 DEF Json!OneOwner, Json!Alive
      <3> QED
        BY <3>1, <3>2
    <2> QED
      BY <2>1, <2>2, <2>3 DEF Json!OneOwner, Json!Alive
  <1>9. lent' # NoDoc => owns'[lent']
    BY <1>0, <1>5, FreedIsNoTree
  <1>10. \A c \in Body : IsView(c)' => IsView(c)
    BY <1>3, <1>5 DEF IsView
  <1> QED
    BY <1>4, <1>6, <1>7, <1>8, <1>9, <1>10

\* A tree is written into the document of a body that owns it: no other body refers to
\* that document unless the body is being iterated, and then it is not written.
LEMMA WriteKeeps ==
  ASSUME JsonInv, NEW b \in Body, NEW tree \in Json!Tree, Json!Mine(b), Json!Write(b, tree, tree)
  PROVE  JsonInv'
  <1> USE DEF JsonInv, Json!TypeOK
  <1>1. lent # b /\ lent' = lent /\ doc' = doc /\ root' = root /\ owns' = owns /\ root[b] = "root"
    BY DEF Json!Write, Json!Idle, Json!Mine
  <1>2. CASE doc[b] = NoDoc
    <2>1. heap' = heap /\ meant' = meant
      BY <1>2 DEF Json!Write
    <2> QED
      BY <1>1, <2>1 DEF BodyInv, IsView, Json!OneOwner, Json!ActsAsValue, Json!Value, Json!At, Json!Alive
  <1>3. CASE doc[b] # NoDoc
    <2>1. heap' = [heap EXCEPT ![doc[b]] = tree] /\ meant' = [meant EXCEPT ![b] = tree]
      BY <1>3 DEF Json!Write
    <2>2. owns[b] /\ doc[b] \in Doc
      BY <1>1, <1>3 DEF BodyInv
    <2>3. heap' \in [Doc -> Json!Tree \cup {Json!Freed}] /\ heap'[doc[b]] = tree /\ meant'[b] = tree
      BY <2>1, <2>2
    <2>4. Json!TypeOK'
      BY <1>1, <2>1, <2>3
    <2>5. ASSUME NEW c \in Body, c # b, doc[c] # NoDoc PROVE doc[c] # doc[b] /\ heap'[doc[c]] = heap[doc[c]]
      <3>1. CASE owns[c]
        BY <2>1, <2>2, <2>5, <3>1 DEF Json!OneOwner
      <3>2. CASE ~owns[c]
        <4>1. doc[c] = doc[lent] /\ owns[lent] /\ lent \in Body
          BY <2>5, <3>2, FreedIsNoTree DEF BodyInv
        <4>2. doc[lent] # doc[b]
          BY <1>1, <2>2, <4>1 DEF Json!OneOwner
        <4> QED
          BY <2>1, <2>2, <2>5, <4>1, <4>2
      <3> QED
        BY <3>1, <3>2
    <2>6. Json!ActsAsValue'
      <3>1. Json!Value(b)' = tree
        BY <1>1, <1>3, <2>3 DEF Json!Value, Json!At
      <3>2. ASSUME NEW c \in Body, c # b PROVE Json!Value(c)' = Json!Value(c) /\ meant'[c] = meant[c]
        BY <1>1, <2>1, <2>5, <3>2 DEF Json!Value, Json!At
      <3> QED
        BY <2>3, <3>1, <3>2 DEF Json!ActsAsValue
    <2>7. \A c \in Body : BodyInv(c)'
      BY <1>1, <2>2, <2>5 DEF BodyInv
    <2>8. Json!OneOwner'
      <3>1. \A d \in Doc : heap'[d] # Json!Freed => heap[d] # Json!Freed \/ d = doc[b]
        BY <2>1
      <3>2. \A d \in Doc : heap[d] # Json!Freed => heap'[d] # Json!Freed
        BY <2>1, FreedIsNoTree
      <3> QED
        BY <1>1, <2>2, <3>1, <3>2 DEF Json!OneOwner, Json!Alive
    <2> QED
      BY <1>1, <2>4, <2>6, <2>7, <2>8 DEF IsView
  <1> QED
    BY <1>2, <1>3

\* What writes a field of a body writes the same into its value.
LEMMA WritersKeep ==
  ASSUME JsonInv, NEW b \in Body, Json!Mine(b),
         \/ Json!Set(b) \/ Json!SetArray(b)
         \/ \E c \in Body : Json!SetChild(b, c) \/ Json!CopyField(b, c)
  PROVE  JsonInv'
  <1>1. PICK tree \in Json!Tree : Json!Write(b, tree, tree)
    <2>1. \A c \in Body : Json!Value(c) = meant[c] /\ Json!Value(c) \in Json!Tree
      BY ValueIsTree DEF JsonInv, Json!ActsAsValue
    <2>2. CASE Json!Set(b)
      <3>1. PICK s \in Scalar : Json!Write(b, [Json!Value(b) EXCEPT !.s = s], [meant[b] EXCEPT !.s = s])
        BY <2>2 DEF Json!Set
      <3>2. [Json!Value(b) EXCEPT !.s = s] \in Json!Tree
        BY <2>1 DEF Json!Tree, Json!Field
      <3> QED
        BY <2>1, <3>1, <3>2
    <2>3. CASE Json!SetArray(b)
      <3>1. PICK s \in Json!Field : Json!Write(b, [Json!Value(b) EXCEPT !.o = s], [meant[b] EXCEPT !.o = s])
        BY <2>3 DEF Json!SetArray
      <3>2. [Json!Value(b) EXCEPT !.o = s] \in Json!Tree
        BY <2>1 DEF Json!Tree, Json!Field
      <3> QED
        BY <2>1, <3>1, <3>2
    <2>4. ASSUME NEW c \in Body, Json!SetChild(b, c)
          PROVE  \E tree \in Json!Tree : Json!Write(b, tree, tree)
      <3>1. Json!Write(b, [Json!Value(b) EXCEPT !.o = Json!Value(c).s], [meant[b] EXCEPT !.o = meant[c].s])
        BY <2>4 DEF Json!SetChild
      <3>2. [Json!Value(b) EXCEPT !.o = Json!Value(c).s] \in Json!Tree
        BY <2>1 DEF Json!Tree, Json!Field
      <3> QED
        BY <2>1, <3>1, <3>2
    <2>5. ASSUME NEW c \in Body, Json!CopyField(b, c)
          PROVE  \E tree \in Json!Tree : Json!Write(b, tree, tree)
      <3>1. Json!Write(b, [Json!Value(b) EXCEPT !.s = Json!Value(c).s], [meant[b] EXCEPT !.s = meant[c].s])
        BY <2>5 DEF Json!CopyField
      <3>2. [Json!Value(b) EXCEPT !.s = Json!Value(c).s] \in Json!Tree
        BY <2>1 DEF Json!Tree, Json!Field
      <3> QED
        BY <2>1, <3>1, <3>2
    <2> QED
      BY <2>2, <2>3, <2>4, <2>5
  <1> QED
    BY <1>1, WriteKeeps

\* What a body gets as a document of its own is its value.
LEMMA OwnersKeep ==
  ASSUME JsonInv, NEW b \in Body, Json!Mine(b),
         \/ Json!Parse(b)
         \/ \E c \in Body : Json!Copy(b, c) \/ Json!GetObj(b, c)
  PROVE  JsonInv'
  <1>1. \A c \in Body : Json!Value(c) = meant[c] /\ Json!Value(c) \in Json!Tree
    BY ValueIsTree DEF JsonInv, Json!ActsAsValue
  <1>2. CASE Json!Parse(b)
    BY <1>2, OwnKeeps DEF Json!Parse
  <1>3. ASSUME NEW c \in Body, Json!Copy(b, c) PROVE JsonInv'
    BY <1>1, <1>3, OwnKeeps DEF Json!Copy
  <1>4. ASSUME NEW c \in Body, Json!GetObj(b, c) PROVE JsonInv'
    <2>1. Json!Child(Json!Value(c)) \in Json!Tree
      BY <1>1, FreedIsNoTree
    <2> QED
      BY <1>1, <1>4, <2>1, OwnKeeps DEF Json!GetObj
  <1> QED
    BY <1>2, <1>3, <1>4

\* A body that is moved from has nothing left, and one that is moved to frees its own.
LEMMA MoveKeeps ==
  ASSUME JsonInv, NEW b \in Body, NEW c \in Body, Json!Mine(b), Json!Mine(c), Json!Move(b, c)
  PROVE  JsonInv'
  <1> USE DEF JsonInv, Json!TypeOK
  <1>1. b # c /\ lent # b /\ lent # c /\ lent' = lent /\ root[b] = "root" /\ root[c] = "root"
    BY DEF Json!Move, Json!Idle, Json!Mine
  <1>2. /\ heap' = [e \in Doc |-> IF owns[b] /\ e = doc[b] THEN Json!Freed ELSE heap[e]]
        /\ doc' = [doc EXCEPT ![b] = doc[c], ![c] = NoDoc]
        /\ root' = [root EXCEPT ![b] = root[c], ![c] = "root"]
        /\ owns' = [owns EXCEPT ![b] = owns[c], ![c] = FALSE]
        /\ meant' = [meant EXCEPT ![b] = meant[c], ![c] = Json!Empty]
    BY DEF Json!Move
  <1>3. /\ doc'[b] = doc[c] /\ root'[b] = "root" /\ owns'[b] = owns[c] /\ meant'[b] = meant[c]
        /\ doc'[c] = NoDoc /\ root'[c] = "root" /\ owns'[c] = FALSE /\ meant'[c] = Json!Empty
    BY <1>1, <1>2
  <1>4. ASSUME NEW e \in Body, e # b, e # c
        PROVE  doc'[e] = doc[e] /\ root'[e] = root[e] /\ owns'[e] = owns[e] /\ meant'[e] = meant[e]
    BY <1>2, <1>4
  <1>5. Json!TypeOK'
    BY <1>1, <1>2, FreedIsNoTree
  <1>6. \A e \in Body : e # b /\ doc[e] # NoDoc /\ owns[b] => doc[e] # doc[b]
    <2> SUFFICES ASSUME NEW e \in Body, e # b, doc[e] # NoDoc, owns[b] PROVE doc[e] # doc[b]
      OBVIOUS
    <2>1. CASE owns[e]
      BY <2>1 DEF Json!OneOwner
    <2>2. CASE ~owns[e]
      <3>1. doc[e] = doc[lent] /\ owns[lent] /\ lent \in Body
        BY <2>2, FreedIsNoTree DEF BodyInv
      <3> QED
        BY <1>1, <3>1 DEF Json!OneOwner
    <2> QED
      BY <2>1, <2>2
  <1>7. \A e \in Body : e # b /\ doc[e] # NoDoc => doc[e] \in Doc /\ heap'[doc[e]] = heap[doc[e]]
    BY <1>2, <1>6
  <1>8. Json!ActsAsValue'
    <2>1. Json!Value(b)' = Json!Value(c)
      BY <1>1, <1>3, <1>7 DEF Json!Value, Json!At
    <2>2. Json!Value(c)' = Json!Empty
      BY <1>3 DEF Json!Value
    <2>3. ASSUME NEW e \in Body, e # b, e # c PROVE Json!Value(e)' = Json!Value(e)
      BY <1>4, <1>7, <2>3 DEF Json!Value, Json!At
    <2> QED
      BY <1>3, <1>4, <2>1, <2>2, <2>3 DEF Json!ActsAsValue
  <1>9. \A e \in Body : BodyInv(e)'
    <2>1. BodyInv(b)'
      BY <1>1, <1>3 DEF BodyInv
    <2>2. BodyInv(c)'
      BY <1>3 DEF BodyInv
    <2>3. ASSUME NEW e \in Body, e # b, e # c PROVE BodyInv(e)'
      <3>1. lent # NoDoc => doc'[lent] = doc[lent]
        BY <1>1, <1>4
      <3> QED
        BY <1>1, <1>4, <1>7, <2>3, <3>1 DEF BodyInv
    <2> QED
      BY <2>1, <2>2, <2>3
  <1>10. Json!OneOwner'
    <2>1. ASSUME NEW d \in Doc, heap'[d] # Json!Freed PROVE \E e \in Body : owns'[e] /\ doc'[e] = d
      <3>1. heap[d] # Json!Freed /\ ~(owns[b] /\ d = doc[b])
        BY <1>2, <2>1
      <3>2. PICK e \in Body : owns[e] /\ doc[e] = d
        BY <3>1 DEF Json!OneOwner, Json!Alive
      <3>3. CASE e = c
        BY <1>3, <3>2, <3>3
      <3>4. CASE e # c
        BY <1>4, <3>1, <3>2, <3>4
      <3> QED
        BY <3>3, <3>4
    <2>2. ASSUME NEW e \in Body, NEW f \in Body, owns'[e], owns'[f], doc'[e] = doc'[f] PROVE e = f
      <3>1. e # c /\ f # c
        BY <1>3, <2>2
      <3> QED
        BY <1>1, <1>3, <1>4, <2>2, <3>1 DEF Json!OneOwner
    <2>3. ASSUME NEW e \in Body, doc'[e] # NoDoc PROVE doc'[e] \in Doc /\ heap'[doc'[e]] # Json!Freed
      <3>1. e # c
        BY <1>3, <2>3
      <3>2. CASE e = b
        BY <1>1, <1>3, <1>7, <2>3, <3>2 DEF Json!OneOwner, Json!Alive
      <3>3. CASE e # b
        BY <1>4, <1>7, <2>3, <3>1, <3>3 DEF Json!OneOwner, Json!Alive
      <3> QED
        BY <3>2, <3>3
    <2> QED
      BY <2>1, <2>2, <2>3 DEF Json!OneOwner, Json!Alive
  <1>11. lent' # NoDoc => owns'[lent']
    BY <1>1, <1>4
  <1>12. \A e \in Body : IsView(e)' => IsView(e) \/ (e = b /\ IsView(c))
    BY <1>3, <1>4 DEF IsView
  <1>13. ~IsView(c)
    BY <1>1 DEF IsView, BodyInv
  <1> QED
    BY <1>5, <1>8, <1>9, <1>10, <1>11, <1>12, <1>13

\* A destroyed body takes its document with it.
LEMMA DestroyKeeps ==
  ASSUME JsonInv, NEW b \in Body, Json!Mine(b), Json!Destroy(b)
  PROVE  JsonInv'
  <1> USE DEF JsonInv, Json!TypeOK
  <1>1. lent # b /\ doc[b] # NoDoc /\ lent' = lent /\ root[b] = "root"
    BY DEF Json!Destroy, Json!Idle, Json!Mine
  <1>2. owns[b] /\ doc[b] \in Doc
    BY <1>1 DEF BodyInv
  <1>3. /\ heap' = [heap EXCEPT ![doc[b]] = Json!Freed]
        /\ doc' = [doc EXCEPT ![b] = NoDoc] /\ owns' = [owns EXCEPT ![b] = FALSE]
        /\ root' = [root EXCEPT ![b] = "root"]
        /\ meant' = [meant EXCEPT ![b] = Json!Empty]
    BY <1>2 DEF Json!Destroy
  <1>4. Json!TypeOK'
    BY <1>1, <1>3, FreedIsNoTree
  <1>5. doc'[b] = NoDoc /\ root'[b] = "root" /\ owns'[b] = FALSE /\ meant'[b] = Json!Empty
    BY <1>3
  <1>6. ASSUME NEW e \in Body, e # b
        PROVE  /\ doc'[e] = doc[e] /\ root'[e] = root[e] /\ owns'[e] = owns[e] /\ meant'[e] = meant[e]
               /\ doc[e] # NoDoc => doc[e] # doc[b] /\ heap'[doc[e]] = heap[doc[e]]
    <2>1. doc'[e] = doc[e] /\ root'[e] = root[e] /\ owns'[e] = owns[e] /\ meant'[e] = meant[e]
      BY <1>3, <1>6
    <2>2. CASE owns[e]
      BY <1>2, <1>3, <1>6, <2>1, <2>2 DEF Json!OneOwner
    <2>3. CASE ~owns[e] /\ doc[e] # NoDoc
      <3>1. doc[e] = doc[lent] /\ owns[lent] /\ lent \in Body
        BY <2>3, FreedIsNoTree DEF BodyInv
      <3>2. doc[e] # doc[b]
        BY <1>1, <1>2, <3>1 DEF Json!OneOwner
      <3> QED
        BY <1>3, <2>1, <3>2
    <2> QED
      BY <2>1, <2>2, <2>3
  <1>7. Json!ActsAsValue'
    <2>1. Json!Value(b)' = Json!Empty
      BY <1>5 DEF Json!Value
    <2>2. ASSUME NEW e \in Body, e # b PROVE Json!Value(e)' = Json!Value(e)
      BY <1>6, <2>2 DEF Json!Value, Json!At
    <2> QED
      BY <1>5, <1>6, <2>1, <2>2 DEF Json!ActsAsValue
  <1>8. \A e \in Body : BodyInv(e)'
    <2>1. BodyInv(b)'
      BY <1>5 DEF BodyInv
    <2>2. ASSUME NEW e \in Body, e # b PROVE BodyInv(e)'
      <3>1. lent # NoDoc => doc'[lent] = doc[lent]
        BY <1>1, <1>6
      <3> QED
        BY <1>1, <1>6, <2>2, <3>1 DEF BodyInv
    <2> QED
      BY <2>1, <2>2
  <1>9. Json!OneOwner'
    <2>1. ASSUME NEW d \in Doc, heap'[d] # Json!Freed PROVE \E e \in Body : owns'[e] /\ doc'[e] = d
      <3>1. heap[d] # Json!Freed /\ d # doc[b]
        BY <1>2, <1>3, <2>1
      <3>2. PICK e \in Body : owns[e] /\ doc[e] = d
        BY <3>1 DEF Json!OneOwner, Json!Alive
      <3> QED
        BY <1>6, <3>1, <3>2
    <2>2. ASSUME NEW e \in Body, NEW f \in Body, owns'[e], owns'[f], doc'[e] = doc'[f] PROVE e = f
      BY <1>5, <1>6, <2>2 DEF Json!OneOwner
    <2>3. ASSUME NEW e \in Body, doc'[e] # NoDoc PROVE doc'[e] \in Doc /\ heap'[doc'[e]] # Json!Freed
      BY <1>5, <1>6, <2>3 DEF Json!OneOwner, Json!Alive
    <2> QED
      BY <2>1, <2>2, <2>3 DEF Json!OneOwner, Json!Alive
  <1>10. lent' # NoDoc => owns'[lent']
    BY <1>1, <1>6
  <1>11. \A e \in Body : IsView(e)' => IsView(e)
    BY <1>5, <1>6 DEF IsView
  <1> QED
    BY <1>4, <1>7, <1>8, <1>9, <1>10, <1>11

\* An iteration lends a view of a body that owns its document, which nothing changes
\* until the view is taken back.
LEMMA EachKeeps ==
  ASSUME JsonInv, NEW v \in Body,
         Json!EndEach(v) \/ \E b \in Body : Json!BeginEach(v, b)
  PROVE  JsonInv'
  <1> USE DEF JsonInv, Json!TypeOK
  <1>1. ASSUME NEW b \in Body, Json!BeginEach(v, b) PROVE JsonInv'
    <2>1. /\ lent = NoDoc /\ v # b /\ doc[v] = NoDoc /\ doc[b] # NoDoc /\ root[b] = "root" /\ heap[doc[b]].o # "none"
          /\ doc' = [doc EXCEPT ![v] = doc[b]] /\ root' = [root EXCEPT ![v] = "o"]
          /\ owns' = [owns EXCEPT ![v] = FALSE] /\ meant' = [meant EXCEPT ![v] = Json!Child(meant[b])]
          /\ lent' = b /\ heap' = heap
      BY <1>1 DEF Json!BeginEach
    <2>2. owns[b] /\ ~owns[v]
      BY <2>1 DEF BodyInv
    <2>3. doc'[v] = doc[b] /\ root'[v] = "o" /\ owns'[v] = FALSE /\ meant'[v] = Json!Child(meant[b])
      BY <2>1
    <2>4. ASSUME NEW e \in Body, e # v
          PROVE  doc'[e] = doc[e] /\ root'[e] = root[e] /\ owns'[e] = owns[e] /\ meant'[e] = meant[e]
      BY <2>1, <2>4
    <2>5. Json!TypeOK'
      <3>1. Json!Child(meant[b]) \in Json!Tree
        BY FreedIsNoTree
      <3> QED
        BY <2>1, <3>1
    <2>6. Json!ActsAsValue'
      <3>1. Json!Value(b) = meant[b] /\ Json!Value(b) = heap[doc[b]]
        BY <2>1 DEF Json!ActsAsValue, Json!Value, Json!At
      <3>2. Json!Value(v)' = Json!Child(meant[b])
        BY <2>1, <2>3, <3>1 DEF Json!Value, Json!At, Json!Child
      <3>3. ASSUME NEW e \in Body, e # v PROVE Json!Value(e)' = Json!Value(e)
        BY <2>1, <2>4, <3>3 DEF Json!Value, Json!At
      <3> QED
        BY <2>3, <2>4, <3>2, <3>3 DEF Json!ActsAsValue
    <2>7. \A e \in Body : BodyInv(e)'
      <3>1. BodyInv(v)'
        BY <2>1, <2>3, <2>4, FreedIsNoTree DEF BodyInv
      <3>2. ASSUME NEW e \in Body, e # v PROVE BodyInv(e)'
        BY <2>1, <2>4, <3>2 DEF BodyInv
      <3> QED
        BY <3>1, <3>2
    <2>8. Json!OneOwner'
      BY <2>1, <2>2, <2>3, <2>4 DEF Json!OneOwner, Json!Alive
    <2>9. \A e \in Body : IsView(e)' => e = v
      BY <2>1, <2>4 DEF IsView, BodyInv
    <2> QED
      BY <2>1, <2>2, <2>4, <2>5, <2>6, <2>7, <2>8, <2>9
  <1>2. CASE Json!EndEach(v)
    <2>1. /\ lent # NoDoc /\ root[v] = "o" /\ ~owns[v]
          /\ doc' = [doc EXCEPT ![v] = NoDoc] /\ root' = [root EXCEPT ![v] = "root"]
          /\ meant' = [meant EXCEPT ![v] = Json!Empty]
          /\ lent' = NoDoc /\ heap' = heap /\ owns' = owns
      BY <1>2 DEF Json!EndEach
    <2>2. doc'[v] = NoDoc /\ root'[v] = "root" /\ meant'[v] = Json!Empty
      BY <2>1
    <2>3. ASSUME NEW e \in Body, e # v
          PROVE  doc'[e] = doc[e] /\ root'[e] = root[e] /\ meant'[e] = meant[e]
      BY <2>1, <2>3
    <2>4. Json!TypeOK'
      BY <2>1, FreedIsNoTree
    <2>5. Json!ActsAsValue'
      <3>1. Json!Value(v)' = Json!Empty
        BY <2>2 DEF Json!Value
      <3>2. ASSUME NEW e \in Body, e # v PROVE Json!Value(e)' = Json!Value(e)
        BY <2>1, <2>3, <3>2 DEF Json!Value, Json!At
      <3> QED
        BY <2>2, <2>3, <3>1, <3>2 DEF Json!ActsAsValue
    <2>6. \A e \in Body : BodyInv(e)' /\ ~IsView(e)'
      BY <2>1, <2>2, <2>3 DEF BodyInv, IsView
    <2>7. Json!OneOwner'
      BY <2>1, <2>2, <2>3 DEF Json!OneOwner, Json!Alive
    <2> QED
      BY <2>1, <2>4, <2>5, <2>6, <2>7
  <1> QED
    BY <1>1, <1>2

\* Every call on a body, and a step of another part, keeps the invariant.
LEMMA JsonStep == JsonInv /\ [Json!Next]_jsonVars => JsonInv'
  <1>1. CASE UNCHANGED jsonVars
    BY <1>1 DEF jsonVars, JsonInv, BodyInv, IsView, Json!TypeOK, Json!OneOwner, Json!ActsAsValue, Json!Alive, Json!Value, Json!At
  <1>2. CASE JsonInv /\ Json!Next
    BY <1>2, OwnersKeep, WritersKeep, MoveKeeps, DestroyKeeps, EachKeeps DEF Json!Next
  <1> QED
    BY <1>1, <1>2

\* The invariant is what the part promises.
LEMMA JsonHolds == JsonInv => Json!TypeOK /\ Json!OneOwner /\ Json!ActsAsValue
  BY DEF JsonInv

-----------------------------------------------------------------------------

(* Media: one track with its own state, and a position that does not jump.  *)

\* No seek is applied before it was sent, the seeks on their way are later than what
\* the other device has applied, in their order, and no packet of it knows more than it.
SeeksInv ==
  /\ \A p \in Player : spot[p] <= seeks[p]
  /\ \A i \in 1 .. Len(inbox) : inbox[i].kind # "list" => inbox[i].after <= spot[inbox[i].player]
  /\ \A i \in 1 .. Len(outbox) :
       spot[outbox[i].player] < outbox[i].after /\ outbox[i].after <= seeks[outbox[i].player]
  /\ \A i, j \in 1 .. Len(outbox) :
       i < j /\ outbox[i].player = outbox[j].player => outbox[i].after < outbox[j].after

\* The seek that the IPC thread is between sending and anchoring.
Anchoring == step = "anchor" /\ target = player

\* While positions are taken from packets, these know of every seek, ...
LockInv == player # NoPlayer /\ ~early /\ ~lock /\ ~Anchoring => ~Track!Behind(player)

\* ... so that what is known of the position is not older than the last seek.
PlaceInv == player # NoPlayer /\ ~early /\ ~mixed /\ ~Anchoring /\ place.of = player => place.after = seeks[player]

\* Where the IPC thread is, the player it has read is one, and the screen shows one.
ScreenInv ==
  /\ step \in {"send", "anchor"} => target \in Player
  /\ step = "send" => seeks[target] < MaxSeeks
  /\ step = "state" => player # NoPlayer /\ (~torn => target = player)
  /\ step # "state" /\ ~torn => bar.title \in {bar.name, NoPlayer}

TrackInv ==
  /\ Track!TypeOK /\ Track!StateIsOfOne
  /\ SeeksInv /\ LockInv /\ PlaceInv /\ ScreenInv

\* What is assumed of the players.
LEMMA TrackAssumption == NoPlayer \notin Player /\ MaxSeeks \in Nat
  BY PeerAssumption

\* What the types of packets are.
LEMMA Packets ==
  /\ \A m \in Track!Packet :
       /\ m.kind \in {"list", "all", "moved", "buffers"} /\ m.player \in Player \cup {NoPlayer}
       /\ m.kind # "list" => m.player \in Player /\ m.after \in 0 .. MaxSeeks
  /\ \A p \in Player \cup {NoPlayer} : [Track!NoList EXCEPT !.player = p] \in Track!Packet
  /\ \A k \in {"all", "moved", "buffers"}, p \in Player, n \in 0 .. MaxSeeks :
       [kind |-> k, player |-> p, after |-> n] \in Track!Packet
  /\ \A p \in Player \cup {NoPlayer} : [Track!NoList EXCEPT !.player = p].kind = "list"
  BY DEF Track!Packet, Track!NoList

\* No player is shown at first.
LEMMA TrackInit == Track!Init => TrackInv
  <1> SUFFICES ASSUME Track!Init PROVE TrackInv
    OBVIOUS
  <1>1. Track!TypeOK
    <2>1. <<>> \in Seq(Track!Packet) /\ <<>> \in Seq([player : Player, after : 1 .. MaxSeeks])
      OBVIOUS
    <2>2. spot \in [Player -> 0 .. MaxSeeks] /\ seeks \in [Player -> 0 .. MaxSeeks]
      BY TrackAssumption DEF Track!Init
    <2>3. place \in [of : Player \cup {NoPlayer}, after : 0 .. MaxSeeks]
      BY TrackAssumption DEF Track!Init, Track!Nowhere
    <2> QED
      BY <2>1, <2>2, <2>3 DEF Track!Init, Track!TypeOK
  <1>2. Len(inbox) = 0 /\ Len(outbox) = 0 /\ 1 .. 0 = {}
    BY DEF Track!Init
  <1> QED
    BY <1>1, <1>2 DEF Track!Init, TrackInv, SeeksInv, LockInv, PlaceInv, ScreenInv, Track!StateIsOfOne

\* What reads the next packet leaves the others, none of which is news to Behind.
LEMMA PacketRead ==
  ASSUME TrackInv, inbox # <<>>, inbox' = Tail(inbox), spot' = spot, seeks' = seeks
  PROVE  /\ inbox' \in Seq(Track!Packet)
         /\ Head(inbox) \in Track!Packet
         /\ Head(inbox).kind # "list" => Head(inbox).after <= spot[Head(inbox).player]
         /\ Head(inbox).kind # "list" /\ ~Track!Behind(Head(inbox).player) =>
              Head(inbox).after = seeks[Head(inbox).player]
         /\ \A i \in 1 .. Len(inbox') : inbox'[i].kind # "list" => inbox'[i].after <= spot[inbox'[i].player]
         /\ \A p \in Player : Track!Behind(p)' => Track!Behind(p)
  <1> DEFINE m == Head(inbox)
  <1>1. /\ inbox' \in Seq(Track!Packet) /\ m \in Track!Packet /\ m = inbox[1] /\ 1 \in 1 .. Len(inbox)
        /\ \A i \in 1 .. Len(inbox') : i \in Nat /\ i + 1 \in 1 .. Len(inbox) /\ inbox'[i] = inbox[i + 1]
    BY Taken DEF TrackInv, Track!TypeOK
  <1>2. m.kind # "list" => m.after <= spot[m.player]
    BY <1>1 DEF TrackInv, SeeksInv
  <1>3. m.kind # "list" /\ ~Track!Behind(m.player) => m.after = seeks[m.player]
    <2> SUFFICES ASSUME m.kind # "list", ~Track!Behind(m.player) PROVE m.after = seeks[m.player]
      OBVIOUS
    <2>1. m.player \in Player /\ m.after \in 0 .. MaxSeeks
      BY <1>1, Packets
    <2>2. spot[m.player] \in Nat /\ seeks[m.player] \in Nat /\ m.after \in Nat
      BY <2>1, TrackAssumption DEF TrackInv, Track!TypeOK
    <2>3. ~(spot[m.player] < seeks[m.player]) /\ ~(m.after < seeks[m.player])
      BY <1>1 DEF Track!Behind
    <2>4. spot[m.player] <= seeks[m.player]
      BY <2>1 DEF TrackInv, SeeksInv
    <2> QED
      BY <1>2, <2>2, <2>3, <2>4
  <1>4. \A i \in 1 .. Len(inbox') : inbox'[i].kind # "list" => inbox'[i].after <= spot[inbox'[i].player]
    BY <1>1 DEF TrackInv, SeeksInv
  <1>5. \A p \in Player : Track!Behind(p)' => Track!Behind(p)
    BY <1>1 DEF Track!Behind
  <1> QED
    BY <1>1, <1>2, <1>3, <1>4, <1>5

\* A list of players that comes keeps the invariant.
LEMMA OnListKeeps == ASSUME TrackInv, Track!OnList PROVE TrackInv'
  <1> DEFINE m == Head(inbox)
  <1>0. /\ inbox # <<>> /\ m.kind = "list" /\ inbox' = Tail(inbox)
        /\ UNCHANGED <<front, spot, outbox, step, target, bar, seeks, mixed>>
    BY DEF Track!OnList
  <1>1. /\ inbox' \in Seq(Track!Packet) /\ m \in Track!Packet
        /\ \A i \in 1 .. Len(inbox') : inbox'[i].kind # "list" => inbox'[i].after <= spot[inbox'[i].player]
        /\ \A p \in Player : Track!Behind(p)' => Track!Behind(p)
    BY <1>0, PacketRead
  <1>2. SeeksInv'
    BY <1>0, <1>1 DEF TrackInv, SeeksInv
  <1>3. CASE m.player \notin {player, NoPlayer}
    <2>1. m.player \in Player /\ Track!Select(m.player)
      BY <1>0, <1>1, <1>3, Packets DEF Track!OnList
    <2>2. Track!Nowhere \in [of : Player \cup {NoPlayer}, after : 0 .. MaxSeeks] /\ Track!Nowhere.of = NoPlayer
      BY TrackAssumption DEF Track!Nowhere
    <2>3. early' \in BOOLEAN /\ (~early' => ~early /\ ~Track!Behind(m.player))
      BY <2>1 DEF Track!Select, TrackInv, Track!TypeOK
    <2>4. torn' \in BOOLEAN /\ (~torn' => ~torn /\ step # "state")
      BY <2>1 DEF Track!Select, TrackInv, Track!TypeOK
    <2>5. Track!TypeOK'
      BY <1>0, <1>1, <2>1, <2>2, <2>3, <2>4 DEF Track!Select, TrackInv, Track!TypeOK
    <2>6. Track!StateIsOfOne' /\ PlaceInv'
      BY <2>1, <2>2, TrackAssumption DEF Track!Select, Track!StateIsOfOne, PlaceInv
    <2>7. LockInv'
      BY <1>1, <2>1, <2>3 DEF Track!Select, LockInv
    <2>8. ScreenInv'
      BY <1>0, <2>1, <2>4, TrackAssumption DEF Track!Select, TrackInv, ScreenInv
    <2> QED
      BY <1>2, <2>5, <2>6, <2>7, <2>8 DEF TrackInv
  <1>4. CASE m.player \in {player, NoPlayer}
    <2>1. UNCHANGED <<player, title, length, place, lock, early, torn>>
      BY <1>4 DEF Track!OnList, Track!stateVars
    <2>2. player # NoPlayer => player \in Player
      BY DEF TrackInv, Track!TypeOK
    <2> QED
      BY <1>0, <1>1, <1>2, <2>1, <2>2
      DEF TrackInv, Track!TypeOK, Track!StateIsOfOne, LockInv, PlaceInv, ScreenInv, Anchoring
  <1> QED
    BY <1>3, <1>4

\* A status that comes keeps it.
LEMMA OnStatusKeeps == ASSUME TrackInv, Track!OnStatus PROVE TrackInv'
  <1> DEFINE m == Head(inbox)
  <1>0. /\ inbox # <<>> /\ m.kind # "list" /\ inbox' = Tail(inbox)
        /\ UNCHANGED <<front, spot, outbox, player, lock, step, target, bar, seeks, mixed, torn, early>>
    BY DEF Track!OnStatus
  <1>1. /\ inbox' \in Seq(Track!Packet) /\ m \in Track!Packet
        /\ \A i \in 1 .. Len(inbox') : inbox'[i].kind # "list" => inbox'[i].after <= spot[inbox'[i].player]
        /\ \A p \in Player : Track!Behind(p)' => Track!Behind(p)
        /\ ~Track!Behind(m.player) => m.after = seeks[m.player]
    BY <1>0, PacketRead
  <1>2. SeeksInv' /\ ScreenInv'
    BY <1>0, <1>1 DEF TrackInv, SeeksInv, ScreenInv
  <1>3. m.player \in Player /\ m.after \in 0 .. MaxSeeks /\ (player # NoPlayer => player \in Player)
    BY <1>0, <1>1, Packets DEF TrackInv, Track!TypeOK
  <1>4. LockInv'
    BY <1>0, <1>1, <1>3 DEF TrackInv, LockInv, Anchoring
  <1>5. /\ title' = title \/ (title' = m.player /\ player \in {m.player, NoPlayer})
        /\ length' = length \/ (length' = m.player /\ player \in {m.player, NoPlayer})
    BY DEF Track!OnStatus
  <1>6. \/ place' = place
        \/ /\ player \in {m.player, NoPlayer} /\ m.kind # "buffers" /\ ~lock
           /\ place' = [of |-> m.player, after |-> m.after]
    BY <1>0 DEF Track!OnStatus, Track!HasPosition
  <1>7. place' \in [of : Player \cup {NoPlayer}, after : 0 .. MaxSeeks]
    BY <1>3, <1>6 DEF TrackInv, Track!TypeOK
  <1>8. Track!TypeOK'
    BY <1>0, <1>1, <1>3, <1>5, <1>7 DEF TrackInv, Track!TypeOK
  <1>9. Track!StateIsOfOne'
    BY <1>0, <1>3, <1>5, <1>6 DEF TrackInv, Track!StateIsOfOne
  <1>10. PlaceInv'
    <2>1. CASE place' = place
      BY <1>0, <2>1 DEF TrackInv, PlaceInv, Anchoring
    <2>2. CASE place' # place
      <3>1. player \in {m.player, NoPlayer} /\ ~lock /\ place'.after = m.after
        BY <1>6, <2>2
      <3>2. player # NoPlayer /\ ~early /\ ~Anchoring => m.after = seeks[player]
        BY <1>1, <3>1 DEF TrackInv, LockInv
      <3> QED
        BY <1>0, <3>1, <3>2 DEF PlaceInv, Anchoring
    <2> QED
      BY <2>1, <2>2
  <1> QED
    BY <1>2, <1>4, <1>8, <1>9, <1>10 DEF TrackInv

\* So does a status that the phone sends, ...
LEMMA PeerSendsKeeps == ASSUME TrackInv, Track!PeerSends PROVE TrackInv'
  <1>0. UNCHANGED <<spot, outbox, player, title, length, place, lock, step, target, bar, seeks, mixed, torn, early>>
    BY DEF Track!PeerSends, Track!stateVars
  <1>1. PICK m \in Track!Packet :
          /\ inbox' = Append(inbox, m)
          /\ m.kind # "list" => m.player \in Player /\ m.after = spot[m.player]
    <2>1. CASE \E p \in (Player \cup {NoPlayer}) \ {front} : inbox' = Append(inbox, [Track!NoList EXCEPT !.player = p])
      BY <2>1, Packets
    <2>2. CASE \E p \in Player, k \in {"all", "moved", "buffers"} :
                 inbox' = Append(inbox, [kind |-> k, player |-> p, after |-> spot[p]])
      <3>1. PICK p \in Player, k \in {"all", "moved", "buffers"} :
              inbox' = Append(inbox, [kind |-> k, player |-> p, after |-> spot[p]])
        BY <2>2
      <3>2. spot[p] \in 0 .. MaxSeeks
        BY DEF TrackInv, Track!TypeOK
      <3>3. [kind |-> k, player |-> p, after |-> spot[p]] \in Track!Packet
        BY <3>2, Packets
      <3> QED
        BY <3>1, <3>3
    <2> QED
      BY <2>1, <2>2 DEF Track!PeerSends
  <1>2. front' \in Player \cup {NoPlayer}
    BY DEF Track!PeerSends, TrackInv, Track!TypeOK
  <1>3. /\ inbox' \in Seq(Track!Packet) /\ Len(inbox) \in Nat
        /\ \A i \in 1 .. Len(inbox) : i \in 1 .. Len(inbox') /\ inbox'[i] = inbox[i]
        /\ Len(inbox) + 1 \in 1 .. Len(inbox') /\ inbox'[Len(inbox) + 1] = m
        /\ \A i \in 1 .. Len(inbox') : i \in 1 .. Len(inbox) \/ i = Len(inbox) + 1
    <2>1. inbox \in Seq(Track!Packet)
      BY DEF TrackInv, Track!TypeOK
    <2> QED
      BY <1>1, <2>1, Appended
  <1>4. ASSUME NEW p \in Player, Track!Behind(p)' PROVE Track!Behind(p)
    <2>1. CASE spot'[p] < seeks'[p]
      BY <1>0, <2>1 DEF Track!Behind
    <2>2. CASE \E i \in 1 .. Len(inbox') :
                 inbox'[i].kind # "list" /\ inbox'[i].player = p /\ inbox'[i].after < seeks'[p]
      <3>1. PICK i \in 1 .. Len(inbox') :
                 inbox'[i].kind # "list" /\ inbox'[i].player = p /\ inbox'[i].after < seeks'[p]
        BY <2>2
      <3> QED
        BY <1>0, <1>1, <1>3, <3>1 DEF Track!Behind
    <2> QED
      BY <1>4, <2>1, <2>2 DEF Track!Behind
  <1>5. SeeksInv'
    <2>1. \A i \in 1 .. Len(inbox') : inbox'[i].kind # "list" => inbox'[i].after <= spot[inbox'[i].player]
      <3> SUFFICES ASSUME NEW i \in 1 .. Len(inbox'), inbox'[i].kind # "list"
                   PROVE  inbox'[i].after <= spot[inbox'[i].player]
        OBVIOUS
      <3>1. CASE i \in 1 .. Len(inbox)
        BY <1>3, <3>1 DEF TrackInv, SeeksInv
      <3>2. CASE i = Len(inbox) + 1
        <4>1. inbox'[i] = m
          BY <1>3, <3>2
        <4>2. m.player \in Player /\ m.after = spot[m.player]
          BY <1>1, <4>1
        <4>3. spot[m.player] \in Nat
          BY <4>2, TrackAssumption DEF TrackInv, Track!TypeOK
        <4> QED
          BY <4>1, <4>2, <4>3
      <3> QED
        BY <1>3, <3>1, <3>2
    <2> QED
      BY <1>0, <2>1 DEF TrackInv, SeeksInv
  <1>6. LockInv'
    BY <1>0, <1>4 DEF TrackInv, Track!TypeOK, LockInv, Anchoring
  <1>7. Track!TypeOK'
    BY <1>0, <1>2, <1>3 DEF TrackInv, Track!TypeOK
  <1>8. Track!StateIsOfOne' /\ ScreenInv'
    BY <1>0 DEF TrackInv, Track!StateIsOfOne, ScreenInv
  <1>9. PlaceInv'
    BY <1>0 DEF TrackInv, PlaceInv, Anchoring
  <1> QED
    BY <1>5, <1>6, <1>7, <1>8, <1>9 DEF TrackInv

\* ... and one after a seek on the phone.
LEMMA PeerSeeksKeeps == ASSUME TrackInv, Track!PeerSeeks PROVE TrackInv'
  <1> DEFINE o == Head(outbox)
  <1>0. /\ outbox # <<>> /\ spot' = [spot EXCEPT ![o.player] = o.after] /\ outbox' = Tail(outbox)
        /\ UNCHANGED <<front, inbox, player, title, length, place, lock, step, target, bar, seeks, mixed, torn, early>>
    BY DEF Track!PeerSeeks, Track!stateVars
  <1>1. /\ outbox' \in Seq([player : Player, after : 1 .. MaxSeeks]) /\ o \in [player : Player, after : 1 .. MaxSeeks]
        /\ 1 \in 1 .. Len(outbox) /\ o = outbox[1]
        /\ \A i \in 1 .. Len(outbox') : i \in Nat /\ i + 1 \in 1 .. Len(outbox) /\ outbox'[i] = outbox[i + 1]
    <2> DEFINE Seek == [player : Player, after : 1 .. MaxSeeks]
    <2>1. outbox \in Seq(Seek)
      BY DEF TrackInv, Track!TypeOK
    <2> HIDE DEF Seek
    <2>2. /\ outbox' \in Seq(Seek) /\ o \in Seek
          /\ 1 \in 1 .. Len(outbox) /\ o = outbox[1]
          /\ \A i \in 1 .. Len(outbox') : i \in Nat /\ i + 1 \in 1 .. Len(outbox) /\ outbox'[i] = outbox[i + 1]
      BY <1>0, <2>1, Taken
    <2> QED
      BY <2>2 DEF Seek
  <1>2. o.player \in Player /\ o.after \in 1 .. MaxSeeks
    BY <1>1
  <1>3. o.after \in 0 .. MaxSeeks /\ spot[o.player] \in Nat /\ seeks[o.player] \in Nat
    BY <1>2, TrackAssumption DEF TrackInv, Track!TypeOK
  <1>4. spot[o.player] < o.after /\ o.after <= seeks[o.player]
    BY <1>1 DEF TrackInv, SeeksInv
  <1>5. spot' \in [Player -> 0 .. MaxSeeks] /\ spot'[o.player] = o.after
    BY <1>0, <1>2, <1>3 DEF TrackInv, Track!TypeOK
  <1>6. \A p \in Player : p # o.player => spot'[p] = spot[p]
    BY <1>0 DEF TrackInv, Track!TypeOK
  <1>7. SeeksInv'
    <2>1. \A p \in Player : spot'[p] <= seeks[p]
      BY <1>4, <1>5, <1>6 DEF TrackInv, SeeksInv
    <2>2. ASSUME NEW i \in 1 .. Len(inbox), inbox[i].kind # "list" PROVE inbox[i].after <= spot'[inbox[i].player]
      <3>1. inbox[i].player \in Player /\ inbox[i].after \in 0 .. MaxSeeks
        BY <2>2, Indexed, Packets DEF TrackInv, Track!TypeOK
      <3>2. inbox[i].after <= spot[inbox[i].player]
        BY <2>2 DEF TrackInv, SeeksInv
      <3>3. CASE inbox[i].player # o.player
        BY <1>6, <3>1, <3>2, <3>3
      <3>4. CASE inbox[i].player = o.player
        <4>1. inbox[i].after \in Nat /\ o.after \in Nat
          BY <1>3, <3>1, TrackAssumption
        <4> QED
          BY <1>3, <1>4, <1>5, <3>2, <3>4, <4>1
      <3> QED
        BY <3>3, <3>4
    <2>3. ASSUME NEW i \in 1 .. Len(outbox')
          PROVE  spot'[outbox'[i].player] < outbox'[i].after /\ outbox'[i].after <= seeks[outbox'[i].player]
      <3>1. i \in Nat /\ i + 1 \in 1 .. Len(outbox) /\ outbox'[i] = outbox[i + 1]
        BY <1>1
      <3>2. outbox[i + 1] \in [player : Player, after : 1 .. MaxSeeks]
        BY <3>1, Indexed DEF TrackInv, Track!TypeOK
      <3>3. spot[outbox[i + 1].player] < outbox[i + 1].after /\ outbox[i + 1].after <= seeks[outbox[i + 1].player]
        BY <3>1 DEF TrackInv, SeeksInv
      <3>4. CASE outbox[i + 1].player = o.player
        <4>1. i \in Nat \ {0}
          OBVIOUS
        <4>2. 1 < i + 1
          BY <4>1
        <4>3. o.after < outbox[i + 1].after
          BY <1>1, <3>1, <3>4, <4>2 DEF TrackInv, SeeksInv
        <4> QED
          BY <1>5, <3>1, <3>3, <3>4, <4>3
      <3>5. CASE outbox[i + 1].player # o.player
        BY <1>6, <3>1, <3>2, <3>3, <3>5
      <3> QED
        BY <3>4, <3>5
    <2>4. ASSUME NEW i \in 1 .. Len(outbox'), NEW j \in 1 .. Len(outbox'), i < j, outbox'[i].player = outbox'[j].player
          PROVE  outbox'[i].after < outbox'[j].after
      <3>1. i \in Nat /\ j \in Nat
        BY <1>1
      <3>2. i + 1 < j + 1
        BY <2>4, <3>1
      <3> QED
        BY <1>1, <2>4, <3>2 DEF TrackInv, SeeksInv
    <2> QED
      BY <1>0, <2>1, <2>2, <2>3, <2>4 DEF SeeksInv
  <1>8. LockInv'
    <2> SUFFICES ASSUME player # NoPlayer, ~early, ~lock, ~Anchoring PROVE ~Track!Behind(player)'
      BY <1>0 DEF LockInv, Anchoring
    <2>1. ~Track!Behind(player) /\ player \in Player
      BY DEF TrackInv, LockInv, Track!TypeOK
    <2>2. player # o.player
      <3>1. spot[o.player] < seeks[o.player]
        BY <1>3, <1>4
      <3> QED
        BY <2>1, <3>1 DEF Track!Behind
    <2> QED
      BY <1>0, <1>6, <2>1, <2>2 DEF Track!Behind
  <1>9. Track!TypeOK'
    BY <1>0, <1>1, <1>5 DEF TrackInv, Track!TypeOK
  <1>10. Track!StateIsOfOne' /\ PlaceInv' /\ ScreenInv'
    BY <1>0 DEF TrackInv, Track!StateIsOfOne, PlaceInv, ScreenInv, Anchoring
  <1> QED
    BY <1>7, <1>8, <1>9, <1>10 DEF TrackInv

\* The steps that read the state, or end the lock.
LEMMA ReadersKeep ==
  ASSUME TrackInv, Track!Unlock \/ Track!ReadPlayer \/ Track!ReadState \/ Track!Release
  PROVE  TrackInv'
  <1> USE DEF Track!peerVars, Track!stateVars
  <1>0. SeeksInv' /\ Track!StateIsOfOne'
    BY DEF TrackInv, SeeksInv, Track!StateIsOfOne, Track!Unlock, Track!ReadPlayer, Track!ReadState, Track!Release
  <1>1. CASE Track!Unlock
    <2>1. early' \in BOOLEAN /\ (~early' => ~early) /\ (~early' /\ player # NoPlayer => ~Track!Behind(player))
      BY <1>1 DEF Track!Unlock, TrackInv, Track!TypeOK
    <2>2. LockInv'
      BY <1>1, <2>1 DEF Track!Unlock, LockInv, Track!Behind
    <2>3. Track!TypeOK'
      BY <1>1, <2>1 DEF Track!Unlock, TrackInv, Track!TypeOK
    <2>4. PlaceInv' /\ ScreenInv'
      BY <1>1, <2>1 DEF Track!Unlock, TrackInv, PlaceInv, ScreenInv, Anchoring
    <2> QED
      BY <1>0, <2>2, <2>3, <2>4 DEF TrackInv
  <1>2. CASE Track!ReadPlayer
    <2>1. LockInv' /\ PlaceInv'
      BY <1>2 DEF Track!ReadPlayer, TrackInv, LockInv, PlaceInv, Anchoring, Track!Behind
    <2>2. ScreenInv' /\ Track!TypeOK'
      BY <1>2 DEF Track!ReadPlayer, TrackInv, Track!TypeOK, ScreenInv
    <2> QED
      BY <1>0, <2>1, <2>2 DEF TrackInv
  <1>3. CASE Track!ReadState
    <2>1. LockInv' /\ PlaceInv'
      BY <1>3 DEF Track!ReadState, TrackInv, LockInv, PlaceInv, Anchoring, Track!Behind
    <2>2. Track!TypeOK'
      BY <1>3 DEF Track!ReadState, TrackInv, Track!TypeOK
    <2>3. ScreenInv'
      BY <1>3 DEF Track!ReadState, TrackInv, ScreenInv, Track!StateIsOfOne
    <2> QED
      BY <1>0, <2>1, <2>2, <2>3 DEF TrackInv
  <1>4. CASE Track!Release
    <2>1. LockInv' /\ PlaceInv'
      BY <1>4 DEF Track!Release, TrackInv, LockInv, PlaceInv, Anchoring, Track!Behind
    <2>2. ScreenInv' /\ Track!TypeOK'
      BY <1>4 DEF Track!Release, TrackInv, Track!TypeOK, ScreenInv
    <2> QED
      BY <1>0, <2>1, <2>2 DEF TrackInv
  <1> QED
    BY <1>1, <1>2, <1>3, <1>4

\* A position that the user drags to keeps it.
LEMMA SendPositionKeeps == ASSUME TrackInv, Track!SendPosition PROVE TrackInv'
  <1>0. /\ step = "send" /\ step' = "anchor"
        /\ seeks' = [seeks EXCEPT ![target] = seeks[target] + 1]
        /\ outbox' = Append(outbox, [player |-> target, after |-> seeks'[target]])
        /\ UNCHANGED <<front, spot, inbox, player, title, length, place, lock, target, bar, mixed, torn, early>>
    BY DEF Track!SendPosition, Track!stateVars
  <1>1. target \in Player /\ seeks[target] \in Nat /\ seeks[target] < MaxSeeks
    BY <1>0, TrackAssumption DEF TrackInv, ScreenInv, Track!TypeOK
  <1>2. seeks[target] + 1 \in 1 .. MaxSeeks /\ seeks[target] + 1 \in 0 .. MaxSeeks
    BY <1>1, TrackAssumption
  <1>3. /\ seeks' \in [Player -> 0 .. MaxSeeks] /\ seeks'[target] = seeks[target] + 1
        /\ \A p \in Player : p # target => seeks'[p] = seeks[p]
    BY <1>0, <1>1, <1>2 DEF TrackInv, Track!TypeOK
  <1> DEFINE o == [player |-> target, after |-> seeks'[target]]
  <1>4. o \in [player : Player, after : 1 .. MaxSeeks]
    BY <1>1, <1>2, <1>3
  <1>5. /\ outbox' \in Seq([player : Player, after : 1 .. MaxSeeks]) /\ Len(outbox) \in Nat
        /\ \A i \in 1 .. Len(outbox) : i \in 1 .. Len(outbox') /\ outbox'[i] = outbox[i]
        /\ Len(outbox) + 1 \in 1 .. Len(outbox') /\ outbox'[Len(outbox) + 1] = o
        /\ \A i \in 1 .. Len(outbox') : i \in 1 .. Len(outbox) \/ i = Len(outbox) + 1
    <2> DEFINE Seek == [player : Player, after : 1 .. MaxSeeks]
    <2>1. outbox \in Seq(Seek) /\ o \in Seek
      BY <1>4 DEF TrackInv, Track!TypeOK
    <2> HIDE DEF Seek, o
    <2>2. /\ outbox' \in Seq(Seek) /\ Len(outbox) \in Nat
          /\ \A i \in 1 .. Len(outbox) : i \in 1 .. Len(outbox') /\ outbox'[i] = outbox[i]
          /\ Len(outbox) + 1 \in 1 .. Len(outbox') /\ outbox'[Len(outbox) + 1] = o
          /\ \A i \in 1 .. Len(outbox') : i \in 1 .. Len(outbox) \/ i = Len(outbox) + 1
      <3>1. outbox' = Append(outbox, o)
        BY <1>0 DEF o
      <3> QED
        BY <2>1, <3>1, Appended
    <2> QED
      BY <2>2 DEF Seek
  <1>6. \A p \in Player : spot[p] \in Nat /\ seeks[p] \in Nat /\ seeks'[p] \in Nat /\ seeks[p] <= seeks'[p]
    <2>1. \A p \in Player : spot[p] \in Nat /\ seeks[p] \in Nat /\ seeks'[p] \in Nat
      BY <1>3, TrackAssumption DEF TrackInv, Track!TypeOK
    <2>2. \A n \in Nat : n <= n /\ n <= n + 1
      OBVIOUS
    <2> QED
      BY <1>3, <2>1, <2>2
  <1>7. SeeksInv'
    <2>1. \A p \in Player : spot[p] <= seeks'[p]
      BY <1>6 DEF TrackInv, SeeksInv
    <2>2. spot[target] <= seeks[target]
      BY <1>1 DEF TrackInv, SeeksInv
    <2>3. spot[target] < seeks[target] + 1 /\ seeks[target] + 1 <= seeks'[target]
      BY <1>1, <1>3, <1>6, <2>2
    <2>4. ASSUME NEW i \in 1 .. Len(outbox)
          PROVE  /\ outbox[i].player \in Player /\ outbox[i].after \in Nat
                 /\ spot[outbox[i].player] < outbox[i].after /\ outbox[i].after <= seeks[outbox[i].player]
                 /\ outbox[i].after <= seeks'[outbox[i].player]
      <3>1. outbox[i] \in [player : Player, after : 1 .. MaxSeeks]
        BY Indexed DEF TrackInv, Track!TypeOK
      <3>2. outbox[i].player \in Player /\ outbox[i].after \in Nat
        BY <3>1, TrackAssumption
      <3>3. spot[outbox[i].player] < outbox[i].after /\ outbox[i].after <= seeks[outbox[i].player]
        BY DEF TrackInv, SeeksInv
      <3>4. outbox[i].after <= seeks'[outbox[i].player]
        BY <1>6, <3>2, <3>3
      <3> QED
        BY <3>2, <3>3, <3>4
    <2>5. ASSUME NEW i \in 1 .. Len(outbox')
          PROVE  spot[outbox'[i].player] < outbox'[i].after /\ outbox'[i].after <= seeks'[outbox'[i].player]
      <3>1. CASE i \in 1 .. Len(outbox)
        BY <1>5, <2>4, <3>1
      <3>2. CASE i = Len(outbox) + 1
        <4>1. outbox'[i].player = target /\ outbox'[i].after = seeks[target] + 1
          BY <1>3, <1>5, <3>2
        <4> QED
          BY <2>3, <4>1
      <3> QED
        BY <1>5, <3>1, <3>2
    <2>6. ASSUME NEW i \in 1 .. Len(outbox'), NEW j \in 1 .. Len(outbox'), i < j, outbox'[i].player = outbox'[j].player
          PROVE  outbox'[i].after < outbox'[j].after
      <3>1. i \in 1 .. Len(outbox)
        BY <1>5, <2>6
      <3>2. CASE j \in 1 .. Len(outbox)
        BY <1>5, <2>6, <3>1, <3>2 DEF TrackInv, SeeksInv
      <3>3. CASE j = Len(outbox) + 1
        <4>1. outbox'[j].player = target /\ outbox'[j].after = seeks[target] + 1 /\ outbox'[i] = outbox[i]
          BY <1>3, <1>5, <3>1, <3>3
        <4>2. outbox[i].after \in Nat /\ outbox[i].after <= seeks[target]
          BY <2>4, <2>6, <3>1, <4>1
        <4>3. outbox[i].after < seeks[target] + 1
          BY <1>1, <4>2
        <4> QED
          BY <4>1, <4>3
      <3> QED
        BY <1>5, <3>2, <3>3
    <2> QED
      BY <1>0, <2>1, <2>5, <2>6 DEF TrackInv, SeeksInv
  <1>8. LockInv' /\ PlaceInv'
    <2>1. CASE player = target
      BY <1>0, <2>1 DEF LockInv, PlaceInv, Anchoring
    <2>2. CASE player # target
      <3>1. player # NoPlayer => player \in Player /\ seeks'[player] = seeks[player]
        BY <1>3, <2>2 DEF TrackInv, Track!TypeOK
      <3>2. player # NoPlayer => (Track!Behind(player)' <=> Track!Behind(player))
        BY <1>0, <3>1 DEF Track!Behind
      <3> QED
        BY <1>0, <2>2, <3>1, <3>2 DEF TrackInv, LockInv, PlaceInv, Anchoring
    <2> QED
      BY <2>1, <2>2
  <1>9. ScreenInv'
    BY <1>0, <1>1 DEF TrackInv, ScreenInv
  <1>10. Track!TypeOK' /\ Track!StateIsOfOne'
    BY <1>0, <1>3, <1>5 DEF TrackInv, Track!TypeOK, Track!StateIsOfOne
  <1> QED
    BY <1>7, <1>8, <1>9, <1>10 DEF TrackInv

\* The position that is drawn is anchored under the lock.
LEMMA AnchorKeeps == ASSUME TrackInv, Track!Anchor PROVE TrackInv'
  <1>0. /\ step = "anchor" /\ step' = "idle" /\ lock' = TRUE
        /\ place' = [of |-> target, after |-> seeks[target]]
        /\ UNCHANGED <<front, spot, inbox, outbox, player, title, length, target, bar, seeks, torn, early>>
    BY DEF Track!Anchor, Track!peerVars
  <1>1. target \in Player /\ seeks[target] \in 0 .. MaxSeeks
    BY <1>0 DEF TrackInv, ScreenInv, Track!TypeOK
  <1>2. mixed' \in BOOLEAN /\ (~mixed' => target = player)
    BY DEF Track!Anchor, TrackInv, Track!TypeOK
  <1>3. place'.of = target /\ place'.after = seeks[target] /\ place' \in [of : Player \cup {NoPlayer}, after : 0 .. MaxSeeks]
    BY <1>0, <1>1
  <1>4. Track!TypeOK'
    BY <1>0, <1>2, <1>3 DEF TrackInv, Track!TypeOK
  <1>5. SeeksInv' /\ LockInv' /\ ScreenInv'
    BY <1>0 DEF TrackInv, SeeksInv, LockInv, ScreenInv
  <1>6. PlaceInv' /\ Track!StateIsOfOne'
    BY <1>0, <1>2, <1>3 DEF TrackInv, PlaceInv, Track!StateIsOfOne
  <1> QED
    BY <1>4, <1>5, <1>6 DEF TrackInv

\* Every step of the media plugin, and of another part, keeps the invariant.
LEMMA TrackStep == TrackInv /\ [Track!Next]_mediaVars => TrackInv'
  <1>1. CASE TrackInv /\ UNCHANGED mediaVars
    BY <1>1 DEF mediaVars, TrackInv, Track!TypeOK, Track!StateIsOfOne, SeeksInv, LockInv, PlaceInv, ScreenInv, Anchoring, Track!Behind
  <1>2. CASE TrackInv /\ Track!Next
    BY <1>2, OnListKeeps, OnStatusKeeps, PeerSendsKeeps, PeerSeeksKeeps, ReadersKeep, SendPositionKeeps, AnchorKeeps
    DEF Track!Next
  <1> QED
    BY <1>1, <1>2

\* The invariant is what the part promises.
LEMMA TrackHolds == TrackInv => Track!TypeOK /\ Track!StateIsOfOne /\ Track!NoJumpBack /\ Track!ShownIsOne
  BY DEF TrackInv, PlaceInv, ScreenInv, Anchoring, Track!NoJumpBack, Track!ShownIsOne

-----------------------------------------------------------------------------

(* Sinks: a slider that shows the computer's volume.                        *)

Order == [volume : Nat, muted : BOOLEAN]
Word == [raw : 0 .. MaxVolume, muted : BOOLEAN, list : BOOLEAN]

\* The newest word of the computer is what its sink is, and when all words are taken
\* the console's list has it.
WordInv ==
  /\ toSink \in Seq(Order) /\ toUs \in Seq(Word)
  /\ toUs # <<>> => toUs[Len(toUs)].raw = raw /\ toUs[Len(toUs)].muted = quiet
  /\ toUs = <<>> /\ listed => pct = Theirs!Percent(raw) /\ hush = quiet

\* What the slider stands for, scaled to the computer's volume, is not louder than what
\* the user last saw or chose; the newest order is for it, and when all orders are taken
\* the sink is as it says, or the slider shows what the sink is.
SliderInv ==
  slider.open =>
    /\ listed
    /\ slider.muted => slider.value = 0
    /\ ~moved =>
         /\ Theirs!RawOf(Theirs!RealVolume) <= loudest
         /\ toSink # <<>> => toSink[Len(toSink)] = [volume |-> Theirs!RawOf(Theirs!RealVolume), muted |-> slider.muted]
         /\ toSink = <<>> =>
              /\ raw <= loudest /\ quiet = slider.muted
              /\ raw = Theirs!RawOf(Theirs!RealVolume) \/ Theirs!RealVolume = Theirs!Percent(raw)

TheirsInv == Theirs!TypeOK /\ WordInv /\ SliderInv

\* What is assumed of the volumes.
LEMMA SinksAssumption == Full \in Nat \ {0} /\ MaxVolume \in Nat \ {0} /\ Full <= MaxVolume /\ MaxMoves \in Nat
  <1>1. Full \in Nat \ {0} /\ MaxVolume \in Nat /\ Full <= MaxVolume /\ MaxMoves \in Nat
    BY PeerAssumption
  <1> QED
    BY <1>1

\* What the slider's percentages and the computer's volumes lose of each other.
LEMMA PercentRaw ==
  /\ \A r \in 0 .. MaxVolume : Theirs!Percent(r) \in 0 .. Full
  /\ \A v \in 0 .. Full :
       /\ Theirs!RawOf(v) \in Nat
       /\ listed => Theirs!RawOf(v) \in 0 .. MaxVolume /\ v \in {Theirs!Percent(Theirs!RawOf(v)), Theirs!Percent(Theirs!RawOf(v)) + 1}
  /\ listed => \A r \in 0 .. MaxVolume : Theirs!RawOf(Theirs!Percent(r)) <= r
  <1>0. Full \in Nat \ {0} /\ MaxVolume \in Nat \ {0} /\ Full <= MaxVolume
    BY SinksAssumption
  <1>1. ASSUME NEW r \in 0 .. MaxVolume PROVE Theirs!Percent(r) \in 0 .. Full
    <2>1. r \in Nat /\ r <= MaxVolume
      BY <1>0
    <2>2. PICK p \in Nat : p = (r * Full) \div MaxVolume /\ p <= Full
      BY <1>0, <2>1, ScaledBack
    <2> QED
      BY <1>0, <2>2 DEF Theirs!Percent
  <1>2. ASSUME NEW v \in 0 .. Full
        PROVE  /\ Theirs!RawOf(v) \in Nat
               /\ listed => Theirs!RawOf(v) \in 0 .. MaxVolume /\ v \in {Theirs!Percent(Theirs!RawOf(v)), Theirs!Percent(Theirs!RawOf(v)) + 1}
    <2>1. v \in Nat /\ v <= Full
      BY <1>0
    <2>2. PICK r \in Nat : r = (v * MaxVolume) \div Full
      BY <1>0, <2>1, ScaledBack
    <2>3. r <= MaxVolume
      BY <1>0, <2>1, <2>2, ScaledBack
    <2>4. r * Full \in Nat /\ (r * Full) \div MaxVolume <= v /\ v <= (r * Full) \div MaxVolume + 1
      BY <1>0, <2>1, <2>2, ScaledBack
    <2>5. PICK p \in Nat : p = (r * Full) \div MaxVolume
      BY <1>0, <2>4, Divided
    <2>6. v = p \/ v = p + 1
      BY <2>1, <2>4, <2>5
    <2> QED
      BY <1>0, <2>1, <2>2, <2>3, <2>5, <2>6 DEF Theirs!Percent, Theirs!RawOf
  <1>3. ASSUME listed, NEW r \in 0 .. MaxVolume PROVE Theirs!RawOf(Theirs!Percent(r)) <= r
    <2>1. r \in Nat
      BY <1>0
    <2>2. (((r * Full) \div MaxVolume) * MaxVolume) \div Full <= r
      BY <1>0, <2>1, ScaledBack
    <2> QED
      BY <1>3, <2>2 DEF Theirs!Percent, Theirs!RawOf
  <1> QED
    BY <1>1, <1>2, <1>3

\* No sink is listed at first.
LEMMA TheirsInit == Theirs!Init => TheirsInv
  <1> SUFFICES ASSUME Theirs!Init PROVE TheirsInv
    OBVIOUS
  <1>1. Theirs!TypeOK
    <2>1. 0 \in 0 .. MaxVolume /\ 0 \in 0 .. Full /\ 0 \in 0 .. MaxMoves
      BY SinksAssumption
    <2>2. DOMAIN <<>> = {}
      OBVIOUS
    <2> QED
      BY <2>1, <2>2 DEF Theirs!Init, Theirs!TypeOK, Theirs!NoSlider
  <1>2. <<>> \in Seq(Order) /\ <<>> \in Seq(Word)
    OBVIOUS
  <1> QED
    BY <1>1, <1>2 DEF Theirs!Init, TheirsInv, WordInv, SliderInv, Theirs!NoSlider

\* The words and orders in a queue have their types.
LEMMA Queued ==
  /\ \A q \in Seq(Order) : \A i \in DOMAIN q : q[i] \in [volume : Int, muted : BOOLEAN]
  /\ \A q \in Seq(Word) : \A i \in DOMAIN q : q[i] \in Word
  <1>1. ASSUME NEW q \in Seq(Order), NEW i \in DOMAIN q PROVE q[i] \in [volume : Int, muted : BOOLEAN]
    <2>1. q[i] \in Order
      BY ElementOfSeq
    <2> QED
      BY <2>1 DEF Order
  <1> QED
    BY <1>1, ElementOfSeq

\* The newest of a queue is what was appended to it; what is left without its oldest
\* is nothing, or has the same newest.
LEMMA Newest ==
  ASSUME NEW S, NEW s \in Seq(S)
  PROVE  /\ \A e \in S : /\ Append(s, e) \in Seq(S) /\ Append(s, e) # <<>>
                         /\ Append(s, e)[Len(Append(s, e))] = e
         /\ s # <<>> => /\ Head(s) \in S /\ Tail(s) \in Seq(S)
                        /\ Tail(s) = <<>> => Head(s) = s[Len(s)]
                        /\ Tail(s) # <<>> => Tail(s)[Len(Tail(s))] = s[Len(s)]
  <1>1. ASSUME NEW e \in S
        PROVE  /\ Append(s, e) \in Seq(S) /\ Append(s, e) # <<>>
               /\ Append(s, e)[Len(Append(s, e))] = e
    BY Appended, EmptySeq
  <1>2. ASSUME s # <<>>
        PROVE  /\ Head(s) \in S /\ Tail(s) \in Seq(S)
               /\ Tail(s) = <<>> => Head(s) = s[Len(s)]
               /\ Tail(s) # <<>> => Tail(s)[Len(Tail(s))] = s[Len(s)]
    <2>1. PICK t \in Seq(S) : t = Tail(s)
      BY <1>2, Taken
    <2>2. /\ Head(s) \in S /\ Len(s) \in Nat \ {0} /\ Len(t) = Len(s) - 1 /\ Head(s) = s[1]
          /\ \A i \in 1 .. Len(t) : t[i] = s[i + 1]
      BY <1>2, <2>1, Taken
    <2>3. t = <<>> => Len(s) = 1
      <3>1. t = <<>> => Len(t) = 0
        BY EmptySeq
      <3> QED
        BY <2>2, <3>1
    <2>4. t # <<>> => t[Len(t)] = s[Len(s)]
      <3> SUFFICES ASSUME t # <<>> PROVE t[Len(t)] = s[Len(s)]
        OBVIOUS
      <3>1. Len(t) # 0 /\ Len(t) \in Nat
        BY EmptySeq
      <3>2. Len(t) \in 1 .. Len(t) /\ Len(t) + 1 = Len(s)
        BY <2>2, <3>1
      <3> QED
        BY <2>2, <3>2
    <2> QED
      BY <2>1, <2>2, <2>3, <2>4
  <1> QED
    BY <1>1, <1>2

\* The count of moves is bounded.
LEMMA TheirsCounts == ASSUME TheirsInv, Theirs!Count PROVE moves' \in 0 .. MaxMoves
  BY SinksAssumption DEF Theirs!Count, TheirsInv, Theirs!TypeOK

\* The volume that is turned at the computer keeps the invariant.
LEMMA SinkMovesKeeps == ASSUME TheirsInv, Theirs!SinkMoves PROVE TheirsInv'
  <1>1. /\ raw' \in 0 .. MaxVolume /\ quiet' \in BOOLEAN /\ moved' = slider.open
        /\ UNCHANGED <<listed, pct, hush, toSink, slider, loudest>>
    BY DEF Theirs!SinkMoves
  <1>2. PICK w \in Word : toUs' = Append(toUs, w) /\ w.raw = raw' /\ w.muted = quiet'
    <2>1. PICK list \in BOOLEAN : toUs' = Append(toUs, [raw |-> raw', muted |-> quiet', list |-> list])
      BY DEF Theirs!SinkMoves, Theirs!SinkTells
    <2> QED
      BY <1>1, <2>1 DEF Word
  <1>3. toUs' \in Seq(Word) /\ toUs' # <<>> /\ toUs'[Len(toUs')] = w
    BY <1>2, Newest DEF TheirsInv, WordInv
  <1>4. WordInv'
    BY <1>1, <1>2, <1>3 DEF TheirsInv, WordInv
  <1>5. SliderInv'
    BY <1>1 DEF TheirsInv, SliderInv
  <1>6. moves' \in 0 .. MaxMoves
    BY TheirsCounts DEF Theirs!SinkMoves
  <1>7. moved' \in BOOLEAN
    BY <1>1 DEF TheirsInv, Theirs!TypeOK
  <1>8. Theirs!TypeOK'
    BY <1>1, <1>3, <1>6, <1>7, Queued DEF TheirsInv, Theirs!TypeOK, Word
  <1> QED
    BY <1>4, <1>5, <1>8 DEF TheirsInv

\* News of a sink that are taken keep it.
LEMMA TakeNewsKeeps == ASSUME TheirsInv, Theirs!TakeNews PROVE TheirsInv'
  <1> DEFINE u == Head(toUs)
  <1>1. /\ toUs # <<>> /\ toUs' = Tail(toUs)
        /\ UNCHANGED <<raw, quiet, toSink, slider, loudest, moved, moves>>
    BY DEF Theirs!TakeNews
  <1>2. /\ u \in Word /\ toUs' \in Seq(Word)
        /\ toUs' = <<>> => u.raw = raw /\ u.muted = quiet
        /\ toUs' # <<>> => toUs'[Len(toUs')].raw = raw /\ toUs'[Len(toUs')].muted = quiet
    BY <1>1, Newest DEF TheirsInv, WordInv
  <1>3. u.raw \in 0 .. MaxVolume /\ u.muted \in BOOLEAN
    BY <1>2 DEF Word
  <1>4. \/ listed' = TRUE /\ pct' = Theirs!Percent(u.raw) /\ hush' = u.muted
        \/ ~listed /\ UNCHANGED <<listed, pct, hush>>
    BY DEF Theirs!TakeNews
  <1>5. pct' \in 0 .. Full /\ listed' \in BOOLEAN /\ hush' \in BOOLEAN
    BY <1>3, <1>4, PercentRaw DEF TheirsInv, Theirs!TypeOK
  <1>6. Theirs!TypeOK'
    BY <1>1, <1>2, <1>5, Queued DEF TheirsInv, Theirs!TypeOK, Word
  <1>7. WordInv'
    BY <1>1, <1>2, <1>4 DEF TheirsInv, WordInv
  <1>8. SliderInv'
    <2>1. slider.open => listed /\ listed'
      BY <1>4 DEF TheirsInv, SliderInv
    <2> QED
      BY <1>1, <2>1 DEF TheirsInv, SliderInv, Theirs!RawOf, Theirs!RealVolume
  <1> QED
    BY <1>6, <1>7, <1>8 DEF TheirsInv

\* The screen opens with what is listed.
LEMMA OpenScreenKeeps == ASSUME TheirsInv, Theirs!OpenScreen PROVE TheirsInv'
  <1>1. /\ moved' = (toUs # <<>> \/ toSink # <<>>) /\ loudest' = raw /\ listed
        /\ UNCHANGED <<raw, quiet, listed, pct, hush, toSink, toUs>>
        /\ slider' = [open |-> TRUE, value |-> IF hush THEN 0 ELSE pct, real |-> IF hush THEN pct ELSE 0, muted |-> hush]
    <2>1. PICK s \in Theirs!GetVolumeSinks :
            slider' = [open |-> TRUE, value |-> IF s.muted THEN 0 ELSE s.volume,
                       real |-> IF s.muted THEN s.volume ELSE 0, muted |-> s.muted]
      BY DEF Theirs!OpenScreen
    <2>2. listed /\ s = [volume |-> pct, muted |-> hush]
      BY <2>1 DEF Theirs!GetVolumeSinks
    <2>3. s.volume = pct /\ s.muted = hush
      BY <2>2
    <2>4. /\ moved' = (toUs # <<>> \/ toSink # <<>>) /\ loudest' = raw
          /\ UNCHANGED <<raw, quiet, listed, pct, hush, toSink, toUs>>
      BY DEF Theirs!OpenScreen
    <2> QED
      BY <2>1, <2>2, <2>3, <2>4
  <1>2. moves' \in 0 .. MaxMoves
    BY TheirsCounts DEF Theirs!OpenScreen
  <1>3. pct \in 0 .. Full /\ hush \in BOOLEAN /\ 0 \in 0 .. Full /\ raw \in 0 .. MaxVolume
    BY SinksAssumption DEF TheirsInv, Theirs!TypeOK
  <1>4. slider' \in [open : BOOLEAN, value : 0 .. Full, real : 0 .. Full, muted : BOOLEAN]
    BY <1>1, <1>3
  <1>5. slider'.open /\ slider'.muted = hush /\ (hush => slider'.value = 0 /\ slider'.real = pct) /\ (~hush => slider'.value = pct)
    BY <1>1, <1>3
  <1>6. (Theirs!RealVolume)' = pct
    BY <1>3, <1>5 DEF Theirs!RealVolume
  <1>7. moved' \in BOOLEAN /\ (~moved' => toUs = <<>> /\ toSink = <<>>)
    BY <1>1
  <1>8. Theirs!TypeOK'
    BY <1>1, <1>2, <1>3, <1>4, <1>7 DEF TheirsInv, Theirs!TypeOK
  <1>9. WordInv'
    BY <1>1 DEF TheirsInv, WordInv
  <1>10. SliderInv'
    <2>1. CASE moved'
      BY <1>1, <1>5, <2>1 DEF SliderInv
    <2>2. CASE ~moved'
      <3>1. pct = Theirs!Percent(raw) /\ hush = quiet
        BY <1>1, <1>7, <2>2 DEF TheirsInv, WordInv
      <3>2. Theirs!RawOf(Theirs!Percent(raw)) <= raw
        BY <1>1, <1>3, PercentRaw
      <3>3. Theirs!RawOf(pct)' = Theirs!RawOf(pct)
        BY <1>1 DEF Theirs!RawOf
      <3>4. Theirs!RawOf(Theirs!RealVolume)' = Theirs!RawOf(pct)
        BY <1>1, <1>6 DEF Theirs!RawOf
      <3>5. raw <= raw
        BY <1>3, SinksAssumption
      <3> QED
        BY <1>1, <1>5, <1>6, <1>7, <2>2, <3>1, <3>2, <3>4, <3>5 DEF SliderInv, Theirs!Percent
    <2> QED
      BY <1>7, <2>1, <2>2
  <1> QED
    BY <1>8, <1>9, <1>10 DEF TheirsInv

\* The user's orders: the newest is for what the slider stands for.
LEMMA OrderKeeps ==
  ASSUME TheirsInv, slider.open,
         slider' \in [open : BOOLEAN, value : 0 .. Full, real : 0 .. Full, muted : BOOLEAN],
         slider'.open, slider'.muted => slider'.value = 0,
         NEW v \in 0 .. Full, (Theirs!RealVolume)' = v,
         Theirs!SetVolumeSink(v, slider'.muted),
         \/ loudest' = Theirs!RawOf(v)
         \/ loudest' = loudest /\ v = Theirs!RealVolume,
         UNCHANGED <<raw, quiet, listed, pct, hush, toUs, moved>>,
         moves' \in 0 .. MaxMoves
  PROVE  TheirsInv'
  <1>1. listed
    BY DEF TheirsInv, SliderInv
  <1>2. Theirs!RawOf(v) \in 0 .. MaxVolume /\ Theirs!RawOf(v) \in Nat
    BY <1>1, PercentRaw
  <1> DEFINE o == [volume |-> Theirs!RawOf(v), muted |-> slider'.muted]
  <1>3. o \in Order
    BY <1>2 DEF Order
  <1>4. toSink' \in Seq(Order) /\ toSink' # <<>> /\ toSink'[Len(toSink')] = o
    <2> HIDE DEF o
    <2>1. toSink' = Append(toSink, o)
      BY DEF Theirs!SetVolumeSink, o
    <2>2. toSink \in Seq(Order)
      BY DEF TheirsInv, WordInv
    <2> QED
      BY <1>3, <2>1, <2>2, Newest
  <1>5. Theirs!RawOf(Theirs!RealVolume)' = Theirs!RawOf(v)
    BY DEF Theirs!RawOf
  <1>6. ~moved => Theirs!RawOf(v) <= loudest'
    <2>1. Theirs!RawOf(v) <= Theirs!RawOf(v)
      BY <1>2
    <2> QED
      BY <2>1 DEF TheirsInv, SliderInv
  <1>7. Theirs!TypeOK'
    <2>1. loudest' \in 0 .. MaxVolume
      BY <1>2 DEF TheirsInv, Theirs!TypeOK
    <2> QED
      BY <1>4, <2>1, Queued DEF TheirsInv, Theirs!TypeOK
  <1>8. WordInv'
    BY <1>4 DEF TheirsInv, WordInv, Theirs!Percent
  <1>9. SliderInv'
    BY <1>1, <1>4, <1>5, <1>6 DEF SliderInv
  <1> QED
    BY <1>7, <1>8, <1>9 DEF TheirsInv

\* The slider that is dragged keeps it.
LEMMA DragKeeps == ASSUME TheirsInv, NEW v \in 0 .. Full, Theirs!Drag(v) PROVE TheirsInv'
  <1>1. /\ slider.open /\ slider' = [slider EXCEPT !.value = v, !.real = v, !.muted = FALSE]
        /\ Theirs!SetVolumeSink(v, FALSE) /\ loudest' = Theirs!RawOf(v)
        /\ UNCHANGED <<raw, quiet, listed, pct, hush, toUs, moved>>
    BY DEF Theirs!Drag
  <1>2. moves' \in 0 .. MaxMoves
    BY TheirsCounts DEF Theirs!Drag
  <1>3. slider \in [open : BOOLEAN, value : 0 .. Full, real : 0 .. Full, muted : BOOLEAN]
    BY DEF TheirsInv, Theirs!TypeOK
  <1>4. /\ slider' \in [open : BOOLEAN, value : 0 .. Full, real : 0 .. Full, muted : BOOLEAN]
        /\ slider'.open = slider.open /\ slider'.muted = FALSE /\ slider'.value = v
    BY <1>1, <1>3
  <1>5. (Theirs!RealVolume)' = v
    BY <1>4 DEF Theirs!RealVolume
  <1> QED
    BY <1>1, <1>2, <1>4, <1>5, OrderKeeps

\* So does the button that mutes.
LEMMA PressYKeepsInv == ASSUME TheirsInv, Theirs!PressY PROVE TheirsInv'
  <1>1. /\ slider.open
        /\ slider' = IF slider.muted
                     THEN [slider EXCEPT !.muted = FALSE, !.value = slider.real]
                     ELSE [slider EXCEPT !.muted = TRUE, !.real = slider.value, !.value = 0]
        /\ Theirs!SetVolumeSink(slider'.real, slider'.muted)
        /\ UNCHANGED <<raw, quiet, listed, pct, hush, toUs, loudest, moved>>
    BY DEF Theirs!PressY
  <1>2. moves' \in 0 .. MaxMoves
    BY TheirsCounts DEF Theirs!PressY
  <1>3. slider \in [open : BOOLEAN, value : 0 .. Full, real : 0 .. Full, muted : BOOLEAN]
    BY DEF TheirsInv, Theirs!TypeOK
  <1>4. 0 \in 0 .. Full
    BY SinksAssumption
  <1>5. CASE slider.muted
    <2>1. /\ slider' \in [open : BOOLEAN, value : 0 .. Full, real : 0 .. Full, muted : BOOLEAN]
          /\ slider'.open = slider.open /\ slider'.muted = FALSE /\ slider'.value = slider.real /\ slider'.real = slider.real
      BY <1>1, <1>3, <1>5
    <2>2. (Theirs!RealVolume)' = slider.real /\ Theirs!RealVolume = slider.real
      BY <1>5, <2>1 DEF Theirs!RealVolume
    <2>3. slider.real \in 0 .. Full
      BY <1>3
    <2> QED
      BY <1>1, <1>2, <2>1, <2>2, <2>3, OrderKeeps
  <1>6. CASE ~slider.muted
    <2>1. /\ slider' \in [open : BOOLEAN, value : 0 .. Full, real : 0 .. Full, muted : BOOLEAN]
          /\ slider'.open = slider.open /\ slider'.muted = TRUE /\ slider'.value = 0 /\ slider'.real = slider.value
      BY <1>1, <1>3, <1>4, <1>6
    <2>2. (Theirs!RealVolume)' = slider.value /\ Theirs!RealVolume = slider.value
      BY <1>6, <2>1 DEF Theirs!RealVolume
    <2>3. slider.value \in 0 .. Full
      BY <1>3
    <2> QED
      BY <1>1, <1>2, <2>1, <2>2, <2>3, OrderKeeps
  <1> QED
    BY <1>5, <1>6

\* So does another default sink.
LEMMA SetDefaultKeeps == ASSUME TheirsInv, Theirs!SetDefault PROVE TheirsInv'
  <1>1. /\ slider.open /\ Theirs!SetVolumeSink(Theirs!RealVolume, slider.muted)
        /\ UNCHANGED <<raw, quiet, listed, pct, hush, toUs, slider, loudest, moved>>
    BY DEF Theirs!SetDefault
  <1>2. moves' \in 0 .. MaxMoves
    BY TheirsCounts DEF Theirs!SetDefault
  <1>3. slider \in [open : BOOLEAN, value : 0 .. Full, real : 0 .. Full, muted : BOOLEAN]
    BY DEF TheirsInv, Theirs!TypeOK
  <1>4. Theirs!RealVolume \in 0 .. Full /\ (Theirs!RealVolume)' = Theirs!RealVolume
    BY <1>1, <1>3 DEF Theirs!RealVolume
  <1>5. slider.muted => slider.value = 0
    BY <1>1 DEF TheirsInv, SliderInv
  <1> QED
    BY <1>1, <1>2, <1>3, <1>4, <1>5, OrderKeeps

\* A request that the computer takes keeps it.
LEMMA SinkTakesKeeps == ASSUME TheirsInv, Theirs!SinkTakes PROVE TheirsInv'
  <1> DEFINE q == Head(toSink)
  <1>1. /\ toSink # <<>> /\ toSink' = Tail(toSink)
        /\ raw' = (IF q.volume < MaxVolume THEN q.volume ELSE MaxVolume) /\ quiet' = q.muted
        /\ UNCHANGED <<listed, pct, hush, slider, loudest, moved, moves>>
    BY DEF Theirs!SinkTakes
  <1>2. /\ q \in Order /\ toSink' \in Seq(Order)
        /\ toSink' = <<>> => q = toSink[Len(toSink)]
        /\ toSink' # <<>> => toSink'[Len(toSink')] = toSink[Len(toSink)]
    BY <1>1, Newest DEF TheirsInv, WordInv
  <1>3. q.volume \in Nat /\ q.muted \in BOOLEAN
    BY <1>2 DEF Order
  <1>4. raw' \in 0 .. MaxVolume /\ (q.volume \in 0 .. MaxVolume => raw' = q.volume)
    BY <1>1, <1>3, SinksAssumption
  <1>5. quiet' \in BOOLEAN
    BY <1>1, <1>3
  <1>6. PICK w \in Word : toUs' = Append(toUs, w) /\ w.raw = raw' /\ w.muted = quiet'
    <2>1. toUs' = Append(toUs, [raw |-> raw', muted |-> quiet', list |-> FALSE])
      BY DEF Theirs!SinkTakes, Theirs!SinkTells
    <2>2. [raw |-> raw', muted |-> quiet', list |-> FALSE] \in Word
      BY <1>4, <1>5 DEF Word
    <2> QED
      BY <2>1, <2>2
  <1>7. toUs' \in Seq(Word) /\ toUs' # <<>> /\ toUs'[Len(toUs')] = w
    BY <1>6, Newest DEF TheirsInv, WordInv
  <1>8. WordInv'
    BY <1>2, <1>6, <1>7 DEF WordInv
  <1>9. Theirs!TypeOK'
    BY <1>1, <1>2, <1>4, <1>5, <1>7, Queued DEF TheirsInv, Theirs!TypeOK, Word
  <1>10. SliderInv'
    <2> SUFFICES ASSUME slider.open, ~moved
                 PROVE  /\ toSink' # <<>> => toSink'[Len(toSink')] = [volume |-> Theirs!RawOf(Theirs!RealVolume), muted |-> slider.muted]
                        /\ toSink' = <<>> => raw' <= loudest /\ quiet' = slider.muted /\ raw' = Theirs!RawOf(Theirs!RealVolume)
      BY <1>1 DEF TheirsInv, SliderInv, Theirs!RawOf, Theirs!RealVolume, Theirs!Percent
    <2>1. /\ toSink[Len(toSink)] = [volume |-> Theirs!RawOf(Theirs!RealVolume), muted |-> slider.muted]
          /\ listed /\ Theirs!RawOf(Theirs!RealVolume) <= loudest
      BY <1>1 DEF TheirsInv, SliderInv
    <2>2. Theirs!RealVolume \in 0 .. Full
      BY DEF TheirsInv, Theirs!TypeOK, Theirs!RealVolume
    <2>3. Theirs!RawOf(Theirs!RealVolume) \in 0 .. MaxVolume
      BY <2>1, <2>2, PercentRaw
    <2> QED
      BY <1>1, <1>2, <1>4, <2>1, <2>3
  <1> QED
    BY <1>8, <1>9, <1>10 DEF TheirsInv

\* Every step of the sinks, and of another part, keeps the invariant.
LEMMA TheirsStep == TheirsInv /\ [Theirs!Next]_sinksVars => TheirsInv'
  <1>1. CASE TheirsInv /\ UNCHANGED sinksVars
    BY <1>1 DEF sinksVars, TheirsInv, Theirs!TypeOK, WordInv, SliderInv, Theirs!RawOf, Theirs!RealVolume, Theirs!Percent
  <1>2. CASE TheirsInv /\ Theirs!Next
    BY <1>2, SinkMovesKeeps, TakeNewsKeeps, OpenScreenKeeps, DragKeeps, PressYKeepsInv, SetDefaultKeeps, SinkTakesKeeps
    DEF Theirs!Next
  <1> QED
    BY <1>1, <1>2

\* The invariant is what the part promises.
LEMMA TheirsHold == TheirsInv => Theirs!TypeOK /\ Theirs!NeverLouder /\ Theirs!SliderIsSo
  <1> SUFFICES ASSUME TheirsInv PROVE Theirs!NeverLouder /\ Theirs!SliderIsSo
    BY DEF TheirsInv
  <1>1. Theirs!NeverLouder
    BY DEF TheirsInv, SliderInv, Theirs!NeverLouder
  <1>2. Theirs!SliderIsSo
    <2> SUFFICES ASSUME slider.open, ~moved, toSink = <<>>, toUs = <<>>
                 PROVE  /\ quiet = slider.muted
                        /\ slider.muted => slider.value = 0
                        /\ ~quiet => slider.value \in {Theirs!Percent(raw), Theirs!Percent(raw) + 1}
      BY DEF Theirs!SliderIsSo
    <2>1. /\ listed /\ quiet = slider.muted /\ (slider.muted => slider.value = 0)
          /\ raw = Theirs!RawOf(Theirs!RealVolume) \/ Theirs!RealVolume = Theirs!Percent(raw)
      BY DEF TheirsInv, SliderInv
    <2>2. ~slider.muted => Theirs!RealVolume = slider.value /\ slider.value \in 0 .. Full
      BY DEF Theirs!RealVolume, TheirsInv, Theirs!TypeOK
    <2>3. ~slider.muted => slider.value \in {Theirs!Percent(raw), Theirs!Percent(raw) + 1}
      BY <2>1, <2>2, PercentRaw
    <2> QED
      BY <2>1, <2>3
  <1> QED
    BY <1>1, <1>2

-----------------------------------------------------------------------------

(* Notices: the newest is shown, and nothing twice.                         *)

\* The table has one entry for an id.
OnePerId(entries) == \A i, j \in DOMAIN entries : entries[i].id = entries[j].id => i = j

\* A notice is among those that are on the screen or wait to be.
IsShown(fs, n, t) == \E f \in fs : f.id = n /\ f.time = t

\* An entry that still keeps duplicates away was posted, unless it is known not to be,
\* and what was posted lately has such an entry, with its icon.
EntriesInv ==
  /\ posted \in Seq(News!Entry) /\ OnePerId(posted)
  /\ \A i \in DOMAIN posted : posted[i].recent /\ posted[i].id \notin hidden => IsShown(files \cup onScreen, posted[i].id, posted[i].time)
  /\ \A l \in lately : \E i \in DOMAIN posted :
       /\ posted[i].id = l.id /\ posted[i].time = l.time /\ posted[i].recent
       /\ l.icon => posted[i].icon

NewsInv == News!TypeOK /\ EntriesInv /\ News!NewestIsShown /\ ~twice

\* What is assumed of the bounds.
LEMMA NewsAssumption == NoId \notin Id /\ MaxPosted \in Nat \ {0} /\ MaxTime \in Nat /\ MaxPackets \in Nat
  BY PeerAssumption

\* There is no notification at first.
LEMMA NewsInit == News!Init => NewsInv
  <1> SUFFICES ASSUME News!Init PROVE NewsInv
    OBVIOUS
  <1>1. News!TypeOK
    <2>1. DOMAIN <<>> = {} /\ Len(<<>>) = 0 /\ 0 <= MaxPosted /\ 0 \in 0 .. MaxTime /\ 0 \in 0 .. MaxPackets
      BY NewsAssumption
    <2>2. {} \in SUBSET Id /\ {} \in SUBSET News!Notice
      OBVIOUS
    <2> QED
      BY <2>1, <2>2 DEF News!Init, News!TypeOK
  <1>2. posted \in Seq(News!Entry) /\ DOMAIN posted = {}
    BY DEF News!Init
  <1> QED
    BY <1>1, <1>2 DEF News!Init, NewsInv, EntriesInv, OnePerId, News!NewestIsShown

\* An entry that is removed leaves the others in their order.
LEMMA RemoveAtLeaves ==
  ASSUME NEW S, NEW s \in Seq(S), NEW i \in 1 .. Len(s)
  PROVE  /\ News!RemoveAt(s, i) \in Seq(S)
         /\ Len(News!RemoveAt(s, i)) = Len(s) - 1
         /\ \A j \in 1 .. Len(s) - 1 : News!RemoveAt(s, i)[j] = IF j < i THEN s[j] ELSE s[j + 1]
  <1> DEFINE a == SubSeq(s, 1, i - 1)
             b == SubSeq(s, i + 1, Len(s))
  <1>1. Len(s) \in Nat /\ i \in Nat /\ 1 <= i /\ i <= Len(s)
    OBVIOUS
  <1>2. a \in Seq(S) /\ Len(a) = i - 1 /\ \A j \in 1 .. i - 1 : a[j] = s[j]
    <2>1. 1 \in 1 .. Len(s) + 1 /\ i - 1 \in 1 - 1 .. Len(s) /\ (i - 1) - 1 + 1 = i - 1 /\ \A j \in 1 .. i - 1 : 1 + j - 1 = j
      BY <1>1
    <2>2. a \in Seq(S) /\ Len(a) = (i - 1) - 1 + 1 /\ \A j \in 1 .. (i - 1) - 1 + 1 : a[j] = s[1 + j - 1]
      <3> DEFINE k == i - 1
      <3>1. k \in 1 - 1 .. Len(s)
        BY <2>1
      <3> HIDE DEF k
      <3>2. /\ SubSeq(s, 1, k) \in Seq(S) /\ Len(SubSeq(s, 1, k)) = k - 1 + 1
            /\ \A j \in 1 .. k - 1 + 1 : SubSeq(s, 1, k)[j] = s[1 + j - 1]
        BY <2>1, <3>1, SubSeqProperties
      <3> QED
        BY <3>2 DEF k
    <2> QED
      BY <2>1, <2>2
  <1>3. b \in Seq(S) /\ Len(b) = Len(s) - i /\ \A j \in 1 .. Len(s) - i : b[j] = s[i + j]
    <2>1. i + 1 \in 1 .. Len(s) + 1 /\ Len(s) \in (i + 1) - 1 .. Len(s) /\ Len(s) - (i + 1) + 1 = Len(s) - i
      BY <1>1
    <2>2. \A j \in 1 .. Len(s) - i : (i + 1) + j - 1 = i + j
      BY <1>1
    <2>3. b \in Seq(S) /\ Len(b) = Len(s) - (i + 1) + 1 /\ \A j \in 1 .. Len(s) - (i + 1) + 1 : b[j] = s[(i + 1) + j - 1]
      <3> DEFINE k == i + 1
      <3>1. k \in 1 .. Len(s) + 1 /\ Len(s) \in k - 1 .. Len(s)
        BY <2>1
      <3> HIDE DEF k
      <3>2. /\ SubSeq(s, k, Len(s)) \in Seq(S) /\ Len(SubSeq(s, k, Len(s))) = Len(s) - k + 1
            /\ \A j \in 1 .. Len(s) - k + 1 : SubSeq(s, k, Len(s))[j] = s[k + j - 1]
        BY <3>1, SubSeqProperties
      <3> QED
        BY <3>2 DEF k
    <2> QED
      BY <2>1, <2>2, <2>3
  <1>4. News!RemoveAt(s, i) = a \o b
    BY DEF News!RemoveAt
  <1> HIDE DEF a, b
  <1>5. a \o b \in Seq(S) /\ Len(a \o b) = Len(a) + Len(b)
        /\ \A j \in 1 .. Len(a) + Len(b) : (a \o b)[j] = IF j <= Len(a) THEN a[j] ELSE b[j - Len(a)]
    BY <1>2, <1>3, ConcatProperties
  <1>6. Len(a) + Len(b) = Len(s) - 1
    BY <1>1, <1>2, <1>3
  <1>7. ASSUME NEW j \in 1 .. Len(s) - 1
        PROVE  (a \o b)[j] = IF j < i THEN s[j] ELSE s[j + 1]
    <2>1. (a \o b)[j] = IF j <= Len(a) THEN a[j] ELSE b[j - Len(a)]
      BY <1>5, <1>6, <1>7
    <2>2. CASE j < i
      BY <1>1, <1>2, <2>1, <2>2
    <2>3. CASE ~(j < i)
      <3>1. ~(j <= Len(a)) /\ j - Len(a) \in 1 .. Len(s) - i /\ i + (j - Len(a)) = j + 1
        BY <1>1, <1>2, <2>3
      <3> QED
        BY <1>3, <2>1, <2>3, <3>1
    <2> QED
      BY <2>2, <2>3
  <1> QED
    BY <1>4, <1>5, <1>6, <1>7

\* Erasing an id leaves every other entry, and none of that id.
LEMMA WithoutProperties ==
  ASSUME NEW q \in Seq(News!Entry), OnePerId(q), NEW n \in Id
  PROVE  /\ News!Without(q, n) \in Seq(News!Entry) /\ OnePerId(News!Without(q, n))
         /\ Len(News!Without(q, n)) <= Len(q)
         /\ \A j \in DOMAIN News!Without(q, n) :
              News!Without(q, n)[j].id # n /\ \E i \in DOMAIN q : q[i] = News!Without(q, n)[j]
         /\ \A i \in DOMAIN q : q[i].id # n => \E j \in DOMAIN News!Without(q, n) : News!Without(q, n)[j] = q[i]
  <1>0. Len(q) \in Nat /\ DOMAIN q = 1 .. Len(q)
    OBVIOUS
  <1>1. CASE \A i \in DOMAIN q : q[i].id # n
    <2>1. News!Without(q, n) = q
      BY <1>1 DEF News!Without
    <2> QED
      BY <1>0, <1>1, <2>1
  <1>2. CASE \E i \in DOMAIN q : q[i].id = n
    <2> DEFINE k == CHOOSE i \in DOMAIN q : q[i].id = n
    <2>1. k \in DOMAIN q /\ q[k].id = n
      BY <1>2
    <2>2. News!Without(q, n) = News!RemoveAt(q, k)
      BY <1>2 DEF News!Without
    <2> HIDE DEF k
    <2>3. k \in 1 .. Len(q) /\ k \in Nat
      BY <1>0, <2>1
    <2>4. PICK r \in Seq(News!Entry) : /\ r = News!Without(q, n) /\ Len(r) = Len(q) - 1
                                      /\ \A j \in 1 .. Len(q) - 1 : r[j] = IF j < k THEN q[j] ELSE q[j + 1]
      BY <2>2, <2>3, RemoveAtLeaves
    <2>5. DOMAIN r = 1 .. Len(q) - 1
      BY <2>4
    <2> DEFINE from(j) == IF j < k THEN j ELSE j + 1
    <2>6. ASSUME NEW j \in DOMAIN r PROVE from(j) \in DOMAIN q /\ r[j] = q[from(j)] /\ from(j) # k /\ j \in Nat
      <3>1. j \in 1 .. Len(q) - 1 /\ j \in Nat
        BY <1>0, <2>5
      <3>2. CASE j < k
        BY <1>0, <2>3, <2>4, <3>1, <3>2
      <3>3. CASE ~(j < k)
        BY <1>0, <2>3, <2>4, <3>1, <3>3
      <3> QED
        BY <3>2, <3>3
    <2>7. ASSUME NEW j \in DOMAIN r, NEW h \in DOMAIN r, from(j) = from(h) PROVE j = h
      BY <2>3, <2>6, <2>7
    <2> HIDE DEF from
    <2>8. OnePerId(r)
      BY <2>6, <2>7 DEF OnePerId
    <2>9. \A j \in DOMAIN r : r[j].id # n /\ \E i \in DOMAIN q : q[i] = r[j]
      BY <2>1, <2>6 DEF OnePerId
    <2>10. ASSUME NEW i \in DOMAIN q, q[i].id # n PROVE \E j \in DOMAIN r : r[j] = q[i]
      <3>1. i # k /\ i \in Nat /\ i \in 1 .. Len(q)
        BY <1>0, <2>1, <2>10
      <3>2. CASE i < k
        <4>1. i \in DOMAIN r
          BY <1>0, <2>3, <2>5, <3>1, <3>2
        <4> QED
          BY <2>4, <2>5, <3>2, <4>1
      <3>3. CASE ~(i < k)
        <4>1. i - 1 \in 1 .. Len(q) - 1 /\ ~(i - 1 < k) /\ (i - 1) + 1 = i
          BY <1>0, <2>3, <3>1, <3>3
        <4> QED
          BY <2>4, <2>5, <4>1
      <3> QED
        BY <3>2, <3>3
    <2> QED
      BY <1>0, <2>4, <2>8, <2>9, <2>10
  <1> QED
    BY <1>1, <1>2

\* A full table loses its oldest entry, and there is place for a new one.
LEMMA KeptProperties ==
  ASSUME NewsInv
  PROVE  \E room \in Seq(News!Entry) :
           /\ room = IF Len(posted) >= MaxPosted THEN Tail(posted) ELSE posted
           /\ OnePerId(room) /\ Len(room) \in Nat /\ Len(room) + 1 <= MaxPosted
           /\ \A j \in DOMAIN room : \E i \in DOMAIN posted : posted[i] = room[j]
  <1>0. posted \in Seq(News!Entry) /\ OnePerId(posted) /\ Len(posted) \in Nat /\ Len(posted) <= MaxPosted
    BY DEF NewsInv, EntriesInv, News!TypeOK
  <1>1. CASE Len(posted) >= MaxPosted
    <2>1. posted # <<>>
      BY <1>0, <1>1, NewsAssumption, EmptySeq
    <2>2. PICK room \in Seq(News!Entry) : room = Tail(posted)
      BY <1>0, <2>1, Taken
    <2>3. /\ Len(room) = Len(posted) - 1 /\ Len(posted) \in Nat \ {0}
          /\ \A i \in 1 .. Len(room) : i \in Nat /\ i + 1 \in 1 .. Len(posted) /\ room[i] = posted[i + 1]
      BY <1>0, <2>1, <2>2, Taken
    <2>4. DOMAIN room = 1 .. Len(room) /\ DOMAIN posted = 1 .. Len(posted)
      BY <1>0
    <2>5. Len(room) \in Nat /\ Len(room) + 1 <= MaxPosted
      BY <1>0, <2>3
    <2>6. OnePerId(room)
      <3> SUFFICES ASSUME NEW i \in 1 .. Len(room), NEW j \in 1 .. Len(room), room[i].id = room[j].id PROVE i = j
        BY <2>4 DEF OnePerId
      <3>1. i \in Nat /\ j \in Nat /\ i + 1 \in DOMAIN posted /\ j + 1 \in DOMAIN posted
        BY <2>3, <2>4
      <3>2. posted[i + 1].id = posted[j + 1].id
        BY <2>3
      <3>3. i + 1 = j + 1
        BY <1>0, <3>1, <3>2 DEF OnePerId
      <3> QED
        BY <3>1, <3>3
    <2>7. \A j \in DOMAIN room : \E i \in DOMAIN posted : posted[i] = room[j]
      BY <2>3, <2>4
    <2> QED
      BY <1>1, <2>2, <2>5, <2>6, <2>7
  <1>2. CASE ~(Len(posted) >= MaxPosted)
    <2>1. Len(posted) + 1 <= MaxPosted
      BY <1>0, <1>2, NewsAssumption
    <2> QED
      BY <1>0, <1>2, <2>1
  <1> QED
    BY <1>1, <1>2

\* What recording does: an upgrade adds an icon to its entry, and anything else is a new
\* entry, the only one of its id.
LEMMA RecordedProperties ==
  ASSUME NewsInv, NEW n \in Id, NEW t \in News!Time, NEW icon \in BOOLEAN
  PROVE  \E r \in Seq(News!Entry) :
           /\ r = News!Recorded(n, t, icon) /\ OnePerId(r) /\ Len(r) <= MaxPosted
           /\ News!Same(n, t) # {} =>
                /\ DOMAIN r = DOMAIN posted
                /\ \A i \in DOMAIN posted :
                     /\ r[i].id = posted[i].id /\ r[i].time = posted[i].time /\ r[i].recent = posted[i].recent
                     /\ posted[i].icon \/ i \in News!Same(n, t) => r[i].icon
           /\ News!Same(n, t) = {} =>
                /\ \E j \in DOMAIN r : r[j] = [id |-> n, time |-> t, icon |-> icon, recent |-> TRUE]
                /\ \A j \in DOMAIN r : r[j].id = n => r[j] = [id |-> n, time |-> t, icon |-> icon, recent |-> TRUE]
                /\ \A j \in DOMAIN r : r[j].id # n => \E i \in DOMAIN posted : posted[i] = r[j]
  <1>0. posted \in Seq(News!Entry) /\ OnePerId(posted) /\ Len(posted) \in Nat /\ Len(posted) <= MaxPosted
        /\ DOMAIN posted = 1 .. Len(posted) /\ \A i \in DOMAIN posted : posted[i] \in News!Entry
    BY DEF NewsInv, EntriesInv, News!TypeOK
  <1>1. CASE News!Same(n, t) # {}
    <2> DEFINE r == [i \in DOMAIN posted |-> IF i \in News!Same(n, t) THEN [posted[i] EXCEPT !.icon = TRUE] ELSE posted[i]]
    <2>1. r = News!Recorded(n, t, icon)
      BY <1>1 DEF News!Recorded
    <2>2. ASSUME NEW i \in DOMAIN posted
          PROVE  /\ r[i] \in News!Entry
                 /\ r[i].id = posted[i].id /\ r[i].time = posted[i].time /\ r[i].recent = posted[i].recent
                 /\ posted[i].icon \/ i \in News!Same(n, t) => r[i].icon
      <3>1. posted[i] \in News!Entry
        BY <1>0
      <3>2. CASE i \in News!Same(n, t)
        <4>1. r[i] = [posted[i] EXCEPT !.icon = TRUE]
          BY <3>2
        <4> QED
          BY <3>1, <4>1 DEF News!Entry
      <3>3. CASE i \notin News!Same(n, t)
        <4>1. r[i] = posted[i]
          BY <3>3
        <4> QED
          BY <3>1, <3>3, <4>1
      <3> QED
        BY <3>2, <3>3
    <2>3. DOMAIN r = 1 .. Len(posted)
      BY <1>0
    <2> HIDE DEF r
    <2>4. r \in Seq(News!Entry) /\ Len(r) = Len(posted)
      <3>1. r \in [1 .. Len(posted) -> News!Entry]
        <4>1. r = [i \in 1 .. Len(posted) |-> r[i]]
          BY <1>0 DEF r
        <4> QED
          BY <1>0, <2>2, <4>1
      <3> QED
        BY <1>0, <2>3, <3>1, IsASeq
    <2>5. OnePerId(r)
      BY <1>0, <2>2, <2>3 DEF OnePerId
    <2> QED
      BY <1>0, <1>1, <2>1, <2>2, <2>3, <2>4, <2>5
  <1>2. CASE News!Same(n, t) = {}
    <2> DEFINE e == [id |-> n, time |-> t, icon |-> icon, recent |-> TRUE]
    <2>1. PICK room \in Seq(News!Entry) :
           /\ room = IF Len(posted) >= MaxPosted THEN Tail(posted) ELSE posted
           /\ OnePerId(room) /\ Len(room) \in Nat /\ Len(room) + 1 <= MaxPosted
           /\ \A j \in DOMAIN room : \E i \in DOMAIN posted : posted[i] = room[j]
      BY KeptProperties
    <2>2. PICK w \in Seq(News!Entry) :
           /\ w = News!Without(room, n) /\ OnePerId(w) /\ Len(w) <= Len(room)
           /\ \A j \in DOMAIN w : w[j].id # n /\ \E i \in DOMAIN room : room[i] = w[j]
      <3>1. /\ News!Without(room, n) \in Seq(News!Entry) /\ OnePerId(News!Without(room, n))
            /\ Len(News!Without(room, n)) <= Len(room)
            /\ \A j \in DOMAIN News!Without(room, n) :
                 News!Without(room, n)[j].id # n /\ \E i \in DOMAIN room : room[i] = News!Without(room, n)[j]
        BY <2>1, WithoutProperties
      <3> QED
        BY <3>1
    <2>3. News!Recorded(n, t, icon) = Append(w, e)
      BY <1>2, <2>1, <2>2 DEF News!Recorded
    <2>4. e \in News!Entry /\ e.id = n
      BY DEF News!Entry
    <2> HIDE DEF e
    <2>5. PICK r \in Seq(News!Entry) :
            /\ r = Append(w, e) /\ Len(r) = Len(w) + 1 /\ Len(w) \in Nat
            /\ \A i \in 1 .. Len(w) : i \in 1 .. Len(r) /\ r[i] = w[i]
            /\ Len(w) + 1 \in 1 .. Len(r) /\ r[Len(w) + 1] = e
            /\ \A i \in 1 .. Len(r) : i \in 1 .. Len(w) \/ i = Len(w) + 1
      BY <2>4, Appended
    <2>6. DOMAIN r = 1 .. Len(r) /\ DOMAIN w = 1 .. Len(w)
      OBVIOUS
    <2>7. Len(r) <= MaxPosted
      BY <2>1, <2>2, <2>5, NewsAssumption
    <2>8. OnePerId(r)
      <3> SUFFICES ASSUME NEW i \in DOMAIN r, NEW j \in DOMAIN r, r[i].id = r[j].id PROVE i = j
        BY DEF OnePerId
      <3>1. CASE i \in DOMAIN w /\ j \in DOMAIN w
        BY <2>2, <2>5, <2>6, <3>1 DEF OnePerId
      <3>2. CASE i \in DOMAIN w /\ j \notin DOMAIN w
        BY <2>2, <2>4, <2>5, <2>6, <3>2
      <3>3. CASE i \notin DOMAIN w /\ j \in DOMAIN w
        BY <2>2, <2>4, <2>5, <2>6, <3>3
      <3>4. CASE i \notin DOMAIN w /\ j \notin DOMAIN w
        BY <2>5, <2>6, <3>4
      <3> QED
        BY <3>1, <3>2, <3>3, <3>4
    <2>9. \E j \in DOMAIN r : r[j] = e
      BY <2>5, <2>6
    <2>10. ASSUME NEW j \in DOMAIN r
           PROVE  /\ r[j].id = n => r[j] = e
                  /\ r[j].id # n => \E i \in DOMAIN posted : posted[i] = r[j]
      <3>1. CASE j \in DOMAIN w
        BY <2>1, <2>2, <2>5, <2>6, <3>1
      <3>2. CASE j \notin DOMAIN w
        BY <2>4, <2>5, <2>6, <3>2
      <3> QED
        BY <3>1, <3>2
    <2> QED
      BY <1>2, <2>3, <2>5, <2>7, <2>8, <2>9, <2>10 DEF e
  <1> QED
    BY <1>1, <1>2

\* A notification that is no duplicate has its entry, the only one of its id, and what
\* was posted is shown, also of the others.
LEMMA ArriveKeeps ==
  ASSUME NewsInv, NEW n \in Id, NEW t \in News!Time, NEW brought \in BOOLEAN, NEW silent \in BOOLEAN,
         NEW written \in BOOLEAN, News!Arrive(n, t, brought, silent, written)
  PROVE  NewsInv'
  <1> DEFINE icon == brought \/ n \in hashed
             wanted == open /\ ~silent
             post == wanted /\ written
             it == [id |-> n, time |-> t, icon |-> icon]
  <1>1. icon \in BOOLEAN /\ post \in BOOLEAN
    BY DEF NewsInv, News!TypeOK
  <1>2. t \in Nat /\ t # 0 /\ t \in 0 .. MaxTime
    BY NewsAssumption DEF News!Time
  <1>3. /\ packets' \in 0 .. MaxPackets /\ hashed' \in SUBSET Id
        /\ UNCHANGED <<open, iconed, onScreen>>
    <2>1. packets' \in 0 .. MaxPackets
      BY NewsAssumption DEF News!Arrive, NewsInv, News!TypeOK
    <2>2. hashed' \in SUBSET Id
      BY DEF News!Arrive, News!Remember, NewsInv, News!TypeOK
    <2> QED
      BY <2>1, <2>2 DEF News!Arrive
  <1>4. \A m \in Id : due[m] # 0 => IsShown(files \cup onScreen, m, due[m])
    BY DEF NewsInv, News!NewestIsShown, IsShown
  <1>5. CASE News!Duplicate(n, t, icon)
    <2>1. /\ due' = IF wanted /\ n \notin hidden THEN [due EXCEPT ![n] = t] ELSE due
          /\ UNCHANGED <<posted, files, hidden, lately, twice>>
      BY <1>5 DEF News!Arrive
    <2>2. n \notin hidden => IsShown(files \cup onScreen, n, t)
      BY <1>5 DEF News!Duplicate, News!Same, NewsInv, EntriesInv
    <2>3. due' \in [Id -> 0 .. MaxTime]
      BY <1>2, <2>1 DEF NewsInv, News!TypeOK
    <2>4. News!TypeOK'
      BY <1>3, <2>1, <2>3 DEF NewsInv, News!TypeOK
    <2>5. EntriesInv'
      BY <1>3, <2>1 DEF NewsInv, EntriesInv, IsShown
    <2>6. ASSUME NEW m \in Id, due'[m] # 0 PROVE IsShown(files \cup onScreen, m, due'[m])
      <3>1. due'[m] = due[m] \/ (m = n /\ due'[m] = t /\ n \notin hidden)
        BY <2>1 DEF NewsInv, News!TypeOK
      <3> QED
        BY <1>4, <2>2, <2>6, <3>1
    <2>7. News!NewestIsShown'
      BY <1>3, <2>1, <2>6 DEF News!NewestIsShown, IsShown
    <2> QED
      BY <2>1, <2>4, <2>5, <2>7 DEF NewsInv
  <1>6. CASE ~News!Duplicate(n, t, icon)
    <2>1. /\ posted' = News!Recorded(n, t, icon)
          /\ files' \in IF post THEN {News!Posted(n, t, icon /\ iconed)}
                       ELSE IF wanted THEN {News!Left(n, t), News!Spoilt(n, t, icon /\ iconed)}
                       ELSE {News!Left(n, t)}
          /\ hidden' = IF post THEN hidden \ {n} ELSE hidden \cup {n}
          /\ due' = [due EXCEPT ![n] = IF post THEN t ELSE 0]
          /\ lately' = {l \in lately \cup (IF post THEN {it} ELSE {}) : News!Recent(l)}
          /\ twice' = (twice \/ (post /\ it \in lately))
      BY <1>6 DEF News!Arrive
    <2>2. /\ posted' \in Seq(News!Entry) /\ OnePerId(posted') /\ Len(posted') <= MaxPosted
          /\ News!Same(n, t) # {} =>
                /\ DOMAIN posted' = DOMAIN posted
                /\ \A i \in DOMAIN posted :
                     /\ posted'[i].id = posted[i].id /\ posted'[i].time = posted[i].time /\ posted'[i].recent = posted[i].recent
                     /\ posted[i].icon \/ i \in News!Same(n, t) => posted'[i].icon
          /\ News!Same(n, t) = {} =>
                /\ \E j \in DOMAIN posted' : posted'[j] = [id |-> n, time |-> t, icon |-> icon, recent |-> TRUE]
                /\ \A j \in DOMAIN posted' : posted'[j].id = n => posted'[j] = [id |-> n, time |-> t, icon |-> icon, recent |-> TRUE]
                /\ \A j \in DOMAIN posted' : posted'[j].id # n => \E i \in DOMAIN posted : posted[i] = posted'[j]
      <3> HIDE DEF icon
      <3> QED
        BY <1>1, <2>1, RecordedProperties
    <2>0. /\ post => files' = News!Posted(n, t, icon /\ iconed)
          /\ \/ files' = News!Posted(n, t, icon /\ iconed)
             \/ files' = News!Left(n, t)
             \/ files' = News!Spoilt(n, t, icon /\ iconed)
      BY <2>1
    <2> HIDE DEF icon, post, wanted
    <2>3. it \in News!Notice /\ it.id = n /\ it.time = t /\ it.icon = icon
      BY <1>1 DEF News!Notice
    <2>4. ~twice'
      <3>1. it \notin lately
        <4> SUFFICES ASSUME it \in lately PROVE FALSE
          OBVIOUS
        <4>1. PICK i \in DOMAIN posted : posted[i].id = n /\ posted[i].time = t /\ posted[i].recent /\ (icon => posted[i].icon)
          BY <2>3 DEF NewsInv, EntriesInv
        <4> QED
          BY <1>6, <4>1 DEF News!Duplicate, News!Same
      <3> QED
        BY <2>1, <3>1 DEF NewsInv
    <2>5. files' \in SUBSET News!Notice
      <3>1. (icon /\ iconed) \in BOOLEAN
        OBVIOUS
      <3>2. [id |-> n, time |-> t, icon |-> icon /\ iconed] \in News!Notice
        BY <3>1 DEF News!Notice
      <3> QED
        BY <2>0, <3>2 DEF News!Posted, News!Spoilt, News!Left, NewsInv, News!TypeOK
    <2>6. \A f \in files \cup onScreen : f.id # n => f \in files' \cup onScreen'
      BY <1>3, <2>0 DEF News!Posted, News!Spoilt, News!Left
    <2>7. \A m : \A s : m # n /\ IsShown(files \cup onScreen, m, s) => IsShown(files' \cup onScreen', m, s)
      BY <2>6 DEF IsShown
    <2>8. post => IsShown(files' \cup onScreen', n, t)
      <3> SUFFICES ASSUME post PROVE IsShown(files' \cup onScreen', n, t)
        OBVIOUS
      <3> DEFINE f == [id |-> n, time |-> t, icon |-> icon /\ iconed]
      <3>1. f \in files'
        BY <2>0 DEF News!Posted
      <3>2. f.id = n /\ f.time = t
        OBVIOUS
      <3> QED
        BY <3>1, <3>2 DEF IsShown
    <2>9. due' \in [Id -> 0 .. MaxTime] /\ due'[n] = (IF post THEN t ELSE 0) /\ \A m \in Id : m # n => due'[m] = due[m]
      <3>1. 0 \in 0 .. MaxTime
        BY NewsAssumption
      <3> QED
        BY <1>2, <2>1, <3>1 DEF NewsInv, News!TypeOK
    <2>10. News!NewestIsShown'
      <3>1. ASSUME NEW m \in Id, due'[m] # 0 PROVE IsShown(files' \cup onScreen', m, due'[m])
        <4>1. CASE m = n
          BY <2>8, <2>9, <3>1, <4>1
        <4>2. CASE m # n
          BY <1>4, <2>7, <2>9, <3>1, <4>2
        <4> QED
          BY <4>1, <4>2
      <3> QED
        BY <3>1 DEF News!NewestIsShown, IsShown
    <2>11. \A i \in DOMAIN posted' : posted'[i].recent /\ posted'[i].id \notin hidden' => IsShown(files' \cup onScreen', posted'[i].id, posted'[i].time)
      <3> SUFFICES ASSUME NEW i \in DOMAIN posted', posted'[i].recent, posted'[i].id \notin hidden'
                   PROVE  IsShown(files' \cup onScreen', posted'[i].id, posted'[i].time)
        OBVIOUS
      <3>1. CASE posted'[i].id = n
        <4>1. post
          BY <2>1, <3>1
        <4>2. posted'[i].time = t
          <5>1. CASE News!Same(n, t) = {}
            BY <2>2, <3>1, <5>1
          <5>2. CASE News!Same(n, t) # {}
            <6>1. PICK j \in DOMAIN posted : posted[j].id = n /\ posted[j].time = t
              BY <5>2 DEF News!Same
            <6>2. i = j
              BY <2>2, <3>1, <5>2, <6>1 DEF OnePerId
            <6> QED
              BY <2>2, <5>2, <6>1, <6>2
          <5> QED
            BY <5>1, <5>2
        <4> QED
          BY <2>8, <3>1, <4>1, <4>2
      <3>2. CASE posted'[i].id # n
        <4>1. PICK j \in DOMAIN posted : posted[j].id = posted'[i].id /\ posted[j].time = posted'[i].time /\ posted[j].recent
          BY <2>2, <3>2
        <4>2. posted[j].id \notin hidden
          BY <2>1, <3>2, <4>1
        <4>3. IsShown(files \cup onScreen, posted[j].id, posted[j].time)
          BY <4>1, <4>2 DEF NewsInv, EntriesInv
        <4> QED
          BY <2>7, <3>2, <4>1, <4>3
      <3> QED
        BY <3>1, <3>2
    <2>12. ASSUME NEW l \in lately'
           PROVE  \E i \in DOMAIN posted' :
                    posted'[i].id = l.id /\ posted'[i].time = l.time /\ posted'[i].recent /\ (l.icon => posted'[i].icon)
      <3>1. (l \in lately \/ (post /\ l = it)) /\ News!Recent(l)
        BY <2>1
      <3>2. PICK k \in DOMAIN posted' : posted'[k].id = l.id /\ posted'[k].time = l.time /\ posted'[k].recent
        BY <3>1 DEF News!Recent
      <3>3. CASE l = it
        <4>1. CASE News!Same(n, t) = {}
          BY <2>2, <2>3, <3>2, <3>3, <4>1
        <4>2. CASE News!Same(n, t) # {}
          <5>1. PICK i \in News!Same(n, t) : TRUE
            BY <4>2
          <5>2. i \in DOMAIN posted /\ posted[i].id = n /\ posted[i].time = t /\ posted[i].recent
            BY <5>1 DEF News!Same
          <5> QED
            BY <2>2, <2>3, <3>3, <4>2, <5>1, <5>2
        <4> QED
          BY <4>1, <4>2
      <3>4. CASE l \in lately /\ l # it
        <4>1. PICK j \in DOMAIN posted :
                posted[j].id = l.id /\ posted[j].time = l.time /\ posted[j].recent /\ (l.icon => posted[j].icon)
          BY <3>4 DEF NewsInv, EntriesInv
        <4>2. CASE News!Same(n, t) # {}
          BY <2>2, <4>1, <4>2
        <4>3. CASE News!Same(n, t) = {}
          <5>1. CASE l.id = n
            <6>1. posted'[k] = [id |-> n, time |-> t, icon |-> icon, recent |-> TRUE]
              BY <2>2, <3>2, <4>3, <5>1
            <6>2. l.time = t
              BY <3>2, <6>1
            <6> QED
              BY <4>1, <4>3, <5>1, <6>2 DEF News!Same
          <5>2. CASE l.id # n
            <6>1. PICK i \in DOMAIN posted : posted[i] = posted'[k]
              BY <2>2, <3>2, <4>3, <5>2
            <6>2. i = j
              BY <3>2, <4>1, <6>1 DEF NewsInv, EntriesInv, OnePerId
            <6> QED
              BY <3>2, <4>1, <6>1, <6>2
          <5> QED
            BY <5>1, <5>2
        <4> QED
          BY <4>2, <4>3
      <3> QED
        BY <3>1, <3>3, <3>4
    <2>13. EntriesInv'
      BY <2>2, <2>11, <2>12 DEF EntriesInv
    <2>14. News!TypeOK'
      <3>1. \A i \in DOMAIN posted' : posted'[i] \in News!Entry
        BY <2>2
      <3>2. hidden' \in SUBSET Id /\ lately' \in SUBSET News!Notice
        BY <2>1, <2>3 DEF NewsInv, News!TypeOK
      <3>3. twice' \in BOOLEAN
        BY <2>1 DEF NewsInv, News!TypeOK
      <3> QED
        BY <1>3, <2>2, <2>5, <2>9, <3>1, <3>2, <3>3 DEF NewsInv, News!TypeOK
    <2> QED
      BY <2>4, <2>10, <2>13, <2>14 DEF NewsInv
  <1> QED
    BY <1>5, <1>6

\* One without an id is another file, and keeps the invariant.
LEMMA NamelessKeeps ==
  ASSUME NewsInv, NEW n \in Id, NEW brought \in BOOLEAN, NEW silent \in BOOLEAN,
         NEW written \in BOOLEAN, News!ArriveNameless(n, brought, silent, written)
  PROVE  NewsInv'
  <1>1. UNCHANGED <<posted, open, iconed, onScreen, due, hidden, lately, twice>>
    BY DEF News!ArriveNameless
  <1>2. packets' \in 1 .. MaxPackets /\ packets' \in 0 .. MaxPackets
    BY NewsAssumption DEF News!ArriveNameless, NewsInv, News!TypeOK
  <1>3. hashed' \in SUBSET Id
    BY DEF News!ArriveNameless, News!Remember, NewsInv, News!TypeOK
  <1> DEFINE it == [id |-> NoId, time |-> packets', icon |-> (brought \/ n \in hashed) /\ iconed]
  <1>4. it \in News!Notice
    BY <1>2 DEF News!Notice, NewsInv, News!TypeOK
  <1>5. files' = files \cup {it} \/ files' = files
    BY DEF News!ArriveNameless
  <1> HIDE DEF it
  <1>6. files \subseteq files' /\ files' \in SUBSET News!Notice
    BY <1>4, <1>5 DEF NewsInv, News!TypeOK
  <1>7. News!TypeOK'
    BY <1>1, <1>2, <1>3, <1>6 DEF NewsInv, News!TypeOK
  <1>8. EntriesInv'
    BY <1>1, <1>6 DEF NewsInv, EntriesInv, IsShown
  <1>9. News!NewestIsShown'
    BY <1>1, <1>6 DEF NewsInv, News!NewestIsShown
  <1> QED
    BY <1>1, <1>7, <1>8, <1>9 DEF NewsInv

\* A notification that the phone cancels keeps the invariant.
LEMMA CancelKeeps == ASSUME NewsInv, NEW n \in Id, News!Cancel(n) PROVE NewsInv'
  <1>1. /\ posted' = News!Without(posted, n) /\ hidden' = hidden \ {n} /\ lately' = {l \in lately : l.id # n}
        /\ UNCHANGED <<hashed, open, iconed, files, onScreen, due, twice>>
    BY DEF News!Cancel
  <1>2. packets' \in 0 .. MaxPackets
    <2>1. MaxPackets \in Nat
      BY NewsAssumption
    <2>2. packets \in 0 .. MaxPackets
      BY DEF NewsInv, News!TypeOK
    <2>3. packets < MaxPackets /\ packets' = packets + 1
      BY DEF News!Cancel
    <2> QED
      BY <2>1, <2>2, <2>3, Counts, Zenon
  <1>3. posted \in Seq(News!Entry) /\ OnePerId(posted) /\ Len(posted) \in Nat /\ Len(posted) <= MaxPosted
    BY DEF NewsInv, EntriesInv, News!TypeOK
  <1>4. /\ posted' \in Seq(News!Entry) /\ OnePerId(posted') /\ Len(posted') <= Len(posted)
        /\ \A j \in DOMAIN posted' : posted'[j].id # n /\ \E i \in DOMAIN posted : posted[i] = posted'[j]
        /\ \A i \in DOMAIN posted : posted[i].id # n => \E j \in DOMAIN posted' : posted'[j] = posted[i]
    <2>1. /\ News!Without(posted, n) \in Seq(News!Entry) /\ OnePerId(News!Without(posted, n))
          /\ Len(News!Without(posted, n)) <= Len(posted)
          /\ \A j \in DOMAIN News!Without(posted, n) :
               News!Without(posted, n)[j].id # n /\ \E i \in DOMAIN posted : posted[i] = News!Without(posted, n)[j]
          /\ \A i \in DOMAIN posted :
               posted[i].id # n => \E j \in DOMAIN News!Without(posted, n) : News!Without(posted, n)[j] = posted[i]
      BY <1>3, WithoutProperties, Zenon
    <2> QED
      BY <1>1, <2>1, Zenon
  <1>5. News!TypeOK'
    <2>1. Len(posted') <= MaxPosted
      BY <1>3, <1>4, NewsAssumption
    <2>2. \A i \in DOMAIN posted' : posted'[i] \in News!Entry
      BY <1>4
    <2> QED
      BY <1>1, <1>2, <2>1, <2>2 DEF NewsInv, News!TypeOK
  <1>6. EntriesInv'
    <2>1. \A i \in DOMAIN posted' : posted'[i].recent /\ posted'[i].id \notin hidden' =>
            IsShown(files' \cup onScreen', posted'[i].id, posted'[i].time)
      BY <1>1, <1>4 DEF NewsInv, EntriesInv
    <2>2. ASSUME NEW l \in lately'
          PROVE  \E i \in DOMAIN posted' :
                    posted'[i].id = l.id /\ posted'[i].time = l.time /\ posted'[i].recent /\ (l.icon => posted'[i].icon)
      <3>1. l \in lately /\ l.id # n
        BY <1>1
      <3>2. PICK i \in DOMAIN posted :
              posted[i].id = l.id /\ posted[i].time = l.time /\ posted[i].recent /\ (l.icon => posted[i].icon)
        BY <3>1 DEF NewsInv, EntriesInv
      <3>3. posted[i].id # n
        BY <3>1, <3>2
      <3>4. PICK j \in DOMAIN posted' : posted'[j] = posted[i]
        BY <1>4, <3>3
      <3> QED
        BY <3>2, <3>4, Zenon
    <2> QED
      BY <1>4, <2>1, <2>2 DEF EntriesInv
  <1>7. News!NewestIsShown'
    BY <1>1 DEF NewsInv, News!NewestIsShown
  <1> QED
    BY <1>1, <1>5, <1>6, <1>7 DEF NewsInv

\* Time that passes keeps it.
LEMMA AgeKeeps == ASSUME NewsInv, News!Age PROVE NewsInv'
  <1>1. PICK i \in DOMAIN posted :
          /\ posted' = [posted EXCEPT ![i].recent = FALSE]
          /\ hidden' = hidden \ {posted[i].id} /\ lately' = {l \in lately : l.id # posted[i].id}
          /\ UNCHANGED <<hashed, open, iconed, files, onScreen, due, twice, packets>>
    BY DEF News!Age
  <1>2. posted \in Seq(News!Entry) /\ OnePerId(posted) /\ Len(posted) \in Nat /\ DOMAIN posted = 1 .. Len(posted)
    BY DEF NewsInv, EntriesInv
  <1>3. posted[i] \in News!Entry
    BY <1>2
  <1> DEFINE e == [posted[i] EXCEPT !.recent = FALSE]
  <1>4. e \in News!Entry /\ e.id = posted[i].id /\ ~e.recent
    BY <1>3 DEF News!Entry
  <1>5. posted' = [posted EXCEPT ![i] = e]
    BY <1>1
  <1> HIDE DEF e
  <1>6. /\ posted' \in Seq(News!Entry) /\ DOMAIN posted' = DOMAIN posted /\ Len(posted') = Len(posted)
        /\ posted'[i] = e /\ \A j \in DOMAIN posted : j # i => posted'[j] = posted[j]
    <2>1. posted \in [1 .. Len(posted) -> News!Entry]
      BY <1>2
    <2>2. posted' \in [1 .. Len(posted) -> News!Entry]
      BY <1>4, <1>5, <2>1
    <2>3. posted' \in Seq(News!Entry)
      BY <1>2, <2>2, IsASeq
    <2> QED
      BY <1>2, <1>5, <2>2, <2>3
  <1>7. OnePerId(posted')
    BY <1>2, <1>4, <1>6 DEF OnePerId
  <1>8. News!TypeOK'
    <2>1. \A j \in DOMAIN posted' : posted'[j] \in News!Entry
      BY <1>6
    <2> QED
      BY <1>1, <1>6, <2>1 DEF NewsInv, News!TypeOK
  <1>9. EntriesInv'
    <2>1. ASSUME NEW j \in DOMAIN posted', posted'[j].recent, posted'[j].id \notin hidden'
          PROVE  IsShown(files' \cup onScreen', posted'[j].id, posted'[j].time)
      <3>1. j # i /\ posted'[j] = posted[j] /\ j \in DOMAIN posted
        BY <1>4, <1>6, <2>1
      <3>2. posted[j].id # posted[i].id
        BY <1>2, <3>1 DEF OnePerId
      <3>3. posted[j].id \notin hidden
        BY <1>1, <2>1, <3>1, <3>2
      <3> QED
        BY <1>1, <2>1, <3>1, <3>3 DEF NewsInv, EntriesInv
    <2>2. ASSUME NEW l \in lately'
          PROVE  \E j \in DOMAIN posted' :
                    posted'[j].id = l.id /\ posted'[j].time = l.time /\ posted'[j].recent /\ (l.icon => posted'[j].icon)
      <3>1. l \in lately /\ l.id # posted[i].id
        BY <1>1
      <3>2. PICK j \in DOMAIN posted :
              posted[j].id = l.id /\ posted[j].time = l.time /\ posted[j].recent /\ (l.icon => posted[j].icon)
        BY <3>1 DEF NewsInv, EntriesInv
      <3> QED
        BY <1>6, <3>1, <3>2
    <2> QED
      BY <1>6, <1>7, <2>1, <2>2 DEF EntriesInv
  <1>10. News!NewestIsShown'
    BY <1>1 DEF NewsInv, News!NewestIsShown
  <1> QED
    BY <1>1, <1>8, <1>9, <1>10 DEF NewsInv

\* So do the gates and Ultrahand.
LEMMA GateKeeps == ASSUME NewsInv, News!Gate \/ News!Show PROVE NewsInv'
  <1>1. CASE News!Gate
    <2>1. /\ open' = ~open /\ due' = [n \in Id |-> 0]
          /\ UNCHANGED <<posted, hashed, iconed, files, onScreen, hidden, lately, twice, packets>>
      BY <1>1 DEF News!Gate
    <2>2. due' \in [Id -> 0 .. MaxTime]
      BY <2>1, NewsAssumption
    <2>3. News!TypeOK'
      BY <2>1, <2>2 DEF NewsInv, News!TypeOK
    <2> QED
      BY <2>1, <2>3 DEF NewsInv, EntriesInv, News!NewestIsShown
  <1>2. CASE News!Show
    <2>1. PICK f \in files :
            /\ files' = files \ {f} /\ onScreen' = onScreen \cup {f}
            /\ UNCHANGED <<posted, hashed, open, iconed, due, hidden, lately, twice, packets>>
      BY <1>2 DEF News!Show
    <2>2. files' \cup onScreen' = files \cup onScreen
      BY <2>1
    <2>3. News!TypeOK'
      BY <2>1 DEF NewsInv, News!TypeOK
    <2>4. News!NewestIsShown'
      <3>1. News!NewestIsShown <=> \A n \in Id : due[n] # 0 => IsShown(files \cup onScreen, n, due[n])
        BY DEF News!NewestIsShown, IsShown
      <3>2. News!NewestIsShown' <=> \A n \in Id : due'[n] # 0 => IsShown(files' \cup onScreen', n, due'[n])
        BY DEF News!NewestIsShown, IsShown
      <3> QED
        BY <2>1, <2>2, <3>1, <3>2 DEF NewsInv
    <2> QED
      BY <2>1, <2>2, <2>3, <2>4 DEF NewsInv, EntriesInv
  <1> QED
    BY <1>1, <1>2

\* Every step of the notifications, and of another part, keeps the invariant.
LEMMA NewsStep == NewsInv /\ [News!Next]_noticesVars => NewsInv'
  <1>1. CASE NewsInv /\ UNCHANGED noticesVars
    BY <1>1 DEF noticesVars, NewsInv, EntriesInv, News!TypeOK, News!NewestIsShown
  <1>2. CASE NewsInv /\ News!Next
    BY <1>2, ArriveKeeps, NamelessKeeps, CancelKeeps, AgeKeeps, GateKeeps DEF News!Next
  <1> QED
    BY <1>1, <1>2

\* The invariant is what the part promises.
LEMMA NewsHold == NewsInv => News!TypeOK /\ News!NewestIsShown /\ News!NotTwice
  BY DEF NewsInv, News!NotTwice

=============================================================================
