------------------------------ MODULE HostProofs ------------------------------
(***************************************************************************)
(* What the services of the sysmodule promise, proved for every number of  *)
(* users, sessions, messages, settings and screenshots; and first, what    *)
(* becomes of its identity, for any number of them.  Each of them has      *)
(* an inductive invariant of its own, and a step of one leaves the         *)
(* variables of the others alone, so that the invariant of each is one of  *)
(* the whole.                                                              *)
(***************************************************************************)
EXTENDS MCHost, TLAPS, WellFoundedInduction, FiniteSetTheorems, SequenceTheorems

(* Identity: the files of the certificate and the key, and the client that  *)
(* runs with them, for any number of generated identities.                  *)

\* The key is the last thing written, so a key that parses has its certificate
\* beside it; and an identity that was run with is in the files for good.
Files ==
  /\ disk["key"] \in Ident => disk["cert"] = disk["key"]
  /\ pc \in {"generate"} \cup WritePc("cert") \cup WritePc("key") => disk["key"] \notin Ident
  /\ pc \in {"parse"} \cup WritePc("cert") \cup WritePc("key") => key \in Ident /\ devId = key
  /\ pc \in {"parse"} \cup WritePc("key") => disk["cert"] = key
  /\ pc = "parse" => disk["key"] = key

\* What is known of the identity that was first run with, and of a client that
\* runs.
Known ==
  /\ known # None =>
       /\ pc \in {"load", "running"}
       /\ disk["cert"] = known /\ disk["key"] = known
  /\ pc = "running" => known # None /\ devId = known
  /\ pc = "running" /\ how = "loaded" => chain = key

IInv == TypeOK /\ Files /\ Known

-----------------------------------------------------------------------------

\* Each kind of content of a file is told apart from the others.
LEMMA Contents ==
  /\ Absent \notin Ident /\ Torn \notin Ident /\ None \notin Ident
  /\ \A n \in 0 .. MaxIdent : n < MaxIdent => n + 1 \in Ident
  BY IdentityAssumption DEF Absent, Torn, None, Ident

\* A step keeps the types, whatever fails (load_or_create, write_file).
LEMMA TypeStep == TypeOK /\ [Next]_vars => TypeOK'
  <1> SUFFICES ASSUME TypeOK, [Next]_vars PROVE TypeOK'
    OBVIOUS
  <1> USE DEF TypeOK, Content, File, memory
  <1>1. CASE Load
    BY <1>1 DEF Load, Running, Read, WritePc
  <1>2. CASE Generate
    <2>1. made \in 0 .. MaxIdent /\ made < MaxIdent /\ made' = made + 1
      BY <1>2 DEF Generate
    <2>2. made + 1 \in Ident /\ made' \in 0 .. MaxIdent
      BY <2>1, Contents, IdentityAssumption
    <2> QED
      BY <1>2, <2>2 DEF Generate, WritePc
  <1>3. CASE WriteCert
    BY <1>3 DEF WriteCert, WriteOpen, WriteData, WritePc, None, Absent
  <1>4. CASE WriteKey
    BY <1>4 DEF WriteKey, WriteOpen, WriteData, WritePc, None, Absent
  <1>5. CASE Parse
    BY <1>5 DEF Parse, Running
  <1>6. ASSUME NEW f \in File, WriteFails(f) PROVE TypeOK'
    BY <1>6 DEF WriteFails
  <1>7. CASE Restart \/ PowerCut
    BY <1>7 DEF Restart, PowerCut, Fresh
  <1>8. CASE UNCHANGED vars
    BY <1>8 DEF vars
  <1> QED
    BY <1>1, <1>2, <1>3, <1>4, <1>5, <1>6, <1>7, <1>8 DEF Next

\* The files and the running client stay as IInv says, if files that are there
\* can be read (load_from_files, generate_self_signed).
LEMMA IInvStep == ~ReadsFail /\ IInv /\ [Next]_vars => IInv'
  <1> SUFFICES ASSUME ~ReadsFail, IInv, [Next]_vars PROVE Files' /\ Known'
    BY TypeStep DEF IInv
  <1> USE Contents DEF IInv, TypeOK, Content, File, Files, Known, WritePc, memory
  <1>1. CASE Load
    <2>1. /\ Read("cert") = {disk["cert"]} /\ Read("key") = {disk["key"]}
          /\ UNCHANGED disk
      BY <1>1 DEF Load, Read
    <2>2. CASE disk["cert"] \in Ident /\ disk["key"] \in Ident
      BY <1>1, <2>1, <2>2 DEF Load, Running
    <2>3. CASE ~(disk["cert"] \in Ident /\ disk["key"] \in Ident)
      BY <1>1, <2>1, <2>3 DEF Load, Running
    <2> QED
      BY <2>2, <2>3
  <1>2. CASE Generate
    BY <1>2 DEF Generate
  <1>3. CASE WriteCert
    <2>1. CASE WriteOpen("cert", "cert_open", "cert_write")
      BY <2>1 DEF WriteOpen
    <2>2. CASE WriteData("cert", "cert_write", "key_open")
      BY <2>2 DEF WriteData
    <2> QED
      BY <1>3, <2>1, <2>2 DEF WriteCert
  <1>4. CASE WriteKey
    <2>1. CASE WriteOpen("key", "key_open", "key_write")
      BY <2>1 DEF WriteOpen
    <2>2. CASE WriteData("key", "key_write", "parse")
      BY <2>2 DEF WriteData
    <2> QED
      BY <1>4, <2>1, <2>2 DEF WriteKey
  <1>5. CASE Parse
    BY <1>5 DEF Parse, Running
  <1>6. ASSUME NEW f \in File, WriteFails(f) PROVE Files' /\ Known'
    BY <1>6 DEF WriteFails
  <1>7. CASE Restart \/ PowerCut
    BY <1>7 DEF Restart, PowerCut, Fresh
  <1>8. CASE UNCHANGED vars
    BY <1>8 DEF vars
  <1> QED
    BY <1>1, <1>2, <1>3, <1>4, <1>5, <1>6, <1>7, <1>8 DEF Next

\* The console starts without files.
LEMMA InitIInv == Init => IInv
  BY Contents, IdentityAssumption
     DEF Init, IInv, TypeOK, Files, Known, Content, File, WritePc, Absent, None

-----------------------------------------------------------------------------

\* Every variable keeps its type; in particular a client never runs with a key
\* or a certificate that did not parse (load_or_create).
THEOREM IdentityTypeCorrect == Spec => []TypeOK
  <1>1. Init => TypeOK
    BY InitIInv DEF IInv
  <1> QED
    BY <1>1, TypeStep, PTL DEF Spec

\* The identity other devices know the console by outlives power cuts and
\* failed writes at any point of load_or_create.
THEOREM IdentityLastingTheorem ==
  ASSUME ~ReadsFail PROVE Spec => []IdentityLasting
  <1>1. IInv /\ [Next]_vars => IInv'
    BY IInvStep
  <1>2. IInv => IdentityLasting
    BY DEF IInv, Known, IdentityLasting
  <1> QED
    BY <1>1, <1>2, InitIInv, PTL DEF Spec

\* What is read from the files is a certificate with its own key.
THEOREM LoadedIsUsableTheorem ==
  ASSUME ~ReadsFail PROVE Spec => []LoadedIsUsable
  <1>1. IInv /\ [Next]_vars => IInv'
    BY IInvStep
  <1>2. IInv => LoadedIsUsable
    BY DEF IInv, Known, LoadedIsUsable
  <1> QED
    BY <1>1, <1>2, InitIInv, PTL DEF Spec

-----------------------------------------------------------------------------

(* The services.                                                            *)

\* There is a least number in a set of numbers.  Default of the settings, the end of
\* a C string and the newest screenshot are chosen as a least or a greatest one.
LEMMA LeastNatural ==
  ASSUME NEW T, T \subseteq Nat, T # {}
  PROVE  \E x \in T : \A y \in T : x <= y
  <1> DEFINE R == OpToRel(<, Nat)
  <1>1. IsWellFoundedOn(R, Nat)
    BY NatLessThanWellFounded
  <1>2. \A x, y \in Nat : y < x => <<y, x>> \in R
    BY DEF OpToRel
  <1> HIDE DEF R
  <1>3. \E x \in T : \A y \in T : ~ (<<y, x>> \in R)
    BY <1>1, WFMin
  <1>4. PICK x \in T : \A y \in T : ~ (<<y, x>> \in R)
    BY <1>3
  <1>5. ASSUME NEW y \in T PROVE x <= y
    <2>1. x \in Nat /\ y \in Nat /\ ~ (y < x)
      BY <1>2, <1>4
    <2> QED
      BY <2>1
  <1> QED
    BY <1>5
-----------------------------------------------------------------------------

(* PscMonitor: the monitor knows whether the console is awake. *)

\* The console and what the thread knows of it.
PscHistory ==
  /\ event = "signaled" => request # "none"
  /\ psc \in {"get", "answer"} => request # "none" /\ event # "signaled"
  /\ psc = "answer" => hears = request
  /\ request = "ReadyAwaken" => console = "ReadySleep"
  /\ psc \in {"none", "wait", "get", "answer"} => awake = (console = "Awake")
  /\ psc = "check" => event = "closed" \/ awake = (console = "Awake")
  /\ psc = "note" => event = "closed" \/ (console = hears /\ (hears = "ReadyAwaken" => awake = FALSE))

\* Where thread_func can be while start() or stop() is where it is.
PscPlaces ==
  /\ owner = "new" => psc = "none" /\ event = "none" /\ running = FALSE
  /\ owner \notin {"new", "started"} => running = FALSE
  /\ psc = "none" => event \in {"none", "closed"} /\ running = FALSE
  /\ owner = "started" /\ running = FALSE =>
       psc = "none" \/ (hears = "ReadyShutdown" /\ psc \in {"check", "ended"})
  /\ owner = "freed" => psc \in {"none", "ended"} \/ (hears = "ReadyShutdown" /\ psc = "check")

\* The inductive invariant of the power monitor.
PscInv == Psc!TypeOK /\ PscHistory /\ PscPlaces

\* The monitor of a new client is not started yet.
LEMMA PscInit == Psc!Init => PscInv
  <1> SUFFICES ASSUME Psc!Init PROVE PscInv
    OBVIOUS
  <1> USE DEF Psc!Asked
  <1>3. MaxRequests \in Nat
    BY HostAssumption
  <1>4. requests = 0 /\ requests \in 0 .. MaxRequests
    BY <1>3 DEF Psc!Init
  <1>5. psc = "none" /\ running = FALSE /\ event = "none" /\ cancel = FALSE /\ request = "none" /\ hears = "Awake" /\ awake = TRUE
        /\ console = "Awake" /\ owner = "new" /\ missed = FALSE
    BY DEF Psc!Init
  <1>1. Psc!TypeOK
    BY <1>4, <1>5 DEF Psc!TypeOK
  <1>2. PscHistory /\ PscPlaces
    BY DEF Psc!Init, PscHistory, PscPlaces
  <1> QED
    BY <1>1, <1>2 DEF PscInv

\* No step of the power manager, of the thread or of start() and stop() disturbs it.
LEMMA PscStep == PscInv /\ [Psc!Next]_pscVars => PscInv'
  <1> SUFFICES ASSUME PscInv, [Psc!Next]_pscVars PROVE PscInv'
    OBVIOUS
  <1>1. CASE Psc!Start
    <2>1. Psc!TypeOK'
      BY <1>1 DEF PscInv, PscPlaces, PscHistory, Psc!TypeOK, Psc!Asked, Psc!Start
    <2>2. PscHistory'
      BY <1>1 DEF PscInv, PscHistory, PscPlaces, Psc!TypeOK, Psc!Asked, Psc!Start
    <2>3. PscPlaces'
      BY <1>1 DEF PscInv, PscHistory, PscPlaces, Psc!TypeOK, Psc!Asked, Psc!Start
    <2> QED
      BY <2>1, <2>2, <2>3 DEF PscInv
  <1>2. CASE Psc!Stop
    <2>4. owner' \in {"closing", "freed"} /\ running' = FALSE
      BY <1>2 DEF Psc!Stop
    <2>1. Psc!TypeOK'
      <3>1. UNCHANGED <<psc, event, cancel, request, hears, awake, console, requests, missed>>
        BY <1>2 DEF Psc!Stop
      <3> QED
        BY <2>4, <3>1 DEF PscInv, Psc!TypeOK
    <2>2. PscHistory'
      BY <1>2 DEF PscInv, PscHistory, PscPlaces, Psc!TypeOK, Psc!Asked, Psc!Stop
    <2>3. PscPlaces'
      BY <1>2 DEF PscInv, PscHistory, PscPlaces, Psc!TypeOK, Psc!Asked, Psc!Stop
    <2> QED
      BY <2>1, <2>2, <2>3 DEF PscInv
  <1>3. CASE Psc!Close
    <2>1. Psc!TypeOK'
      BY <1>3 DEF PscInv, PscPlaces, PscHistory, Psc!TypeOK, Psc!Asked, Psc!Close
    <2>2. PscHistory'
      BY <1>3 DEF PscInv, PscHistory, PscPlaces, Psc!TypeOK, Psc!Asked, Psc!Close
    <2>3. PscPlaces'
      BY <1>3 DEF PscInv, PscHistory, PscPlaces, Psc!TypeOK, Psc!Asked, Psc!Close
    <2> QED
      BY <2>1, <2>2, <2>3 DEF PscInv
  <1>4. CASE Psc!Cancel
    <2>1. Psc!TypeOK'
      BY <1>4 DEF PscInv, PscPlaces, PscHistory, Psc!TypeOK, Psc!Asked, Psc!Cancel
    <2>2. PscHistory'
      BY <1>4 DEF PscInv, PscHistory, PscPlaces, Psc!TypeOK, Psc!Asked, Psc!Cancel
    <2>3. PscPlaces'
      BY <1>4 DEF PscInv, PscHistory, PscPlaces, Psc!TypeOK, Psc!Asked, Psc!Cancel
    <2> QED
      BY <2>1, <2>2, <2>3 DEF PscInv
  <1>5. CASE Psc!Join
    <2>1. Psc!TypeOK'
      BY <1>5 DEF PscInv, PscPlaces, PscHistory, Psc!TypeOK, Psc!Asked, Psc!Join
    <2>2. PscHistory'
      BY <1>5 DEF PscInv, PscHistory, PscPlaces, Psc!TypeOK, Psc!Asked, Psc!Join
    <2>3. PscPlaces'
      BY <1>5 DEF PscInv, PscHistory, PscPlaces, Psc!TypeOK, Psc!Asked, Psc!Join
    <2> QED
      BY <2>1, <2>2, <2>3 DEF PscInv
  <1>6. CASE Psc!Check
    <2>1. Psc!TypeOK'
      BY <1>6 DEF PscInv, PscPlaces, PscHistory, Psc!TypeOK, Psc!Asked, Psc!Check
    <2>2. PscHistory'
      BY <1>6 DEF PscInv, PscHistory, PscPlaces, Psc!TypeOK, Psc!Asked, Psc!Check
    <2>3. PscPlaces'
      BY <1>6 DEF PscInv, PscHistory, PscPlaces, Psc!TypeOK, Psc!Asked, Psc!Check
    <2> QED
      BY <2>1, <2>2, <2>3 DEF PscInv
  <1>7. CASE Psc!Wait
    <2>1. Psc!TypeOK'
      BY <1>7 DEF PscInv, PscPlaces, PscHistory, Psc!TypeOK, Psc!Asked, Psc!Wait
    <2>2. PscHistory'
      BY <1>7 DEF PscInv, PscHistory, PscPlaces, Psc!TypeOK, Psc!Asked, Psc!Wait
    <2>3. PscPlaces'
      BY <1>7 DEF PscInv, PscHistory, PscPlaces, Psc!TypeOK, Psc!Asked, Psc!Wait
    <2> QED
      BY <2>1, <2>2, <2>3 DEF PscInv
  <1>8. CASE Psc!GetRequest
    <2>1. Psc!TypeOK'
      BY <1>8 DEF PscInv, PscPlaces, PscHistory, Psc!TypeOK, Psc!Asked, Psc!GetRequest
    <2>2. PscHistory'
      BY <1>8 DEF PscInv, PscHistory, PscPlaces, Psc!TypeOK, Psc!Asked, Psc!GetRequest
    <2>3. PscPlaces'
      BY <1>8 DEF PscInv, PscHistory, PscPlaces, Psc!TypeOK, Psc!Asked, Psc!GetRequest
    <2> QED
      BY <2>1, <2>2, <2>3 DEF PscInv
  <1>9. CASE Psc!Answer
    <2>1. Psc!TypeOK'
      BY <1>9 DEF PscInv, PscPlaces, PscHistory, Psc!TypeOK, Psc!Asked, Psc!Answer
    <2>4. psc = "answer" /\ psc' = "note" /\ hears = request /\ hears # "none"
          /\ UNCHANGED <<running, event, cancel, hears, awake, owner, requests, missed>>
      BY <1>9 DEF PscInv, PscHistory, Psc!Answer
    <2>5. hears = "ReadyAwaken" => console # "Awake"
      BY <2>4 DEF PscInv, PscHistory
    <2>6. hears = "ReadyAwaken" => awake = FALSE
      BY <2>4, <2>5 DEF PscInv, PscHistory, Psc!TypeOK
    <2>2. PscHistory'
      <3>1. CASE event = "closed"
        BY <1>9, <2>4, <2>6, <3>1 DEF PscInv, PscHistory, Psc!Answer
      <3>2. CASE event # "closed"
        <4>1. request' = "none" /\ console' = hears
          BY <1>9, <3>2 DEF Psc!Answer
        <4>2. event # "signaled"
          BY <2>4 DEF PscInv, PscHistory
        <4> QED
          BY <2>4, <2>6, <4>1, <4>2, <3>2 DEF PscInv, PscHistory
      <3> QED
        BY <3>1, <3>2
    <2>3. PscPlaces'
      BY <1>9 DEF PscInv, PscHistory, PscPlaces, Psc!TypeOK, Psc!Asked, Psc!Answer
    <2> QED
      BY <2>1, <2>2, <2>3 DEF PscInv
  <1>10. CASE Psc!Note
    <2>1. Psc!TypeOK'
      <3>1. Psc!TypeOK /\ psc' = "check" /\ UNCHANGED <<event, cancel, request, hears, console, owner, requests, missed>>
        BY <1>10 DEF PscInv, Psc!Note
      <3>2. running' \in {running, FALSE} /\ awake' \in {awake, TRUE, FALSE}
        BY <1>10 DEF Psc!Note
      <3> QED
        BY <3>1, <3>2 DEF Psc!TypeOK
    <2>2. PscHistory'
      BY <1>10 DEF PscInv, PscHistory, PscPlaces, Psc!TypeOK, Psc!Asked, Psc!Note
    <2>3. PscPlaces'
      BY <1>10 DEF PscInv, PscHistory, PscPlaces, Psc!TypeOK, Psc!Asked, Psc!Note
    <2> QED
      BY <2>1, <2>2, <2>3 DEF PscInv
  <1>11. CASE Psc!Ask
    <2>4. requests < MaxRequests /\ requests' = requests + 1 /\ request' \in Psc!Asked /\ event' = "signaled"
      BY <1>11 DEF Psc!Ask, Psc!Asked
    <2>5. requests' \in 0 .. MaxRequests
      BY <2>4, HostAssumption DEF PscInv, Psc!TypeOK
    <2>1. Psc!TypeOK'
      BY <1>11, <2>4, <2>5 DEF PscInv, Psc!TypeOK, Psc!Ask
    <2>2. PscHistory'
      BY <1>11 DEF PscInv, PscHistory, PscPlaces, Psc!TypeOK, Psc!Asked, Psc!Ask
    <2>3. PscPlaces'
      BY <1>11 DEF PscInv, PscHistory, PscPlaces, Psc!TypeOK, Psc!Asked, Psc!Ask
    <2> QED
      BY <2>1, <2>2, <2>3 DEF PscInv
  <1>12. CASE UNCHANGED pscVars
    BY <1>12 DEF PscInv, PscHistory, PscPlaces, Psc!TypeOK, pscVars
  <1> QED
    BY <1>1, <1>2, <1>3, <1>4, <1>5, <1>6, <1>7, <1>8, <1>9, <1>10, <1>11, <1>12 DEF Psc!Next, Psc!Owner, Psc!Thread

-----------------------------------------------------------------------------

(* Settings: the values that are chosen, used and stored. *)

\* What is kept while the settings are read, chosen and written.
StoreKept ==
  /\ saved = Store!Torn \/ saved = whole
  /\ boot # "up" => cmd = "idle"
  /\ boot \in {"off", "service", "alone"} => values = Store!Nothing
  /\ boot = "loaded" => values \in {Store!Fill(whole), Store!Default}
  /\ boot \in {"loaded", "up"} => Store!Fill(values) = Store!Fill(want)
  /\ cmd \in {"open", "write"} => copy = values
  /\ hurt = FALSE /\ cmd = "idle" => saved # Store!Torn /\ Store!Fill(saved) = Store!Fill(want)
  /\ screen # Store!Nothing /\ astray = FALSE => \A k \in Key : screen[k] = Store!Shown(Store!Fill(want)[k])

\* The inductive invariant of the settings.
StoreInv == Store!TypeOK /\ StoreKept

\* default_values and the value that the screen shows are among those it offers,
\* and what it offers it shows as it is.
LEMMA DefaultIsOffered ==
  /\ Store!Default \in [Key -> Step]
  /\ \A v : Store!Shown(v) \in Step
  /\ \A v \in Step : Store!Shown(v) = v
  <1>1. PICK v \in Step : \A w \in Step : v <= w
    BY HostAssumption
  <1>2. (CHOOSE w \in Step : \A x \in Step : w <= x) \in Step
    BY <1>1
  <1>3. (CHOOSE v1 \in Step : \A w \in Step : v1 <= w) \in Step
    BY <1>1
  <1>4. Store!Default \in [Key -> Step]
    BY <1>3 DEF Store!Default
  <1> QED
    BY <1>2, <1>4 DEF Store!Shown

\* Filling in the defaults (load) gives every setting a value, does nothing a second
\* time, and a torn file is not a file of settings.
LEMMA FillIsValues ==
  /\ \A m \in Store!Settings : Store!Fill(m) \in [Key -> Value] /\ Store!Fill(m) \in Store!Settings
  /\ \A m \in Store!Settings : Store!Fill(Store!Fill(m)) = Store!Fill(m)
  /\ Store!Fill(Store!Nothing) = Store!Default
  /\ Store!Fill(Store!Default) = Store!Default
  /\ Store!Default \in Store!Settings
  /\ Store!Torn \notin Store!Settings
  <1>1. Store!Default \in [Key -> Step] /\ Step \subseteq Value /\ Unset \notin Value
    BY DefaultIsOffered, HostAssumption
  <1>2. Store!Default \in Store!Settings
    BY <1>1 DEF Store!Settings
  <1>3. ASSUME NEW m \in Store!Settings
        PROVE  Store!Fill(m) \in [Key -> Value] /\ Store!Fill(m) \in Store!Settings
    BY <1>1 DEF Store!Fill, Store!Settings
  <1>4. ASSUME NEW f \in [Key -> Value] PROVE Store!Fill(f) = f
    <2>1. \A k \in Key : f[k] # Unset
      BY <1>1
    <2> QED
      BY <2>1 DEF Store!Fill
  <1>5. Store!Fill(Store!Default) = Store!Default
    <2>1. Store!Default \in [Key -> Value]
      BY <1>1
    <2> QED
      BY <2>1, <1>4
  <1>6. Store!Fill(Store!Nothing) = Store!Default
    <2>1. Store!Fill(Store!Nothing) = [k \in Key |-> Store!Default[k]]
      BY DEF Store!Fill, Store!Nothing
    <2> QED
      BY <2>1, <1>1
  <1>7. Store!Torn \notin Store!Settings
    <2>1. ASSUME Store!Torn \in Store!Settings PROVE FALSE
      <3>1. DOMAIN Store!Torn = Key
        BY <2>1 DEF Store!Settings
      <3>2. DOMAIN Store!Torn = {}
        BY DEF Store!Torn
      <3> QED
        BY <3>1, <3>2, HostAssumption
    <2> QED
      BY <2>1
  <1> QED
    BY <1>2, <1>3, <1>4, <1>5, <1>6, <1>7

\* Nothing is loaded yet, and the file is whole.
LEMMA StoreInit == Store!Init => StoreInv
  <1> SUFFICES ASSUME Store!Init PROVE StoreInv
    OBVIOUS
  <1>1. Store!Nothing \in Store!Settings /\ Store!Nothing \in [Key -> Step \cup {Unset}]
    BY DEF Store!Nothing, Store!Settings
  <1>2. Store!TypeOK
    BY <1>1 DEF Store!Init, Store!TypeOK
  <1>3. saved # Store!Torn
    BY FillIsValues DEF Store!Init
  <1>4. StoreKept
    BY <1>3 DEF Store!Init, StoreKept
  <1> QED
    BY <1>2, <1>4 DEF StoreInv

\* Loading, a choice, each step of the save, a failure and a power cut keep it.
LEMMA StoreStep == StoreInv /\ [Store!Next]_storeVars => StoreInv'
  <1> SUFFICES ASSUME StoreInv, [Store!Next]_storeVars PROVE StoreInv'
    OBVIOUS
  <1> USE DEF StoreInv
  <1>0. Store!Nothing \in Store!Settings /\ Store!Nothing \in [Key -> Step \cup {Unset}]
    BY DEF Store!Nothing, Store!Settings
  <1>1. CASE Store!StartService \/ Store!ServiceFails
    <2>1. Store!TypeOK'
      BY <1>1 DEF Store!TypeOK, Store!StartService, Store!ServiceFails, Store!history
    <2>2. StoreKept'
      BY <1>1 DEF StoreKept, Store!StartService, Store!ServiceFails, Store!history
    <2> QED
      BY <2>1, <2>2
  <1>2. CASE Store!Load
    <2>1. boot' = "loaded" /\ cmd = "idle" /\ cmd' = "idle" /\ values = Store!Nothing
          /\ UNCHANGED <<saved, copy, screen, whole, hurt>>
      BY <1>2 DEF Store!Load, StoreKept
    <2>2. want' = (IF hurt THEN values' ELSE want) /\ astray' = (astray \/ hurt)
      BY <1>2 DEF Store!Load, Store!Remember
    <2>3. values' = [k \in Key |-> IF saved # Store!Torn /\ saved[k] # Unset THEN saved[k] ELSE Store!Default[k]]
      BY <1>2, <2>1, FillIsValues DEF Store!Load
    <2>4. saved = Store!Torn => values' = Store!Default
      <3>1. SUFFICES ASSUME saved = Store!Torn PROVE values' = Store!Default
        OBVIOUS
      <3>2. values' = [k \in Key |-> Store!Default[k]]
        BY <2>3, <3>1
      <3> QED
        BY <3>2, DefaultIsOffered
    <2>5. saved # Store!Torn => values' = Store!Fill(saved) /\ saved \in Store!Settings /\ saved = whole
      <3>1. SUFFICES ASSUME saved # Store!Torn PROVE values' = Store!Fill(saved) /\ saved \in Store!Settings /\ saved = whole
        OBVIOUS
      <3>2. values' = [k \in Key |-> IF saved[k] = Unset THEN Store!Default[k] ELSE saved[k]]
        BY <2>3, <3>1
      <3> QED
        BY <3>1, <3>2 DEF Store!Fill, StoreKept, Store!TypeOK
    <2>6. values' \in Store!Settings /\ want' \in Store!Settings
      BY <2>2, <2>4, <2>5, FillIsValues DEF Store!TypeOK
    <2>7. Store!TypeOK'
      BY <2>1, <2>2, <2>6 DEF Store!TypeOK
    <2>8. Store!Fill(values') = Store!Fill(want')
      <3>1. CASE hurt
        BY <2>2, <3>1
      <3>2. CASE ~hurt
        <4>1. saved # Store!Torn /\ Store!Fill(saved) = Store!Fill(want) /\ want' = want
          BY <3>2, <2>1, <2>2 DEF StoreKept, Store!TypeOK
        <4> QED
          BY <4>1, <2>5, FillIsValues
      <3> QED
        BY <3>1, <3>2
    <2>9. values' \in {Store!Fill(whole'), Store!Default}
      BY <2>1, <2>4, <2>5
    <2>10. (hurt' = FALSE => hurt = FALSE /\ want' = want) /\ (astray' = FALSE => astray = FALSE /\ want' = want)
      BY <2>1, <2>2 DEF Store!TypeOK
    <2>11. StoreKept'
      <3>1. hurt' = FALSE => saved' # Store!Torn /\ Store!Fill(saved') = Store!Fill(want')
        BY <2>1, <2>10 DEF StoreKept
      <3>2. screen' # Store!Nothing /\ astray' = FALSE => \A k \in Key : screen'[k] = Store!Shown(Store!Fill(want')[k])
        BY <2>1, <2>10 DEF StoreKept
      <3>3. saved' = Store!Torn \/ saved' = whole'
        BY <2>1 DEF StoreKept
      <3> QED
        BY <2>1, <2>8, <2>9, <3>1, <3>2, <3>3 DEF StoreKept
    <2> QED
      BY <2>7, <2>11
  <1>3. CASE Store!MakeClient
    <2>1. Store!TypeOK'
      BY <1>3 DEF Store!TypeOK, Store!MakeClient, Store!history
    <2>2. StoreKept'
      BY <1>3 DEF StoreKept, Store!MakeClient, Store!history
    <2> QED
      BY <2>1, <2>2
  <1>4. CASE Store!Kill
    <2>1. Store!TypeOK'
      BY <1>4, <1>0 DEF Store!TypeOK, Store!Kill
    <2>3. hurt' = FALSE => hurt = FALSE /\ cmd = "idle"
      BY <1>4 DEF Store!TypeOK, Store!Kill
    <2>2. StoreKept'
      BY <1>4, <2>3 DEF StoreKept, Store!Kill
    <2> QED
      BY <2>1, <2>2
  <1>5. CASE Store!Copy
    <2>1. Store!TypeOK'
      BY <1>5 DEF Store!TypeOK, Store!Copy, Store!history
    <2>2. StoreKept'
      BY <1>5 DEF StoreKept, Store!Copy, Store!history
    <2> QED
      BY <2>1, <2>2
  <1>6. CASE Store!OpenFile
    <2>1. Store!TypeOK'
      BY <1>6 DEF Store!TypeOK, Store!OpenFile, Store!history
    <2>2. StoreKept'
      BY <1>6 DEF StoreKept, Store!OpenFile, Store!history
    <2> QED
      BY <2>1, <2>2
  <1>7. CASE Store!WriteFile
    <2>1. Store!TypeOK'
      BY <1>7 DEF Store!TypeOK, Store!WriteFile
    <2>3. copy = values /\ copy # Store!Torn /\ boot = "up"
      BY <1>7, FillIsValues DEF Store!WriteFile, StoreKept, Store!TypeOK
    <2>2. StoreKept'
      BY <1>7, <2>3 DEF StoreKept, Store!WriteFile
    <2> QED
      BY <2>1, <2>2
  <1>8. CASE Store!WriteFails
    <2>1. Store!TypeOK'
      BY <1>8 DEF Store!TypeOK, Store!WriteFails
    <2>2. StoreKept'
      BY <1>8 DEF StoreKept, Store!WriteFails
    <2> QED
      BY <2>1, <2>2
  <1>9. CASE Store!OpenScreen
    <2>1. UNCHANGED <<boot, values, saved, cmd, copy, want, whole, hurt>>
      BY <1>9 DEF Store!OpenScreen
    <2>2. CASE Store!CanServe /\ screen' = [k \in Key |-> Store!Shown(Store!Get(k))] /\ astray' = FALSE
      <3>1. screen' \in [Key -> Step]
        BY <2>2, DefaultIsOffered
      <3>2. Store!Fill(values) = Store!Fill(want)
        BY <2>2 DEF StoreKept, Store!CanServe
      <3>3. \A k \in Key : screen'[k] = Store!Shown(Store!Fill(want)[k])
        BY <2>2, <3>2 DEF Store!Get
      <3>4. Store!TypeOK'
        BY <2>1, <2>2, <3>1 DEF Store!TypeOK
      <3>5. StoreKept'
        BY <2>1, <2>2, <3>3 DEF StoreKept
      <3> QED
        BY <3>4, <3>5
    <2>3. CASE screen' = Store!Default /\ astray' = TRUE
      <3>4. Store!TypeOK'
        BY <2>1, <2>3, DefaultIsOffered DEF Store!TypeOK
      <3>5. StoreKept'
        BY <2>1, <2>3 DEF StoreKept
      <3> QED
        BY <3>4, <3>5
    <2> QED
      BY <1>9, <2>2, <2>3 DEF Store!OpenScreen
  <1>10. CASE Store!CloseScreen
    <2>1. Store!TypeOK'
      BY <1>10, <1>0 DEF Store!TypeOK, Store!CloseScreen, Store!history
    <2>2. StoreKept'
      BY <1>10 DEF StoreKept, Store!CloseScreen, Store!history
    <2> QED
      BY <2>1, <2>2
  <1>11. ASSUME NEW k \in Key, NEW v \in Step, Store!Choose(k, v)
         PROVE  StoreInv'
    <2>1. /\ screen # Store!Nothing /\ boot = "up" /\ cmd = "idle" /\ cmd' = "copy"
          /\ screen' = [screen EXCEPT ![k] = v] /\ values' = [values EXCEPT ![k] = v] /\ want' = [want EXCEPT ![k] = v]
          /\ UNCHANGED <<boot, saved, copy, whole, hurt, astray>>
      BY <1>11 DEF Store!Choose, Store!Set, Store!CanServe
    <2>2. v \in Value /\ v # Unset
      BY HostAssumption
    <2>3. Store!TypeOK'
      BY <2>1, <2>2 DEF Store!TypeOK, Store!Settings
    <2>4. \A j \in Key : Store!Fill(values)[j] = Store!Fill(want)[j]
      BY <2>1 DEF StoreKept
    <2>5. \A j \in Key : /\ Store!Fill(want')[j] = (IF j = k THEN v ELSE Store!Fill(want)[j])
                         /\ Store!Fill(values')[j] = (IF j = k THEN v ELSE Store!Fill(values)[j])
      BY <2>1, <2>2 DEF Store!Fill, Store!TypeOK, Store!Settings
    <2>6. Store!Fill(values') = Store!Fill(want')
      <3>1. values' \in Store!Settings /\ want' \in Store!Settings
        BY <2>3 DEF Store!TypeOK
      <3>2. Store!Fill(values') \in [Key -> Value] /\ Store!Fill(want') \in [Key -> Value]
        BY <3>1, FillIsValues
      <3>3. \A j \in Key : Store!Fill(values')[j] = Store!Fill(want')[j]
        BY <2>4, <2>5
      <3> QED
        BY <3>2, <3>3
    <2>7. ASSUME astray = FALSE, NEW j \in Key PROVE screen'[j] = Store!Shown(Store!Fill(want')[j])
      <3>1. screen[j] = Store!Shown(Store!Fill(want)[j])
        BY <2>1, <2>7 DEF StoreKept
      <3>2. screen'[j] = IF j = k THEN v ELSE screen[j]
        BY <2>1 DEF Store!TypeOK
      <3> QED
        BY <3>1, <3>2, <2>5, DefaultIsOffered
    <2>8. StoreKept'
      BY <2>1, <2>6, <2>7 DEF StoreKept
    <2> QED
      BY <2>3, <2>8
  <1>12. ASSUME NEW k \in Key, NEW v \in Step, Store!ChooseInVain(k, v)
         PROVE  StoreInv'
    <2>1. Store!TypeOK'
      BY <1>12 DEF Store!TypeOK, Store!ChooseInVain
    <2>2. StoreKept'
      BY <1>12 DEF StoreKept, Store!ChooseInVain
    <2> QED
      BY <2>1, <2>2
  <1>13. CASE UNCHANGED storeVars
    BY <1>13 DEF StoreKept, Store!TypeOK, storeVars
  <1> QED
    BY <1>1, <1>2, <1>3, <1>4, <1>5, <1>6, <1>7, <1>8, <1>9, <1>10, <1>11, <1>12, <1>13 DEF Store!Next

\* It says what the settings promise.
LEMMA StoreHolds == StoreInv => Store!ChoiceLasts /\ Store!NoMixture /\ Store!ScreenIsTrue
  <1> SUFFICES ASSUME StoreInv PROVE Store!ChoiceLasts /\ Store!NoMixture /\ Store!ScreenIsTrue
    OBVIOUS
  <1>1. Store!ChoiceLasts
    BY DEF StoreInv, StoreKept, Store!TypeOK, Store!ChoiceLasts
  <1>2. Store!NoMixture
    <2>1. whole \in Store!Settings
      BY DEF StoreInv, Store!TypeOK
    <2>2. /\ boot = "loaded" => values \in {Store!Fill(whole), Store!Default}
          /\ boot = "alone" => values = Store!Nothing
      BY DEF StoreInv, StoreKept
    <2> QED
      BY <2>1, <2>2, FillIsValues DEF Store!NoMixture
  <1>3. Store!ScreenIsTrue
    BY DEF StoreInv, StoreKept, Store!TypeOK, Store!ScreenIsTrue, Store!CanServe, Store!Get
  <1> QED
    BY <1>1, <1>2, <1>3

-----------------------------------------------------------------------------

(* Records: the file of a paired device, byte by byte. *)

\* What a byte of the file can be: one of a text, or nothing.
Units == [of : Paired!Record \cup {NoRecord}, at : Nat]

\* Where the units of a text may come from.
RecordsMixed ==
  /\ \A i \in DOMAIN stored : stored[i] # Paired!Zero =>
       /\ stored[i].of \in mayBe \/ (storing = "write" /\ stored[i].of = toStore)
       /\ i <= stored[i].of.length
  /\ \A i, j \in DOMAIN stored :
       i <= Chunk /\ j <= Chunk /\ stored[i] # Paired!Zero /\ stored[j] # Paired!Zero => stored[i].of = stored[j].of

\* How far write_file has come.
RecordsWritten ==
  /\ storing = "write" => Len(stored) = toStore.length /\ \A i \in 1 .. written : stored[i] = [of |-> toStore, at |-> i]
  /\ storing # "no" => toStore \in Paired!Record
  /\ storing = "no" /\ unbroken = TRUE =>
       \/ stored = <<>> /\ mayBe = {}
       \/ \E r \in Paired!Record : stored = Paired!Text(r) /\ mayBe = {r}

\* The inductive invariant of the record of a paired device.
RecordsInv == stored \in Seq(Units) /\ Paired!RecordsTypeOK /\ RecordsMixed /\ RecordsWritten

\* A record that is saved has a text, and the chunks of write_file are not empty.
LEMMA RecordsAreLong ==
  ASSUME NEW r \in Paired!Record
  PROVE  r.length \in Nat \ {0} /\ r # NoRecord /\ Chunk \in Nat \ {0}
  BY HostAssumption DEF Paired!Record

\* A byte of a text is a byte, and none of a gap.
LEMMA UnitOfRecord ==
  ASSUME NEW r \in Paired!Record, NEW n \in Nat
  PROVE  /\ [of |-> r, at |-> n] \in Units
         /\ [of |-> r, at |-> n] # Paired!Zero
         /\ [of |-> r, at |-> n] \in [of : Paired!Record, at : {n}]
  <1>1. [of |-> r, at |-> n].of = r /\ Paired!Zero.of = NoRecord /\ r # NoRecord
    BY RecordsAreLong DEF Paired!Zero
  <1> QED
    BY <1>1 DEF Units

\* So is the zero that fills a gap.
LEMMA ZeroIsUnit == Paired!Zero \in Units
  BY DEF Paired!Zero, Units

\* The text of a record, byte by byte.
LEMMA TextIsUnits ==
  ASSUME NEW r \in Paired!Record
  PROVE  /\ Paired!Text(r) \in Seq(Units) /\ Len(Paired!Text(r)) = r.length
         /\ DOMAIN Paired!Text(r) = 1 .. r.length
         /\ \A i \in 1 .. r.length : Paired!Text(r)[i] = [of |-> r, at |-> i]
  <1>1. r.length \in Nat
    BY RecordsAreLong
  <1>2. \A i \in 1 .. r.length : [of |-> r, at |-> i] \in Units
    BY <1>1, UnitOfRecord
  <1> QED
    BY <1>1, <1>2 DEF Paired!Text

\* A file that fsFileSetSize shortens or extends, byte by byte.
LEMMA ResizedIsUnits ==
  ASSUME NEW f \in Seq(Units), NEW n \in Nat
  PROVE  /\ Paired!Resized(f, n) \in Seq(Units) /\ Len(Paired!Resized(f, n)) = n
         /\ DOMAIN Paired!Resized(f, n) = 1 .. n
         /\ \A i \in 1 .. n : Paired!Resized(f, n)[i] = IF i \in DOMAIN f THEN f[i] ELSE Paired!Zero
  <1>1. \A i \in 1 .. n : (IF i \in DOMAIN f THEN f[i] ELSE Paired!Zero) \in Units
    BY ZeroIsUnit
  <1> QED
    BY <1>1 DEF Paired!Resized

\* There is no record yet.
LEMMA RecordsInit == Paired!Init => RecordsInv
  <1> SUFFICES ASSUME Paired!Init PROVE RecordsInv
    OBVIOUS
  <1>1. stored = <<>> /\ storing = "no" /\ written = 0 /\ toStore = NoRecord /\ mayBe = {} /\ unbroken = TRUE
    BY DEF Paired!Init
  <1>2. stored \in Seq(Units) /\ Len(stored) = 0 /\ DOMAIN stored = {}
    BY <1>1
  <1>3. Paired!RecordsTypeOK
    BY <1>1, <1>2 DEF Paired!RecordsTypeOK
  <1>4. RecordsMixed
    BY <1>2 DEF RecordsMixed
  <1>5. RecordsWritten
    BY <1>1 DEF RecordsWritten
  <1> QED
    BY <1>2, <1>3, <1>4, <1>5 DEF RecordsInv

\* A save, each chunk that it writes, a failure and a power cut keep it.
LEMMA RecordsStep == RecordsInv /\ [Paired!Next]_recVars => RecordsInv'
  <1> SUFFICES ASSUME RecordsInv, [Paired!Next]_recVars PROVE RecordsInv'
    OBVIOUS
  <1>0. /\ stored \in Seq(Units) /\ Len(stored) \in Nat /\ DOMAIN stored = 1 .. Len(stored)
        /\ Paired!RecordsTypeOK /\ RecordsMixed /\ RecordsWritten
    BY DEF RecordsInv
  <1>1. ASSUME NEW r \in Paired!Record, Paired!Save(r)
        PROVE  RecordsInv'
    <2>1. storing = "no" /\ storing' = "create" /\ toStore' = r /\ UNCHANGED <<stored, written, mayBe, unbroken>>
      BY <1>1 DEF Paired!Save
    <2>2. Paired!RecordsTypeOK'
      BY <1>0, <2>1 DEF Paired!RecordsTypeOK
    <2>3. RecordsMixed'
      BY <1>0, <2>1 DEF RecordsMixed
    <2>4. RecordsWritten'
      BY <1>0, <2>1 DEF RecordsWritten
    <2> QED
      BY <1>0, <2>1, <2>2, <2>3, <2>4 DEF RecordsInv
  <1>2. CASE Paired!Create
    <2>1. storing = "create" /\ storing' = "size" /\ UNCHANGED <<toStore, written, mayBe, unbroken>>
          /\ stored' = IF stored = <<>> THEN Paired!Resized(<<>>, toStore.length) ELSE stored
      BY <1>2 DEF Paired!Create
    <2>2. toStore \in Paired!Record /\ toStore.length \in Nat
      BY <1>0, <2>1, RecordsAreLong DEF RecordsWritten
    <2>3. /\ stored' \in Seq(Units) /\ Len(stored') \in Nat /\ DOMAIN stored' = 1 .. Len(stored') /\ written \in 0 .. Len(stored')
          /\ \A i \in DOMAIN stored' : stored'[i] # Paired!Zero => i \in DOMAIN stored /\ stored'[i] = stored[i]
      <3>1. CASE stored = <<>>
        <4>1. <<>> \in Seq(Units) /\ DOMAIN <<>> = {} /\ written = 0
          BY <1>0, <3>1 DEF Paired!RecordsTypeOK
        <4> QED
          <5>1. /\ stored' \in Seq(Units) /\ Len(stored') = toStore.length /\ DOMAIN stored' = 1 .. toStore.length
                /\ \A i \in 1 .. toStore.length : stored'[i] = IF i \in DOMAIN <<>> THEN <<>>[i] ELSE Paired!Zero
            BY <2>1, <2>2, <3>1, <4>1, ResizedIsUnits
          <5>2. \A i \in DOMAIN stored' : stored'[i] = Paired!Zero
            BY <4>1, <5>1
          <5> QED
            BY <2>2, <4>1, <5>1, <5>2
      <3>2. CASE stored # <<>>
        BY <1>0, <2>1, <3>2 DEF Paired!RecordsTypeOK
      <3> QED
        BY <3>1, <3>2
    <2>4. Paired!RecordsTypeOK'
      BY <1>0, <2>1, <2>3 DEF Paired!RecordsTypeOK
    <2>5. RecordsMixed'
      BY <1>0, <2>1, <2>3 DEF RecordsMixed
    <2>6. RecordsWritten'
      BY <1>0, <2>1 DEF RecordsWritten
    <2> QED
      BY <2>3, <2>4, <2>5, <2>6 DEF RecordsInv
  <1>3. CASE Paired!SetSize
    <2>1. storing = "size" /\ storing' = "write" /\ written' = 0 /\ UNCHANGED <<toStore, mayBe, unbroken>>
          /\ stored' = Paired!Resized(stored, toStore.length)
      BY <1>3 DEF Paired!SetSize
    <2>2. toStore \in Paired!Record /\ toStore.length \in Nat
      BY <1>0, <2>1, RecordsAreLong DEF RecordsWritten
    <2>3. /\ stored' \in Seq(Units) /\ Len(stored') = toStore.length /\ DOMAIN stored' = 1 .. toStore.length
          /\ \A i \in DOMAIN stored' : stored'[i] # Paired!Zero => i \in DOMAIN stored /\ stored'[i] = stored[i]
      <3>1. /\ stored' \in Seq(Units) /\ Len(stored') = toStore.length /\ DOMAIN stored' = 1 .. toStore.length
            /\ \A i \in 1 .. toStore.length : stored'[i] = IF i \in DOMAIN stored THEN stored[i] ELSE Paired!Zero
        BY <1>0, <2>1, <2>2, ResizedIsUnits
      <3> QED
        BY <3>1
    <2>4. Paired!RecordsTypeOK'
      BY <1>0, <2>1, <2>2, <2>3 DEF Paired!RecordsTypeOK
    <2>5. RecordsMixed'
      BY <1>0, <2>1, <2>3 DEF RecordsMixed
    <2>6. RecordsWritten'
      BY <1>0, <2>1, <2>2, <2>3 DEF RecordsWritten
    <2> QED
      BY <2>3, <2>4, <2>5, <2>6 DEF RecordsInv
  <1>4. CASE Paired!WriteChunk /\ written < toStore.length
    <2> DEFINE to == Paired!Min(written + Chunk, toStore.length)
    <2>1. storing = "write" /\ written' = to /\ UNCHANGED <<storing, toStore, mayBe, unbroken>>
          /\ stored' = [i \in DOMAIN stored |-> IF i \in written + 1 .. to THEN Paired!Text(toStore)[i] ELSE stored[i]]
      BY <1>4 DEF Paired!WriteChunk, Paired!WriteUpTo
    <2>2. toStore \in Paired!Record /\ toStore.length \in Nat \ {0} /\ Chunk \in Nat \ {0} /\ written \in Nat
          /\ Len(stored) = toStore.length
      BY <1>0, <2>1, RecordsAreLong DEF RecordsWritten, Paired!RecordsTypeOK
    <2>3. /\ to \in Nat /\ written < to /\ to <= toStore.length
          /\ to = toStore.length \/ to = written + Chunk
      BY <1>4, <2>2 DEF Paired!Min
    <2> HIDE DEF to
    <2>4. \A i \in 1 .. toStore.length : stored'[i] = IF i \in written + 1 .. to THEN [of |-> toStore, at |-> i] ELSE stored[i]
      BY <1>0, <2>1, <2>2, TextIsUnits
    <2>5. stored' \in Seq(Units) /\ Len(stored') = toStore.length /\ DOMAIN stored' = 1 .. toStore.length
      <3>1. \A i \in 1 .. toStore.length :
               (IF i \in written + 1 .. to THEN Paired!Text(toStore)[i] ELSE stored[i]) \in Units
        BY <1>0, <2>2, UnitOfRecord, TextIsUnits
      <3>2. stored' = [i \in 1 .. toStore.length |-> IF i \in written + 1 .. to THEN Paired!Text(toStore)[i] ELSE stored[i]]
        BY <1>0, <2>1, <2>2
      <3> QED
        BY <2>2, <3>1, <3>2
    <2>6. Paired!RecordsTypeOK'
      <3>1. ASSUME NEW i \in DOMAIN stored'
            PROVE  stored'[i] = Paired!Zero \/ stored'[i] \in [of : Paired!Record, at : {i}]
        <4>1. i \in 1 .. toStore.length /\ i \in DOMAIN stored
          BY <1>0, <2>2, <2>5
        <4>2. CASE i \in written + 1 .. to
          <5>1. stored'[i] = [of |-> toStore, at |-> i]
            BY <2>4, <4>1, <4>2
          <5>2. i \in Nat
            BY <2>2, <4>1
          <5> QED
            BY <2>2, <5>1, <5>2, UnitOfRecord
        <4>3. CASE i \notin written + 1 .. to
          BY <1>0, <2>4, <4>1, <4>3 DEF Paired!RecordsTypeOK
        <4> QED
          BY <4>2, <4>3
      <3>2. written' \in 0 .. Len(stored')
        BY <2>1, <2>3, <2>5
      <3> QED
        BY <1>0, <2>1, <3>1, <3>2 DEF Paired!RecordsTypeOK
    <2>7. ASSUME NEW i \in 1 .. to PROVE stored'[i] = [of |-> toStore, at |-> i]
      <3>1. i \in 1 .. toStore.length
        BY <2>2, <2>3
      <3>2. i \in 1 .. written \/ i \in written + 1 .. to
        BY <2>2, <2>3
      <3> QED
        BY <1>0, <2>1, <2>4, <3>1, <3>2 DEF RecordsWritten
    <2>8. RecordsWritten'
      BY <1>0, <2>1, <2>2, <2>5, <2>7 DEF RecordsWritten
    <2>9. ASSUME NEW i \in DOMAIN stored', stored'[i] # Paired!Zero
          PROVE  /\ stored'[i].of \in mayBe \/ stored'[i].of = toStore
                 /\ i <= stored'[i].of.length
      <3>1. i \in 1 .. toStore.length /\ i \in DOMAIN stored /\ i \in Nat
        BY <1>0, <2>2, <2>5
      <3>2. CASE i \in written + 1 .. to
        <4>1. stored'[i] = [of |-> toStore, at |-> i]
          BY <2>4, <3>1, <3>2
        <4>2. stored'[i].of = toStore
          BY <4>1
        <4> QED
          BY <2>2, <3>1, <4>2
      <3>3. CASE i \notin written + 1 .. to
        BY <1>0, <2>4, <2>9, <3>1, <3>3 DEF RecordsMixed
      <3> QED
        BY <3>2, <3>3
    <2>10. ASSUME NEW i \in DOMAIN stored', i <= Chunk, stored'[i] # Paired!Zero
           PROVE  stored'[i].of = toStore
      <3>1. i \in 1 .. toStore.length /\ i \in DOMAIN stored /\ i \in Nat
        BY <1>0, <2>2, <2>5
      <3>2. CASE i <= to
        <4>1. i \in 1 .. to
          BY <2>2, <2>3, <3>1, <3>2
        <4>2. stored'[i] = [of |-> toStore, at |-> i]
          BY <2>7, <4>1
        <4> QED
          BY <4>2
      <3>3. CASE ~(i <= to)
        <4>1. written # 0 /\ 1 \in 1 .. written /\ 1 \in DOMAIN stored /\ 1 <= Chunk
          BY <1>0, <2>2, <2>3, <2>10, <3>1, <3>3
        <4>2. stored[1] = [of |-> toStore, at |-> 1]
          BY <1>0, <2>1, <4>1 DEF RecordsWritten
        <4>3. stored[1] # Paired!Zero /\ stored[1].of = toStore
          BY <2>2, <4>2, UnitOfRecord
        <4>4. stored'[i] = stored[i]
          <5>1. i \notin written + 1 .. to
            BY <2>2, <2>3, <3>1, <3>3
          <5> QED
            BY <2>4, <3>1, <5>1
        <4> QED
          BY <1>0, <2>10, <3>1, <4>1, <4>3, <4>4 DEF RecordsMixed
      <3> QED
        BY <3>2, <3>3
    <2>11. RecordsMixed'
      BY <2>1, <2>9, <2>10 DEF RecordsMixed
    <2> QED
      BY <2>5, <2>6, <2>8, <2>11 DEF RecordsInv
  <1>5. CASE Paired!WriteChunk /\ ~(written < toStore.length)
    <2>1. storing = "write" /\ storing' = "no" /\ toStore' = NoRecord /\ mayBe' = {toStore} /\ unbroken' = TRUE
          /\ UNCHANGED <<stored, written>>
      BY <1>5 DEF Paired!WriteChunk, Paired!Stored
    <2>2. toStore \in Paired!Record /\ toStore.length \in Nat \ {0} /\ written \in 0 .. Len(stored)
          /\ Len(stored) = toStore.length
      BY <1>0, <2>1, RecordsAreLong DEF RecordsWritten, Paired!RecordsTypeOK
    <2>3. written = toStore.length
      BY <1>5, <2>2
    <2>4. \A i \in 1 .. toStore.length : stored[i] = [of |-> toStore, at |-> i]
      BY <1>0, <2>1, <2>3 DEF RecordsWritten
    <2>5. stored = Paired!Text(toStore)
      <3>1. stored = [i \in 1 .. toStore.length |-> stored[i]]
        BY <1>0, <2>2
      <3>2. stored = [i \in 1 .. toStore.length |-> [of |-> toStore, at |-> i]]
        BY <2>4, <3>1
      <3> QED
        BY <3>2 DEF Paired!Text
    <2>6. Paired!RecordsTypeOK'
      BY <1>0, <2>1, <2>2 DEF Paired!RecordsTypeOK
    <2>7. RecordsMixed'
      <3>1. \A i \in DOMAIN stored : stored[i].of = toStore /\ i \in 1 .. toStore.length
        <4> TAKE i \in DOMAIN stored
        <4>1. i \in 1 .. toStore.length
          BY <1>0, <2>2
        <4>2. stored[i] = [of |-> toStore, at |-> i]
          BY <2>4, <4>1
        <4> QED
          BY <4>1, <4>2
      <3> QED
        BY <1>0, <2>1, <2>2, <3>1 DEF RecordsMixed
    <2>8. RecordsWritten'
      BY <2>1, <2>2, <2>5 DEF RecordsWritten
    <2> QED
      BY <1>0, <2>1, <2>6, <2>7, <2>8 DEF RecordsInv
  <1>6. CASE Paired!BreakOff
    <2>1. storing # "no" /\ storing' = "no" /\ toStore' = NoRecord /\ mayBe' = mayBe \cup {toStore} /\ unbroken' = FALSE
          /\ UNCHANGED <<stored, written>>
      BY <1>6 DEF Paired!BreakOff
    <2>2. toStore \in Paired!Record
      BY <1>0, <2>1 DEF RecordsWritten
    <2>6. Paired!RecordsTypeOK'
      BY <1>0, <2>1, <2>2 DEF Paired!RecordsTypeOK
    <2>7. RecordsMixed'
      BY <1>0, <2>1 DEF RecordsMixed
    <2>8. RecordsWritten'
      BY <2>1 DEF RecordsWritten
    <2> QED
      BY <1>0, <2>1, <2>6, <2>7, <2>8 DEF RecordsInv
  <1>7. CASE Paired!RemovePairedDevice
    <2>1. storing = "no" /\ stored' = <<>> /\ written' = 0 /\ mayBe' = {} /\ unbroken' = TRUE /\ UNCHANGED <<storing, toStore>>
      BY <1>7 DEF Paired!RemovePairedDevice
    <2>2. stored' \in Seq(Units) /\ Len(stored') = 0 /\ DOMAIN stored' = {}
      BY <2>1
    <2>6. Paired!RecordsTypeOK'
      BY <1>0, <2>1, <2>2 DEF Paired!RecordsTypeOK
    <2>7. RecordsMixed'
      BY <2>2 DEF RecordsMixed
    <2>8. RecordsWritten'
      BY <2>1 DEF RecordsWritten
    <2> QED
      BY <2>2, <2>6, <2>7, <2>8 DEF RecordsInv
  <1>8. CASE UNCHANGED recVars
    BY <1>0, <1>8 DEF RecordsInv, RecordsMixed, RecordsWritten, Paired!RecordsTypeOK, recVars
  <1> QED
    BY <1>1, <1>2, <1>3, <1>4, <1>5, <1>6, <1>7, <1>8 DEF Paired!Next

\* What read_file hands over as a C string is the file up to its first zero.
LEMMA CStringIsPrefix ==
  ASSUME NEW f \in Seq(Units)
  PROVE  \E n \in 0 .. Len(f) :
           /\ Paired!CString(f) \in Seq(Units) /\ Len(Paired!CString(f)) = n /\ DOMAIN Paired!CString(f) = 1 .. n
           /\ \A i \in 1 .. n : Paired!CString(f)[i] = f[i] /\ f[i] # Paired!Zero
           /\ (\A i \in DOMAIN f : f[i] # Paired!Zero) => Paired!CString(f) = f
  <1> DEFINE zeros == {i \in DOMAIN f : f[i] = Paired!Zero}
  <1>1. Len(f) \in Nat /\ DOMAIN f = 1 .. Len(f)
    OBVIOUS
  <1>2. CASE zeros = {}
    <2>1. Paired!CString(f) = f
      BY <1>2 DEF Paired!CString
    <2>2. \A i \in 1 .. Len(f) : f[i] # Paired!Zero
      BY <1>1, <1>2
    <2> QED
      <3>1. Len(f) \in 0 .. Len(f)
        BY <1>1
      <3> QED
        BY <1>1, <2>1, <2>2, <3>1
  <1>3. CASE zeros # {}
    <2> DEFINE m == CHOOSE i \in zeros : \A j \in zeros : i <= j
    <2>1. zeros \subseteq Nat
      BY <1>1
    <2>2. \E i \in zeros : \A j \in zeros : i <= j
      BY <1>3, <2>1, LeastNatural
    <2>3. m \in zeros /\ \A j \in zeros : m <= j
      BY <2>2
    <2>4. Paired!CString(f) = SubSeq(f, 1, m - 1)
      BY <1>3 DEF Paired!CString
    <2> HIDE DEF m
    <2>5. m \in 1 .. Len(f) /\ f[m] = Paired!Zero
      BY <1>1, <2>3
    <2>6. 1 \in 1 .. Len(f) + 1 /\ m - 1 \in 1 - 1 .. Len(f) /\ (m - 1) - 1 + 1 = m - 1
      BY <1>1, <2>5
    <2>7. /\ SubSeq(f, 1, m - 1) \in Seq(Units)
          /\ Len(SubSeq(f, 1, m - 1)) = (m - 1) - 1 + 1
          /\ \A i \in 1 .. (m - 1) - 1 + 1 : SubSeq(f, 1, m - 1)[i] = f[1 + i - 1]
      BY <2>6, SubSeqProperties
    <2>8. ASSUME NEW i \in 1 .. m - 1 PROVE Paired!CString(f)[i] = f[i] /\ f[i] # Paired!Zero
      <3>1. i \in DOMAIN f /\ i \in Nat /\ i < m /\ 1 + i - 1 = i
        BY <1>1, <2>5
      <3>2. SubSeq(f, 1, m - 1)[i] = f[i]
        BY <2>6, <2>7, <3>1
      <3>3. i \notin zeros
        BY <2>3, <2>5, <3>1
      <3> QED
        BY <2>4, <3>1, <3>2, <3>3
    <2>9. Paired!CString(f) \in Seq(Units) /\ Len(Paired!CString(f)) = m - 1 /\ DOMAIN Paired!CString(f) = 1 .. m - 1
      BY <2>4, <2>6, <2>7
    <2>10. m - 1 \in 0 .. Len(f) /\ ~ (\A i \in DOMAIN f : f[i] # Paired!Zero)
      BY <1>1, <2>5
    <2> QED
      BY <2>8, <2>9, <2>10
  <1> QED
    BY <1>2, <1>3

\* It says what the record of a paired device promises.
LEMMA RecordsHold == RecordsInv => Paired!SavedIsLoaded /\ Paired!BrokenOffIsWhole
  <1> SUFFICES ASSUME RecordsInv PROVE Paired!SavedIsLoaded /\ Paired!BrokenOffIsWhole
    OBVIOUS
  <1>0. /\ stored \in Seq(Units) /\ Len(stored) \in Nat /\ DOMAIN stored = 1 .. Len(stored)
        /\ Paired!RecordsTypeOK /\ RecordsMixed /\ RecordsWritten
    BY DEF RecordsInv
  <1> DEFINE text == Paired!CString(stored)
  <1>1. PICK n \in 0 .. Len(stored) :
           /\ text \in Seq(Units) /\ Len(text) = n /\ DOMAIN text = 1 .. n
           /\ \A i \in 1 .. n : text[i] = stored[i] /\ stored[i] # Paired!Zero
           /\ (\A i \in DOMAIN stored : stored[i] # Paired!Zero) => text = stored
    BY <1>0, CStringIsPrefix
  <1> HIDE DEF text
  <1>2. Paired!SavedIsLoaded
    <2> SUFFICES ASSUME storing = "no", unbroken = TRUE PROVE Paired!Loaded = mayBe
      BY <1>0 DEF Paired!SavedIsLoaded, Paired!RecordsTypeOK
    <2>1. CASE stored = <<>> /\ mayBe = {}
      <3>1. Len(stored) = 0 /\ n = 0
        BY <2>1
      <3>2. text = stored
        BY <1>1, <3>1, <1>0
      <3>3. ~Paired!Parses(text)
        BY <2>1, <3>2 DEF Paired!Parses
      <3> QED
        BY <2>1, <3>3 DEF Paired!Loaded, text
    <2>2. ASSUME NEW r \in Paired!Record, stored = Paired!Text(r), mayBe = {r}
          PROVE  Paired!Loaded = mayBe
      <3>1. r.length \in Nat \ {0} /\ Len(stored) = r.length /\ DOMAIN stored = 1 .. r.length
        BY <2>2, RecordsAreLong, TextIsUnits
      <3>2. \A i \in 1 .. r.length : stored[i] = [of |-> r, at |-> i]
        BY <2>2, TextIsUnits
      <3>3. \A i \in 1 .. r.length : stored[i] # Paired!Zero /\ stored[i].of = r /\ stored[i].at = i
        <4> TAKE i \in 1 .. r.length
        <4>1. i \in Nat
          BY <3>1
        <4>2. stored[i] = [of |-> r, at |-> i]
          BY <3>2
        <4>3. [of |-> r, at |-> i] # Paired!Zero
          BY <4>1, UnitOfRecord
        <4> QED
          BY <4>2, <4>3
      <3>4. text = stored
        BY <1>1, <3>1, <3>3
      <3>5. Paired!Parses(stored)
        <4>1. stored # <<>>
          BY <3>1
        <4>2. Paired!Ends(stored[Len(stored)])
          BY <3>1, <3>3 DEF Paired!Ends
        <4>3. \A i \in 1 .. Len(stored) - 1 : ~Paired!Ends(stored[i])
          BY <3>1, <3>3 DEF Paired!Ends
        <4> QED
          BY <4>1, <4>2, <4>3 DEF Paired!Parses
      <3>6. Paired!Loaded = Paired!Writers(stored)
        BY <3>4, <3>5 DEF Paired!Loaded, text
      <3>7. Paired!Writers(stored) = {r}
        <4>1. 1 \in DOMAIN stored
          BY <3>1
        <4> QED
          BY <3>1, <3>3, <4>1 DEF Paired!Writers
      <3> QED
        BY <2>2, <3>6, <3>7
    <2> QED
      BY <1>0, <2>1, <2>2 DEF RecordsWritten
  <1>3. Paired!BrokenOffIsWhole
    <2> SUFFICES ASSUME storing = "no", ~Paired!LongOnes, Paired!Parses(text)
                 PROVE  \E r \in mayBe : Paired!Writers(text) = {r}
      BY DEF Paired!BrokenOffIsWhole, Paired!Loaded, text
    <2>1. text # <<>> /\ Paired!Ends(text[n]) /\ \A i \in 1 .. n - 1 : ~Paired!Ends(text[i])
      BY <1>1 DEF Paired!Parses
    <2>2. n \in Nat \ {0}
      <3>1. CASE n = 0
        BY <1>1, <2>1, <3>1
      <3> QED
        BY <1>0, <3>1
    <2>3. ASSUME NEW i \in 1 .. n
          PROVE  /\ i \in DOMAIN stored /\ text[i] = stored[i] /\ text[i] # Paired!Zero
                 /\ text[i].of \in mayBe /\ text[i].of \in Paired!Record /\ text[i].at = i /\ i <= text[i].of.length
      <3>1. i \in DOMAIN stored /\ text[i] = stored[i] /\ stored[i] # Paired!Zero
        BY <1>0, <1>1
      <3>2. stored[i] \in [of : Paired!Record, at : {i}]
        BY <1>0, <3>1 DEF Paired!RecordsTypeOK
      <3>3. stored[i].of \in mayBe /\ i <= stored[i].of.length
        BY <1>0, <3>1 DEF RecordsMixed
      <3> QED
        BY <3>1, <3>2, <3>3
    <2>4. Chunk \in Nat \ {0} /\ \A i \in 1 .. n : text[i].of.length \in Nat
      BY HostAssumption, <2>3, RecordsAreLong
    <2>5. \A i, j \in 1 .. n : i <= Chunk /\ j <= Chunk => text[i].of = text[j].of
      BY <1>0, <2>3 DEF RecordsMixed
    <2>6. text[n].of.length = n
      BY <2>1, <2>2, <2>3 DEF Paired!Ends
    <2>7. \A i \in 1 .. n - 1 : text[i].of.length # i
      BY <2>1, <2>2, <2>3 DEF Paired!Ends
    <2>8. \A i, j \in 1 .. n : text[i].of = text[j].of
      <3>1. CASE n <= Chunk
        BY <2>2, <2>4, <2>5, <3>1
      <3>2. CASE ~(n <= Chunk)
        <4>1. Chunk \in 1 .. n - 1 /\ Chunk \in 1 .. n
          BY <2>2, <2>4, <3>2
        <4>2. text[Chunk].of.length > Chunk
          BY <2>3, <2>4, <2>7, <4>1
        <4>3. \A i \in 1 .. n : text[i].of.length > Chunk
          <5> TAKE i \in 1 .. n
          <5>1. CASE i <= Chunk
            <6>1. text[i].of = text[Chunk].of
              BY <2>4, <2>5, <4>1, <5>1
            <6> QED
              BY <4>2, <6>1
          <5>2. CASE ~(i <= Chunk)
            BY <2>2, <2>3, <2>4, <5>2
          <5> QED
            BY <5>1, <5>2
        <4>4. \A r, s \in mayBe : ~(r # s /\ Chunk < r.length /\ Chunk < s.length)
          BY DEF Paired!LongOnes
        <4>5. \A i \in 1 .. n : text[i].of \in mayBe /\ Chunk < text[i].of.length
          BY <2>3, <2>4, <4>3
        <4> QED
          BY <4>4, <4>5
      <3> QED
        BY <3>1, <3>2
    <2>9. n \in 1 .. n /\ DOMAIN text = 1 .. n
      BY <1>1, <2>2
    <2>10. Paired!Writers(text) = {text[n].of}
      BY <2>8, <2>9 DEF Paired!Writers
    <2> QED
      BY <2>3, <2>9, <2>10
  <1> QED
    BY <1>2, <1>3

-----------------------------------------------------------------------------

(* IpcServer: the sessions of the server and the use count of the overlay. *)

\* The table holds each open session once, and the thread's index is one of it.
TableHolds ==
  /\ \A s \in Sess : server[s] = "held" <=> \E i \in DOMAIN table : table[i] = s
  /\ \A i, j \in DOMAIN table : table[i] = table[j] => i = j
  /\ srv \in {"receive", "reply", "delete"} => cur \in DOMAIN table

\* The use count through the steps of the overlay.
UseCounted ==
  /\ refCnt = IF conn # NoSess \/ gui = "connect" THEN 1 ELSE 0
  /\ gui = "connect" => conn = NoSess
  /\ gui \in {"ask", "waiting"} => conn # NoSess
  /\ gui = "off" => conn = NoSess

\* The inductive invariant of the IPC service.
IpcInv == Ipc!TypeOK /\ TableHolds /\ UseCounted

\* A session that is deleted from the table leaves the others in their order.
LEMMA RemoveAtProperties ==
  ASSUME NEW S, NEW s \in Seq(S), NEW i \in 1 .. Len(s)
  PROVE  /\ Ipc!RemoveAt(s, i) \in Seq(S)
         /\ Len(Ipc!RemoveAt(s, i)) = Len(s) - 1
         /\ \A j \in 1 .. Len(s) - 1 : Ipc!RemoveAt(s, i)[j] = IF j < i THEN s[j] ELSE s[j + 1]
  <1> DEFINE a == SubSeq(s, 1, i - 1)
             b == SubSeq(s, i + 1, Len(s))
  <1>1. Len(s) \in Nat /\ i \in Nat /\ 1 <= i /\ i <= Len(s)
    OBVIOUS
  <1>2. a \in Seq(S) /\ Len(a) = i - 1 /\ \A j \in 1 .. i - 1 : a[j] = s[j]
    <2>1. 1 \in 1 .. Len(s) + 1 /\ i - 1 \in 1 - 1 .. Len(s) /\ (i - 1) - 1 + 1 = i - 1 /\ \A j \in 1 .. i - 1 : 1 + j - 1 = j
      BY <1>1
    <2>2. a \in Seq(S) /\ Len(a) = (i - 1) - 1 + 1 /\ \A j \in 1 .. (i - 1) - 1 + 1 : a[j] = s[1 + j - 1]
      <3> DEFINE k == i - 1
      <3>1. k \in 1 - 1 .. Len(s)
        BY <2>1
      <3> HIDE DEF k
      <3>2. /\ SubSeq(s, 1, k) \in Seq(S) /\ Len(SubSeq(s, 1, k)) = k - 1 + 1
            /\ \A j \in 1 .. k - 1 + 1 : SubSeq(s, 1, k)[j] = s[1 + j - 1]
        BY <2>1, <3>1, SubSeqProperties
      <3> QED
        BY <3>2 DEF k
    <2> QED
      BY <2>1, <2>2
  <1>3. b \in Seq(S) /\ Len(b) = Len(s) - i /\ \A j \in 1 .. Len(s) - i : b[j] = s[i + j]
    <2>1. i + 1 \in 1 .. Len(s) + 1 /\ Len(s) \in (i + 1) - 1 .. Len(s) /\ Len(s) - (i + 1) + 1 = Len(s) - i
      BY <1>1
    <2>2. \A j \in 1 .. Len(s) - i : (i + 1) + j - 1 = i + j
      BY <1>1
    <2>3. b \in Seq(S) /\ Len(b) = Len(s) - (i + 1) + 1 /\ \A j \in 1 .. Len(s) - (i + 1) + 1 : b[j] = s[(i + 1) + j - 1]
      <3> DEFINE k == i + 1
      <3>1. k \in 1 .. Len(s) + 1 /\ Len(s) \in k - 1 .. Len(s)
        BY <2>1
      <3> HIDE DEF k
      <3>2. /\ SubSeq(s, k, Len(s)) \in Seq(S) /\ Len(SubSeq(s, k, Len(s))) = Len(s) - k + 1
            /\ \A j \in 1 .. Len(s) - k + 1 : SubSeq(s, k, Len(s))[j] = s[k + j - 1]
        BY <3>1, SubSeqProperties
      <3> QED
        BY <3>2 DEF k
    <2> QED
      BY <2>1, <2>2, <2>3
  <1>4. Ipc!RemoveAt(s, i) = a \o b
    BY DEF Ipc!RemoveAt
  <1> HIDE DEF a, b
  <1>5. a \o b \in Seq(S) /\ Len(a \o b) = Len(a) + Len(b)
        /\ \A j \in 1 .. Len(a) + Len(b) : (a \o b)[j] = IF j <= Len(a) THEN a[j] ELSE b[j - Len(a)]
    BY <1>2, <1>3, ConcatProperties
  <1>6. Len(a) + Len(b) = Len(s) - 1
    BY <1>1, <1>2, <1>3
  <1>7. ASSUME NEW j \in 1 .. Len(s) - 1
        PROVE  (a \o b)[j] = IF j < i THEN s[j] ELSE s[j + 1]
    <2>1. (a \o b)[j] = IF j <= Len(a) THEN a[j] ELSE b[j - Len(a)]
      BY <1>5, <1>6, <1>7
    <2>2. CASE j < i
      BY <1>1, <1>2, <2>1, <2>2
    <2>3. CASE ~(j < i)
      <3>1. ~(j <= Len(a)) /\ j - Len(a) \in 1 .. Len(s) - i /\ i + (j - Len(a)) = j + 1
        BY <1>1, <1>2, <2>3
      <3> QED
        BY <1>3, <2>1, <2>3, <3>1
    <2> QED
      BY <2>2, <2>3
  <1> QED
    BY <1>4, <1>5, <1>6, <1>7

\* Neither the service nor the overlay runs yet.
LEMMA IpcInit == Ipc!Init => IpcInv
  <1> SUFFICES ASSUME Ipc!Init PROVE IpcInv
    OBVIOUS
  <1>1. table = <<>> /\ table \in Seq(Sess) /\ Len(table) = 0 /\ DOMAIN table = {}
    BY DEF Ipc!Init
  <1>2. MaxOther \in Nat /\ MaxSessions \in Nat /\ 0 \in 0 .. MaxSessions /\ MaxOther \in 0 .. MaxOther
    BY HostAssumption
  <1>3. Ipc!TypeOK
    <2>1. /\ server \in [Sess -> {"none"}] /\ client \in [Sess -> {"none"}] /\ msg \in [Sess -> {"none"}]
          /\ sys = "off" /\ name = "none" /\ srv = "wait" /\ cur = 0 /\ gui = "off" /\ found = FALSE
          /\ conn = NoSess /\ refCnt = 0 /\ budget = MaxOther
      BY DEF Ipc!Init
    <2>2. Len(table) <= MaxSessions /\ cur \in 0 .. MaxSessions /\ budget \in 0 .. MaxOther
      BY <1>1, <1>2, <2>1
    <2> QED
      BY <1>1, <2>1, <2>2 DEF Ipc!TypeOK
  <1>4. TableHolds
    BY <1>1 DEF Ipc!Init, TableHolds
  <1>5. UseCounted
    BY DEF Ipc!Init, UseCounted
  <1> QED
    BY <1>3, <1>4, <1>5 DEF IpcInv

\* The sessions of the kernel, as far as their types.
SessTyped ==
  /\ server \in [Sess -> {"none", "pending", "held", "closed", "dead"}]
  /\ client \in [Sess -> {"none", "overlay", "other"}]
  /\ msg \in [Sess -> {"none", "request", "broken", "close", "reply"}]

\* The server holds the sessions that it held.
SameHeld == \A s \in Sess : server'[s] = "held" <=> server[s] = "held"

\* svcCloseHandle on the client's side changes none that the server holds.
LEMMA ClosedClients ==
  ASSUME SessTyped, NEW S, Ipc!CloseClients(S)
  PROVE  SessTyped' /\ SameHeld
  <1>1. server' = [s \in Sess |-> IF s \in S /\ server[s] \in {"closed", "dead"} THEN "none" ELSE server[s]]
    BY DEF Ipc!CloseClients
  <1>2. server' \in [Sess -> {"none", "pending", "held", "closed", "dead"}]
    BY <1>1 DEF SessTyped
  <1>3. client' \in [Sess -> {"none", "overlay", "other"}]
    BY DEF SessTyped, Ipc!CloseClients
  <1>4. msg' \in [Sess -> {"none", "request", "broken", "close", "reply"}]
    BY DEF SessTyped, Ipc!CloseClients
  <1>5. SameHeld
    BY <1>1 DEF SameHeld
  <1> QED
    BY <1>2, <1>3, <1>4, <1>5 DEF SessTyped

\* smGetService makes a session that the server has yet to accept.
LEMMA Connected ==
  ASSUME SessTyped, NEW who \in {"overlay", "other"}, NEW s \in Sess, Ipc!Connect(who, s)
  PROVE  SessTyped' /\ SameHeld
  <1>1. server[s] = "none" /\ server' = [server EXCEPT ![s] = "pending"] /\ client' = [client EXCEPT ![s] = who] /\ msg' = msg
    BY DEF Ipc!Connect, Ipc!Free
  <1>2. server' \in [Sess -> {"none", "pending", "held", "closed", "dead"}]
    BY <1>1 DEF SessTyped
  <1>3. client' \in [Sess -> {"none", "overlay", "other"}]
    BY <1>1 DEF SessTyped
  <1>4. msg' \in [Sess -> {"none", "request", "broken", "close", "reply"}]
    BY <1>1 DEF SessTyped
  <1>5. SameHeld
    BY <1>1 DEF SameHeld, SessTyped
  <1> QED
    BY <1>2, <1>3, <1>4, <1>5 DEF SessTyped

\* svcCloseHandle on the server's side lets go of one session.
LEMMA ServerClosed ==
  ASSUME SessTyped, NEW s \in Sess, Ipc!CloseServer(s)
  PROVE  /\ server' \in [Sess -> {"none", "pending", "held", "closed", "dead"}] /\ client' = client
         /\ \A t \in Sess : server'[t] = "held" <=> t # s /\ server[t] = "held"
  BY DEF SessTyped, Ipc!CloseServer

\* The table is right as long as neither it nor what the server holds changes.
LEMMA TableKept ==
  ASSUME TableHolds, SameHeld, UNCHANGED <<table, srv, cur>>
  PROVE  TableHolds'
  BY DEF TableHolds, SameHeld

\* kdecIpcExit, which the overlay calls when it lets go of its session.
LEMMA SessionLetGo ==
  ASSUME SessTyped, UseCounted, conn \in Sess \cup {NoSess}, gui # "connect", Ipc!IpcExit
  PROVE  SessTyped' /\ SameHeld /\ UseCounted' /\ conn' \in Sess \cup {NoSess} /\ refCnt' \in Nat /\ gui' = "idle"
  <1>1. gui' = "idle"
    BY DEF Ipc!IpcExit
  <1>2. CASE conn = NoSess
    <2>1. refCnt = 0
      BY <1>2 DEF UseCounted
    <2>2. UNCHANGED <<server, client, msg, conn, refCnt>>
      BY <2>1 DEF Ipc!IpcExit, Ipc!sessVars
    <2> QED
      BY <1>1, <1>2, <2>1, <2>2 DEF SessTyped, SameHeld, UseCounted
  <1>3. CASE conn # NoSess
    <2>1. refCnt = 1
      BY <1>3 DEF UseCounted
    <2>2. refCnt' = 0 /\ Ipc!CloseClients({conn}) /\ conn' = NoSess
      BY <1>3, <2>1 DEF Ipc!IpcExit
    <2>3. UseCounted'
      BY <1>1, <2>2 DEF UseCounted
    <2> QED
      BY <1>1, <2>2, <2>3, ClosedClients
  <1> QED
    BY <1>2, <1>3

\* No step of the server thread, of the overlay or of another program disturbs it.
LEMMA IpcStep == IpcInv /\ [Ipc!Next]_ipcVars => IpcInv'
  <1> SUFFICES ASSUME IpcInv, [Ipc!Next]_ipcVars PROVE IpcInv'
    OBVIOUS
  <1>0. /\ Ipc!TypeOK /\ TableHolds /\ UseCounted /\ SessTyped
        /\ table \in Seq(Sess) /\ Len(table) \in Nat /\ DOMAIN table = 1 .. Len(table) /\ Len(table) <= MaxSessions
        /\ MaxSessions \in Nat /\ conn \in Sess \cup {NoSess} /\ NoSess \notin Sess
    BY HostAssumption DEF IpcInv, Ipc!TypeOK, SessTyped
  <1> USE DEF Ipc!sessVars, Ipc!serverVars, Ipc!guiVars
  <1>1. CASE Ipc!Start
    <2>1. Ipc!TypeOK'
      BY <1>0, <1>1 DEF Ipc!Start, Ipc!TypeOK
    <2>2. TableHolds' /\ UseCounted'
      BY <1>0, <1>1 DEF Ipc!Start, TableHolds, UseCounted
    <2> QED
      BY <2>1, <2>2 DEF IpcInv
  <1>2. CASE Ipc!Kill
    <2>1. /\ sys' = "off" /\ table' = <<>> /\ srv' = "wait" /\ cur' = 0 /\ UNCHANGED <<client, gui, found, conn, refCnt, budget>>
          /\ name' = IF name = "sysmodule" THEN "none" ELSE name
      BY <1>2 DEF Ipc!Kill
    <2>2. server' \in [Sess -> {"none", "dead"}]
      BY <1>2 DEF Ipc!Kill
    <2>3. msg' \in [Sess -> {"none"}]
      BY <1>2 DEF Ipc!Kill
    <2>4. table' \in Seq(Sess) /\ Len(table') = 0 /\ DOMAIN table' = {} /\ Len(table') <= MaxSessions
      BY <1>0, <2>1
    <2>5. SessTyped'
      BY <1>0, <2>1, <2>2, <2>3 DEF SessTyped
    <2>6. cur' \in 0 .. MaxSessions
      BY <1>0, <2>1
    <2>7. Ipc!TypeOK'
      BY <1>0, <2>1, <2>4, <2>5, <2>6 DEF SessTyped, Ipc!TypeOK
    <2>8. TableHolds'
      BY <2>1, <2>2, <2>4 DEF TableHolds
    <2>9. UseCounted'
      BY <1>0, <2>1 DEF UseCounted
    <2> QED
      BY <2>7, <2>8, <2>9 DEF IpcInv
  <1>3. CASE Ipc!Wait
    <2>1. UNCHANGED <<sys, name, server, client, msg, table, gui, found, conn, refCnt, budget>>
      BY <1>3 DEF Ipc!Wait
    <2>2. (srv' = "accept" /\ cur' = 0) \/ (srv' = "receive" /\ cur' \in 1 .. Len(table))
      BY <1>3 DEF Ipc!Wait
    <2>3. cur' \in 0 .. MaxSessions
      BY <1>0, <2>2
    <2>4. Ipc!TypeOK'
      BY <1>0, <2>1, <2>2, <2>3 DEF Ipc!TypeOK
    <2>5. TableHolds'
      BY <1>0, <2>1, <2>2 DEF TableHolds
    <2>6. UseCounted'
      BY <1>0, <2>1 DEF UseCounted
    <2> QED
      BY <2>4, <2>5, <2>6 DEF IpcInv
  <1>4. CASE Ipc!Accept
    <2>1. srv' = "wait" /\ UNCHANGED <<sys, name, msg, cur, gui, found, conn, refCnt, budget>>
      BY <1>4 DEF Ipc!Accept
    <2>2. PICK s \in Sess :
            /\ server[s] = "pending"
            /\ IF Len(table) >= MaxSessions
               THEN Ipc!CloseServer(s) /\ UNCHANGED table
               ELSE /\ server' = [server EXCEPT ![s] = "held"]
                    /\ table' = Append(table, s)
                    /\ UNCHANGED client
      BY <1>4 DEF Ipc!Accept
    <2>3. UseCounted'
      BY <1>0, <2>1 DEF UseCounted
    <2>4. CASE Len(table) >= MaxSessions
      <3>1. Ipc!CloseServer(s) /\ UNCHANGED table
        BY <2>2, <2>4
      <3>2. /\ server' \in [Sess -> {"none", "pending", "held", "closed", "dead"}] /\ client' = client
            /\ \A t \in Sess : server'[t] = "held" <=> t # s /\ server[t] = "held"
        BY <1>0, <3>1, ServerClosed
      <3>3. SessTyped'
        BY <1>0, <2>1, <3>2 DEF SessTyped
      <3>4. Ipc!TypeOK'
        BY <1>0, <2>1, <3>1, <3>3 DEF Ipc!TypeOK, SessTyped
      <3>5. TableHolds'
        BY <1>0, <2>1, <2>2, <3>1, <3>2 DEF TableHolds
      <3> QED
        BY <2>3, <3>4, <3>5 DEF IpcInv
    <2>5. CASE ~(Len(table) >= MaxSessions)
      <3>1. server' = [server EXCEPT ![s] = "held"] /\ table' = Append(table, s) /\ UNCHANGED client
        BY <2>2, <2>5
      <3>2. SessTyped'
        BY <1>0, <2>1, <3>1 DEF SessTyped
      <3>3. /\ table' \in Seq(Sess) /\ Len(table') = Len(table) + 1 /\ DOMAIN table' = 1 .. Len(table) + 1
            /\ \A i \in 1 .. Len(table) : table'[i] = table[i]
            /\ table'[Len(table) + 1] = s
        BY <1>0, <3>1
      <3>4. Len(table') <= MaxSessions
        BY <1>0, <2>5, <3>3
      <3>5. Ipc!TypeOK'
        BY <1>0, <2>1, <3>2, <3>3, <3>4 DEF Ipc!TypeOK, SessTyped
      <3>6. \A i \in 1 .. Len(table) : table[i] # s /\ i # Len(table) + 1
        BY <1>0, <2>2 DEF TableHolds
      <3>7. \A t \in Sess : server'[t] = "held" <=> t = s \/ server[t] = "held"
        BY <1>0, <3>1 DEF SessTyped
      <3>8. \A t \in Sess : server'[t] = "held" <=> \E i \in DOMAIN table' : table'[i] = t
        <4> TAKE t \in Sess
        <4>1. ASSUME server'[t] = "held" PROVE \E i \in DOMAIN table' : table'[i] = t
          <5>1. CASE t = s
            <6>1. Len(table) + 1 \in DOMAIN table'
              BY <1>0, <3>3
            <6> QED
              BY <3>3, <5>1, <6>1
          <5>2. CASE t # s
            <6>1. PICK i \in 1 .. Len(table) : table[i] = t
              BY <1>0, <3>7, <4>1, <5>2 DEF TableHolds
            <6>2. i \in DOMAIN table'
              BY <1>0, <3>3
            <6> QED
              BY <3>3, <6>1, <6>2
          <5> QED
            BY <5>1, <5>2
        <4>2. ASSUME NEW i \in DOMAIN table', table'[i] = t PROVE server'[t] = "held"
          <5>1. CASE i = Len(table) + 1
            BY <3>3, <3>7, <4>2, <5>1
          <5>2. CASE i # Len(table) + 1
            <6>1. i \in 1 .. Len(table)
              BY <1>0, <3>3, <5>2
            <6> QED
              BY <1>0, <3>3, <3>7, <4>2, <6>1 DEF TableHolds
          <5> QED
            BY <5>1, <5>2
        <4> QED
          BY <4>1, <4>2
      <3>9. \A i, j \in DOMAIN table' : table'[i] = table'[j] => i = j
        <4> TAKE i, j \in DOMAIN table'
        <4>1. (i \in 1 .. Len(table) \/ i = Len(table) + 1) /\ (j \in 1 .. Len(table) \/ j = Len(table) + 1)
          BY <1>0, <3>3
        <4> QED
          BY <1>0, <3>3, <3>6, <4>1 DEF TableHolds
      <3>10. TableHolds'
        BY <2>1, <3>8, <3>9 DEF TableHolds
      <3> QED
        BY <2>3, <3>5, <3>10 DEF IpcInv
    <2> QED
      BY <2>4, <2>5
  <1>5. CASE Ipc!Receive
    <2>1. Ipc!TypeOK'
      BY <1>0, <1>5 DEF Ipc!Receive, Ipc!TypeOK
    <2>2. TableHolds' /\ UseCounted'
      BY <1>0, <1>5 DEF Ipc!Receive, TableHolds, UseCounted
    <2> QED
      BY <2>1, <2>2 DEF IpcInv
  <1>6. CASE Ipc!Reply
    <2>1. srv = "reply" /\ srv' \in {"delete", "wait"} /\ UNCHANGED <<sys, name, server, client, table, cur, gui, found, conn, refCnt, budget>>
      BY <1>6 DEF Ipc!Reply
    <2>2. msg' \in [Sess -> {"none", "request", "broken", "close", "reply"}]
      BY <1>0, <1>6 DEF Ipc!Reply, SessTyped
    <2>3. Ipc!TypeOK'
      BY <1>0, <2>1, <2>2 DEF Ipc!TypeOK
    <2>4. TableHolds' /\ UseCounted'
      BY <1>0, <2>1 DEF TableHolds, UseCounted
    <2> QED
      BY <2>3, <2>4 DEF IpcInv
  <1>7. CASE Ipc!DeleteSession
    <2> DEFINE s == table[cur]
    <2>1. /\ srv = "delete" /\ srv' = "wait" /\ Ipc!CloseServer(s) /\ table' = Ipc!RemoveAt(table, cur)
          /\ msg' = [msg EXCEPT ![s] = "none"] /\ UNCHANGED <<sys, name, cur, gui, found, conn, refCnt, budget>>
      BY <1>7 DEF Ipc!DeleteSession
    <2>2. cur \in 1 .. Len(table) /\ s \in Sess
      BY <1>0, <2>1 DEF TableHolds
    <2> HIDE DEF s
    <2>3. /\ server' \in [Sess -> {"none", "pending", "held", "closed", "dead"}] /\ client' = client
          /\ \A t \in Sess : server'[t] = "held" <=> t # s /\ server[t] = "held"
      BY <1>0, <2>1, <2>2, ServerClosed
    <2>4. msg' \in [Sess -> {"none", "request", "broken", "close", "reply"}]
      BY <1>0, <2>1 DEF SessTyped
    <2>5. /\ table' \in Seq(Sess) /\ Len(table') = Len(table) - 1
          /\ \A j \in 1 .. Len(table) - 1 : table'[j] = IF j < cur THEN table[j] ELSE table[j + 1]
      BY <1>0, <2>1, <2>2, RemoveAtProperties
    <2>6. Len(table') <= MaxSessions /\ DOMAIN table' = 1 .. Len(table) - 1
      BY <1>0, <2>5
    <2>7. Ipc!TypeOK'
      BY <1>0, <2>1, <2>3, <2>4, <2>5, <2>6 DEF Ipc!TypeOK, SessTyped
    <2>8. \A j \in 1 .. Len(table) - 1 : \E i \in 1 .. Len(table) : i # cur /\ table'[j] = table[i] /\ (i = IF j < cur THEN j ELSE j + 1)
      <3> TAKE j \in 1 .. Len(table) - 1
      <3>1. CASE j < cur
        BY <1>0, <2>2, <2>5, <3>1
      <3>2. CASE ~(j < cur)
        <4>1. j + 1 \in 1 .. Len(table) /\ j + 1 # cur
          BY <1>0, <2>2, <3>2
        <4> QED
          BY <2>5, <3>2, <4>1
      <3> QED
        BY <3>1, <3>2
    <2>9. \A i \in 1 .. Len(table) : i # cur => \E j \in 1 .. Len(table) - 1 : table'[j] = table[i]
      <3> TAKE i \in 1 .. Len(table)
      <3> SUFFICES ASSUME i # cur PROVE \E j \in 1 .. Len(table) - 1 : table'[j] = table[i]
        OBVIOUS
      <3>1. CASE i < cur
        <4>1. i \in 1 .. Len(table) - 1
          BY <1>0, <2>2, <3>1
        <4> QED
          BY <2>5, <3>1, <4>1
      <3>2. CASE ~(i < cur)
        <4>1. i - 1 \in 1 .. Len(table) - 1 /\ ~(i - 1 < cur) /\ (i - 1) + 1 = i
          BY <1>0, <2>2, <3>2
        <4> QED
          BY <2>5, <4>1
      <3> QED
        BY <3>1, <3>2
    <2>10. \A t \in Sess : server'[t] = "held" <=> \E j \in DOMAIN table' : table'[j] = t
      <3> TAKE t \in Sess
      <3>1. ASSUME server'[t] = "held" PROVE \E j \in DOMAIN table' : table'[j] = t
        <4>1. t # s /\ server[t] = "held"
          BY <2>3, <3>1
        <4>2. PICK i \in 1 .. Len(table) : table[i] = t
          BY <1>0, <4>1 DEF TableHolds
        <4>3. i # cur
          BY <4>1, <4>2 DEF s
        <4> QED
          BY <2>6, <2>9, <4>2, <4>3
      <3>2. ASSUME NEW j \in DOMAIN table', table'[j] = t PROVE server'[t] = "held"
        <4>1. PICK i \in 1 .. Len(table) : i # cur /\ table'[j] = table[i]
          BY <2>6, <2>8
        <4>2. table[i] # s
          BY <1>0, <2>2, <4>1 DEF s, TableHolds
        <4>3. server[t] = "held"
          BY <1>0, <3>2, <4>1 DEF TableHolds
        <4> QED
          BY <2>3, <3>2, <4>1, <4>2, <4>3
      <3> QED
        BY <3>1, <3>2
    <2>11. \A i, j \in DOMAIN table' : table'[i] = table'[j] => i = j
      <3> SUFFICES ASSUME NEW i \in DOMAIN table', NEW j \in DOMAIN table', table'[i] = table'[j] PROVE i = j
        OBVIOUS
      <3>1. PICK a \in 1 .. Len(table) : table'[i] = table[a] /\ (a = IF i < cur THEN i ELSE i + 1)
        BY <2>6, <2>8
      <3>2. PICK b \in 1 .. Len(table) : table'[j] = table[b] /\ (b = IF j < cur THEN j ELSE j + 1)
        BY <2>6, <2>8
      <3>3. a = b
        <4>1. table[a] = table[b] /\ a \in DOMAIN table /\ b \in DOMAIN table
          BY <1>0, <3>1, <3>2
        <4> QED
          BY <1>0, <4>1 DEF TableHolds
      <3> QED
        BY <1>0, <2>2, <2>6, <3>1, <3>2, <3>3
    <2>12. TableHolds'
      BY <2>1, <2>10, <2>11 DEF TableHolds
    <2>13. UseCounted'
      BY <1>0, <2>1 DEF UseCounted
    <2> QED
      BY <2>7, <2>12, <2>13 DEF IpcInv
  <1>8. CASE Ipc!Poll
    <2>1. Ipc!TypeOK'
      BY <1>0, <1>8 DEF Ipc!Poll, Ipc!TypeOK
    <2>2. TableHolds' /\ UseCounted'
      BY <1>0, <1>8 DEF Ipc!Poll, TableHolds, UseCounted
    <2> QED
      BY <2>1, <2>2 DEF IpcInv
  <1>9. CASE Ipc!Probe
    <2>1. Ipc!TypeOK'
      BY <1>0, <1>9 DEF Ipc!Probe, Ipc!TypeOK
    <2>2. TableHolds' /\ UseCounted'
      BY <1>0, <1>9 DEF Ipc!Probe, TableHolds, UseCounted
    <2> QED
      BY <2>1, <2>2 DEF IpcInv
  <1>10. CASE Ipc!EndProbe
    <2>1. Ipc!TypeOK'
      BY <1>0, <1>10 DEF Ipc!EndProbe, Ipc!TypeOK
    <2>2. TableHolds' /\ UseCounted'
      BY <1>0, <1>10 DEF Ipc!EndProbe, TableHolds, UseCounted
    <2> QED
      BY <2>1, <2>2 DEF IpcInv
  <1> DEFINE Rest == UNCHANGED <<sys, name, table, srv, cur, found, budget>>
  <1>20. ASSUME Rest, SessTyped', SameHeld, UseCounted', conn' \in Sess \cup {NoSess}, refCnt' \in Nat,
                gui' \in {"off", "idle", "probe", "probing", "decide", "connect", "ask", "waiting"}
         PROVE  IpcInv'
    <2>1. Ipc!TypeOK'
      BY <1>0, <1>20 DEF SessTyped, Ipc!TypeOK
    <2>2. TableHolds'
      BY <1>0, <1>20, TableKept
    <2> QED
      BY <1>20, <2>1, <2>2 DEF IpcInv
  <1>21. ASSUME Rest, UNCHANGED <<server, client, msg>>, UseCounted', conn' \in Sess \cup {NoSess}, refCnt' \in Nat,
                gui' \in {"off", "idle", "probe", "probing", "decide", "connect", "ask", "waiting"}
         PROVE  IpcInv'
    <2>1. SessTyped' /\ SameHeld
      BY <1>0, <1>21 DEF SessTyped, SameHeld
    <2> QED
      BY <1>20, <1>21, <2>1
  <1>11. CASE Ipc!Decide
    <2>1. Rest /\ gui = "decide"
      BY <1>11 DEF Ipc!Decide
    <2> HIDE DEF Rest
    <2>2. CASE conn = NoSess /\ refCnt' = refCnt + 1 /\ gui' = "connect" /\ UNCHANGED <<server, client, msg, conn>>
      <3>1. refCnt = 0 /\ UseCounted'
        BY <1>0, <2>1, <2>2 DEF UseCounted
      <3> QED
        BY <1>0, <1>21, <2>1, <2>2, <3>1
    <2>3. CASE conn # NoSess /\ gui' = "ask" /\ UNCHANGED <<server, client, msg, conn, refCnt>>
      <3>1. refCnt = 1 /\ UseCounted'
        BY <1>0, <2>1, <2>3 DEF UseCounted
      <3> QED
        BY <1>0, <1>21, <2>1, <2>3, <3>1
    <2>4. CASE Ipc!IpcExit
      <3>1. SessTyped' /\ SameHeld /\ UseCounted' /\ conn' \in Sess \cup {NoSess} /\ refCnt' \in Nat /\ gui' = "idle"
        BY <1>0, <2>1, <2>4, SessionLetGo
      <3> QED
        BY <1>20, <2>1, <3>1
    <2>5. CASE conn = NoSess /\ gui' = "idle" /\ UNCHANGED <<server, client, msg, conn, refCnt>>
      <3>1. refCnt = 0 /\ UseCounted'
        BY <1>0, <2>1, <2>5 DEF UseCounted
      <3> QED
        BY <1>0, <1>21, <2>1, <2>5, <3>1
    <2> QED
      BY <1>11, <2>2, <2>3, <2>4, <2>5 DEF Ipc!Decide
  <1>12. CASE Ipc!Initialize
    <2>1. Rest /\ gui = "connect"
      BY <1>12 DEF Ipc!Initialize
    <2> HIDE DEF Rest
    <2>2. refCnt = 1 /\ conn = NoSess
      BY <1>0, <2>1 DEF UseCounted
    <2>3. CASE Ipc!ConnectFailed
      <3>1. gui' = "idle" /\ refCnt' = 0 /\ UNCHANGED <<server, client, msg, conn>>
        BY <2>2, <2>3 DEF Ipc!ConnectFailed
      <3>2. UseCounted'
        BY <2>2, <3>1 DEF UseCounted
      <3> QED
        BY <1>0, <1>21, <2>1, <3>1, <3>2
    <2>4. ASSUME NEW s \in Sess, Ipc!Connect("overlay", s), conn' = s, gui' = "ask", UNCHANGED refCnt
          PROVE  IpcInv'
      <3>1. SessTyped' /\ SameHeld
        BY <1>0, <2>4, Connected
      <3>2. UseCounted'
        BY <1>0, <2>2, <2>4 DEF UseCounted
      <3> QED
        BY <1>0, <1>20, <2>1, <2>2, <2>4, <3>1, <3>2
    <2> QED
      BY <1>12, <2>3, <2>4 DEF Ipc!Initialize
  <1>13. CASE Ipc!Ask
    <2>1. Rest /\ (gui = "ask" \/ (gui = "idle" /\ conn # NoSess))
      BY <1>13 DEF Ipc!Ask
    <2> HIDE DEF Rest
    <2>2. conn \in Sess /\ refCnt = 1
      BY <1>0, <2>1 DEF UseCounted
    <2>3. CASE msg' = [msg EXCEPT ![conn] = "request"] /\ gui' = "waiting" /\ UNCHANGED <<server, client, conn, refCnt>>
      <3>1. SessTyped' /\ SameHeld
        BY <1>0, <2>3 DEF SessTyped, SameHeld
      <3>2. UseCounted'
        BY <1>0, <2>2, <2>3 DEF UseCounted
      <3> QED
        BY <1>0, <1>20, <2>1, <2>2, <2>3, <3>1, <3>2
    <2>4. CASE Ipc!IpcExit
      <3>1. SessTyped' /\ SameHeld /\ UseCounted' /\ conn' \in Sess \cup {NoSess} /\ refCnt' \in Nat /\ gui' = "idle"
        BY <1>0, <2>1, <2>4, SessionLetGo
      <3> QED
        BY <1>20, <2>1, <3>1
    <2>5. CASE UNCHANGED <<gui, server, client, msg, conn, refCnt>>
      <3>1. UseCounted' /\ gui' \in {"ask", "idle"}
        BY <1>0, <2>1, <2>5 DEF UseCounted
      <3> QED
        BY <1>0, <1>21, <2>1, <2>2, <2>5, <3>1
    <2> QED
      BY <1>13, <2>3, <2>4, <2>5 DEF Ipc!Ask
  <1>14. CASE Ipc!Answer
    <2>1. Rest /\ gui = "waiting"
      BY <1>14 DEF Ipc!Answer
    <2> HIDE DEF Rest
    <2>2. conn \in Sess /\ refCnt = 1
      BY <1>0, <2>1 DEF UseCounted
    <2>3. CASE msg' = [msg EXCEPT ![conn] = "none"] /\ gui' = "idle" /\ UNCHANGED <<server, client, conn, refCnt>>
      <3>1. SessTyped' /\ SameHeld
        BY <1>0, <2>3 DEF SessTyped, SameHeld
      <3>2. UseCounted'
        BY <1>0, <2>2, <2>3 DEF UseCounted
      <3> QED
        BY <1>0, <1>20, <2>1, <2>2, <2>3, <3>1, <3>2
    <2>4. CASE Ipc!IpcExit
      <3>1. SessTyped' /\ SameHeld /\ UseCounted' /\ conn' \in Sess \cup {NoSess} /\ refCnt' \in Nat /\ gui' = "idle"
        BY <1>0, <2>1, <2>4, SessionLetGo
      <3> QED
        BY <1>20, <2>1, <3>1
    <2> QED
      BY <1>14, <2>3, <2>4 DEF Ipc!Answer
  <1>15. CASE Ipc!CloseOverlay
    <2>1. Rest /\ Ipc!CloseClients({s \in Sess : client[s] = "overlay"}) /\ gui' = "off" /\ conn' = NoSess /\ refCnt' = 0
      BY <1>15 DEF Ipc!CloseOverlay
    <2> HIDE DEF Rest
    <2>2. SessTyped' /\ SameHeld
      BY <1>0, <2>1, ClosedClients
    <2>3. UseCounted'
      BY <2>1 DEF UseCounted
    <2> QED
      BY <1>20, <2>1, <2>2, <2>3
  <1>16. CASE Ipc!Other
    <2>1. UNCHANGED <<sys, name, table, srv, cur, gui, found, conn, refCnt>>
      BY <1>16 DEF Ipc!Other
    <2>2. SessTyped' /\ SameHeld /\ budget' \in 0 .. MaxOther
      <3>0. budget \in 0 .. MaxOther /\ MaxOther \in Nat
        BY <1>0, HostAssumption DEF Ipc!TypeOK
      <3>1. ASSUME NEW s \in Sess, Ipc!Connect("other", s), budget > 0, budget' = budget - 1
            PROVE  SessTyped' /\ SameHeld /\ budget' \in 0 .. MaxOther
        <4>1. SessTyped' /\ SameHeld
          BY <1>0, <3>1, Connected
        <4>2. budget' \in 0 .. MaxOther
          BY <3>0, <3>1
        <4> QED
          BY <4>1, <4>2
      <3>2. ASSUME NEW s \in Sess, NEW m \in {"request", "broken", "close"}, msg' = [msg EXCEPT ![s] = m],
                   budget > 0, budget' = budget - 1, UNCHANGED <<server, client>>
            PROVE  SessTyped' /\ SameHeld /\ budget' \in 0 .. MaxOther
        <4>1. SessTyped' /\ SameHeld
          BY <1>0, <3>2 DEF SessTyped, SameHeld
        <4>2. budget' \in 0 .. MaxOther
          BY <3>0, <3>2
        <4> QED
          BY <4>1, <4>2
      <3>3. ASSUME NEW s \in Sess, Ipc!CloseClients({s}), UNCHANGED budget
            PROVE  SessTyped' /\ SameHeld /\ budget' \in 0 .. MaxOther
        BY <1>0, <3>0, <3>3, ClosedClients
      <3> QED
        BY <1>16, <3>1, <3>2, <3>3 DEF Ipc!Other
    <2>3. Ipc!TypeOK'
      BY <1>0, <2>1, <2>2 DEF Ipc!TypeOK, SessTyped
    <2>4. TableHolds'
      BY <1>0, <2>1, <2>2, TableKept
    <2>5. UseCounted'
      BY <1>0, <2>1 DEF UseCounted
    <2> QED
      BY <2>3, <2>4, <2>5 DEF IpcInv
  <1>17. CASE UNCHANGED ipcVars
    <2>1. Ipc!TypeOK'
      BY <1>0, <1>17 DEF Ipc!TypeOK, ipcVars
    <2>2. TableHolds' /\ UseCounted'
      BY <1>0, <1>17 DEF TableHolds, UseCounted, ipcVars
    <2> QED
      BY <2>1, <2>2 DEF IpcInv
  <1> QED
    BY <1>1, <1>2, <1>3, <1>4, <1>5, <1>6, <1>7, <1>8, <1>9, <1>10, <1>11, <1>12, <1>13, <1>14, <1>15, <1>16, <1>17
    DEF Ipc!Next, Ipc!Serve

\* It says what the IPC service promises.
LEMMA IpcHolds == IpcInv => Ipc!TableIsOpen /\ Ipc!CountIsConnection
  <1> SUFFICES ASSUME IpcInv PROVE Ipc!TableIsOpen /\ Ipc!CountIsConnection
    OBVIOUS
  <1>1. TableHolds /\ UseCounted /\ table \in Seq(Sess)
    BY DEF IpcInv, Ipc!TypeOK
  <1>2. \A i \in DOMAIN table : table[i] \in Sess
    BY <1>1
  <1>3. Ipc!IsInjective(table)
    BY <1>1 DEF TableHolds, Ipc!IsInjective
  <1>4. {s \in Sess : server[s] = "held"} = Ipc!ToSet(table)
    BY <1>1, <1>2 DEF TableHolds, Ipc!ToSet
  <1>5. Ipc!CountIsConnection
    BY <1>1 DEF UseCounted, Ipc!CountIsConnection
  <1> QED
    BY <1>3, <1>4, <1>5 DEF Ipc!TableIsOpen

-----------------------------------------------------------------------------

(* Screenshot: the picture that is sent. *)

\* The pictures that were there when the command began, and the one it has found.
ShotsNew ==
  /\ begun \subseteq Shots!Taken
  /\ shot # "idle" => result = 0
  /\ blind = FALSE /\ shot # "idle" => \A n \in begun : album[n].day = today => n <= prev
  /\ shot \in {"size", "open"} => picked \in Shots!Taken /\ (blind = FALSE => picked \notin begun)
  /\ shot = "open" => album[picked].whole
  /\ blind = FALSE /\ result # 0 => result \notin begun

\* The inductive invariant of the screenshot command.
ShotsInv == Shots!TypeOK /\ ShotsNew

\* The newest of some screenshots, or none, is one of them and the greatest.
LEMMA MaxOfShots ==
  ASSUME NEW S \in SUBSET Shots!Shot
  PROVE  LET m == Shots!Max({Shots!None} \cup S)
         IN m \in {Shots!None} \cup S /\ \A n \in S : n <= m
  <1> DEFINE T == {Shots!None} \cup S
             D == {MaxShot - n : n \in T}
  <1>0. MaxShot \in Nat /\ T \subseteq 0 .. MaxShot /\ 0 \in T
    BY HostAssumption DEF Shots!Shot, Shots!None
  <1> HIDE DEF T
  <1>1. D \subseteq Nat
    <2> SUFFICES ASSUME NEW n \in T PROVE MaxShot - n \in Nat
      OBVIOUS
    <2>1. n \in 0 .. MaxShot
      BY <1>0
    <2> QED
      BY <1>0, <2>1
  <1>2. D # {}
    BY <1>0
  <1>3. PICK d \in D : \A e \in D : d <= e
    BY <1>1, <1>2, LeastNatural
  <1>4. PICK x \in T : d = MaxShot - x
    BY <1>3
  <1>5. \A y \in T : x >= y
    <2> TAKE y \in T
    <2>1. MaxShot - x <= MaxShot - y /\ x \in 0 .. MaxShot /\ y \in 0 .. MaxShot
      BY <1>0, <1>3, <1>4
    <2> QED
      BY <1>0, <2>1
  <1>6. Shots!Max(T) \in T /\ \A y \in T : Shots!Max(T) >= y
    BY <1>5 DEF Shots!Max
  <1>7. Shots!Max(T) \in 0 .. MaxShot
    BY <1>0, <1>6
  <1>8. \A n \in S : n <= Shots!Max(T)
    <2> TAKE n \in S
    <2>1. n \in T
      BY DEF T
    <2>2. n \in 0 .. MaxShot
      BY <1>0, <2>1
    <2> QED
      BY <1>0, <1>6, <1>7, <2>1, <2>2
  <1> QED
    BY <1>6, <1>8 DEF T

\* No command runs.
LEMMA ShotsInit == Shots!Init => ShotsInv
  <1> SUFFICES ASSUME Shots!Init PROVE ShotsInv
    OBVIOUS
  <1>1. /\ shot = "idle" /\ prev = 0 /\ picked = 0 /\ tries = 0 /\ day = 1 /\ today = 1
        /\ begun = {} /\ blind = FALSE /\ result = 0 /\ MaxShot \in Nat /\ Polls \in Nat
    BY HostAssumption DEF Shots!Init, Shots!None
  <1>2. album \in [Shots!Shot -> [day : Shots!Day \cup {0}, whole : BOOLEAN]]
    BY DEF Shots!Init, Shots!Day, Shots!Absent
  <1>3. tries \in 0 .. Polls
    BY <1>1
  <1>4. Shots!TypeOK
    BY <1>1, <1>2, <1>3 DEF Shots!TypeOK, Shots!None, Shots!Day
  <1> QED
    BY <1>1, <1>4 DEF ShotsInv, ShotsNew

\* No step of the command, of the album or of the calendar disturbs it.
LEMMA ShotsStep == ShotsInv /\ [Shots!Next]_shotsVars => ShotsInv'
  <1> SUFFICES ASSUME ShotsInv, [Shots!Next]_shotsVars PROVE ShotsInv'
    OBVIOUS
  <1>0. Shots!TypeOK /\ ShotsNew /\ MaxShot \in Nat /\ Polls \in Nat /\ Shots!None = 0 /\ Shots!Day = {1, 2}
        /\ tries \in 0 .. Polls
    BY HostAssumption DEF ShotsInv, Shots!None, Shots!Day, Shots!TypeOK
  <1>1. CASE Shots!Begin
    <2> DEFINE S == {n \in Shots!Shot : album[n].day = day}
               newest == Shots!Max({Shots!None} \cup S)
    <2>1. /\ today' = day /\ prev' \in {newest, Shots!None} /\ blind' = (prev' # newest) /\ shot' = "press"
          /\ begun' = Shots!Taken /\ result' = 0 /\ UNCHANGED <<picked, tries, day, album>>
      BY <1>1, <1>0 DEF Shots!Begin
    <2>2. newest \in {Shots!None} \cup S /\ \A n \in S : n <= newest
      BY MaxOfShots
    <2> HIDE DEF newest
    <2>3. prev' \in Shots!Shot \cup {0} /\ blind' \in BOOLEAN /\ begun' \subseteq Shots!Shot
      BY <1>0, <2>1, <2>2 DEF Shots!Taken
    <2>4. Shots!TypeOK'
      BY <1>0, <2>1, <2>3 DEF Shots!TypeOK
    <2>5. blind' = FALSE => \A n \in begun' : album[n].day = today' => n <= prev'
      BY <2>1, <2>2 DEF Shots!Taken
    <2>6. ShotsNew'
      BY <2>1, <2>5 DEF ShotsNew, Shots!Taken
    <2> QED
      BY <2>4, <2>6 DEF ShotsInv
  <1>2. CASE Shots!Press
    <2>0. 0 \in 0 .. Polls
      BY <1>0
    <2>1. Shots!TypeOK'
      BY <1>0, <1>2, <2>0 DEF Shots!Press, Shots!TypeOK
    <2>2. ShotsNew'
      BY <1>0, <1>2 DEF Shots!Press, ShotsNew, Shots!Taken
    <2> QED
      BY <2>1, <2>2 DEF ShotsInv
  <1>3. CASE Shots!Poll
    <2> DEFINE S == {n \in Shots!Shot : album[n].day = today}
    <2>1. shot = "poll" /\ UNCHANGED <<prev, today, day, album, begun, blind>>
      BY <1>3 DEF Shots!Poll
    <2>2. CASE Shots!IsNew /\ picked' = Shots!Newest /\ shot' = "size" /\ tries' = 0 /\ UNCHANGED result
      <3>1. Shots!Newest \in {Shots!None} \cup S
        BY MaxOfShots DEF Shots!Newest
      <3>2. Shots!Newest \in S /\ Shots!Newest > prev
        BY <1>0, <2>2, <3>1 DEF Shots!IsNew
      <3>3. picked' \in Shots!Shot /\ album[picked'].day = today /\ today # 0 /\ prev \in 0 .. MaxShot /\ picked' \in 1 .. MaxShot
        BY <1>0, <2>2, <3>2 DEF Shots!TypeOK, Shots!Shot
      <3>4. picked' \in Shots!Taken
        BY <3>3 DEF Shots!Taken, Shots!Absent
      <3>5. blind = FALSE => picked' \notin begun
        <4>1. SUFFICES ASSUME blind = FALSE, picked' \in begun PROVE FALSE
          OBVIOUS
        <4>2. picked' <= prev
          BY <1>0, <2>1, <3>3, <4>1 DEF ShotsNew
        <4> QED
          BY <1>0, <2>2, <3>2, <3>3, <4>2
      <3>6. tries' \in 0 .. Polls
        BY <1>0, <2>2
      <3>7. Shots!TypeOK'
        BY <1>0, <2>1, <2>2, <3>3, <3>6 DEF Shots!TypeOK
      <3>8. ShotsNew'
        BY <1>0, <2>1, <2>2, <3>4, <3>5 DEF ShotsNew, Shots!Taken
      <3> QED
        BY <3>7, <3>8 DEF ShotsInv
    <2>3. CASE tries < Polls /\ tries' = tries + 1 /\ UNCHANGED <<shot, picked, result>>
      <3>6. tries' \in 0 .. Polls
        BY <1>0, <2>3
      <3>7. Shots!TypeOK'
        BY <1>0, <2>1, <2>3, <3>6 DEF Shots!TypeOK
      <3>8. ShotsNew'
        BY <1>0, <2>1, <2>3 DEF ShotsNew, Shots!Taken
      <3> QED
        BY <3>7, <3>8 DEF ShotsInv
    <2>4. CASE Shots!End(Shots!None) /\ UNCHANGED <<picked, tries>>
      <3>1. shot' = "idle" /\ result' = 0
        BY <1>0, <2>4 DEF Shots!End
      <3>7. Shots!TypeOK'
        BY <1>0, <2>1, <2>4, <3>1 DEF Shots!TypeOK
      <3>8. ShotsNew'
        BY <1>0, <2>1, <2>4, <3>1 DEF ShotsNew, Shots!Taken
      <3> QED
        BY <3>7, <3>8 DEF ShotsInv
    <2> QED
      BY <1>3, <2>2, <2>3, <2>4 DEF Shots!Poll
  <1>4. CASE Shots!WaitForSize
    <2>1. shot = "size" /\ UNCHANGED <<prev, picked, today, day, album, begun, blind>>
      BY <1>4 DEF Shots!WaitForSize
    <2>2. CASE Shots!HasSize /\ shot' = "open" /\ UNCHANGED <<tries, result>>
      <3>7. Shots!TypeOK'
        BY <1>0, <2>1, <2>2 DEF Shots!TypeOK
      <3>8. ShotsNew'
        BY <1>0, <2>1, <2>2 DEF ShotsNew, Shots!Taken, Shots!HasSize
      <3> QED
        BY <3>7, <3>8 DEF ShotsInv
    <2>3. CASE tries < Polls /\ tries' = tries + 1 /\ UNCHANGED <<shot, result>>
      <3>6. tries' \in 0 .. Polls
        BY <1>0, <2>3
      <3>7. Shots!TypeOK'
        BY <1>0, <2>1, <2>3, <3>6 DEF Shots!TypeOK
      <3>8. ShotsNew'
        BY <1>0, <2>1, <2>3 DEF ShotsNew, Shots!Taken
      <3> QED
        BY <3>7, <3>8 DEF ShotsInv
    <2>4. CASE Shots!End(Shots!None) /\ UNCHANGED tries
      <3>1. shot' = "idle" /\ result' = 0
        BY <1>0, <2>4 DEF Shots!End
      <3>7. Shots!TypeOK'
        BY <1>0, <2>1, <2>4, <3>1 DEF Shots!TypeOK
      <3>8. ShotsNew'
        BY <1>0, <2>1, <2>4, <3>1 DEF ShotsNew, Shots!Taken
      <3> QED
        BY <3>7, <3>8 DEF ShotsInv
    <2> QED
      BY <1>4, <2>2, <2>3, <2>4 DEF Shots!WaitForSize
  <1>5. CASE Shots!Open
    <2>1. shot = "open" /\ shot' = "idle" /\ result' \in {picked, 0} /\ UNCHANGED <<prev, picked, tries, today, day, album, begun, blind>>
      BY <1>0, <1>5 DEF Shots!Open, Shots!End
    <2>2. picked \in Shots!Shot /\ (blind = FALSE => picked \notin begun)
      BY <1>0, <2>1 DEF ShotsNew, Shots!Taken
    <2>7. Shots!TypeOK'
      BY <1>0, <2>1, <2>2 DEF Shots!TypeOK
    <2>8. ShotsNew'
      BY <1>0, <2>1, <2>2 DEF ShotsNew, Shots!Taken
    <2> QED
      BY <2>7, <2>8 DEF ShotsInv
  <1> DEFINE Same == UNCHANGED <<shot, prev, picked, tries, today, begun, blind, result>>
  <1>6. CASE Shots!Capture
    <2>1. PICK n \in Shots!Shot : Shots!Taken = 1 .. (n - 1) /\ album' = [album EXCEPT ![n] = [day |-> day, whole |-> FALSE]]
      BY <1>6 DEF Shots!Capture
    <2>2. Same /\ UNCHANGED day
      BY <1>6 DEF Shots!Capture
    <2>3. n \notin Shots!Taken /\ day \in {1, 2}
      BY <1>0, <2>1 DEF Shots!Shot, Shots!TypeOK
    <2>4. album' \in [Shots!Shot -> [day : Shots!Day \cup {0}, whole : BOOLEAN]]
      BY <1>0, <2>1, <2>3 DEF Shots!TypeOK
    <2>5. \A k \in Shots!Taken : k \in Shots!Shot /\ k # n /\ album'[k] = album[k] /\ album[k] # Shots!Absent
      BY <1>0, <2>1, <2>3 DEF Shots!Taken, Shots!TypeOK
    <2>6. Shots!Taken \subseteq Shots!Taken'
      BY <2>5 DEF Shots!Taken, Shots!Absent
    <2>7. Shots!TypeOK'
      BY <1>0, <2>2, <2>4 DEF Shots!TypeOK
    <2>8. ShotsNew'
      BY <1>0, <2>2, <2>5, <2>6 DEF ShotsNew
    <2> QED
      BY <2>7, <2>8 DEF ShotsInv
  <1>7. CASE Shots!Finish
    <2>1. PICK n \in Shots!Taken : album' = [album EXCEPT ![n].whole = TRUE]
      BY <1>7 DEF Shots!Finish
    <2>2. Same /\ UNCHANGED day
      BY <1>7 DEF Shots!Finish
    <2>3. n \in Shots!Shot /\ album \in [Shots!Shot -> [day : Shots!Day \cup {0}, whole : BOOLEAN]]
      BY <1>0 DEF Shots!Taken, Shots!TypeOK
    <2>4. album' \in [Shots!Shot -> [day : Shots!Day \cup {0}, whole : BOOLEAN]]
      BY <2>1, <2>3
    <2>5. \A k \in Shots!Shot : album'[k].day = album[k].day /\ (k # n => album'[k] = album[k]) /\ album'[n].whole = TRUE
      BY <2>1, <2>3
    <2>6. \A k \in Shots!Taken : k \in Shots!Shot /\ album'[k] # Shots!Absent /\ (album[k].whole => album'[k].whole)
      BY <2>3, <2>5 DEF Shots!Taken, Shots!Absent
    <2>9. Shots!Taken \subseteq Shots!Taken'
      BY <2>6 DEF Shots!Taken, Shots!Absent
    <2>7. Shots!TypeOK'
      BY <1>0, <2>2, <2>4 DEF Shots!TypeOK
    <2>10. \A k \in begun : album'[k].day = album[k].day
      BY <1>0, <2>5, <2>6 DEF ShotsNew
    <2>8. ShotsNew'
      BY <1>0, <2>2, <2>5, <2>6, <2>9, <2>10 DEF ShotsNew
    <2> QED
      BY <2>7, <2>8 DEF ShotsInv
  <1>8. CASE Shots!Midnight
    <2>1. day' = 2 /\ Same /\ UNCHANGED album
      BY <1>8 DEF Shots!Midnight
    <2>7. Shots!TypeOK'
      BY <1>0, <2>1 DEF Shots!TypeOK
    <2>8. ShotsNew'
      BY <1>0, <2>1 DEF ShotsNew, Shots!Taken
    <2> QED
      BY <2>7, <2>8 DEF ShotsInv
  <1>9. CASE UNCHANGED shotsVars
    BY <1>0, <1>9 DEF ShotsInv, Shots!TypeOK, ShotsNew, Shots!Taken, shotsVars
  <1> QED
    BY <1>1, <1>2, <1>3, <1>4, <1>5, <1>6, <1>7, <1>8, <1>9 DEF Shots!Next

\* It says what the screenshot command promises.
LEMMA ShotsHold == ShotsInv => Shots!SentIsNew /\ Shots!OpenedIsWhole
  <1> SUFFICES ASSUME ShotsInv PROVE Shots!SentIsNew /\ Shots!OpenedIsWhole
    OBVIOUS
  <1>1. \A n \in Shots!Shot : n # 0
    BY HostAssumption DEF Shots!Shot
  <1>2. blind \in BOOLEAN
    BY DEF ShotsInv, Shots!TypeOK
  <1> QED
    BY <1>1, <1>2 DEF ShotsInv, ShotsNew, Shots!SentIsNew, Shots!OpenedIsWhole

-----------------------------------------------------------------------------

(* Keyboard: hiddbg, its users and the layout of the user. *)

\* hiddbg's users, those that still have to leave it, and who initialises it.
HidUsers == {u \in User : act[u] \notin {"none", "exit"}}
Leaving == {u \in User : act[u] = "exit"}
Entering == {u \in User : act[u] = "init"}

\* The user count and the guard of hiddbg, while they change: a user that has left
\* the count may still have to leave the service, and the first one to initialise it.
HidCounted ==
  failed = FALSE =>
    /\ count = Cardinality(HidUsers)
    /\ \A u, v \in User : act[u] = "init" /\ act[v] = "init" => u = v
    /\ guard + (IF Entering # {} THEN 1 ELSE 0) = Cardinality(Leaving) + (IF count > 0 THEN 1 ELSE 0)

\* Who presses a key is about to let go of it.
KeysPressed ==
  /\ keys # "none" => \E u \in User : act[u] \in {"hold", "dummy"}
  /\ \A u \in User : act[u] \in {"hold", "dummy"} => left[u] > 0

\* Where the user's layout is while somebody types.
LayoutKept ==
  together = FALSE =>
    /\ \A u, v \in User : act[u] \in Keys!Typing /\ act[v] \in Keys!Typing => u = v
    /\ \A u \in User :
         /\ act[u] \in Keys!Typing \ {"get"} => old[u] = choice
         /\ act[u] \in {"get", "set"} => layout = choice
         /\ act[u] \in {"type", "hold", "dummy"} => layout = "us"
    /\ (\A u \in User : act[u] \notin Keys!Typing) => layout = choice

\* The inductive invariant of the virtual keyboard.
KeysInv == Keys!TypeOK /\ HidCounted /\ KeysPressed /\ LayoutKept

\* Where a user can be.
Places == {"none", "init", "ready", "exit"} \cup Keys!Typing

\* The module counts as the library does.
LEMMA SameCardinality == \A S : Keys!Cardinality(S) = Cardinality(S)
  BY DEF Keys!Cardinality, Cardinality

\* The users of each kind can be counted.
LEMMA UsersAreFinite ==
  /\ IsFiniteSet(HidUsers) /\ Cardinality(HidUsers) \in Nat
  /\ IsFiniteSet(Leaving) /\ Cardinality(Leaving) \in Nat
  <1>1. HidUsers \in SUBSET User /\ Leaving \in SUBSET User /\ IsFiniteSet(User)
    BY HostAssumption DEF HidUsers, Leaving
  <1>2. IsFiniteSet(HidUsers) /\ IsFiniteSet(Leaving)
    BY <1>1, FS_Subset
  <1> QED
    BY <1>2, FS_CardinalityType

\* Nobody uses the keyboard yet.
LEMMA KeysInit == Keys!Init => KeysInv
  <1> SUFFICES ASSUME Keys!Init PROVE KeysInv
    OBVIOUS
  <1>1. /\ count = 0 /\ guard = 0 /\ layout \in Keys!Layout /\ choice = layout /\ keys = "none" /\ turns = 0
        /\ failed = FALSE /\ together = FALSE /\ MaxTurns \in Nat /\ MaxKeys \in Nat
        /\ act = [u \in User |-> "none"] /\ left = [u \in User |-> 0] /\ old = [u \in User |-> "us"]
    BY HostAssumption DEF Keys!Init
  <1>2. turns \in 0 .. MaxTurns /\ left \in [User -> 0 .. MaxKeys] /\ old \in [User -> Keys!Layout]
        /\ act \in [User -> {"none"}]
    BY <1>1 DEF Keys!Layout
  <1>3. Keys!TypeOK
    <2>3. count \in Int /\ guard \in Nat
      BY <1>1
    <2>1. keys \in User \cup {"none", "dummy"} /\ failed \in BOOLEAN /\ together \in BOOLEAN
      BY <1>1
    <2>2. act \in [User -> {"none", "init", "ready", "exit"} \cup Keys!Typing]
      BY <1>2
    <2> QED
      BY <1>1, <1>2, <2>1, <2>2, <2>3 DEF Keys!TypeOK
  <1>4. HidUsers = {} /\ Leaving = {} /\ Entering = {}
    BY <1>2 DEF HidUsers, Leaving, Entering
  <1>5. HidCounted
    BY <1>1, <1>2, <1>4, FS_EmptySet DEF HidCounted
  <1>6. KeysPressed /\ LayoutKept
    BY <1>1, <1>2 DEF KeysPressed, LayoutKept, Keys!Typing
  <1> QED
    BY <1>3, <1>5, <1>6 DEF KeysInv

\* A thread that types stays a user of hiddbg.
LEMMA TypingIsUse ==
  ASSUME Keys!TypeOK, HidCounted, NEW u \in User, NEW w \in Keys!Typing \cup {"ready"}, act[u] \in Keys!Typing \cup {"ready"},
         act' = [act EXCEPT ![u] = w], UNCHANGED <<count, guard, failed>>
  PROVE  HidCounted'
  <1>1. act \in [User -> Places] /\ act[u] \notin {"none", "exit", "init"} /\ w \notin {"none", "exit", "init"}
    BY DEF Keys!TypeOK, Places, Keys!Typing
  <1>2. \A v \in User : act'[v] = IF v = u THEN w ELSE act[v]
    BY <1>1
  <1>3. HidUsers' = HidUsers /\ Leaving' = Leaving /\ Entering' = Entering
    BY <1>1, <1>2 DEF HidUsers, Leaving, Entering
  <1>4. \A v \in User : act'[v] = "init" <=> act[v] = "init"
    BY <1>1, <1>2
  <1> QED
    BY <1>3, <1>4 DEF HidCounted

\* A thread that comes or goes does not type.
LEMMA ComingIsNotTyping ==
  ASSUME Keys!TypeOK, KeysPressed, LayoutKept, NEW u \in User, NEW w \in Places \ Keys!Typing, act[u] \notin Keys!Typing,
         act' = [act EXCEPT ![u] = w], UNCHANGED <<left, old, layout, choice, keys, together>>
  PROVE  KeysPressed' /\ LayoutKept'
  <1>1. act \in [User -> Places]
    BY DEF Keys!TypeOK, Places
  <1>2. \A v \in User : act'[v] = IF v = u THEN w ELSE act[v]
    BY <1>1
  <1>3. \A v \in User : act'[v] \in Keys!Typing \/ act[v] \in Keys!Typing => act'[v] = act[v]
    BY <1>2
  <1>4. KeysPressed'
    BY <1>3 DEF KeysPressed, Keys!Typing
  <1>5. LayoutKept'
    BY <1>3 DEF LayoutKept, Keys!Typing
  <1> QED
    BY <1>4, <1>5

\* No step of a user, of the user's own layout setting or of a failure disturbs it.
LEMMA KeysStep == KeysInv /\ [Keys!Next]_keysVars => KeysInv'
  <1> SUFFICES ASSUME KeysInv, [Keys!Next]_keysVars PROVE KeysInv'
    OBVIOUS
  <1>0. /\ Keys!TypeOK /\ HidCounted /\ KeysPressed /\ LayoutKept /\ MaxKeys \in Nat /\ MaxTurns \in Nat
        /\ act \in [User -> Places] /\ left \in [User -> 0 .. MaxKeys] /\ old \in [User -> Keys!Layout]
        /\ count \in Int /\ guard \in Nat /\ failed \in BOOLEAN /\ together \in BOOLEAN
    BY HostAssumption DEF KeysInv, Keys!TypeOK, Places
  <1>1. ASSUME NEW u \in User, Keys!Retain(u) PROVE KeysInv'
    <2> DEFINE w == IF count = 0 THEN "init" ELSE "ready"
    <2>1. /\ act[u] = "none" /\ turns < MaxTurns /\ count' = count + 1 /\ turns' = turns + 1
          /\ act' = [act EXCEPT ![u] = w] /\ UNCHANGED <<guard, left, old, layout, choice, keys, failed, together>>
      BY <1>1 DEF Keys!Retain, Keys!Goto
    <2>2. w \in Places \ Keys!Typing /\ act[u] \notin Keys!Typing /\ w \in {"init", "ready"}
      BY <2>1 DEF Places, Keys!Typing
    <2>3. KeysPressed' /\ LayoutKept'
      BY <1>0, <2>1, <2>2, ComingIsNotTyping
    <2>4. act' \in [User -> Places] /\ count' \in Int /\ turns' \in 0 .. MaxTurns
      BY <1>0, <2>1, <2>2 DEF Keys!TypeOK
    <2>5. Keys!TypeOK'
      BY <1>0, <2>1, <2>4 DEF Keys!TypeOK, Places
    <2>6. \A v \in User : act'[v] = IF v = u THEN w ELSE act[v]
      BY <1>0, <2>1
    <2>7. HidUsers' = HidUsers \cup {u} /\ u \notin HidUsers /\ Leaving' = Leaving
      BY <2>1, <2>2, <2>6 DEF HidUsers, Leaving
    <2>8. Cardinality(HidUsers') = Cardinality(HidUsers) + 1
      BY <2>7, UsersAreFinite, FS_AddElement
    <2>9. ASSUME failed = FALSE
          PROVE  /\ count' = Cardinality(HidUsers')
                 /\ \A x, y \in User : act'[x] = "init" /\ act'[y] = "init" => x = y
                 /\ guard' + (IF Entering' # {} THEN 1 ELSE 0) = Cardinality(Leaving') + (IF count' > 0 THEN 1 ELSE 0)
      <3>1. count = Cardinality(HidUsers) /\ count \in Nat /\ Cardinality(Leaving) \in Nat
        BY <1>0, <2>9, UsersAreFinite DEF HidCounted
      <3>2. guard + (IF Entering # {} THEN 1 ELSE 0) = Cardinality(Leaving) + (IF count > 0 THEN 1 ELSE 0)
        BY <1>0, <2>9 DEF HidCounted
      <3>3. CASE count = 0
        <4>1. HidUsers = {}
          BY <3>1, <3>3, UsersAreFinite, FS_EmptySet
        <4>2. \A v \in User : act[v] # "init"
          BY <4>1 DEF HidUsers
        <4>3. Entering = {} /\ Entering' = {u}
          BY <3>3, <2>6, <4>2 DEF Entering
        <4> QED
          BY <1>0, <2>1, <2>6, <2>7, <2>8, <3>1, <3>2, <3>3, <4>2, <4>3
      <3>4. CASE count # 0
        <4>1. Entering' = Entering
          BY <2>1, <2>6, <3>4 DEF Entering
        <4>2. \A x, y \in User : act'[x] = "init" /\ act'[y] = "init" => x = y
          BY <1>0, <2>6, <2>9, <3>4 DEF HidCounted
        <4> QED
          BY <1>0, <2>1, <2>7, <2>8, <3>1, <3>2, <3>4, <4>1, <4>2
      <3> QED
        BY <3>3, <3>4
    <2>10. HidCounted'
      BY <2>1, <2>9 DEF HidCounted
    <2> QED
      BY <2>3, <2>5, <2>10 DEF KeysInv
  <1>2. ASSUME NEW u \in User, Keys!Initialise(u) PROVE KeysInv'
    <2>1. /\ act[u] = "init" /\ act' = [act EXCEPT ![u] = "ready"]
          /\ UNCHANGED <<left, old, layout, choice, keys, turns, together>>
      BY <1>2 DEF Keys!Initialise, Keys!Goto
    <2>2. "ready" \in Places \ Keys!Typing /\ act[u] \notin Keys!Typing
      BY <2>1 DEF Places, Keys!Typing
    <2>3. KeysPressed' /\ LayoutKept'
      BY <1>0, <2>1, <2>2, ComingIsNotTyping
    <2>4. (guard' = guard + 1 /\ UNCHANGED <<count, failed>>) \/ (count' = count - 1 /\ failed' = TRUE /\ UNCHANGED guard)
      BY <1>2 DEF Keys!Initialise
    <2>10. act' \in [User -> Places]
      BY <1>0, <2>1, <2>2
    <2>5. act' \in [User -> Places] /\ count' \in Int /\ guard' \in Nat /\ failed' \in BOOLEAN
      <3>1. CASE guard' = guard + 1 /\ UNCHANGED <<count, failed>>
        BY <1>0, <2>10, <3>1
      <3>2. CASE count' = count - 1 /\ failed' = TRUE /\ UNCHANGED guard
        BY <1>0, <2>10, <3>2
      <3> QED
        BY <2>4, <3>1, <3>2
    <2>6. Keys!TypeOK'
      BY <1>0, <2>1, <2>5 DEF Keys!TypeOK, Places
    <2>7. \A v \in User : act'[v] = IF v = u THEN "ready" ELSE act[v]
      BY <1>0, <2>1
    <2>8. ASSUME failed' = FALSE
          PROVE  /\ count' = Cardinality(HidUsers')
                 /\ \A x, y \in User : act'[x] = "init" /\ act'[y] = "init" => x = y
                 /\ guard' + (IF Entering' # {} THEN 1 ELSE 0) = Cardinality(Leaving') + (IF count' > 0 THEN 1 ELSE 0)
      <3>1. failed = FALSE /\ guard' = guard + 1 /\ count' = count
        BY <2>4, <2>8
      <3>2. \A v \in User : act[v] = "init" => v = u
        BY <1>0, <2>1, <3>1 DEF HidCounted
      <3>3. Entering = {u} /\ Entering' = {}
        BY <2>1, <2>7, <3>2 DEF Entering
      <3>4. HidUsers' = HidUsers /\ Leaving' = Leaving
        BY <2>1, <2>7 DEF HidUsers, Leaving
      <3>5. count = Cardinality(HidUsers) /\ guard + 1 = Cardinality(Leaving) + (IF count > 0 THEN 1 ELSE 0)
        BY <1>0, <3>1, <3>3 DEF HidCounted
      <3>6. \A x, y \in User : act'[x] = "init" /\ act'[y] = "init" => x = y
        BY <2>7, <3>2
      <3>7. guard' + 0 = guard + 1
        BY <1>0, <3>1
      <3> QED
        BY <3>1, <3>3, <3>4, <3>5, <3>6, <3>7
    <2>9. HidCounted'
      BY <2>8 DEF HidCounted
    <2> QED
      BY <2>3, <2>6, <2>9 DEF KeysInv
  <1>3. ASSUME NEW u \in User, Keys!Release(u) PROVE KeysInv'
    <2> DEFINE w == IF count = 1 THEN "exit" ELSE "none"
    <2>1. /\ act[u] = "ready" /\ count' = count - 1 /\ act' = [act EXCEPT ![u] = w]
          /\ UNCHANGED <<guard, left, old, layout, choice, keys, turns, failed, together>>
      BY <1>3 DEF Keys!Release, Keys!Goto, Keys!Ready
    <2>2. w \in Places \ Keys!Typing /\ act[u] \notin Keys!Typing /\ w \in {"exit", "none"}
      BY <2>1 DEF Places, Keys!Typing
    <2>3. KeysPressed' /\ LayoutKept'
      BY <1>0, <2>1, <2>2, ComingIsNotTyping
    <2>4. act' \in [User -> Places] /\ count' \in Int
      BY <1>0, <2>1, <2>2
    <2>5. Keys!TypeOK'
      BY <1>0, <2>1, <2>4 DEF Keys!TypeOK, Places
    <2>6. \A v \in User : act'[v] = IF v = u THEN w ELSE act[v]
      BY <1>0, <2>1
    <2>7. HidUsers' = HidUsers \ {u} /\ u \in HidUsers /\ Entering' = Entering /\ u \notin Leaving
      BY <2>1, <2>2, <2>6 DEF HidUsers, Entering, Leaving
    <2>8. Cardinality(HidUsers') = Cardinality(HidUsers) - 1
      BY <2>7, UsersAreFinite, FS_RemoveElement
    <2>9. ASSUME failed = FALSE
          PROVE  /\ count' = Cardinality(HidUsers')
                 /\ \A x, y \in User : act'[x] = "init" /\ act'[y] = "init" => x = y
                 /\ guard' + (IF Entering' # {} THEN 1 ELSE 0) = Cardinality(Leaving') + (IF count' > 0 THEN 1 ELSE 0)
      <3>1. count = Cardinality(HidUsers) /\ count \in Nat /\ Cardinality(Leaving) \in Nat
        BY <1>0, <2>9, UsersAreFinite DEF HidCounted
      <3>2. guard + (IF Entering # {} THEN 1 ELSE 0) = Cardinality(Leaving) + (IF count > 0 THEN 1 ELSE 0)
        BY <1>0, <2>9 DEF HidCounted
      <3>3. \A x, y \in User : act'[x] = "init" /\ act'[y] = "init" => x = y
        BY <1>0, <2>2, <2>6, <2>9 DEF HidCounted
      <3>4. count # 0
        <4>1. HidUsers # {}
          BY <2>7
        <4> QED
          BY <3>1, <4>1, UsersAreFinite, FS_EmptySet
      <3>5. CASE count = 1
        <4>1. PICK x : HidUsers = {x}
          BY <3>1, <3>5, UsersAreFinite, FS_Singleton
        <4>2. HidUsers = {u}
          BY <2>7, <4>1
        <4>3. Entering = {}
          BY <2>1, <4>2 DEF HidUsers, Entering
        <4>4. Leaving' = Leaving \cup {u}
          BY <2>6, <3>5 DEF Leaving
        <4>5. Cardinality(Leaving') = Cardinality(Leaving) + 1
          BY <2>7, <4>4, UsersAreFinite, FS_AddElement
        <4>6. guard' + 0 = Cardinality(Leaving') + 0 /\ ~(count' > 0) /\ count' = Cardinality(HidUsers')
          BY <1>0, <2>1, <2>8, <3>1, <3>2, <3>5, <4>3, <4>5
        <4> QED
          BY <2>7, <3>3, <4>3, <4>6
      <3>6. CASE count # 1
        <4>1. Leaving' = Leaving
          BY <2>1, <2>6, <3>6 DEF Leaving
        <4>2. count > 0 /\ count' > 0 /\ count' = Cardinality(HidUsers')
          BY <2>1, <2>8, <3>1, <3>4, <3>6
        <4> QED
          BY <2>1, <2>7, <3>2, <3>3, <4>1, <4>2
      <3> QED
        BY <3>5, <3>6
    <2>10. HidCounted'
      BY <2>1, <2>9 DEF HidCounted
    <2> QED
      BY <2>3, <2>5, <2>10 DEF KeysInv
  <1>4. ASSUME NEW u \in User, Keys!Exit(u) PROVE KeysInv'
    <2>1. /\ act[u] = "exit" /\ guard' = (IF guard > 0 THEN guard - 1 ELSE 0) /\ act' = [act EXCEPT ![u] = "none"]
          /\ UNCHANGED <<count, left, old, layout, choice, keys, turns, failed, together>>
      BY <1>4 DEF Keys!Exit, Keys!Goto
    <2>2. "none" \in Places \ Keys!Typing /\ act[u] \notin Keys!Typing
      BY <2>1 DEF Places, Keys!Typing
    <2>3. KeysPressed' /\ LayoutKept'
      BY <1>0, <2>1, <2>2, ComingIsNotTyping
    <2>4. act' \in [User -> Places] /\ guard' \in Nat
      BY <1>0, <2>1, <2>2
    <2>5. Keys!TypeOK'
      BY <1>0, <2>1, <2>4 DEF Keys!TypeOK, Places
    <2>6. \A v \in User : act'[v] = IF v = u THEN "none" ELSE act[v]
      BY <1>0, <2>1
    <2>7. HidUsers' = HidUsers /\ Entering' = Entering /\ Leaving' = Leaving \ {u} /\ u \in Leaving
      BY <2>1, <2>6 DEF HidUsers, Entering, Leaving
    <2>8. Cardinality(Leaving') = Cardinality(Leaving) - 1 /\ Cardinality(Leaving) # 0
      BY <2>7, UsersAreFinite, FS_RemoveElement, FS_EmptySet
    <2>9. ASSUME failed = FALSE
          PROVE  /\ count' = Cardinality(HidUsers')
                 /\ \A x, y \in User : act'[x] = "init" /\ act'[y] = "init" => x = y
                 /\ guard' + (IF Entering' # {} THEN 1 ELSE 0) = Cardinality(Leaving') + (IF count' > 0 THEN 1 ELSE 0)
      <3>1. count = Cardinality(HidUsers) /\ count \in Nat /\ Cardinality(Leaving) \in Nat
        BY <1>0, <2>9, UsersAreFinite DEF HidCounted
      <3>2. guard + (IF Entering # {} THEN 1 ELSE 0) = Cardinality(Leaving) + (IF count > 0 THEN 1 ELSE 0)
        BY <1>0, <2>9 DEF HidCounted
      <3>3. \A x, y \in User : act'[x] = "init" /\ act'[y] = "init" => x = y
        BY <1>0, <2>6, <2>9 DEF HidCounted
      <3>4. Entering # {} => count > 0
        <4>1. Entering # {} => HidUsers # {}
          BY DEF Entering, HidUsers
        <4>2. HidUsers # {} => count # 0
          BY <3>1, UsersAreFinite, FS_EmptySet
        <4> QED
          BY <3>1, <4>1, <4>2
      <3>5. guard > 0
        BY <1>0, <2>8, <3>1, <3>2, <3>4
      <3>6. guard' + (IF Entering # {} THEN 1 ELSE 0) = Cardinality(Leaving') + (IF count > 0 THEN 1 ELSE 0)
        BY <1>0, <2>1, <2>8, <3>1, <3>2, <3>5
      <3> QED
        BY <2>1, <2>7, <3>1, <3>3, <3>6
    <2>10. HidCounted'
      BY <2>1, <2>9 DEF HidCounted
    <2> QED
      BY <2>3, <2>5, <2>10 DEF KeysInv
  <1>5. ASSUME NEW u \in User, Keys!Packet(u) PROVE KeysInv'
    <2>1. /\ act[u] = "ready" /\ act' = [act EXCEPT ![u] = "get"]
          /\ together' = (together \/ \E v \in User : act[v] \in Keys!Typing)
          /\ UNCHANGED <<count, guard, old, layout, choice, keys, turns, failed>>
      BY <1>5 DEF Keys!Packet, Keys!Goto, Keys!Ready
    <2>2. PICK n \in 0 .. MaxKeys : left' = [left EXCEPT ![u] = n]
      BY <1>5 DEF Keys!Packet
    <2>3. "get" \in Keys!Typing \cup {"ready"} /\ act[u] \in Keys!Typing \cup {"ready"} /\ "get" \in Places
      BY <2>1 DEF Keys!Typing, Places
    <2>4. HidCounted'
      BY <1>0, <2>1, <2>3, TypingIsUse
    <2>5. act' \in [User -> Places] /\ left' \in [User -> 0 .. MaxKeys] /\ together' \in BOOLEAN
      BY <1>0, <2>1, <2>2, <2>3
    <2>6. Keys!TypeOK'
      BY <1>0, <2>1, <2>5 DEF Keys!TypeOK, Places
    <2>7. \A v \in User : /\ act'[v] = IF v = u THEN "get" ELSE act[v]
                          /\ v # u => left'[v] = left[v]
      BY <1>0, <2>1, <2>2
    <2>8. KeysPressed'
      BY <1>0, <2>1, <2>7 DEF KeysPressed
    <2>9. together' = FALSE => together = FALSE /\ \A v \in User : act[v] \notin Keys!Typing
      BY <1>0, <2>1
    <2>10. LayoutKept'
      <3> SUFFICES ASSUME together' = FALSE PROVE LayoutKept'
        BY DEF LayoutKept
      <3>1. layout = choice
        BY <1>0, <2>9 DEF LayoutKept
      <3>2. \A v \in User : v # u => act'[v] \notin Keys!Typing
        BY <2>7, <2>9
      <3>3. act'[u] = "get" /\ layout' = choice' /\ "get" \in Keys!Typing
        BY <2>1, <2>7, <3>1 DEF Keys!Typing
      <3> QED
        BY <3>2, <3>3 DEF LayoutKept, Keys!Typing
    <2> QED
      BY <2>4, <2>6, <2>8, <2>10 DEF KeysInv
  <1>6. ASSUME NEW u \in User, Keys!GetLayout(u) PROVE KeysInv'
    <2>1. /\ act[u] = "get" /\ act' = [act EXCEPT ![u] = "set"] /\ old' = [old EXCEPT ![u] = layout]
          /\ UNCHANGED <<count, guard, left, layout, choice, keys, turns, failed, together>>
      BY <1>6 DEF Keys!GetLayout, Keys!Goto
    <2>3. "set" \in Keys!Typing \cup {"ready"} /\ act[u] \in Keys!Typing \cup {"ready"} /\ "set" \in Places /\ layout \in Keys!Layout
      BY <1>0, <2>1 DEF Keys!Typing, Places, Keys!TypeOK
    <2>4. HidCounted'
      BY <1>0, <2>1, <2>3, TypingIsUse
    <2>5. act' \in [User -> Places] /\ old' \in [User -> Keys!Layout]
      BY <1>0, <2>1, <2>3
    <2>6. Keys!TypeOK'
      BY <1>0, <2>1, <2>5 DEF Keys!TypeOK, Places
    <2>7. \A v \in User : /\ act'[v] = IF v = u THEN "set" ELSE act[v]
                          /\ old'[v] = IF v = u THEN layout ELSE old[v]
      BY <1>0, <2>1
    <2>8. KeysPressed'
      BY <1>0, <2>1, <2>7 DEF KeysPressed
    <2>10. LayoutKept'
      BY <1>0, <2>1, <2>7 DEF LayoutKept, Keys!Typing
    <2> QED
      BY <2>4, <2>6, <2>8, <2>10 DEF KeysInv
  <1>7. ASSUME NEW u \in User, Keys!SetLayout(u) PROVE KeysInv'
    <2>1. /\ act[u] = "set" /\ act' = [act EXCEPT ![u] = "type"] /\ layout' = "us"
          /\ UNCHANGED <<count, guard, left, old, choice, keys, turns, failed, together>>
      BY <1>7 DEF Keys!SetLayout, Keys!Goto
    <2>3. "type" \in Keys!Typing \cup {"ready"} /\ act[u] \in Keys!Typing \cup {"ready"} /\ "type" \in Places
      BY <1>0, <2>1 DEF Keys!Typing, Places, Keys!TypeOK
    <2>4. HidCounted'
      BY <1>0, <2>1, <2>3, TypingIsUse
    <2>5. act' \in [User -> Places] /\ layout' \in Keys!Layout
      BY <1>0, <2>1, <2>3 DEF Keys!Layout
    <2>6. Keys!TypeOK'
      BY <1>0, <2>1, <2>5 DEF Keys!TypeOK, Places
    <2>7. \A v \in User : act'[v] = IF v = u THEN "type" ELSE act[v]
      BY <1>0, <2>1
    <2>8. KeysPressed'
      BY <1>0, <2>1, <2>7 DEF KeysPressed
    <2>10. LayoutKept'
      BY <1>0, <2>1, <2>7 DEF LayoutKept, Keys!Typing
    <2> QED
      BY <2>4, <2>6, <2>8, <2>10 DEF KeysInv
  <1>8. ASSUME NEW u \in User, Keys!Press(u) PROVE KeysInv'
    <2>1. /\ act[u] = "type" /\ left[u] > 0 /\ act' = [act EXCEPT ![u] = "hold"] /\ keys' = u
          /\ UNCHANGED <<count, guard, left, old, layout, choice, turns, failed, together>>
      BY <1>8 DEF Keys!Press, Keys!Goto
    <2>3. "hold" \in Keys!Typing \cup {"ready"} /\ act[u] \in Keys!Typing \cup {"ready"} /\ "hold" \in Places
      BY <1>0, <2>1 DEF Keys!Typing, Places, Keys!TypeOK
    <2>4. HidCounted'
      BY <1>0, <2>1, <2>3, TypingIsUse
    <2>5. act' \in [User -> Places]
      BY <1>0, <2>1, <2>3
    <2>6. Keys!TypeOK'
      BY <1>0, <2>1, <2>5 DEF Keys!TypeOK, Places
    <2>7. \A v \in User : act'[v] = IF v = u THEN "hold" ELSE act[v]
      BY <1>0, <2>1
    <2>8. KeysPressed'
      BY <1>0, <2>1, <2>7 DEF KeysPressed
    <2>10. LayoutKept'
      BY <1>0, <2>1, <2>7 DEF LayoutKept, Keys!Typing
    <2> QED
      BY <2>4, <2>6, <2>8, <2>10 DEF KeysInv
  <1>9. ASSUME NEW u \in User, Keys!Dummy(u) PROVE KeysInv'
    <2>1. /\ act[u] = "hold" /\ act' = [act EXCEPT ![u] = "dummy"] /\ keys' = "dummy"
          /\ UNCHANGED <<count, guard, left, old, layout, choice, turns, failed, together>>
      BY <1>9 DEF Keys!Dummy, Keys!Goto
    <2>3. "dummy" \in Keys!Typing \cup {"ready"} /\ act[u] \in Keys!Typing \cup {"ready"} /\ "dummy" \in Places
      BY <1>0, <2>1 DEF Keys!Typing, Places, Keys!TypeOK
    <2>4. HidCounted'
      BY <1>0, <2>1, <2>3, TypingIsUse
    <2>5. act' \in [User -> Places]
      BY <1>0, <2>1, <2>3
    <2>6. Keys!TypeOK'
      BY <1>0, <2>1, <2>5 DEF Keys!TypeOK, Places
    <2>7. \A v \in User : act'[v] = IF v = u THEN "dummy" ELSE act[v]
      BY <1>0, <2>1
    <2>8. KeysPressed'
      BY <1>0, <2>1, <2>7 DEF KeysPressed
    <2>10. LayoutKept'
      BY <1>0, <2>1, <2>7 DEF LayoutKept, Keys!Typing
    <2> QED
      BY <2>4, <2>6, <2>8, <2>10 DEF KeysInv
  <1>10. ASSUME NEW u \in User, Keys!LetGo(u) PROVE KeysInv'
    <2>1. /\ act[u] = "dummy" /\ left' = [left EXCEPT ![u] = left[u] - 1] /\ act' = [act EXCEPT ![u] = "type"] /\ keys' = "none"
          /\ UNCHANGED <<count, guard, old, layout, choice, turns, failed, together>>
      BY <1>10 DEF Keys!LetGo, Keys!Goto
    <2>2. left[u] - 1 \in 0 .. MaxKeys
      BY <1>0, <2>1 DEF KeysPressed
    <2>3. "type" \in Keys!Typing \cup {"ready"} /\ act[u] \in Keys!Typing \cup {"ready"} /\ "type" \in Places
      BY <1>0, <2>1 DEF Keys!Typing, Places, Keys!TypeOK
    <2>4. HidCounted'
      BY <1>0, <2>1, <2>3, TypingIsUse
    <2>5. act' \in [User -> Places] /\ left' \in [User -> 0 .. MaxKeys]
      BY <1>0, <2>1, <2>2, <2>3
    <2>6. Keys!TypeOK'
      BY <1>0, <2>1, <2>5 DEF Keys!TypeOK, Places
    <2>7. \A v \in User : /\ act'[v] = IF v = u THEN "type" ELSE act[v]
                          /\ v # u => left'[v] = left[v]
      BY <1>0, <2>1
    <2>8. KeysPressed'
      BY <1>0, <2>1, <2>7 DEF KeysPressed
    <2>10. LayoutKept'
      BY <1>0, <2>1, <2>7 DEF LayoutKept, Keys!Typing
    <2> QED
      BY <2>4, <2>6, <2>8, <2>10 DEF KeysInv
  <1>11. ASSUME NEW u \in User, Keys!Restore(u) PROVE KeysInv'
    <2>1. /\ act[u] = "type" /\ act' = [act EXCEPT ![u] = "ready"] /\ layout' = (IF old[u] # "us" THEN old[u] ELSE layout)
          /\ UNCHANGED <<count, guard, left, old, choice, keys, turns, failed, together>>
      BY <1>11 DEF Keys!Restore, Keys!Goto
    <2>3. "ready" \in Keys!Typing \cup {"ready"} /\ act[u] \in Keys!Typing \cup {"ready"} /\ "ready" \in Places
      BY <1>0, <2>1 DEF Keys!Typing, Places, Keys!TypeOK
    <2>4. HidCounted'
      BY <1>0, <2>1, <2>3, TypingIsUse
    <2>5. act' \in [User -> Places] /\ layout' \in Keys!Layout
      BY <1>0, <2>1, <2>3 DEF Keys!TypeOK
    <2>6. Keys!TypeOK'
      BY <1>0, <2>1, <2>5 DEF Keys!TypeOK, Places
    <2>7. \A v \in User : act'[v] = IF v = u THEN "ready" ELSE act[v]
      BY <1>0, <2>1
    <2>8. KeysPressed'
      BY <1>0, <2>1, <2>7 DEF KeysPressed
    <2>10. LayoutKept'
      <3> SUFFICES ASSUME together' = FALSE PROVE LayoutKept'
        BY DEF LayoutKept
      <3>1. old[u] = choice /\ layout = "us" /\ \A v \in User : act[v] \in Keys!Typing => v = u
        BY <1>0, <2>1 DEF LayoutKept, Keys!Typing
      <3>2. \A v \in User : act'[v] \notin Keys!Typing
        BY <2>7, <3>1 DEF Keys!Typing
      <3>3. layout' = choice'
        BY <2>1, <3>1
      <3> QED
        BY <3>2, <3>3 DEF LayoutKept, Keys!Typing
    <2> QED
      BY <2>4, <2>6, <2>8, <2>10 DEF KeysInv
  <1>12. CASE UNCHANGED keysVars
    <2>1. Keys!TypeOK'
      BY <1>0, <1>12 DEF Keys!TypeOK, keysVars
    <2>2. HidUsers' = HidUsers /\ Leaving' = Leaving /\ Entering' = Entering
      BY <1>12 DEF HidUsers, Leaving, Entering, keysVars
    <2>3. HidCounted'
      BY <1>0, <1>12, <2>2 DEF HidCounted, keysVars
    <2>4. KeysPressed' /\ LayoutKept'
      BY <1>0, <1>12 DEF KeysPressed, LayoutKept, keysVars
    <2> QED
      BY <2>1, <2>3, <2>4 DEF KeysInv
  <1> QED
    BY <1>1, <1>2, <1>3, <1>4, <1>5, <1>6, <1>7, <1>8, <1>9, <1>10, <1>11, <1>12 DEF Keys!Next

\* It says what the virtual keyboard promises.
LEMMA KeysHold == KeysInv => Keys!HidIsHeld /\ Keys!NoStuckKey /\ Keys!LayoutIsBack
  <1> SUFFICES ASSUME KeysInv PROVE Keys!HidIsHeld /\ Keys!NoStuckKey /\ Keys!LayoutIsBack
    OBVIOUS
  <1>0. Keys!TypeOK /\ HidCounted /\ KeysPressed /\ LayoutKept /\ failed \in BOOLEAN /\ together \in BOOLEAN /\ guard \in Nat
    BY DEF KeysInv, Keys!TypeOK
  <1>1. Keys!HidIsHeld
    <2> SUFFICES ASSUME Keys!Quiet, ~failed
                 PROVE  /\ count = Cardinality({u \in User : Keys!Ready(u)})
                        /\ guard = IF count > 0 THEN 1 ELSE 0
      BY SameCardinality DEF Keys!HidIsHeld
    <2>4. failed = FALSE
      BY <1>0
    <2>1. \A u \in User : act[u] \in {"none", "ready"}
      BY DEF Keys!Quiet
    <2>2. HidUsers = {u \in User : Keys!Ready(u)} /\ Leaving = {} /\ Entering = {}
      BY <2>1 DEF HidUsers, Leaving, Entering, Keys!Ready
    <2>3. count = Cardinality(HidUsers) /\ guard + 0 = 0 + (IF count > 0 THEN 1 ELSE 0)
      BY <1>0, <2>2, <2>4, FS_EmptySet DEF HidCounted
    <2> QED
      BY <1>0, <2>2, <2>3
  <1>2. Keys!NoStuckKey
    BY <1>0 DEF KeysPressed, Keys!NoStuckKey, Keys!Typing
  <1>3. Keys!LayoutIsBack
    BY <1>0 DEF LayoutKept, Keys!LayoutIsBack
  <1> QED
    BY <1>1, <1>2, <1>3

-----------------------------------------------------------------------------

(* LogSink: what the host gets and what waits for it. *)

\* A log L, its warnings 0, says where the messages of D are missing.
Told(L, D) ==
  /\ \A i, j \in DOMAIN L : i < j /\ L[i] # 0 /\ L[j] # 0 => L[i] < L[j]
  /\ \A i \in 2 .. Len(L) : L[i - 1] # 0 /\ L[i] # 0 => ~ \E m \in D : L[i - 1] < m /\ m < L[i]
  /\ L # <<>> /\ L[Len(L)] # 0 => \A m \in D : m <= L[Len(L)]

\* Message n is later than all that is in L and D.
Under(L, D, n) == (\A i \in DOMAIN L : L[i] < n) /\ (\A m \in D : m < n)

\* A log that one entry is appended to, entry by entry.
LEMMA LogOfOne ==
  ASSUME NEW L \in Seq(Nat), NEW x \in Nat
  PROVE  /\ Append(L, x) \in Seq(Nat) /\ Append(L, x) # <<>>
         /\ Len(Append(L, x)) = Len(L) + 1 /\ DOMAIN Append(L, x) = 1 .. Len(L) + 1
         /\ \A i \in 1 .. Len(L) : Append(L, x)[i] = L[i] /\ i # Len(L) + 1
         /\ \A i \in 1 .. Len(L) : L[i] \in Nat
         /\ Append(L, x)[Len(L) + 1] = x
         /\ Len(L) \in Nat /\ DOMAIN L = 1 .. Len(L)
  OBVIOUS

\* A log stays right when it gets the next message.
LEMMA ToldNext ==
  ASSUME NEW L \in Seq(Nat), NEW D \in SUBSET Nat, NEW n \in Nat \ {0}, Told(L, D), Under(L, D, n)
  PROVE  Told(Append(L, n), D) /\ Under(Append(L, n), D, n + 1)
  <1> DEFINE A == Append(L, n)
             k == Len(L)
  <1>1. /\ A \in Seq(Nat) /\ A # <<>> /\ Len(A) = k + 1 /\ DOMAIN A = 1 .. k + 1
        /\ \A i \in 1 .. k : A[i] = L[i] /\ i # k + 1
        /\ A[k + 1] = n /\ k \in Nat /\ DOMAIN L = 1 .. k
    BY LogOfOne
  <1> HIDE DEF A
  <1>2. \A i \in 1 .. k : L[i] \in Nat /\ L[i] < n
    <2>1. \A i \in 1 .. k : L[i] \in Nat
      BY LogOfOne
    <2>2. \A i \in 1 .. k : L[i] < n
      BY <1>1 DEF Under
    <2> QED
      BY <2>1, <2>2
  <1>3. \A i \in 1 .. k + 1 : i \in 1 .. k \/ i = k + 1
    BY <1>1
  <1>4. \A m \in D : m \in Nat /\ m < n
    BY DEF Under
  <1>5. ASSUME NEW i \in DOMAIN A, NEW j \in DOMAIN A, i < j, A[i] # 0, A[j] # 0
        PROVE  A[i] < A[j]
    <2>1. i \in 1 .. k
      BY <1>1, <1>5
    <2>2. CASE j = k + 1
      BY <1>1, <1>2, <2>1, <2>2
    <2>3. CASE j \in 1 .. k
      BY <1>1, <1>5, <2>1, <2>3 DEF Told
    <2> QED
      BY <1>1, <1>3, <2>2, <2>3
  <1>6. ASSUME NEW i \in 2 .. Len(A), A[i - 1] # 0, A[i] # 0, NEW m \in D, A[i - 1] < m, m < A[i]
        PROVE  FALSE
    <2>1. i - 1 \in 1 .. k /\ i \in 1 .. k + 1
      BY <1>1
    <2>2. CASE i = k + 1
      <3>1. i - 1 = k /\ A[i - 1] = L[k] /\ L # <<>> /\ L[k] # 0
        BY <1>1, <1>6, <2>1, <2>2
      <3>2. m <= L[k]
        BY <3>1 DEF Told
      <3> QED
        BY <1>1, <1>2, <1>4, <1>6, <2>1, <3>1, <3>2
    <2>3. CASE i \in 1 .. k
      <3>1. i \in 2 .. Len(L) /\ A[i - 1] = L[i - 1] /\ A[i] = L[i]
        <4>1. i \in 2 .. Len(L)
          BY <1>1, <2>3
        <4>2. A[i - 1] = L[i - 1]
          BY <1>1, <2>1
        <4>3. A[i] = L[i]
          BY <1>1, <2>3
        <4> QED
          BY <4>1, <4>2, <4>3
      <3> QED
        BY <1>6, <3>1 DEF Told
    <2> QED
      BY <1>3, <2>1, <2>2, <2>3
  <1>7. \A m \in D : m <= A[Len(A)]
    BY <1>1, <1>4
  <1>8. Told(A, D)
    BY <1>5, <1>6, <1>7 DEF Told
  <1>9. ASSUME NEW i \in DOMAIN A PROVE A[i] < n + 1
    <2>1. CASE i \in 1 .. k
      <3>1. A[i] = L[i] /\ L[i] \in Nat /\ L[i] < n
        BY <1>1, <1>2, <2>1
      <3> QED
        BY <3>1
    <2>2. CASE i = k + 1
      BY <1>1, <2>2
    <2> QED
      BY <1>1, <1>3, <2>1, <2>2
  <1>10. \A m \in D : m < n + 1
    BY <1>4
  <1> QED
    BY <1>8, <1>9, <1>10 DEF Under, A

\* It stays right when it gets a warning in place of the next message.
LEMMA ToldWarning ==
  ASSUME NEW L \in Seq(Nat), NEW D \in SUBSET Nat, NEW n \in Nat \ {0}, Told(L, D), Under(L, D, n)
  PROVE  Told(Append(L, 0), D \cup {n}) /\ Under(Append(L, 0), D \cup {n}, n + 1)
  <1> DEFINE A == Append(L, 0)
             k == Len(L)
  <1>1. /\ A \in Seq(Nat) /\ A # <<>> /\ Len(A) = k + 1 /\ DOMAIN A = 1 .. k + 1
        /\ \A i \in 1 .. k : A[i] = L[i] /\ i # k + 1
        /\ A[k + 1] = 0 /\ k \in Nat /\ DOMAIN L = 1 .. k
    BY LogOfOne
  <1> HIDE DEF A
  <1>2. \A i \in 1 .. k : L[i] \in Nat /\ L[i] < n
    <2>1. \A i \in 1 .. k : L[i] \in Nat
      BY LogOfOne
    <2>2. \A i \in 1 .. k : L[i] < n
      BY <1>1 DEF Under
    <2> QED
      BY <2>1, <2>2
  <1>3. \A i \in 1 .. k + 1 : i \in 1 .. k \/ i = k + 1
    BY <1>1
  <1>4. \A m \in D : m \in Nat /\ m < n
    BY DEF Under
  <1>5. ASSUME NEW i \in DOMAIN A, NEW j \in DOMAIN A, i < j, A[i] # 0, A[j] # 0
        PROVE  A[i] < A[j]
    <2>1. i \in 1 .. k /\ j \in 1 .. k
      BY <1>1, <1>3, <1>5
    <2> QED
      BY <1>1, <1>5, <2>1 DEF Told
  <1>6. ASSUME NEW i \in 2 .. Len(A), A[i - 1] # 0, A[i] # 0, NEW m \in D \cup {n}, A[i - 1] < m, m < A[i]
        PROVE  FALSE
    <2>1. i - 1 \in 1 .. k /\ i \in 1 .. k + 1
      BY <1>1
    <2>2. i \in 1 .. k
      BY <1>1, <1>3, <1>6, <2>1
    <2>3. i \in 2 .. Len(L) /\ A[i - 1] = L[i - 1] /\ A[i] = L[i]
      <3>1. i \in 2 .. Len(L)
        BY <1>1, <2>2
      <3>2. A[i - 1] = L[i - 1]
        BY <1>1, <2>1
      <3>3. A[i] = L[i]
        BY <1>1, <2>2
      <3> QED
        BY <3>1, <3>2, <3>3
    <2>4. m # n
      BY <1>2, <1>6, <2>2, <2>3
    <2> QED
      BY <1>6, <2>3, <2>4 DEF Told
  <1>8. Told(A, D \cup {n})
    BY <1>1, <1>5, <1>6 DEF Told
  <1>9. ASSUME NEW i \in DOMAIN A PROVE A[i] < n + 1
    <2>1. CASE i \in 1 .. k
      <3>1. A[i] = L[i] /\ L[i] \in Nat /\ L[i] < n
        BY <1>1, <1>2, <2>1
      <3> QED
        BY <3>1
    <2>2. CASE i = k + 1
      BY <1>1, <2>2
    <2> QED
      BY <1>1, <1>3, <2>1, <2>2
  <1>10. \A m \in D \cup {n} : m < n + 1
    BY <1>4
  <1> QED
    BY <1>8, <1>9, <1>10 DEF Under, A

\* It stays right when a message is dropped after a warning, or before there is any.
LEMMA ToldMore ==
  ASSUME NEW L \in Seq(Nat), NEW D \in SUBSET Nat, NEW n \in Nat \ {0}, Told(L, D), Under(L, D, n), L # <<>> => L[Len(L)] = 0
  PROVE  Told(L, D \cup {n}) /\ Under(L, D \cup {n}, n + 1)
  <1>1. Len(L) \in Nat /\ DOMAIN L = 1 .. Len(L)
    OBVIOUS
  <1>2. \A i \in DOMAIN L : L[i] \in Nat /\ L[i] < n
    BY DEF Under
  <1>3. \A m \in D : m \in Nat /\ m < n
    BY DEF Under
  <1>4. ASSUME NEW i \in 2 .. Len(L), L[i - 1] # 0, L[i] # 0, NEW m \in D \cup {n}, L[i - 1] < m, m < L[i]
        PROVE  FALSE
    <2>1. i \in DOMAIN L
      BY <1>1
    <2>2. m # n
      BY <1>2, <1>4, <2>1
    <2> QED
      BY <1>4, <2>2 DEF Told
  <1>5. Told(L, D \cup {n})
    BY <1>4 DEF Told
  <1>6. \A i \in DOMAIN L : L[i] < n + 1
    BY <1>2
  <1>7. \A m \in D \cup {n} : m < n + 1
    BY <1>3
  <1> QED
    BY <1>5, <1>6, <1>7 DEF Under

\* A message that is written moves from the messages that wait to those sent.
LEMMA HeadMoves ==
  ASSUME NEW s \in Seq(Nat), NEW c \in Seq(Nat), c # <<>>
  PROVE  /\ Head(c) \in Nat /\ Tail(c) \in Seq(Nat) /\ Len(Tail(c)) = Len(c) - 1
         /\ Append(s, Head(c)) \o Tail(c) = s \o c
         /\ Tail(c) # <<>> => Tail(c)[Len(Tail(c))] = c[Len(c)]
  <1> DEFINE h == Head(c)
             t == Tail(c)
             a == Append(s, h)
  <1>1. h \in Nat /\ t \in Seq(Nat) /\ Len(t) = Len(c) - 1 /\ h = c[1] /\ Len(c) \in Nat \ {0}
        /\ \A i \in 1 .. Len(t) : t[i] = c[i + 1]
    BY HeadTailProperties
  <1> HIDE DEF h, t
  <1>2. /\ a \in Seq(Nat) /\ Len(a) = Len(s) + 1 /\ \A i \in 1 .. Len(s) : a[i] = s[i]
        /\ a[Len(s) + 1] = h /\ Len(s) \in Nat
    BY <1>1, LogOfOne
  <1> HIDE DEF a
  <1>3. /\ a \o t \in Seq(Nat) /\ Len(a \o t) = Len(a) + Len(t)
        /\ \A i \in 1 .. Len(a) + Len(t) : (a \o t)[i] = IF i <= Len(a) THEN a[i] ELSE t[i - Len(a)]
    BY <1>1, <1>2, ConcatProperties
  <1>4. /\ s \o c \in Seq(Nat) /\ Len(s \o c) = Len(s) + Len(c)
        /\ \A i \in 1 .. Len(s) + Len(c) : (s \o c)[i] = IF i <= Len(s) THEN s[i] ELSE c[i - Len(s)]
    BY ConcatProperties
  <1>5. Len(a) + Len(t) = Len(s) + Len(c)
    BY <1>1, <1>2
  <1>6. ASSUME NEW i \in 1 .. Len(s) + Len(c) PROVE (a \o t)[i] = (s \o c)[i]
    <2>1. CASE i <= Len(s)
      <3>1. i \in 1 .. Len(s) /\ i <= Len(a)
        BY <1>2, <2>1
      <3> QED
        BY <1>2, <1>3, <1>4, <1>5, <2>1, <3>1
    <2>2. CASE i = Len(s) + 1
      <3>1. i <= Len(a) /\ ~(i <= Len(s)) /\ i - Len(s) = 1
        BY <1>2, <2>2
      <3> QED
        BY <1>1, <1>2, <1>3, <1>4, <1>5, <2>2, <3>1
    <2>3. CASE i > Len(s) + 1
      <3>2. i \in Nat /\ Len(s) \in Nat /\ Len(t) \in Nat /\ Len(a) = Len(s) + 1 /\ i <= Len(a) + Len(t)
        BY <1>1, <1>2, <1>5
      <3>3. ~(i <= Len(a)) /\ ~(i <= Len(s))
        BY <2>3, <3>2
      <3>4. i - Len(a) \in 1 .. Len(t) /\ (i - Len(a)) + 1 = i - Len(s)
        BY <2>3, <3>2
      <3>1. ~(i <= Len(a)) /\ ~(i <= Len(s)) /\ i - Len(a) \in 1 .. Len(t) /\ (i - Len(a)) + 1 = i - Len(s)
        BY <3>3, <3>4
      <3> QED
        BY <1>1, <1>3, <1>4, <1>5, <3>1
    <2>4. i \in Nat
      BY <1>1, <1>2
    <2>5. i <= Len(s) \/ i = Len(s) + 1 \/ i > Len(s) + 1
      BY <1>2, <2>4
    <2> QED
      BY <2>1, <2>2, <2>3, <2>5
  <1>7. a \o t = s \o c
    BY <1>3, <1>4, <1>5, <1>6, SeqEqual
  <1>8. t # <<>> => t[Len(t)] = c[Len(c)]
    <2>1. t # <<>> => Len(t) \in 1 .. Len(t) /\ Len(t) + 1 = Len(c)
      BY <1>1
    <2> QED
      BY <1>1, <2>1
  <1> QED
    BY <1>1, <1>7, <1>8 DEF h, t, a

\* A message that comes to wait is the last of both.
LEMMA AppendWaits ==
  ASSUME NEW S, NEW s \in Seq(S), NEW c \in Seq(S), NEW x \in S
  PROVE  s \o Append(c, x) = Append(s \o c, x)
  <1>1. Append(c, x) = c \o <<x>> /\ <<x>> \in Seq(S)
    BY AppendIsConcat
  <1>2. s \o c \in Seq(S)
    BY ConcatProperties
  <1>3. Append(s \o c, x) = (s \o c) \o <<x>>
    BY <1>2, AppendIsConcat
  <1>4. (s \o c) \o <<x>> = s \o (c \o <<x>>)
    BY <1>1, ConcatAssociative
  <1> QED
    BY <1>1, <1>3, <1>4

\* While something waits, the last that waits is the last of both.
LEMMA LastOfBoth ==
  ASSUME NEW s \in Seq(Nat), NEW c \in Seq(Nat), c # <<>>
  PROVE  s \o c \in Seq(Nat) /\ (s \o c)[Len(s \o c)] = c[Len(c)]
  <1>1. /\ s \o c \in Seq(Nat) /\ Len(s \o c) = Len(s) + Len(c)
        /\ \A i \in 1 .. Len(s) + Len(c) : (s \o c)[i] = IF i <= Len(s) THEN s[i] ELSE c[i - Len(s)]
    BY ConcatProperties
  <1>2. Len(s) \in Nat /\ Len(c) \in Nat \ {0}
    OBVIOUS
  <1>3. Len(s) + Len(c) \in 1 .. Len(s) + Len(c) /\ ~(Len(s) + Len(c) <= Len(s)) /\ (Len(s) + Len(c)) - Len(s) = Len(c)
    BY <1>2
  <1> QED
    BY <1>1, <1>3

\* A thread that has a message and has not put it anywhere.
Writing == holder \in {"write", "flush", "send"}

\* What the host has got and what waits for it, as one log.
LogKept ==
  /\ Writing => last # 0
  /\ beside = FALSE =>
       /\ holder = "send" => cache = <<>> \/ sock = "none"
       /\ Len(cache) > MaxCache => cache[Len(cache)] = 0
       /\ Told(sent \o cache, dropped)
       /\ Under(sent \o cache, dropped, IF Writing THEN last ELSE last + 1)

\* The log is of its type and in order.
LogOrder == Log!TypeOK /\ LogKept

\* Messages and warnings as numbers.
LEMMA LogTypes ==
  ASSUME Log!TypeOK
  PROVE  /\ sent \in Seq(Nat) /\ cache \in Seq(Nat) /\ sent \o cache \in Seq(Nat) /\ dropped \in SUBSET Nat /\ lost \in SUBSET Nat
         /\ last \in Nat /\ Len(cache) \in Nat /\ MaxCache \in Nat /\ MaxMsg \in Nat /\ beside \in BOOLEAN
         /\ Log!Warning = 0 /\ (last # 0 => last \in Log!Message)
  <1>1. MaxCache \in Nat /\ MaxMsg \in Nat
    BY HostAssumption
  <1>2. {Log!Warning} \cup Log!Message \subseteq Nat
    BY <1>1 DEF Log!Warning, Log!Message
  <1>3. sent \in Seq({Log!Warning} \cup Log!Message) /\ cache \in Seq({Log!Warning} \cup Log!Message)
    BY DEF Log!TypeOK
  <1>4. sent \in Seq(Nat) /\ cache \in Seq(Nat)
    BY <1>2, <1>3, SeqMonotonic
  <1>5. sent \o cache \in Seq(Nat)
    BY <1>4, ConcatProperties
  <1>6. dropped \in SUBSET Nat /\ lost \in SUBSET Nat /\ beside \in BOOLEAN
    BY <1>1 DEF Log!TypeOK, Log!Message
  <1>7. last \in Nat /\ (last # 0 => last \in Log!Message)
    BY <1>1 DEF Log!TypeOK, Log!Message
  <1> QED
    BY <1>1, <1>4, <1>5, <1>6, <1>7 DEF Log!Warning

\* Nothing was logged yet.
LEMMA LogOrderInit == Log!Init => LogOrder
  <1> SUFFICES ASSUME Log!Init PROVE LogOrder
    OBVIOUS
  <1>1. /\ sock = "none" /\ cache = <<>> /\ holder = "nobody" /\ last = 0 /\ bg = "sleep" /\ main = "other" /\ shut = "no"
        /\ net = FALSE /\ sent = <<>> /\ dropped = {} /\ lost = {} /\ beside = FALSE
    BY DEF Log!Init
  <1>2. MaxCache \in Nat /\ MaxMsg \in Nat /\ last \in 0 .. MaxMsg
    BY <1>1, HostAssumption
  <1>3. cache \in Seq({Log!Warning} \cup Log!Message) /\ sent \in Seq({Log!Warning} \cup Log!Message)
        /\ Len(cache) = 0 /\ Len(cache) <= MaxCache + 1 /\ ~(Len(cache) > MaxCache)
    BY <1>1, <1>2
  <1>4. Log!TypeOK
    BY <1>1, <1>2, <1>3 DEF Log!TypeOK
  <1>5. sent \o cache = <<>>
    <2>1. <<>> \in Seq(Nat)
      OBVIOUS
    <2> QED
      BY <1>1, <2>1, ConcatEmptySeq
  <1>6. DOMAIN <<>> = {} /\ Len(<<>>) = 0 /\ 2 .. 0 = {}
    OBVIOUS
  <1>7. Told(sent \o cache, dropped) /\ Under(sent \o cache, dropped, last + 1)
    BY <1>1, <1>5, <1>6 DEF Told, Under
  <1> QED
    BY <1>1, <1>3, <1>4, <1>7 DEF LogOrder, LogKept, Writing

\* A step that moves no message.
LEMMA LogUnmoved ==
  ASSUME LogOrder, UNCHANGED <<cache, sent, dropped, last>>, Writing' = Writing,
         beside' = FALSE => beside = FALSE /\ (holder' = "send" => cache = <<>> \/ sock' = "none" \/ UNCHANGED <<sock, holder>>)
  PROVE  LogKept'
  BY DEF LogOrder, LogKept

\* log() takes the mutex for the next message.
LEMMA LogLock == ASSUME LogOrder, Log!Lock PROVE LogOrder'
  <1>1. /\ holder = "nobody" /\ last < MaxMsg /\ holder' = "write" /\ last' = last + 1
        /\ UNCHANGED <<sock, cache, bg, main, shut, net, connects, fails, sent, dropped, lost, beside>>
    BY DEF Log!Lock
  <1>2. Log!TypeOK /\ LogKept /\ last \in Nat /\ MaxMsg \in Nat
    BY LogTypes DEF LogOrder
  <1>3. last' \in 0 .. MaxMsg /\ last' # 0
    BY <1>1, <1>2
  <1>4. Log!TypeOK'
    BY <1>1, <1>2, <1>3 DEF Log!TypeOK
  <1>5. ~Writing /\ Writing'
    BY <1>1 DEF Writing
  <1>6. LogKept'
    BY <1>1, <1>2, <1>3, <1>5 DEF LogKept
  <1> QED
    BY <1>4, <1>6 DEF LogOrder

\* It sends the message, has it wait, or drops it for a full cache.
LEMMA LogWrite == ASSUME LogOrder, Log!Write PROVE LogOrder'
  <1>1. holder = "write" /\ UNCHANGED <<sock, last, bg, main, shut, net, connects, fails, sent, lost, beside>>
    BY DEF Log!Write
  <1>2. /\ Log!TypeOK /\ LogKept
        /\ sent \in Seq(Nat) /\ cache \in Seq(Nat) /\ sent \o cache \in Seq(Nat) /\ dropped \in SUBSET Nat
        /\ last \in Nat \ {0} /\ Len(cache) \in Nat /\ MaxCache \in Nat /\ Log!Warning = 0 /\ last \in Log!Message
        /\ Writing
    BY <1>1, LogTypes DEF LogOrder, LogKept, Writing
  <1>3. cache \in Seq({Log!Warning} \cup Log!Message) /\ Len(cache) <= MaxCache + 1 /\ dropped \subseteq Log!Message
    BY <1>2 DEF Log!TypeOK
  <1>4. CASE sock # "none"
    <2>1. holder' = "flush" /\ UNCHANGED <<cache, dropped>>
      BY <1>4 DEF Log!Write
    <2>2. Log!TypeOK'
      BY <1>1, <1>2, <2>1 DEF Log!TypeOK
    <2>3. LogKept'
      BY <1>1, <1>2, <2>1, LogUnmoved DEF Writing
    <2> QED
      BY <2>2, <2>3 DEF LogOrder
  <1>5. CASE sock = "none"
    <2>1. holder' = "nobody" /\ Log!Keep(last)
      BY <1>5 DEF Log!Write
    <2>2. ~Writing'
      BY <2>1 DEF Writing
    <2>3. CASE Len(cache) < MaxCache
      <3>1. cache' = Append(cache, last) /\ dropped' = dropped
        BY <2>1, <2>3 DEF Log!Keep
      <3>2. cache' \in Seq({Log!Warning} \cup Log!Message) /\ Len(cache') = Len(cache) + 1
        BY <1>2, <1>3, <3>1
      <3>3. Len(cache') <= MaxCache /\ Len(cache') <= MaxCache + 1
        BY <1>2, <2>3, <3>2
      <3>4. Log!TypeOK'
        BY <1>1, <1>2, <2>1, <3>1, <3>2, <3>3 DEF Log!TypeOK
      <3>5. sent' \o cache' = Append(sent \o cache, last)
        BY <1>1, <1>2, <3>1, AppendWaits
      <3>6. ASSUME beside = FALSE PROVE Told(sent' \o cache', dropped') /\ Under(sent' \o cache', dropped', last' + 1)
        <4>1. Told(sent \o cache, dropped) /\ Under(sent \o cache, dropped, last)
          BY <1>2, <3>6 DEF LogKept
        <4>2. Told(Append(sent \o cache, last), dropped) /\ Under(Append(sent \o cache, last), dropped, last + 1)
          BY <1>2, <4>1, ToldNext
        <4> QED
          BY <1>1, <3>1, <3>5, <4>2
      <3>7. ~(Len(cache') > MaxCache)
        BY <1>2, <3>2, <3>3
      <3>8. LogKept'
        BY <1>1, <2>1, <2>2, <3>6, <3>7 DEF LogKept
      <3> QED
        BY <3>4, <3>8 DEF LogOrder
    <2>4. CASE Len(cache) = MaxCache
      <3>1. cache' = Append(cache, 0) /\ dropped' = dropped \cup {last}
        BY <1>2, <2>1, <2>4 DEF Log!Keep
      <3>2. cache' \in Seq({Log!Warning} \cup Log!Message) /\ Len(cache') = Len(cache) + 1 /\ cache'[Len(cache) + 1] = 0
            /\ Len(cache') <= MaxCache + 1
        BY <1>2, <1>3, <2>4, <3>1
      <3>3. dropped' \subseteq Log!Message
        BY <1>2, <1>3, <3>1
      <3>4. Log!TypeOK'
        BY <1>1, <1>2, <2>1, <3>2, <3>3 DEF Log!TypeOK
      <3>5. sent' \o cache' = Append(sent \o cache, 0)
        BY <1>1, <1>2, <3>1, AppendWaits
      <3>6. ASSUME beside = FALSE PROVE Told(sent' \o cache', dropped') /\ Under(sent' \o cache', dropped', last' + 1)
        <4>1. Told(sent \o cache, dropped) /\ Under(sent \o cache, dropped, last)
          BY <1>2, <3>6 DEF LogKept
        <4>2. Told(Append(sent \o cache, 0), dropped \cup {last}) /\ Under(Append(sent \o cache, 0), dropped \cup {last}, last + 1)
          BY <1>2, <4>1, ToldWarning
        <4> QED
          BY <1>1, <3>1, <3>5, <4>2
      <3>7. LogKept'
        BY <1>1, <2>1, <2>2, <3>2, <3>6 DEF LogKept
      <3> QED
        BY <3>4, <3>7 DEF LogOrder
    <2>5. CASE Len(cache) > MaxCache
      <3>1. cache' = cache /\ dropped' = dropped \cup {last}
        BY <1>2, <2>1, <2>5 DEF Log!Keep
      <3>3. dropped' \subseteq Log!Message
        BY <1>2, <1>3, <3>1
      <3>4. Log!TypeOK'
        BY <1>1, <1>2, <2>1, <3>1, <3>3 DEF Log!TypeOK
      <3>5. cache # <<>>
        BY <1>2, <2>5
      <3>6. ASSUME beside = FALSE PROVE Told(sent' \o cache', dropped') /\ Under(sent' \o cache', dropped', last' + 1)
        <4>1. Told(sent \o cache, dropped) /\ Under(sent \o cache, dropped, last) /\ cache[Len(cache)] = 0
          BY <1>2, <2>5, <3>6 DEF LogKept
        <4>2. (sent \o cache)[Len(sent \o cache)] = 0
          BY <1>2, <3>5, <4>1, LastOfBoth
        <4>3. Told(sent \o cache, dropped \cup {last}) /\ Under(sent \o cache, dropped \cup {last}, last + 1)
          BY <1>2, <4>1, <4>2, ToldMore
        <4> QED
          BY <1>1, <3>1, <4>3
      <3>7. LogKept'
        BY <1>1, <1>2, <2>1, <2>2, <3>1, <3>6 DEF LogKept
      <3> QED
        BY <3>4, <3>7 DEF LogOrder
    <2> QED
      BY <1>2, <2>3, <2>4, <2>5
  <1> QED
    BY <1>4, <1>5

\* flush_cache sends one message that waits, or finds the host gone.
LEMMA LogFlush == ASSUME LogOrder, Log!Flush PROVE LogOrder'
  <1>1. holder \in {"flush", "bgflush"} /\ UNCHANGED <<last, main, shut, net, connects, fails, dropped, lost, beside>>
        /\ bg' = IF holder = "bgflush" /\ holder' = "nobody" THEN "sleep" ELSE bg
    BY DEF Log!Flush
  <1>2. /\ Log!TypeOK /\ LogKept
        /\ sent \in Seq(Nat) /\ cache \in Seq(Nat) /\ Len(cache) \in Nat /\ MaxCache \in Nat
    BY LogTypes DEF LogOrder
  <1>3. bg' \in {"sleep", "connect", "lock", "flush", "done"}
    BY <1>1, <1>2 DEF Log!TypeOK
  <1>4. CASE cache # <<>> /\ sent' = Append(sent, Head(cache)) /\ cache' = Tail(cache) /\ UNCHANGED <<sock, holder>>
    <2>1. /\ sent' \o cache' = sent \o cache /\ Len(cache') = Len(cache) - 1
          /\ cache' # <<>> => cache'[Len(cache')] = cache[Len(cache)]
      BY <1>2, <1>4, HeadMoves
    <2>2. cache \in Seq({Log!Warning} \cup Log!Message) /\ sent \in Seq({Log!Warning} \cup Log!Message) /\ Len(cache) <= MaxCache + 1
      BY <1>2 DEF Log!TypeOK
    <2>3. Head(cache) \in {Log!Warning} \cup Log!Message /\ cache' \in Seq({Log!Warning} \cup Log!Message)
      BY <1>4, <2>2, HeadTailProperties
    <2>4. sent' \in Seq({Log!Warning} \cup Log!Message)
      BY <1>4, <2>2, <2>3
    <2>5. Len(cache') <= MaxCache + 1 /\ ~(Len(cache') > MaxCache)
      BY <1>2, <2>1, <2>2
    <2>6. Log!TypeOK'
      BY <1>1, <1>2, <1>3, <1>4, <2>3, <2>4, <2>5 DEF Log!TypeOK
    <2>7. LogKept'
      BY <1>1, <1>2, <1>4, <2>1, <2>5 DEF LogKept, Writing
    <2> QED
      BY <2>6, <2>7 DEF LogOrder
  <1>5. CASE /\ sock' = "none" \/ (cache = <<>> /\ sock' = sock)
             /\ UNCHANGED <<sent, cache>> /\ holder' = IF holder = "flush" THEN "send" ELSE "nobody"
    <2>1. holder' \in {"send", "nobody"} /\ sock' \in {"none", "works", "broken"}
      BY <1>2, <1>5 DEF Log!TypeOK
    <2>2. Writing' = Writing
      BY <1>1, <1>5 DEF Writing
    <2>3. Log!TypeOK'
      BY <1>1, <1>2, <1>3, <1>5, <2>1 DEF Log!TypeOK
    <2>4. LogKept'
      BY <1>1, <1>5, <2>2, LogUnmoved
    <2> QED
      BY <2>3, <2>4 DEF LogOrder
  <1> QED
    BY <1>4, <1>5 DEF Log!Flush, Log!FlushOne, Log!Takes, Log!Refuses

\* The message itself follows what had to wait.
LEMMA LogSend == ASSUME LogOrder, Log!Send PROVE LogOrder'
  <1>1. holder = "send" /\ holder' = "nobody" /\ UNCHANGED <<cache, last, bg, main, shut, net, connects, fails, dropped, beside>>
    BY DEF Log!Send
  <1>2. /\ Log!TypeOK /\ LogKept
        /\ sent \in Seq(Nat) /\ cache \in Seq(Nat) /\ sent \o cache \in Seq(Nat) /\ dropped \in SUBSET Nat
        /\ last \in Nat \ {0} /\ last \in Log!Message /\ Writing
    BY <1>1, LogTypes DEF LogOrder, LogKept, Writing
  <1>3. ~Writing'
    BY <1>1 DEF Writing
  <1>4. CASE sock # "none" /\ sent' = Append(sent, last) /\ UNCHANGED <<sock, lost>>
    <2>1. sent' = Append(sent, last) /\ sock' = sock /\ lost' = lost
      BY <1>4
    <2>2. sent' \in Seq({Log!Warning} \cup Log!Message)
      <3>1. sent \in Seq({Log!Warning} \cup Log!Message)
        BY <1>2 DEF Log!TypeOK
      <3> QED
        BY <1>2, <2>1, <3>1
    <2>3. Log!TypeOK'
      BY <1>1, <1>2, <2>1, <2>2 DEF Log!TypeOK
    <2>4. ASSUME beside = FALSE PROVE Told(sent' \o cache', dropped') /\ Under(sent' \o cache', dropped', last' + 1)
      <3>1. Told(sent \o cache, dropped) /\ Under(sent \o cache, dropped, last) /\ cache = <<>>
        BY <1>1, <1>2, <1>4, <2>4 DEF LogKept
      <3>2. sent \o cache = sent /\ sent' \in Seq(Nat) /\ sent' \o cache' = sent'
        BY <1>1, <1>2, <2>1, <3>1, ConcatEmptySeq
      <3>3. Told(Append(sent, last), dropped) /\ Under(Append(sent, last), dropped, last + 1)
        BY <1>2, <3>1, <3>2, ToldNext
      <3> QED
        BY <1>1, <2>1, <3>2, <3>3
    <2>5. LogKept'
      BY <1>1, <1>2, <1>3, <2>4 DEF LogKept
    <2> QED
      BY <2>3, <2>5 DEF LogOrder
  <1>5. CASE sock' = "none" /\ lost' = lost \cup {last} /\ UNCHANGED sent
    <2>1. sock' = "none" /\ sent' = sent /\ lost' = lost \cup {last}
      BY <1>5
    <2>2. lost' \subseteq Log!Message
      BY <1>2, <2>1 DEF Log!TypeOK
    <2>3. Log!TypeOK'
      BY <1>1, <1>2, <2>1, <2>2 DEF Log!TypeOK
    <2>4. ASSUME beside = FALSE PROVE Told(sent' \o cache', dropped') /\ Under(sent' \o cache', dropped', last' + 1)
      <3> DEFINE L == sent \o cache
      <3>1. Told(L, dropped) /\ Under(L, dropped, last) /\ L \in Seq(Nat)
        BY <1>2, <2>4 DEF LogKept
      <3> HIDE DEF L
      <3>2. \A i \in DOMAIN L : L[i] \in Nat
        BY <3>1
      <3>3. Under(L, dropped, last + 1)
        BY <1>2, <3>1, <3>2 DEF Under
      <3> QED
        BY <1>1, <2>1, <3>1, <3>3 DEF L
    <2>5. LogKept'
      BY <1>1, <1>2, <1>3, <2>4 DEF LogKept
    <2> QED
      BY <2>3, <2>5 DEF LogOrder
  <1> QED
    BY <1>4, <1>5 DEF Log!Send, Log!Takes, Log!Refuses

\* A connection is made beside the thread that has the mutex, or when there is none.
LEMMA LogConnected ==
  ASSUME LogOrder, Log!Connected, UNCHANGED <<cache, holder, last, sent, dropped, lost>>
  PROVE  LogKept' /\ sock' \in {"none", "works", "broken"} /\ beside' \in BOOLEAN
  <1>1. (beside' = (beside \/ holder = "send") /\ sock' = "works") \/ (beside' = beside /\ sock' = sock)
    BY DEF Log!Connected
  <1>2. beside \in BOOLEAN /\ sock \in {"none", "works", "broken"}
    BY DEF LogOrder, Log!TypeOK
  <1>3. beside' = FALSE => beside = FALSE /\ (holder' # "send" \/ sock' = sock)
    BY <1>1, <1>2
  <1>4. LogKept'
    BY <1>3, LogUnmoved DEF Writing
  <1> QED
    BY <1>1, <1>2, <1>4

\* No step of a thread that logs, of the background thread, of main or of the host
\* disturbs it.
LEMMA LogOrderStep == LogOrder /\ [Log!Next]_logVars => LogOrder'
  <1> SUFFICES ASSUME LogOrder, [Log!Next]_logVars PROVE LogOrder'
    OBVIOUS
  <1>0. Log!TypeOK /\ LogKept
    BY DEF LogOrder
  <1>1. CASE Log!Lock
    BY <1>1, LogLock
  <1>2. CASE Log!Write
    BY <1>2, LogWrite
  <1>3. CASE Log!Flush
    BY <1>3, LogFlush
  <1>4. CASE Log!Send
    BY <1>4, LogSend
  <1>5. CASE Log!BgWake
    <2>1. bg' \in {"done", "connect", "sleep"} /\ UNCHANGED <<sock, cache, holder, last, main, shut, net, sent, dropped, lost, beside>>
      BY <1>5 DEF Log!BgWake
    <2>2. Log!TypeOK'
      BY <1>0, <2>1 DEF Log!TypeOK
    <2>3. LogKept'
      BY <1>0, <2>1 DEF LogKept, Writing
    <2> QED
      BY <2>2, <2>3 DEF LogOrder
  <1>6. CASE Log!BgConnect
    <2>1. Log!Connected /\ bg' \in {"lock", "sleep"} /\ UNCHANGED <<cache, holder, last, main, shut, net, sent, dropped, lost>>
      BY <1>6 DEF Log!BgConnect
    <2>2. LogKept' /\ sock' \in {"none", "works", "broken"} /\ beside' \in BOOLEAN
      BY <2>1, LogConnected
    <2>3. Log!TypeOK'
      BY <1>0, <2>1, <2>2 DEF Log!TypeOK
    <2> QED
      BY <2>2, <2>3 DEF LogOrder
  <1>7. CASE Log!BgFlush
    <2>1. holder = "nobody" /\ holder' \in {"nobody", "bgflush"} /\ bg' \in {"flush", "sleep"}
          /\ UNCHANGED <<sock, cache, last, main, shut, net, sent, dropped, lost, beside>>
      BY <1>7 DEF Log!BgFlush
    <2>2. Log!TypeOK'
      BY <1>0, <2>1 DEF Log!TypeOK
    <2>3. LogKept'
      BY <1>0, <2>1 DEF LogKept, Writing
    <2> QED
      BY <2>2, <2>3 DEF LogOrder
  <1>8. CASE Log!MainConnect
    <2>1. UNCHANGED <<cache, holder, last, bg, shut, net, sent, dropped, lost>> /\ main' \in {"other", "connect"}
      BY <1>8 DEF Log!MainConnect
    <2>2. CASE UNCHANGED <<sock, beside>>
      <3>1. Log!TypeOK'
        BY <1>0, <2>1, <2>2 DEF Log!TypeOK
      <3>2. LogKept'
        BY <1>0, <2>1, <2>2 DEF LogKept, Writing
      <3> QED
        BY <3>1, <3>2 DEF LogOrder
    <2>3. CASE Log!Connected
      <3>1. LogKept' /\ sock' \in {"none", "works", "broken"} /\ beside' \in BOOLEAN
        BY <2>1, <2>3, LogConnected
      <3>2. Log!TypeOK'
        BY <1>0, <2>1, <3>1 DEF Log!TypeOK
      <3> QED
        BY <3>1, <3>2 DEF LogOrder
    <2> QED
      BY <1>8, <2>2, <2>3 DEF Log!MainConnect
  <1>9. CASE Log!Shutdown
    <2>1. shut' \in {"joining", "done"} /\ sock' \in {"none", sock}
          /\ UNCHANGED <<cache, holder, last, bg, main, net, sent, dropped, lost, beside>>
      BY <1>9 DEF Log!Shutdown
    <2>2. Log!TypeOK'
      BY <1>0, <2>1 DEF Log!TypeOK
    <2>3. LogKept'
      BY <1>0, <2>1 DEF LogKept, Writing
    <2> QED
      BY <2>2, <2>3 DEF LogOrder
  <1>10. CASE Log!Network
    <2>1. net' \in BOOLEAN /\ (sock' = sock \/ (sock = "works" /\ sock' = "broken")) /\ UNCHANGED <<cache, holder, last, bg, main, shut, sent, dropped, lost, beside>>
      BY <1>10 DEF Log!Network
    <2>2. Log!TypeOK'
      BY <1>0, <2>1 DEF Log!TypeOK
    <2>3. LogKept'
      BY <1>0, <2>1 DEF LogKept, Writing
    <2> QED
      BY <2>2, <2>3 DEF LogOrder
  <1>11. CASE UNCHANGED logVars
    <2>2. Log!TypeOK'
      BY <1>0, <1>11 DEF Log!TypeOK, logVars
    <2>3. LogKept'
      BY <1>0, <1>11 DEF LogKept, Writing, logVars
    <2> QED
      BY <2>2, <2>3 DEF LogOrder
  <1> QED
    BY <1>1, <1>2, <1>3, <1>4, <1>5, <1>6, <1>7, <1>8, <1>9, <1>10, <1>11 DEF Log!Next

\* The two modules count alike.
LEMMA LogCounts == \A S : Log!Cardinality(S) = Cardinality(S)
  BY DEF Log!Cardinality, Cardinality

\* A message is in a log.
In(m, L) == \E i \in DOMAIN L : L[i] = m

\* A log that gets an entry has it, and what it had.
LEMMA InNext ==
  ASSUME NEW L \in Seq(Nat), NEW x \in Nat, NEW m, In(m, L) \/ m = x
  PROVE  In(m, Append(L, x))
  <1>1. CASE In(m, L)
    <2>1. PICK i \in DOMAIN L : L[i] = m
      BY <1>1 DEF In
    <2>2. i \in DOMAIN Append(L, x) /\ Append(L, x)[i] = m
      BY <2>1, LogOfOne
    <2> QED
      BY <2>2 DEF In
  <1>2. CASE m = x
    <2>1. Len(L) + 1 \in DOMAIN Append(L, x) /\ Append(L, x)[Len(L) + 1] = m
      BY <1>2, LogOfOne
    <2> QED
      BY <2>1 DEF In
  <1> QED
    BY <1>1, <1>2

\* A message that is written comes before what waits, if anything does.
LEMMA InBefore ==
  ASSUME NEW s \in Seq(Nat), NEW c \in Seq(Nat), NEW x \in Nat, NEW m, In(m, s \o c) \/ m = x
  PROVE  In(m, Append(s, x) \o c)
  <1> DEFINE a == Append(s, x)
  <1>1. /\ a \in Seq(Nat) /\ Len(a) = Len(s) + 1 /\ \A i \in 1 .. Len(s) : a[i] = s[i]
        /\ a[Len(s) + 1] = x /\ Len(s) \in Nat
    BY LogOfOne
  <1> HIDE DEF a
  <1>2. /\ a \o c \in Seq(Nat) /\ Len(a \o c) = Len(a) + Len(c)
        /\ \A i \in 1 .. Len(a) + Len(c) : (a \o c)[i] = IF i <= Len(a) THEN a[i] ELSE c[i - Len(a)]
    BY <1>1, ConcatProperties
  <1>3. /\ s \o c \in Seq(Nat) /\ Len(s \o c) = Len(s) + Len(c)
        /\ \A i \in 1 .. Len(s) + Len(c) : (s \o c)[i] = IF i <= Len(s) THEN s[i] ELSE c[i - Len(s)]
    BY ConcatProperties
  <1>4. Len(c) \in Nat /\ DOMAIN (a \o c) = 1 .. Len(a) + Len(c) /\ DOMAIN (s \o c) = 1 .. Len(s) + Len(c)
    BY <1>2, <1>3
  <1>5. CASE m = x
    <2>1. Len(s) + 1 \in DOMAIN (a \o c) /\ (a \o c)[Len(s) + 1] = x
      BY <1>1, <1>2, <1>4
    <2> QED
      BY <1>5, <2>1 DEF In, a
  <1>6. CASE In(m, s \o c)
    <2>1. PICK i \in DOMAIN (s \o c) : (s \o c)[i] = m
      BY <1>6 DEF In
    <2>2. CASE i <= Len(s)
      <3>1. i \in DOMAIN (a \o c) /\ i <= Len(a) /\ i \in 1 .. Len(s)
        BY <1>1, <1>4, <2>1, <2>2
      <3>2. (a \o c)[i] = m
        BY <1>1, <1>2, <1>3, <1>4, <2>1, <2>2, <3>1
      <3> QED
        BY <3>1, <3>2 DEF In, a
    <2>3. CASE ~(i <= Len(s))
      <3>0. /\ i \in Int /\ 1 <= i /\ i <= Len(s) + Len(c)
            /\ Len(s) \in Nat /\ Len(c) \in Nat /\ Len(a) = Len(s) + 1
        BY <1>1, <1>4, <2>1
      <3>1. i + 1 \in DOMAIN (a \o c) /\ ~(i + 1 <= Len(a)) /\ (i + 1) - Len(a) = i - Len(s)
        BY <1>4, <2>3, <3>0
      <3>2. (a \o c)[i + 1] = m
        BY <1>2, <1>3, <1>4, <2>1, <2>3, <3>1
      <3> QED
        BY <3>1, <3>2 DEF In, a
    <2> QED
      BY <2>2, <2>3
  <1> QED
    BY <1>5, <1>6

\* Every message so far was written, waits, was turned away, could not be written, or
\* is in the hands of a thread.
Accounted ==
  \A m \in 1 .. last :
    In(m, sent \o cache) \/ m \in dropped \/ m \in lost \/ (Writing /\ m = last)

\* A connection failed, and a message will be lost for it, or may be.
Charged == sock = "broken" \/ (sock = "none" /\ holder \in {"flush", "send"})

\* What was lost and will be is no more than the connections that failed, and the
\* one that shutdown closed.
Losses ==
  /\ IsFiniteSet(lost) /\ fails \in Nat
  /\ Cardinality(lost) + (IF Charged THEN 1 ELSE 0) <= fails + (IF shut = "done" THEN 1 ELSE 0)

\* The inductive invariant of the log sink.
LogInv == LogOrder /\ Accounted /\ Losses

LEMMA LogInit == Log!Init => LogInv
  <1> SUFFICES ASSUME Log!Init PROVE LogInv
    OBVIOUS
  <1>1. last = 0 /\ sock = "none" /\ holder = "nobody" /\ shut = "no" /\ fails = 0 /\ lost = {}
    BY DEF Log!Init
  <1>2. Accounted
    BY <1>1 DEF Accounted
  <1>3. Losses
    BY <1>1, FS_EmptySet DEF Losses, Charged
  <1> QED
    BY <1>2, <1>3, LogOrderInit DEF LogInv

\* No message is forgotten: Write keeps it or turns it away, flushCache moves it from
\* the cache to the connection, and Send writes it or loses it.
LEMMA LogAccounts == LogInv /\ [Log!Next]_logVars => Accounted'
  <1> SUFFICES ASSUME LogInv, [Log!Next]_logVars PROVE Accounted'
    OBVIOUS
  <1>0. /\ Log!TypeOK /\ sent \in Seq(Nat) /\ cache \in Seq(Nat) /\ sent \o cache \in Seq(Nat)
        /\ last \in Nat /\ Log!Warning = 0
    BY LogTypes DEF LogInv, LogOrder
  <1>1. CASE Log!Lock
    <2>1. holder = "nobody" /\ holder' = "write" /\ last' = last + 1 /\ UNCHANGED <<cache, sent, dropped, lost>>
      BY <1>1 DEF Log!Lock
    <2>2. \A m \in 1 .. last' : m \in 1 .. last \/ m = last'
      BY <1>0, <2>1
    <2> QED
      BY <2>1, <2>2 DEF LogInv, Accounted, Writing
  <1>2. CASE Log!Write
    <2>1. holder = "write" /\ UNCHANGED <<sock, last, sent, lost>>
      BY <1>2 DEF Log!Write
    <2>2. CASE sock # "none"
      <3>1. holder' = "flush" /\ UNCHANGED <<cache, dropped>>
        BY <1>2, <2>2 DEF Log!Write
      <3> QED
        BY <2>1, <3>1 DEF LogInv, Accounted, Writing
    <2>3. CASE sock = "none"
      <3>1. holder' = "nobody" /\ Log!Keep(last)
        BY <1>2, <2>3 DEF Log!Write
      <3>2. \/ cache' = Append(cache, last) /\ dropped' = dropped
            \/ (cache' = Append(cache, 0) \/ cache' = cache) /\ dropped' = dropped \cup {last}
        BY <1>0, <3>1 DEF Log!Keep
      <3>3. ASSUME NEW m \in 1 .. last PROVE In(m, sent \o cache) => In(m, sent' \o cache')
        <4>1. CASE cache' = cache
          BY <2>1, <4>1
        <4>2. ASSUME NEW x \in {0, last}, cache' = Append(cache, x)
              PROVE  In(m, sent \o cache) => In(m, sent' \o cache')
          <5>1. sent' \o cache' = Append(sent \o cache, x)
            BY <1>0, <2>1, <4>2, AppendWaits
          <5> QED
            BY <1>0, <5>1, InNext
        <4> QED
          BY <3>2, <4>1, <4>2
      <3>4. In(last, sent' \o cache') \/ last \in dropped'
        <4>1. CASE cache' = Append(cache, last)
          <5>1. sent' \o cache' = Append(sent \o cache, last)
            BY <1>0, <2>1, <4>1, AppendWaits
          <5> QED
            BY <1>0, <5>1, InNext
        <4> QED
          BY <3>2, <4>1
      <3> QED
        BY <2>1, <3>2, <3>3, <3>4 DEF LogInv, Accounted
    <2> QED
      BY <2>2, <2>3
  <1>3. CASE Log!Flush
    <2>1. UNCHANGED <<last, dropped, lost>>
      BY <1>3 DEF Log!Flush
    <2>2. Writing' = Writing
      BY <1>3 DEF Log!Flush, Log!FlushOne, Writing
    <2>3. sent' \o cache' = sent \o cache
      <3>1. \/ UNCHANGED <<sent, cache>>
            \/ cache # <<>> /\ sent' = Append(sent, Head(cache)) /\ cache' = Tail(cache)
        BY <1>3 DEF Log!Flush, Log!FlushOne
      <3> QED
        BY <1>0, <3>1, HeadMoves
    <2> QED
      BY <2>1, <2>2, <2>3 DEF LogInv, Accounted
  <1>4. CASE Log!Send
    <2>1. UNCHANGED <<cache, last, dropped>>
      BY <1>4 DEF Log!Send
    <2>2. CASE sent' = sent /\ lost' = lost \cup {last}
      BY <2>1, <2>2 DEF LogInv, Accounted
    <2>3. CASE sent' = Append(sent, last) /\ lost' = lost
      <3>1. ASSUME NEW m \in Nat, In(m, sent \o cache) \/ m = last PROVE In(m, sent' \o cache')
        BY <1>0, <2>1, <2>3, <3>1, InBefore
      <3> QED
        BY <1>0, <2>1, <2>3, <3>1 DEF LogInv, Accounted
    <2> QED
      BY <1>4, <2>2, <2>3 DEF Log!Send
  <1>5. CASE UNCHANGED <<cache, last, sent, dropped, lost>> /\ Writing' = Writing
    BY <1>5 DEF LogInv, Accounted
  <1>6. ASSUME Log!BgWake \/ Log!BgConnect \/ Log!BgFlush \/ Log!MainConnect \/ Log!Shutdown \/ Log!Network
               \/ UNCHANGED logVars
        PROVE  UNCHANGED <<cache, last, sent, dropped, lost>> /\ Writing' = Writing
    BY <1>6 DEF Log!BgWake, Log!BgConnect, Log!BgFlush, Log!MainConnect, Log!Shutdown, Log!Network, logVars, Writing
  <1> QED
    BY <1>1, <1>2, <1>3, <1>4, <1>5, <1>6 DEF Log!Next

\* Each message that is lost is charged to a failure of the network before it, or to
\* the shutdown.
LEMMA LogLosses == LogInv /\ [Log!Next]_logVars => Losses'
  <1> SUFFICES ASSUME LogInv, [Log!Next]_logVars PROVE Losses'
    OBVIOUS
  <1> DEFINE n == Cardinality(lost)
  <1>0. /\ Log!TypeOK /\ IsFiniteSet(lost) /\ fails \in Nat /\ n \in Nat
        /\ n + (IF Charged THEN 1 ELSE 0) <= fails + (IF shut = "done" THEN 1 ELSE 0)
    BY FS_CardinalityType DEF LogInv, LogOrder, Losses
  <1> HIDE DEF n
  <1>1. CASE Log!Send
    <2>1. holder = "send" /\ holder' = "nobody" /\ UNCHANGED <<shut, fails>>
      BY <1>1 DEF Log!Send
    <2>2. CASE sock' = sock /\ lost' = lost
      <3>1. Charged' => Charged
        BY <2>1, <2>2 DEF Charged
      <3> QED
        BY <1>0, <2>1, <2>2, <3>1 DEF Losses, n
    <2>3. CASE sock # "works" /\ sock' = "none" /\ lost' = lost \cup {last}
      <3>1. Charged /\ ~Charged'
        BY <1>0, <2>1, <2>3 DEF Charged, Log!TypeOK
      <3>2. IsFiniteSet(lost') /\ Cardinality(lost') \in Nat /\ Cardinality(lost') <= n + 1
        BY <1>0, <2>3, FS_AddElement, FS_CardinalityType DEF n
      <3> QED
        BY <1>0, <2>1, <3>1, <3>2 DEF Losses
    <2> QED
      BY <1>1, <2>2, <2>3 DEF Log!Send, Log!Refuses
  <1>2. CASE Log!Network
    <2>1. UNCHANGED <<holder, shut, lost>> /\ fails' \in Nat
          /\ \/ sock' = sock /\ (fails' = fails \/ fails' = fails + 1)
             \/ sock = "works" /\ sock' = "broken" /\ fails' = fails + 1
      BY <1>0, <1>2 DEF Log!Network
    <2>2. fails' = fails + 1 \/ (fails' = fails /\ (Charged' => Charged))
      BY <2>1 DEF Charged
    <2> QED
      BY <1>0, <2>1, <2>2 DEF Losses, n, Charged
  <1>3. CASE Log!Shutdown
    <2>1. /\ UNCHANGED <<holder, lost, fails>> /\ shut # "done"
          /\ shut' # "done" => sock' = sock
      BY <1>3 DEF Log!Shutdown
    <2>2. shut' # "done" => (Charged' => Charged)
      BY <2>1 DEF Charged
    <2>3. CASE shut' = "done"
      BY <1>0, <2>1, <2>3 DEF Losses, n
    <2>4. CASE shut' # "done"
      BY <1>0, <2>1, <2>2, <2>4 DEF Losses, n
    <2> QED
      BY <2>3, <2>4
  <1>4. CASE UNCHANGED <<shut, lost, fails>> /\ (Charged' => Charged)
    BY <1>0, <1>4 DEF Losses, n
  <1>5. ASSUME Log!Lock \/ Log!Write \/ Log!Flush \/ Log!BgWake \/ Log!BgConnect \/ Log!BgFlush \/ Log!MainConnect
               \/ UNCHANGED logVars
        PROVE  UNCHANGED <<shut, lost, fails>> /\ (Charged' => Charged)
    <2>1. CASE Log!Lock \/ Log!Write \/ Log!BgWake \/ Log!BgFlush \/ UNCHANGED logVars
      BY <2>1 DEF Log!Lock, Log!Write, Log!BgWake, Log!BgFlush, logVars, Charged
    <2>2. CASE Log!BgConnect \/ Log!MainConnect
      BY <2>2 DEF Log!BgConnect, Log!MainConnect, Log!Connected, Charged
    <2>3. CASE Log!Flush
      <3>1. sock \in {"none", "works", "broken"}
        BY <1>0 DEF Log!TypeOK
      <3> QED
        BY <2>3, <3>1 DEF Log!Flush, Log!FlushOne, Log!Refuses, Charged
    <2> QED
      BY <1>5, <2>1, <2>2, <2>3
  <1> QED
    BY <1>1, <1>2, <1>3, <1>4, <1>5 DEF Log!Next

\* No step disturbs what the log sink rests on.
LEMMA LogStep == LogInv /\ [Log!Next]_logVars => LogInv'
  BY LogOrderStep, LogAccounts, LogLosses DEF LogInv

\* It says what the log sink promises.
LEMMA LogHolds == LogInv => Log!InOrder /\ Log!GapIsSaid /\ Log!LossIsOne
  <1> SUFFICES ASSUME LogInv PROVE Log!InOrder /\ Log!GapIsSaid /\ Log!LossIsOne
    OBVIOUS
  <1> DEFINE L == sent \o cache
  <1>1. /\ Log!TypeOK /\ Log!Warning = 0 /\ last \in Nat
        /\ sent \in Seq(Nat) /\ cache \in Seq(Nat) /\ L \in Seq(Nat)
    BY LogTypes DEF LogInv, LogOrder
  <1>2. beside = FALSE => Told(L, dropped) /\ Under(L, dropped, IF Writing THEN last ELSE last + 1)
    BY DEF LogInv, LogOrder, LogKept
  <1>3. /\ Len(L) = Len(sent) + Len(cache)
        /\ \A i \in 1 .. Len(sent) + Len(cache) : L[i] = IF i <= Len(sent) THEN sent[i] ELSE cache[i - Len(sent)]
    BY <1>1, ConcatProperties
  <1>4. \A m \in 1 .. last : In(m, L) \/ m \in dropped \/ m \in lost \/ (Writing /\ m = last)
    BY DEF LogInv, Accounted
  <1>5. beside \in BOOLEAN
    BY <1>1 DEF Log!TypeOK
  <1> HIDE DEF L
  <1>6. Len(sent) \in Nat /\ Len(cache) \in Nat /\ DOMAIN sent = 1 .. Len(sent) /\ DOMAIN L = 1 .. Len(L) /\ Len(L) \in Nat
    BY <1>1, <1>3
  <1>7. \A i \in DOMAIN sent : i \in DOMAIN L /\ L[i] = sent[i]
    BY <1>3, <1>6
  <1>8. Log!InOrder
    BY <1>1, <1>2, <1>5, <1>7 DEF Told, Log!InOrder
  <1>9. ASSUME NEW i \in 2 .. Len(L), beside = FALSE, L[i - 1] # 0, L[i] # 0,
               NEW m \in L[i - 1] + 1 .. L[i] - 1
        PROVE  m \in lost
    <2>1. i - 1 \in DOMAIN L /\ i \in DOMAIN L /\ L[i - 1] \in Nat /\ L[i] \in Nat /\ L[i] <= last /\ (Writing => L[i] < last)
      <3>1. i - 1 \in DOMAIN L /\ i \in DOMAIN L
        BY <1>6
      <3>2. L[i - 1] \in Nat /\ L[i] \in Nat
        BY <1>1, <3>1
      <3>3. L[i] < (IF Writing THEN last ELSE last + 1)
        BY <1>2, <1>9, <3>1 DEF Under
      <3>4. PICK x \in Nat : x = L[i]
        BY <3>2
      <3>5. CASE Writing
        <4>1. x < last
          BY <3>3, <3>4, <3>5
        <4> QED
          BY <1>1, <3>1, <3>2, <3>4, <3>5, <4>1
      <3>6. CASE ~Writing
        <4>1. x < last + 1
          BY <3>3, <3>4, <3>6
        <4>2. x <= last
          BY <1>1, <3>4, <4>1
        <4> QED
          BY <3>1, <3>2, <3>4, <3>6, <4>2
      <3> QED
        BY <3>5, <3>6
    <2>2. m \in Nat /\ m # 0 /\ L[i - 1] < m /\ m < L[i]
      BY <2>1
    <2>3. m \in 1 .. last /\ ~(Writing /\ m = last)
      BY <1>1, <2>1, <2>2
    <2>4. m \notin dropped
      BY <1>2, <1>9, <2>2 DEF Told
    <2>5. ~In(m, L)
      <3>1. SUFFICES ASSUME NEW j \in DOMAIN L, L[j] = m PROVE FALSE
        BY DEF In
      <3>2. j \in Nat /\ i \in Nat
        BY <1>6
      <3>3. j < i - 1 \/ j = i - 1 \/ j = i \/ i < j
        BY <3>2
      <3>4. \A a, b \in DOMAIN L : a < b /\ L[a] # 0 /\ L[b] # 0 => L[a] < L[b]
        BY <1>2, <1>9 DEF Told
      <3>5. CASE j < i - 1
        <4>1. m < L[i - 1]
          BY <1>9, <2>1, <2>2, <3>1, <3>4, <3>5
        <4> QED
          BY <2>1, <2>2, <4>1
      <3>6. CASE i < j
        <4>1. L[i] < m
          BY <1>9, <2>1, <2>2, <3>1, <3>4, <3>6
        <4> QED
          BY <2>1, <2>2, <4>1
      <3>7. CASE j = i - 1 \/ j = i
        BY <2>1, <2>2, <3>1, <3>7
      <3> QED
        BY <3>3, <3>5, <3>6, <3>7
    <2> QED
      BY <1>4, <2>3, <2>4, <2>5
  <1>10. Log!GapIsSaid
    BY <1>1, <1>5, <1>9 DEF Log!GapIsSaid, L
  <1>11. Log!LossIsOne
    <2>1. IsFiniteSet(lost) /\ Cardinality(lost) \in Nat /\ fails \in Nat
          /\ Cardinality(lost) + (IF Charged THEN 1 ELSE 0) <= fails + (IF shut = "done" THEN 1 ELSE 0)
      BY FS_CardinalityType DEF LogInv, Losses
    <2> QED
      BY <2>1, LogCounts DEF Log!LossIsOne
  <1> QED
    BY <1>8, <1>10, <1>11

-----------------------------------------------------------------------------

(* MemTracker: the allocation trace, in which a call is recorded later than it is made. *)

\* The last record of block p in trace L is of this kind.
Ends(L, p, kind) ==
  \E i \in DOMAIN L :
    /\ L[i].ptr = p /\ L[i].kind = kind
    /\ \A j \in DOMAIN L : i < j => L[j].ptr # p

\* The records of each block are of one kind and the other by turns.
Alternates(L) ==
  \A i, j \in DOMAIN L :
    i < j /\ L[i].ptr = L[j].ptr /\ (\A k \in i + 1 .. j - 1 : L[k].ptr # L[i].ptr) => L[i].kind # L[j].kind

\* What a call of thread t is recorded as, and what it is not.
Kind(t) == IF call[t] = "malloc" THEN "A" ELSE "F"
Other(t) == IF call[t] = "malloc" THEN "F" ELSE "A"

\* A block that a thread has in a call is no one else's.
BlocksOwned ==
  /\ \A t \in Worker : at[t] # "out" => block[arg[t]] = "call"
  /\ \A t, u \in Worker : at[t] # "out" /\ at[u] # "out" /\ arg[t] = arg[u] => t = u

\* What the trace ends with for each block, while it is written.
TraceEnds ==
  fd \in {"open", "closing"} =>
    /\ \A p \in Ptr : block[p] = "heap" => ~ Ends(file \o wbuf, p, "A")
    /\ \A p \in Ptr : block[p] = "program" => ~ Ends(file \o wbuf, p, "F")
    /\ \A t \in Worker : at[t] \in {"track", "check"} => ~ Ends(file \o wbuf, arg[t], Kind(t))
    /\ \A t \in Worker : at[t] = "real" => ~ Ends(file \o wbuf, arg[t], Other(t))

\* A thread that is about to append does so although the trace was closed.
TraceRight ==
  hole = FALSE =>
    /\ Alternates(file \o wbuf)
    /\ TraceEnds
    /\ \A t \in Worker : at[t] = "append" => ~ Ends(file \o wbuf, arg[t], Kind(t))

\* Each of those appends once.
Appending == {t \in Worker : at[t] = "append"}

BufferRoom ==
  /\ fd # "closed" => Len(wbuf) <= BufSize
  /\ fd = "unopened" => file = <<>> /\ wbuf = <<>> /\ \A t \in Worker : at[t] \in {"out", "track", "real"}
  /\ fd = "closed" => Len(wbuf) + Cardinality(Appending) <= refill + Cardinality(Worker)

\* The inductive invariant of the allocation trace.
MemInv == Mem!TypeOK /\ BlocksOwned /\ TraceRight /\ BufferRoom

\* A record of the other kind than the last one of its block keeps the turns.
LEMMA TraceGrows ==
  ASSUME NEW L \in Seq(Mem!Record), NEW r \in Mem!Record
  PROVE  /\ ~ Ends(L, r.ptr, r.kind) /\ Alternates(L) => Alternates(Append(L, r))
         /\ \A p \in Ptr, kind \in {"A", "F"} :
              Ends(Append(L, r), p, kind) <=> IF p = r.ptr THEN kind = r.kind ELSE Ends(L, p, kind)
  <1> DEFINE A == Append(L, r)
             n == Len(L)
  <1>1. /\ n \in Nat /\ DOMAIN L = 1 .. n /\ DOMAIN A = 1 .. n + 1
        /\ \A i \in 1 .. n : A[i] = L[i] /\ i \in 1 .. n + 1 /\ i < n + 1 /\ ~ (n + 1 < i)
        /\ A[n + 1] = r /\ n + 1 \in 1 .. n + 1
        /\ \A i \in 1 .. n + 1 : i \in 1 .. n \/ i = n + 1
    OBVIOUS
  <1> HIDE DEF A, n
  <1>2. ASSUME NEW p \in Ptr, NEW kind \in {"A", "F"}
        PROVE  Ends(A, p, kind) <=> IF p = r.ptr THEN kind = r.kind ELSE Ends(L, p, kind)
    <2>1. CASE p = r.ptr
      <3>1. Ends(A, p, kind) => kind = r.kind
        BY <1>1, <2>1 DEF Ends
      <3>2. kind = r.kind => Ends(A, p, kind)
        <4>1. \A j \in DOMAIN A : ~ (n + 1 < j)
          BY <1>1
        <4> QED
          BY <1>1, <2>1, <4>1 DEF Ends
      <3> QED
        BY <2>1, <3>1, <3>2
    <2>2. CASE p # r.ptr
      <3>1. ASSUME Ends(A, p, kind) PROVE Ends(L, p, kind)
        <4>1. PICK i \in DOMAIN A : A[i].ptr = p /\ A[i].kind = kind /\ \A j \in DOMAIN A : i < j => A[j].ptr # p
          BY <3>1 DEF Ends
        <4>2. i \in 1 .. n
          BY <1>1, <2>2, <4>1
        <4>3. \A j \in 1 .. n : i < j => L[j].ptr # p
          BY <1>1, <4>1
        <4> QED
          BY <1>1, <4>1, <4>2, <4>3 DEF Ends
      <3>2. ASSUME Ends(L, p, kind) PROVE Ends(A, p, kind)
        <4>1. PICK i \in 1 .. n : L[i].ptr = p /\ L[i].kind = kind /\ \A j \in 1 .. n : i < j => L[j].ptr # p
          BY <1>1, <3>2 DEF Ends
        <4>2. \A j \in 1 .. n + 1 : i < j => A[j].ptr # p
          BY <1>1, <2>2, <4>1
        <4> QED
          BY <1>1, <4>1, <4>2 DEF Ends
      <3> QED
        BY <2>2, <3>1, <3>2
    <2> QED
      BY <2>1, <2>2
  <1>3. ASSUME ~ Ends(L, r.ptr, r.kind), Alternates(L),
               NEW i \in DOMAIN A, NEW j \in DOMAIN A,
               i < j, A[i].ptr = A[j].ptr, \A k \in i + 1 .. j - 1 : A[k].ptr # A[i].ptr
        PROVE  A[i].kind # A[j].kind
    <2>1. i \in 1 .. n
      BY <1>1, <1>3
    <2>2. CASE j = n + 1
      <3>1. \A k \in 1 .. n : i < k => k \in i + 1 .. j - 1
        BY <1>1, <2>1, <2>2
      <3>2. \A k \in 1 .. n : i < k => L[k].ptr # L[i].ptr
        BY <1>1, <1>3, <2>1, <3>1
      <3>3. L[i].ptr = r.ptr
        BY <1>1, <1>3, <2>1, <2>2
      <3>4. L[i].kind # r.kind
        BY <1>1, <1>3, <2>1, <3>2, <3>3 DEF Ends
      <3> QED
        BY <1>1, <2>1, <2>2, <3>4
    <2>3. CASE j \in 1 .. n
      <3>1. \A k \in i + 1 .. j - 1 : k \in 1 .. n
        BY <1>1, <2>1, <2>3
      <3>2. \A k \in i + 1 .. j - 1 : L[k].ptr # L[i].ptr
        BY <1>1, <1>3, <2>1, <3>1
      <3> QED
        BY <1>1, <1>3, <2>1, <2>3, <3>2 DEF Alternates
    <2> QED
      BY <1>1, <2>2, <2>3
  <1>4. ~ Ends(L, r.ptr, r.kind) /\ Alternates(L) => Alternates(A)
    <2> SUFFICES ASSUME ~ Ends(L, r.ptr, r.kind), Alternates(L) PROVE Alternates(A)
      OBVIOUS
    <2> QED
      BY <1>3 DEF Alternates
  <1> QED
    BY <1>2, <1>4 DEF A

\* The trace, the record of each thread and the threads about to append, by their types.
LEMMA MemTypes ==
  ASSUME Mem!TypeOK
  PROVE  /\ file \o wbuf \in Seq(Mem!Record) /\ Len(wbuf) \in Nat
         /\ \A t \in Worker : arg[t] \in Ptr /\ Kind(t) \in {"A", "F"} /\ Other(t) \in {"A", "F"} /\ Kind(t) # Other(t)
         /\ IsFiniteSet(Appending) /\ Cardinality(Appending) \in Nat /\ Cardinality(Worker) \in Nat
         /\ Cardinality(Appending) <= Cardinality(Worker)
         /\ BufSize \in Nat \ {0} /\ hole \in BOOLEAN /\ MaxAllocs \in Nat
  <1>1. file \o wbuf \in Seq(Mem!Record) /\ Len(wbuf) \in Nat
    BY ConcatProperties DEF Mem!TypeOK
  <1>2. \A t \in Worker : arg[t] \in Ptr /\ Kind(t) \in {"A", "F"} /\ Other(t) \in {"A", "F"} /\ Kind(t) # Other(t)
    BY DEF Mem!TypeOK, Kind, Other
  <1>3. Appending \subseteq Worker /\ IsFiniteSet(Worker) /\ BufSize \in Nat \ {0} /\ MaxAllocs \in Nat
    BY HostAssumption DEF Appending
  <1>4. IsFiniteSet(Appending) /\ Cardinality(Appending) <= Cardinality(Worker)
    BY <1>3, FS_Subset
  <1>5. Cardinality(Appending) \in Nat /\ Cardinality(Worker) \in Nat
    BY <1>3, <1>4, FS_CardinalityType
  <1>7. hole \in BOOLEAN
    BY DEF Mem!TypeOK
  <1> QED
    BY <1>1, <1>2, <1>3, <1>4, <1>5, <1>7

\* Nothing is allocated yet.
LEMMA MemInit == Mem!Init => MemInv
  <1> SUFFICES ASSUME Mem!Init PROVE MemInv
    OBVIOUS
  <1>1. /\ fd = "unopened" /\ wbuf = <<>> /\ file = <<>> /\ clock = 0 /\ allocs = 0 /\ untraced = {} /\ hole = FALSE /\ refill = 0
        /\ block \in [Ptr -> {"heap"}] /\ at \in [Worker -> {"out"}] /\ call \in [Worker -> {"malloc"}] /\ stamp \in [Worker -> {0}]
    BY DEF Mem!Init
  <1>2. arg \in [Worker -> Ptr]
    <2>1. PICK p \in Ptr : TRUE
      BY HostAssumption
    <2>2. (CHOOSE q \in Ptr : TRUE) \in Ptr
      BY <2>1
    <2> QED
      BY <2>2 DEF Mem!Init
  <1>3. MaxAllocs \in Nat /\ 0 \in 0 .. MaxAllocs /\ BufSize \in Nat \ {0}
    BY HostAssumption
  <1>4. wbuf \in Seq(Mem!Record) /\ file \in Seq(Mem!Record) /\ Len(wbuf) = 0
    BY <1>1
  <1>5. Mem!TypeOK
    <2>1. block \in [Ptr -> {"heap", "call", "program"}] /\ at \in [Worker -> {"out", "track", "check", "append", "real"}]
      BY <1>1
    <2>2. call \in [Worker -> {"malloc", "free", "realloc"}] /\ stamp \in [Worker -> Nat] /\ clock \in Nat
      BY <1>1
    <2> QED
      BY <1>1, <1>2, <1>3, <1>4, <2>1, <2>2 DEF Mem!TypeOK
  <1>6. BlocksOwned
    BY <1>1 DEF BlocksOwned
  <1>7. file \o wbuf = <<>>
    BY <1>1, <1>4, ConcatEmptySeq
  <1>8. TraceRight
    BY <1>1, <1>7 DEF TraceRight, TraceEnds, Alternates
  <1>9. BufferRoom
    BY <1>1, <1>3, <1>4 DEF BufferRoom
  <1> QED
    BY <1>5, <1>6, <1>8, <1>9 DEF MemInv

\* main opens the trace while no other thread runs.
LEMMA MemOpen == ASSUME MemInv, Mem!OpenTrace PROVE MemInv'
  <1>1. /\ fd = "unopened" /\ fd' = "open" /\ untraced' \subseteq Ptr
        /\ UNCHANGED <<block, at, call, arg, wbuf, file, clock, stamp, allocs, hole, refill>>
        /\ \A t \in Worker : at[t] = "out"
    BY DEF Mem!OpenTrace, Mem!Idle
  <1>2. Mem!TypeOK'
    BY <1>1 DEF MemInv, Mem!TypeOK
  <1>3. BlocksOwned'
    BY <1>1 DEF MemInv, BlocksOwned
  <1>4. file' \o wbuf' = file \o wbuf /\ file \o wbuf = <<>>
    <2>1. file = <<>> /\ wbuf = <<>>
      BY <1>1 DEF MemInv, BufferRoom
    <2>2. <<>> \in Seq(Mem!Record)
      OBVIOUS
    <2> QED
      BY <1>1, <2>1, <2>2, ConcatEmptySeq
  <1>5. \A p, k : ~ Ends(<<>>, p, k)
    BY DEF Ends
  <1>6. TraceRight'
    BY <1>1, <1>4, <1>5 DEF MemInv, TraceRight, TraceEnds, Alternates
  <1>7. BufferRoom'
    BY <1>1 DEF MemInv, BufferRoom
  <1> QED
    BY <1>2, <1>3, <1>6, <1>7 DEF MemInv

\* close_trace writes out what waits, or loses it.
LEMMA MemClose == ASSUME MemInv, Mem!CloseTrace PROVE MemInv'
  <1>1. /\ fd = "open" /\ fd' = "closing" /\ wbuf' = <<>>
        /\ (file' = file \o wbuf /\ hole' = hole) \/ (hole' = TRUE /\ file' = file)
        /\ UNCHANGED <<block, at, call, arg, clock, stamp, allocs, untraced, refill>>
    BY DEF Mem!CloseTrace
  <1>2. file \o wbuf \in Seq(Mem!Record) /\ <<>> \in Seq(Mem!Record) /\ BufSize \in Nat
    BY MemTypes DEF MemInv
  <1>3. Mem!TypeOK'
    BY <1>1, <1>2 DEF MemInv, Mem!TypeOK
  <1>4. BlocksOwned'
    BY <1>1 DEF MemInv, BlocksOwned
  <1>5. hole' = FALSE => hole = FALSE /\ file' \o wbuf' = file \o wbuf
    BY <1>1, <1>2, ConcatEmptySeq
  <1>6. TraceRight'
    <2>1. \A t \in Worker : Kind(t)' = Kind(t) /\ Other(t)' = Other(t)
      BY <1>1 DEF Kind, Other
    <2> QED
      BY <1>1, <1>5, <2>1 DEF MemInv, TraceRight, TraceEnds
  <1>7. Len(wbuf') = 0
    BY <1>1
  <1>8. BufferRoom'
    BY <1>1, <1>2, <1>7 DEF BufferRoom
  <1> QED
    BY <1>3, <1>4, <1>6, <1>8 DEF MemInv

\* It lets the threads about to append do so after the file is closed.
LEMMA MemCloseFile == ASSUME MemInv, Mem!CloseFile PROVE MemInv'
  <1>1. /\ fd = "closing" /\ fd' = "closed" /\ refill' = Len(wbuf)
        /\ UNCHANGED <<block, at, call, arg, wbuf, file, clock, stamp, allocs, untraced, hole>>
    BY DEF Mem!CloseFile
  <1>2. Len(wbuf) \in Nat /\ Cardinality(Appending) \in Nat /\ Cardinality(Worker) \in Nat
        /\ Cardinality(Appending) <= Cardinality(Worker)
    BY MemTypes DEF MemInv
  <1>3. Mem!TypeOK'
    BY <1>1, <1>2 DEF MemInv, Mem!TypeOK
  <1>4. BlocksOwned'
    BY <1>1 DEF MemInv, BlocksOwned
  <1>5. \A t \in Worker : Kind(t)' = Kind(t)
    BY <1>1 DEF Kind
  <1>6. TraceRight'
    BY <1>1, <1>5 DEF MemInv, TraceRight, TraceEnds
  <1>7. Appending' = Appending
    BY <1>1 DEF Appending
  <1>8. BufferRoom'
    BY <1>1, <1>2, <1>7 DEF BufferRoom
  <1> QED
    BY <1>3, <1>4, <1>6, <1>8 DEF MemInv

\* A call begins: the block is the thread's own from here on.
LEMMA MemCall ==
  ASSUME MemInv, NEW t \in Worker, NEW p \in Ptr, NEW c \in {"malloc", "free", "realloc"},
         at[t] = "out", block[p] = IF c = "malloc" THEN "heap" ELSE "program",
         block' = [block EXCEPT ![p] = "call"], arg' = [arg EXCEPT ![t] = p], call' = [call EXCEPT ![t] = c],
         at' = [at EXCEPT ![t] = "track"], allocs' \in 0 .. MaxAllocs,
         UNCHANGED <<fd, wbuf, file, clock, stamp, untraced, hole, refill>>
  PROVE  MemInv'
  <1>1. /\ Mem!TypeOK /\ BlocksOwned /\ TraceRight /\ BufferRoom
        /\ block \in [Ptr -> {"heap", "call", "program"}] /\ at \in [Worker -> {"out", "track", "check", "append", "real"}]
        /\ call \in [Worker -> {"malloc", "free", "realloc"}] /\ arg \in [Worker -> Ptr]
    BY DEF MemInv, Mem!TypeOK
  <1>2. /\ \A q \in Ptr : block'[q] = IF q = p THEN "call" ELSE block[q]
        /\ \A u \in Worker : /\ arg'[u] = IF u = t THEN p ELSE arg[u]
                             /\ call'[u] = IF u = t THEN c ELSE call[u]
                             /\ at'[u] = IF u = t THEN "track" ELSE at[u]
    BY <1>1
  <1>3. Mem!TypeOK'
    BY <1>1 DEF Mem!TypeOK
  <1>4. \A u \in Worker : at[u] # "out" => u # t /\ arg[u] # p
    BY <1>1 DEF BlocksOwned
  <1>5. BlocksOwned'
    BY <1>1, <1>2, <1>4 DEF BlocksOwned
  <1>6. Kind(t)' = (IF c = "malloc" THEN "A" ELSE "F") /\ \A u \in Worker : u # t => Kind(u)' = Kind(u) /\ Other(u)' = Other(u)
    BY <1>2 DEF Kind, Other
  <1>7. TraceEnds => TraceEnds'
    BY <1>1, <1>2, <1>6 DEF TraceEnds
  <1>8. TraceRight'
    BY <1>1, <1>2, <1>6, <1>7 DEF TraceRight
  <1>9. Appending' = Appending
    BY <1>2, <1>4 DEF Appending
  <1>10. BufferRoom'
    BY <1>1, <1>2, <1>9 DEF BufferRoom
  <1> QED
    BY <1>3, <1>5, <1>8, <1>10 DEF MemInv

\* malloc: no one else has the block.
LEMMA MemMalloc == ASSUME MemInv, NEW t \in Worker, Mem!Malloc(t) PROVE MemInv'
  <1>1. PICK p \in Ptr : block[p] = "heap" /\ block' = [block EXCEPT ![p] = "call"] /\ arg' = [arg EXCEPT ![t] = p]
    BY DEF Mem!Malloc
  <1>2. allocs' \in 0 .. MaxAllocs
    <2>1. allocs \in 0 .. MaxAllocs /\ allocs < MaxAllocs /\ allocs' = allocs + 1 /\ MaxAllocs \in Nat
      BY HostAssumption DEF Mem!Malloc, MemInv, Mem!TypeOK
    <2> QED
      BY <2>1
  <1>3. /\ at[t] = "out" /\ call' = [call EXCEPT ![t] = "malloc"] /\ at' = [at EXCEPT ![t] = "track"]
        /\ UNCHANGED <<fd, wbuf, file, clock, stamp, untraced, hole, refill>>
    BY DEF Mem!Malloc
  <1> QED
    BY <1>1, <1>2, <1>3, MemCall

\* free and realloc: the program had it.
LEMMA MemFree == ASSUME MemInv, NEW t \in Worker, Mem!Free(t) PROVE MemInv'
  <1>1. PICK p \in Ptr : block[p] = "program" /\ block' = [block EXCEPT ![p] = "call"] /\ arg' = [arg EXCEPT ![t] = p]
    BY DEF Mem!Free
  <1>2. PICK c \in {"free", "realloc"} : call' = [call EXCEPT ![t] = c]
    BY DEF Mem!Free
  <1>3. allocs' \in 0 .. MaxAllocs
    <2>1. allocs \in 0 .. MaxAllocs /\ MaxAllocs \in Nat /\ (allocs' = allocs \/ (allocs < MaxAllocs /\ allocs' = allocs + 1))
      BY HostAssumption DEF Mem!Free, MemInv, Mem!TypeOK
    <2> QED
      BY <2>1
  <1>4. /\ at[t] = "out" /\ at' = [at EXCEPT ![t] = "track"]
        /\ UNCHANGED <<fd, wbuf, file, clock, stamp, untraced, hole, refill>>
    BY DEF Mem!Free
  <1> QED
    BY <1>1, <1>2, <1>3, <1>4, MemCall

\* A thread goes on in its call: the trace and the blocks stay.
LEMMA MemGoesOn ==
  ASSUME MemInv, NEW t \in Worker, NEW w \in {"check", "append", "real"}, at[t] \in {"track", "check"},
         at' = [at EXCEPT ![t] = w], w = "real" <=> fd \notin {"open", "closing"},
         clock' \in Nat, stamp' \in [Worker -> Nat],
         UNCHANGED <<fd, block, call, arg, wbuf, file, allocs, untraced, hole, refill>>
  PROVE  MemInv'
  <1>1. /\ Mem!TypeOK /\ BlocksOwned /\ TraceRight /\ BufferRoom
        /\ at \in [Worker -> {"out", "track", "check", "append", "real"}] /\ fd \in {"unopened", "open", "closing", "closed"}
    BY DEF MemInv, Mem!TypeOK
  <1>2. \A u \in Worker : at'[u] = IF u = t THEN w ELSE at[u]
    BY <1>1
  <1>3. Mem!TypeOK'
    BY <1>1 DEF Mem!TypeOK
  <1>4. BlocksOwned'
    BY <1>1, <1>2 DEF BlocksOwned
  <1>5. \A u \in Worker : Kind(u)' = Kind(u) /\ Other(u)' = Other(u)
    BY DEF Kind, Other
  <1>6. TraceRight'
    BY <1>1, <1>2, <1>5 DEF TraceRight, TraceEnds
  <1>7. fd \notin {"open", "closing"} => Appending' = Appending
    BY <1>2 DEF Appending
  <1>8. BufferRoom'
    BY <1>1, <1>2, <1>7 DEF BufferRoom
  <1> QED
    BY <1>3, <1>4, <1>6, <1>8 DEF MemInv

\* track_alloc, track_free and write_record look whether there is a trace.
LEMMA MemCheck == ASSUME MemInv, NEW t \in Worker, Mem!Check(t) PROVE MemInv'
  <1>1. /\ at[t] \in {"track", "check"}
        /\ UNCHANGED <<fd, block, call, arg, wbuf, file, allocs, untraced, hole, refill>>
    BY DEF Mem!Check, Mem!Tracing
  <1>2. clock' \in Nat /\ stamp' \in [Worker -> Nat]
    BY DEF Mem!Check, MemInv, Mem!TypeOK
  <1>3. PICK w \in {"check", "append", "real"} : at' = [at EXCEPT ![t] = w] /\ (w = "real" <=> fd \notin {"open", "closing"})
    <2>1. CASE fd \notin {"open", "closing"}
      BY <2>1 DEF Mem!Check, Mem!Tracing
    <2>2. CASE fd \in {"open", "closing"} /\ at[t] = "track"
      BY <2>2 DEF Mem!Check, Mem!Tracing
    <2>3. CASE fd \in {"open", "closing"} /\ at[t] # "track"
      BY <2>3 DEF Mem!Check, Mem!Tracing
    <2> QED
      BY <2>1, <2>2, <2>3
  <1> QED
    BY <1>1, <1>2, <1>3, MemGoesOn

\* A call ends without another record.
LEMMA MemEnds ==
  ASSUME MemInv, NEW t \in Worker, at[t] = "real", NEW b \in {"heap", "program"},
         block' = [block EXCEPT ![arg[t]] = b], at' = [at EXCEPT ![t] = "out"],
         hole' = TRUE \/ (hole' = hole /\ b = IF call[t] = "malloc" THEN "program" ELSE "heap"),
         untraced' \in SUBSET Ptr,
         UNCHANGED <<fd, call, arg, wbuf, file, clock, stamp, allocs, refill>>
  PROVE  MemInv'
  <1>1. /\ Mem!TypeOK /\ BlocksOwned /\ TraceRight /\ BufferRoom
        /\ block \in [Ptr -> {"heap", "call", "program"}] /\ at \in [Worker -> {"out", "track", "check", "append", "real"}]
        /\ arg \in [Worker -> Ptr] /\ call \in [Worker -> {"malloc", "free", "realloc"}] /\ hole \in BOOLEAN
    BY DEF MemInv, Mem!TypeOK
  <1>2. /\ \A u \in Worker : at'[u] = IF u = t THEN "out" ELSE at[u]
        /\ \A q \in Ptr : block'[q] = IF q = arg[t] THEN b ELSE block[q]
    BY <1>1
  <1>3. Mem!TypeOK'
    BY <1>1 DEF Mem!TypeOK
  <1>4. BlocksOwned'
    BY <1>1, <1>2 DEF BlocksOwned
  <1>5. \A u \in Worker : Kind(u)' = Kind(u) /\ Other(u)' = Other(u)
    BY DEF Kind, Other
  <1>6. TraceRight'
    <2> SUFFICES ASSUME hole' = FALSE PROVE TraceRight'
      BY DEF TraceRight
    <2>1. hole = FALSE /\ b = IF call[t] = "malloc" THEN "program" ELSE "heap"
      BY <1>1
    <2>2. TraceEnds => TraceEnds'
      <3> SUFFICES ASSUME TraceEnds, fd \in {"open", "closing"} PROVE TraceEnds'
        BY DEF TraceEnds
      <3>1. ~ Ends(file \o wbuf, arg[t], Other(t))
        BY DEF TraceEnds
      <3>2. b = "heap" => ~ Ends(file \o wbuf, arg[t], "A")
        BY <2>1, <3>1 DEF Other
      <3>3. b = "program" => ~ Ends(file \o wbuf, arg[t], "F")
        BY <2>1, <3>1 DEF Other
      <3> QED
        BY <1>1, <1>2, <1>5, <3>2, <3>3 DEF TraceEnds
    <2> QED
      BY <1>1, <1>2, <1>5, <2>1, <2>2 DEF TraceRight
  <1>7. Appending' = Appending
    BY <1>2 DEF Appending
  <1>8. BufferRoom'
    BY <1>1, <1>2, <1>7 DEF BufferRoom
  <1> QED
    BY <1>3, <1>4, <1>6, <1>8 DEF MemInv

\* malloc returns.
LEMMA MemReturn == ASSUME MemInv, NEW t \in Worker, Mem!Return(t) PROVE MemInv'
  <1>1. /\ at[t] = "real" /\ call[t] = "malloc" /\ block' = [block EXCEPT ![arg[t]] = "program"]
        /\ at' = [at EXCEPT ![t] = "out"]
        /\ UNCHANGED <<fd, call, arg, wbuf, file, clock, stamp, allocs, untraced, hole, refill>>
    BY DEF Mem!Return
  <1>2. untraced' \in SUBSET Ptr
    BY <1>1 DEF MemInv, Mem!TypeOK
  <1> QED
    BY <1>1, <1>2, MemEnds

\* __real_free: the block has been recorded as freed.
LEMMA MemRealFree == ASSUME MemInv, NEW t \in Worker, Mem!RealFree(t) PROVE MemInv'
  <1>1. /\ at[t] = "real" /\ call[t] = "free" /\ block' = [block EXCEPT ![arg[t]] = "heap"]
        /\ untraced' = untraced \ {arg[t]}
        /\ at' = [at EXCEPT ![t] = "out"]
        /\ UNCHANGED <<fd, call, arg, wbuf, file, clock, stamp, allocs, hole, refill>>
    BY DEF Mem!RealFree
  <1>2. untraced' \in SUBSET Ptr
    BY <1>1 DEF MemInv, Mem!TypeOK
  <1> QED
    BY <1>1, <1>2, MemEnds

\* A realloc has let go of its block and calls malloc's wrapper for another, or
\* for the same.
LEMMA MemMoves ==
  ASSUME MemInv, NEW t \in Worker, NEW p \in Ptr, at[t] = "real", call[t] = "realloc",
         block[p] = "heap" \/ p = arg[t],
         block' = [block EXCEPT ![arg[t]] = "heap", ![p] = "call"], arg' = [arg EXCEPT ![t] = p],
         untraced' = untraced \ {arg[t]},
         call' = [call EXCEPT ![t] = "malloc"], at' = [at EXCEPT ![t] = "track"],
         UNCHANGED <<fd, wbuf, file, clock, stamp, allocs, hole, refill>>
  PROVE  MemInv'
  <1>1. /\ Mem!TypeOK /\ BlocksOwned /\ TraceRight /\ BufferRoom
        /\ block \in [Ptr -> {"heap", "call", "program"}] /\ at \in [Worker -> {"out", "track", "check", "append", "real"}]
        /\ call \in [Worker -> {"malloc", "free", "realloc"}] /\ arg \in [Worker -> Ptr]
    BY DEF MemInv, Mem!TypeOK
  <1>2. /\ \A q \in Ptr : block'[q] = IF q = p THEN "call" ELSE IF q = arg[t] THEN "heap" ELSE block[q]
        /\ \A u \in Worker : /\ arg'[u] = IF u = t THEN p ELSE arg[u]
                             /\ call'[u] = IF u = t THEN "malloc" ELSE call[u]
                             /\ at'[u] = IF u = t THEN "track" ELSE at[u]
    BY <1>1
  <1>3. Mem!TypeOK'
    <2>1. block' \in [Ptr -> {"heap", "call", "program"}]
      BY <1>1
    <2> QED
      BY <1>1, <2>1 DEF Mem!TypeOK
  <1>4. \A u \in Worker : u # t /\ at[u] # "out" => arg[u] # p /\ arg[u] # arg[t]
    BY <1>1 DEF BlocksOwned
  <1>5. BlocksOwned'
    BY <1>1, <1>2, <1>4 DEF BlocksOwned
  <1>6. Kind(t)' = "A" /\ Other(t) = "A" /\ \A u \in Worker : u # t => Kind(u)' = Kind(u) /\ Other(u)' = Other(u)
    BY <1>2 DEF Kind, Other
  <1>7. TraceEnds => TraceEnds'
    <2> SUFFICES ASSUME TraceEnds, fd \in {"open", "closing"} PROVE TraceEnds'
      BY DEF TraceEnds
    <2>1. ~ Ends(file \o wbuf, arg[t], "A")
      BY <1>6 DEF TraceEnds
    <2>2. ~ Ends(file \o wbuf, p, "A")
      BY <2>1 DEF TraceEnds
    <2> QED
      BY <1>1, <1>2, <1>6, <2>1, <2>2 DEF TraceEnds
  <1>8. TraceRight'
    BY <1>1, <1>2, <1>6, <1>7 DEF TraceRight
  <1>9. Appending' = Appending
    BY <1>2 DEF Appending
  <1>10. BufferRoom'
    BY <1>1, <1>2, <1>9 DEF BufferRoom
  <1> QED
    BY <1>3, <1>5, <1>8, <1>10 DEF MemInv

\* __real_realloc: the block moves, stays, or there is no memory.
LEMMA MemRealRealloc == ASSUME MemInv, NEW t \in Worker, Mem!RealRealloc(t) PROVE MemInv'
  <1>1. at[t] = "real" /\ call[t] = "realloc" /\ UNCHANGED <<fd, wbuf, file, clock, stamp, allocs, refill>>
    BY DEF Mem!RealRealloc
  <1>2. CASE /\ block' = [block EXCEPT ![arg[t]] = "program"]
             /\ hole' = TRUE
             /\ at' = [at EXCEPT ![t] = "out"]
             /\ UNCHANGED <<call, arg, untraced>>
    <2>1. untraced' \in SUBSET Ptr
      BY <1>2 DEF MemInv, Mem!TypeOK
    <2> QED
      BY <1>1, <1>2, <2>1, MemEnds
  <1>3. CASE /\ \E p \in Ptr :
                  /\ block[p] = "heap" \/ p = arg[t]
                  /\ block' = [block EXCEPT ![arg[t]] = "heap", ![p] = "call"]
                  /\ arg' = [arg EXCEPT ![t] = p]
             /\ untraced' = untraced \ {arg[t]}
             /\ call' = [call EXCEPT ![t] = "malloc"]
             /\ at' = [at EXCEPT ![t] = "track"]
             /\ UNCHANGED hole
    BY <1>1, <1>3, MemMoves
  <1> QED
    BY <1>2, <1>3 DEF Mem!RealRealloc

\* write_record appends, after it has written the buffer out if that is full.
LEMMA MemAppend == ASSUME MemInv, NEW t \in Worker, Mem!Append_(t) PROVE MemInv'
  <1> DEFINE kind == IF call[t] = "malloc" THEN "A" ELSE "F"
             rec == [kind |-> kind, ptr |-> arg[t], ts |-> stamp[t], nf |-> IF kind = "A" THEN 1 ELSE 0]
             L == file \o wbuf
  <1>1. /\ Mem!TypeOK /\ BlocksOwned /\ TraceRight /\ BufferRoom
        /\ at \in [Worker -> {"out", "track", "check", "append", "real"}] /\ stamp \in [Worker -> Nat] /\ arg \in [Worker -> Ptr]
        /\ call \in [Worker -> {"malloc", "free", "realloc"}]
        /\ file \in Seq(Mem!Record) /\ wbuf \in Seq(Mem!Record) /\ hole \in BOOLEAN
    BY DEF MemInv, Mem!TypeOK
  <1>2. /\ at[t] = "append" /\ at' = [at EXCEPT ![t] = "real"] /\ stamp' = [stamp EXCEPT ![t] = 0]
        /\ UNCHANGED <<fd, block, call, arg, clock, allocs, untraced, refill>>
    BY DEF Mem!Append_
  <1>3. rec \in Mem!Record /\ rec.ptr = arg[t] /\ rec.kind = Kind(t)
    BY <1>1 DEF Mem!Record, Kind
  <1>4. \/ /\ Len(wbuf) < BufSize \/ fd \notin {"open", "closing"}
           /\ wbuf' = Append(wbuf, rec) /\ file' = file /\ hole' = hole
        \/ /\ fd \in {"open", "closing"} /\ wbuf' = <<rec>>
           /\ (file' = file \o wbuf /\ hole' = hole) \/ (hole' = TRUE /\ file' = file)
    BY DEF Mem!Append_, Mem!Tracing
  <1>5. /\ L \in Seq(Mem!Record) /\ Len(wbuf) \in Nat /\ Kind(t) # Other(t) /\ Kind(t) \in {"A", "F"} /\ Other(t) \in {"A", "F"}
        /\ \A u \in Worker : arg[u] \in Ptr /\ Kind(u) \in {"A", "F"} /\ Other(u) \in {"A", "F"}
        /\ BufSize \in Nat \ {0} /\ IsFiniteSet(Appending) /\ Cardinality(Appending) \in Nat /\ Cardinality(Worker) \in Nat
    BY <1>1, MemTypes
  <1>6. hole' = FALSE => hole = FALSE /\ file' \o wbuf' = Append(L, rec)
    <2>1. CASE wbuf' = Append(wbuf, rec) /\ file' = file /\ hole' = hole
      BY <1>1, <1>3, <2>1, AppendWaits
    <2>2. CASE wbuf' = <<rec>> /\ file' = file \o wbuf /\ hole' = hole
      <3>1. Append(L, rec) = L \o <<rec>>
        BY <1>3, <1>5, AppendIsConcat
      <3> QED
        BY <2>2, <3>1
    <2> QED
      BY <1>4, <2>1, <2>2
  <1> HIDE DEF rec, kind, L
  <1>7. \A u \in Worker : at'[u] = IF u = t THEN "real" ELSE at[u]
    BY <1>1, <1>2
  <1>8. Mem!TypeOK'
    <2>1. file' \in Seq(Mem!Record) /\ wbuf' \in Seq(Mem!Record) /\ hole' \in BOOLEAN
      <3>1. file \o wbuf \in Seq(Mem!Record) /\ <<rec>> \in Seq(Mem!Record) /\ Append(wbuf, rec) \in Seq(Mem!Record)
        BY <1>1, <1>3, <1>5 DEF L
      <3>2. file' = file \/ file' = file \o wbuf
        BY <1>4
      <3>3. wbuf' = <<rec>> \/ wbuf' = Append(wbuf, rec)
        BY <1>4
      <3>4. hole' = hole \/ hole' = TRUE
        BY <1>4
      <3> QED
        BY <1>1, <3>1, <3>2, <3>3, <3>4
    <2>2. at' \in [Worker -> {"out", "track", "check", "append", "real"}] /\ stamp' \in [Worker -> Nat]
      BY <1>1, <1>2
    <2> QED
      BY <1>1, <1>2, <2>1, <2>2 DEF Mem!TypeOK
  <1>9. BlocksOwned'
    BY <1>1, <1>2, <1>7 DEF BlocksOwned
  <1>10. \A u \in Worker : Kind(u)' = Kind(u) /\ Other(u)' = Other(u)
    BY <1>2 DEF Kind, Other
  <1>11. TraceRight'
    <2> SUFFICES ASSUME hole' = FALSE PROVE TraceRight'
      BY DEF TraceRight
    <2>1. hole = FALSE /\ (file \o wbuf)' = Append(L, rec)
      BY <1>6
    <2>2. Alternates(L) /\ ~ Ends(L, arg[t], Kind(t)) /\ TraceEnds
      BY <1>1, <1>2, <2>1 DEF TraceRight, L
    <2>3. /\ Alternates((file \o wbuf)')
          /\ \A p \in Ptr, k \in {"A", "F"} : Ends((file \o wbuf)', p, k) <=> IF p = arg[t] THEN k = Kind(t) ELSE Ends(L, p, k)
      BY <1>3, <1>5, <2>1, <2>2, TraceGrows
    <2>4. block[arg[t]] = "call" /\ \A u \in Worker : u # t /\ at[u] # "out" => arg[u] # arg[t]
      BY <1>1, <1>2 DEF BlocksOwned
    <2>5. TraceEnds'
      <3> SUFFICES ASSUME fd \in {"open", "closing"} PROVE TraceEnds'
        BY <1>2 DEF TraceEnds
      <3>1. \A p \in Ptr : block'[p] = "heap" => ~ Ends((file \o wbuf)', p, "A")
        BY <1>2, <2>2, <2>3, <2>4 DEF TraceEnds, L
      <3>2. \A p \in Ptr : block'[p] = "program" => ~ Ends((file \o wbuf)', p, "F")
        BY <1>2, <2>2, <2>3, <2>4 DEF TraceEnds, L
      <3>3. \A u \in Worker : at'[u] \in {"track", "check"} => ~ Ends((file \o wbuf)', arg'[u], Kind(u)')
        BY <1>2, <1>5, <1>7, <1>10, <2>2, <2>3, <2>4 DEF TraceEnds, L
      <3>4. \A u \in Worker : at'[u] = "real" => ~ Ends((file \o wbuf)', arg'[u], Other(u)')
        BY <1>2, <1>5, <1>7, <1>10, <2>2, <2>3, <2>4 DEF TraceEnds, L
      <3> QED
        BY <3>1, <3>2, <3>3, <3>4 DEF TraceEnds
    <2>6. \A u \in Worker : at'[u] = "append" => ~ Ends((file \o wbuf)', arg'[u], Kind(u)')
      <3> SUFFICES ASSUME NEW u \in Worker, at'[u] = "append" PROVE ~ Ends((file \o wbuf)', arg[u], Kind(u))
        BY <1>2, <1>10
      <3>1. u # t /\ at[u] = "append"
        BY <1>7
      <3>2. arg[u] # arg[t] /\ arg[u] \in Ptr /\ Kind(u) \in {"A", "F"}
        BY <1>5, <2>4, <3>1
      <3>3. ~ Ends(L, arg[u], Kind(u))
        BY <1>1, <2>1, <3>1 DEF TraceRight, L
      <3> QED
        BY <2>3, <3>2, <3>3
    <2> QED
      BY <2>3, <2>5, <2>6 DEF TraceRight
  <1>12. BufferRoom'
    <2>1. Appending' = Appending \ {t} /\ t \in Appending
      BY <1>2, <1>7 DEF Appending
    <2>2. Cardinality(Appending') = Cardinality(Appending) - 1
      BY <1>5, <2>1, FS_RemoveElement
    <2>3. fd # "unopened"
      BY <1>1, <1>2 DEF BufferRoom
    <2>4. CASE (Len(wbuf) < BufSize \/ fd \notin {"open", "closing"}) /\ wbuf' = Append(wbuf, rec)
      <3>1. Len(wbuf') = Len(wbuf) + 1
        BY <1>1, <2>4
      <3>2. fd = "closed" => Len(wbuf') + Cardinality(Appending') <= refill + Cardinality(Worker)
        BY <1>1, <1>5, <2>2, <3>1 DEF BufferRoom, Mem!TypeOK
      <3>3. fd \in {"open", "closing"} => Len(wbuf) < BufSize
        BY <2>4
      <3>4. fd \in {"unopened", "open", "closing", "closed"}
        BY <1>1 DEF Mem!TypeOK
      <3>5. fd # "closed" => Len(wbuf') <= BufSize
        BY <1>5, <2>3, <3>1, <3>3, <3>4
      <3> QED
        BY <1>2, <2>3, <3>2, <3>5 DEF BufferRoom
    <2>5. CASE fd \in {"open", "closing"} /\ wbuf' = <<rec>>
      <3>1. Len(wbuf') = 1
        BY <2>5
      <3> QED
        BY <1>2, <1>5, <2>5, <3>1 DEF BufferRoom
    <2> QED
      BY <1>4, <2>4, <2>5
  <1> QED
    BY <1>8, <1>9, <1>11, <1>12 DEF MemInv

\* No step of a thread, of main or of a crash disturbs it.
LEMMA MemStep == MemInv /\ [Mem!Next]_memVars => MemInv'
  <1> SUFFICES ASSUME MemInv, [Mem!Next]_memVars PROVE MemInv'
    OBVIOUS
  <1>1. CASE UNCHANGED memVars
    <2>1. Appending' = Appending /\ \A t \in Worker : Kind(t)' = Kind(t) /\ Other(t)' = Other(t)
      BY <1>1 DEF memVars, Appending, Kind, Other
    <2> QED
      BY <1>1, <2>1 DEF memVars, MemInv, Mem!TypeOK, BlocksOwned, TraceRight, TraceEnds, BufferRoom
  <1> QED
    BY <1>1, MemOpen, MemClose, MemCloseFile, MemMalloc, MemFree, MemCheck, MemAppend, MemReturn, MemRealFree, MemRealRealloc DEF Mem!Next

\* It says that the trace can be replayed, and how much the buffer takes.
LEMMA MemHolds == MemInv => Mem!TraceReplays /\ Mem!BufferFits
  <1> SUFFICES ASSUME MemInv PROVE Mem!TraceReplays /\ Mem!BufferFits
    OBVIOUS
  <1>1. Mem!TraceReplays
    BY DEF MemInv, TraceRight, Alternates, Mem!TraceReplays, Mem!TypeOK
  <1>2. Mem!BufferFits
    <2>1. Len(wbuf) \in Nat /\ Cardinality(Appending) \in Nat /\ Cardinality(Worker) \in Nat /\ refill \in Nat
      BY MemTypes DEF MemInv, Mem!TypeOK
    <2>2. Mem!Cardinality(Worker) = Cardinality(Worker)
      BY DEF Mem!Cardinality, Cardinality
    <2> QED
      BY <2>1, <2>2 DEF MemInv, BufferRoom, Mem!BufferFits
  <1> QED
    BY <1>1, <1>2

-----------------------------------------------------------------------------

(* The services together. *)

\* What holds of each of them at any time.
HostInv ==
  /\ TypeOK /\ StoreInv /\ RecordsInv /\ IpcInv /\ MemInv
  /\ LogInv /\ KeysInv /\ ShotsInv /\ PscInv

\* A step is one of a single service; to the others it is a stutter.
LEMMA HostStep == HostInv /\ [HostNext]_hostVars => HostInv'
  <1> SUFFICES ASSUME HostInv, [HostNext]_hostVars PROVE HostInv'
    OBVIOUS
  <1>1. [Next]_vars
    BY DEF HostNext, hostVars, idVars, vars
  <1>2. [Store!Next]_storeVars /\ [Paired!Next]_recVars
    BY DEF HostNext, hostVars
  <1>3. [Ipc!Next]_ipcVars /\ [Mem!Next]_memVars
    BY DEF HostNext, hostVars
  <1>4. [Log!Next]_logVars /\ [Keys!Next]_keysVars
    BY DEF HostNext, hostVars
  <1>5. [Shots!Next]_shotsVars /\ [Psc!Next]_pscVars
    BY DEF HostNext, hostVars
  <1> QED
    BY <1>1, <1>2, <1>3, <1>4, <1>5, TypeStep, StoreStep, RecordsStep, IpcStep, MemStep, LogStep, KeysStep, ShotsStep, PscStep
    DEF HostInv

\* The invariants of the services, which the theorems below rest on, hold from the
\* start and through every step.
THEOREM HostInductive == HostSpec => []HostInv
  <1>1. HostInit => HostInv
    <2>1. Init => TypeOK
      BY InitIInv DEF IInv
    <2> QED
      BY <2>1, StoreInit, RecordsInit, IpcInit, MemInit, LogInit, KeysInit, ShotsInit, PscInit DEF HostInit, HostInv
  <1> QED
    BY <1>1, HostStep, PTL DEF HostSpec

\* Every variable keeps its type, through every failure and power cut.
THEOREM TypesOKTheorem == HostSpec => []TypesOK
  <1>1. HostInv => TypesOK
    BY DEF HostInv, StoreInv, RecordsInv, IpcInv, MemInv, LogInv, LogOrder, KeysInv, ShotsInv, PscInv, TypesOK
  <1> QED
    BY <1>1, HostInductive, PTL

\* A choice lasts over a restart, and every program uses it whose IPC service started; a
\* torn settings file is all defaults, and the screen shows what is in effect.  A device that was saved is found as it was, and
\* of a save that was broken off (write_file sizes the file before it writes) the
\* first chunk is never a mixture.
THEOREM FilesHoldTheorem == HostSpec => []FilesHold
  <1>1. HostInv => FilesHold
    BY StoreHolds, RecordsHold DEF HostInv, FilesHold
  <1> QED
    BY <1>1, HostInductive, PTL

\* The server thread waits for exactly the sessions it has open, each once, whoever
\* connects, disconnects or breaks off while it serves; and the overlay's use count
\* is one exactly if it has a session or is about to.
THEOREM TableIsOpenTheorem == HostSpec => []TableIsOpen
  <1>1. HostInv => TableIsOpen
    BY IpcHolds DEF HostInv, TableIsOpen
  <1> QED
    BY <1>1, HostInductive, PTL

\* For any number of pictures and polls: the screenshot that is sent was not in the
\* album when the command began, whoever pressed the button, unless the album could not
\* be read then; and it is complete when it is opened.
THEOREM SentIsNewTheorem == HostSpec => []SentIsNew
  <1>1. HostInv => SentIsNew
    BY ShotsHold DEF HostInv, SentIsNew
  <1> QED
    BY <1>1, HostInductive, PTL

\* For any number of users that come and go: hiddbg is initialised while it has users
\* and only then, unless an initialisation has failed; no key stays pressed; and the
\* layout of the user is back after the last one has typed, unless two have done so
\* together.
THEOREM KeyboardIsBackTheorem == HostSpec => []KeyboardIsBack
  <1>1. HostInv => KeyboardIsBack
    BY KeysHold DEF HostInv, KeyboardIsBack
  <1> QED
    BY <1>1, HostInductive, PTL

\* For any size of the cache and any number of failures: the host gets the messages in
\* order, unless a connection is made beside a thread that is writing its own; and
\* where messages are missing there is a warning, but for at most one message for each
\* connection that failed while it was sent, and one for the shutdown.
THEOREM LogIsToldTheorem == HostSpec => []LogIsTold
  <1>1. HostInv => LogIsTold
    BY LogHolds DEF HostInv, LogIsTold
  <1> QED
    BY <1>1, HostInductive, PTL

\* The monitor has understood the last state it acknowledged, so that the client is
\* paused while the console sleeps, and its thread has ended when it is destroyed:
\* whatever the order of thread_func, stop() and the power manager.
THEOREM AwakeIsKnownTheorem == HostSpec => []AwakeIsKnown
  <1>1. HostInv => AwakeIsKnown
    BY DEF HostInv, PscInv, PscHistory, PscPlaces, AwakeIsKnown, Psc!AwakeIsKnown, Psc!EndsFirst
  <1> QED
    BY <1>1, HostInductive, PTL

\* The allocation trace: a block is never allocated twice nor freed twice in it,
\* although free is recorded before it is made and malloc after, by threads that do
\* not wait for each other; the buffer does not run over while there is a file, and
\* after that takes no more than one record of each thread.
THEOREM TraceIsReplayable == HostSpec => [](part = "mem" => Mem!TraceReplays /\ Mem!BufferFits)
  <1>1. HostInv => (part = "mem" => Mem!TraceReplays /\ Mem!BufferFits)
    BY MemHolds DEF HostInv
  <1> QED
    BY <1>1, HostInductive, PTL

=============================================================================
