------------------------------ MODULE Identity ------------------------------
(***************************************************************************)
(* The TLS identity of the console: TlsContext::load_or_create             *)
(* (sysmodule/src/net/tls.cpp) on the files of Storage                     *)
(* (sysmodule/src/utils/storage.cpp), with a power cut between any two     *)
(* accesses to the SD card and with accesses that fail.                    *)
(*                                                                         *)
(* An identity is a key, with the certificate and the device id that were  *)
(* made for it.  Every client that is started has a TlsContext of its own. *)
(***************************************************************************)
EXTENDS Naturals

CONSTANTS
  MaxIdent,   \* bound: the identities generated
  ReadsFail   \* whether read_file may fail on a file that is there

ASSUME IdentityAssumption == MaxIdent \in Nat /\ ReadsFail \in BOOLEAN

VARIABLES
  pc,     \* where start() is
  disk,   \* what the two files hold
  chain,  \* the first certificate of cert_: the one that is presented
  key,    \* key_
  devId,  \* device_id_
  how,    \* history: how the client came by its identity
  made,   \* the number of identities generated
  known   \* history: the identity the first client ran with

vars == <<pc, disk, chain, key, devId, how, made, known>>
memory == <<chain, key, devId, how>>

Ident == 1 .. MaxIdent
None == 0          \* no identity: nothing in memory
Absent == 0        \* no file
Torn == MaxIdent + 1   \* a file with something in it that does not parse

File == {"cert", "key"}
Content == Ident \cup {Absent, Torn}

\* Where write_file is at work on each of the files.
WritePc(f) == IF f = "cert" THEN {"cert_open", "cert_write"} ELSE {"key_open", "key_write"}

TypeOK ==
  /\ pc \in {"load", "generate", "parse", "running", "failed"} \cup WritePc("cert") \cup WritePc("key")
  /\ disk \in [File -> Content]
  /\ chain \in Ident \cup {None}
  /\ key \in Ident \cup {None}
  /\ devId \in Ident \cup {None}
  /\ how \in {"none", "loaded", "generated"}
  /\ made \in 0 .. MaxIdent
  /\ known \in Ident \cup {None}

Init ==
  /\ pc = "load"
  /\ disk = [f \in File |-> Absent]
  /\ chain = None /\ key = None /\ devId = None /\ how = "none"
  /\ made = 0
  /\ known = None

\* A new client, with a new TlsContext.
Fresh ==
  /\ pc' = "load"
  /\ chain' = None /\ key' = None /\ devId' = None /\ how' = "none"
  /\ UNCHANGED <<disk, made, known>>

-----------------------------------------------------------------------------
(* load_from_files.                                                        *)

\* What read_file returns; an empty string (Absent) if it fails.
Read(f) == IF ReadsFail THEN {disk[f], Absent} ELSE {disk[f]}

Running(k) ==
  /\ pc' = "running"
  /\ known' = IF known = None THEN k ELSE known

\* Mutant: the result of parsing the key is not looked at.
LoadUnparsed ==
  /\ pc = "load"
  /\ \E c \in Read("cert"), k \in Read("key") :
       IF c \in Ident /\ k # Absent
       THEN chain' = c /\ key' = k /\ devId' = c /\ how' = "loaded" /\ Running(c)
       ELSE pc' = "generate" /\ UNCHANGED <<memory, known>>
  /\ UNCHANGED <<disk, made>>

\* A certificate that was parsed stays in cert_ when the key turns out not to
\* parse; nothing checks that the two belong together.
Load ==
  /\ pc = "load"
  /\ \E c \in Read("cert"), k \in Read("key") :
       IF c \in Ident /\ k \in Ident
       THEN chain' = c /\ key' = k /\ devId' = c /\ how' = "loaded" /\ Running(c)
       ELSE /\ chain' = IF c \in Ident /\ k = Torn THEN c ELSE None
            /\ pc' = "generate"
            /\ UNCHANGED <<key, devId, how, known>>
  /\ UNCHANGED <<disk, made>>

-----------------------------------------------------------------------------
(* generate_self_signed.                                                   *)

Generate ==
  /\ pc = "generate"
  /\ made < MaxIdent
  /\ made' = made + 1
  /\ key' = made + 1 /\ devId' = made + 1
  /\ pc' = "cert_open"
  /\ UNCHANGED <<disk, chain, how, known>>

\* write_file: the file is created, or opened and given its new size.  If that
\* is its old size, it still holds what it held.
WriteOpen(f, from, to) ==
  /\ pc = from
  /\ \E x \in {Torn} \cup ({disk[f]} \ {Absent}) : disk' = [disk EXCEPT ![f] = x]
  /\ pc' = to
  /\ UNCHANGED <<memory, made, known>>

\* Mutant: the result of fsFileWrite is not looked at.
WriteDataUnchecked(f, from, to) ==
  /\ pc = from
  /\ disk' \in {disk, [disk EXCEPT ![f] = key]}
  /\ pc' = to
  /\ UNCHANGED <<memory, made, known>>

\* write_file: the contents are written.
WriteData(f, from, to) ==
  /\ pc = from
  /\ disk' = [disk EXCEPT ![f] = key]
  /\ pc' = to
  /\ UNCHANGED <<memory, made, known>>

\* One of the steps of write_file fails: the file cannot be opened (and may
\* have been created), sized or written, or not to the end.
WriteFails(f) ==
  /\ pc \in WritePc(f)
  /\ \E x \in {Torn, disk[f]} : disk' = [disk EXCEPT ![f] = x]
  /\ pc' = "failed"
  /\ UNCHANGED <<memory, made, known>>

WriteCert == WriteOpen("cert", "cert_open", "cert_write") \/ WriteData("cert", "cert_write", "key_open")

WriteKey == WriteOpen("key", "key_open", "key_write") \/ WriteData("key", "key_write", "parse")

\* The new certificate is parsed into cert_, behind what is there already.
Parse ==
  /\ pc = "parse"
  /\ chain' = IF chain = None THEN devId ELSE chain
  /\ how' = "generated"
  /\ Running(devId)
  /\ UNCHANGED <<disk, key, devId, made>>

-----------------------------------------------------------------------------

\* start() failed, or a client that ran is restarted (see Application).
Restart == pc \in {"failed", "running"} /\ Fresh

\* The console is switched off, at any moment, and starts again.
PowerCut == pc # "load" /\ Fresh

Next ==
  \/ Load \/ Generate \/ WriteCert \/ WriteKey \/ Parse
  \/ (\E f \in File : WriteFails(f))
  \/ Restart \/ PowerCut

Spec == Init /\ [][Next]_vars

-----------------------------------------------------------------------------

\* The console keeps the identity it first ran with, which is the one other
\* devices have paired with: neither power cuts nor failed writes, of the
\* start that made it or of any later one, make load_or_create generate
\* another (if files that are there can be read).
IdentityLasting == pc = "running" => devId = known

\* An identity read from the files is in working order: the certificate is the
\* one made for the key, although nothing compares them (load_from_files), and
\* although a start may have been cut off between writing the two.
LoadedIsUsable == pc = "running" /\ how = "loaded" => chain = key

\* The device id "will be also set as the Common Name in the device TLS
\* certificate" (protocol.md): of the certificate that is presented.
IdIsCommonName == pc = "running" => chain = devId

=============================================================================
