------------------------------ MODULE Records ------------------------------
(***************************************************************************)
(* The file of a paired device (utils/storage.cpp), which is written over  *)
(* when a device that is paired asks to be paired again, with another name *)
(* or another certificate, and is read on every connection                 *)
(* (net/kdeconnect_client.cpp).                                            *)
(*                                                                         *)
(* A text is a sequence of stored.  It goes to the file chunk by chunk, in  *)
(* place, and the power may be cut in between.  The file system is         *)
(* external; it keeps the order of writes.  One lock keeps the threads     *)
(* apart, and Pairing has the order in which they come.                    *)
(***************************************************************************)
EXTENDS Naturals, Sequences

CONSTANTS
  Cert,      \* certificates of the device
  Lengths,   \* lengths of records
  Chunk,     \* kChunk of write_file
  NoRecord

VARIABLES
  stored,    \* the units of the file, none if there is no file
  storing,   \* where write_file is
  toStore,   \* what it writes
  written,   \* its offset
  mayBe,     \* history: the record saved last and not removed, and those broken off since
  unbroken   \* history: none was broken off

recordVars == <<stored, storing, toStore, written, mayBe, unbroken>>

Record == [cert : Cert, length : Lengths]

Zero == [of |-> NoRecord, at |-> 0]
Text(r) == [i \in 1 .. r.length |-> [of |-> r, at |-> i]]
Ends(unit) == unit # Zero /\ unit.at = unit.of.length

RecordsTypeOK ==
  /\ \A i \in DOMAIN stored : stored[i] = Zero \/ stored[i] \in [of : Record, at : {i}]
  /\ storing \in {"no", "create", "size", "write"}
  /\ toStore \in Record \cup {NoRecord} /\ mayBe \subseteq Record /\ unbroken \in BOOLEAN
  /\ written \in 0 .. Len(stored)

Init ==
  /\ stored = <<>> /\ storing = "no" /\ written = 0
  /\ toStore = NoRecord /\ mayBe = {} /\ unbroken = TRUE

-----------------------------------------------------------------------------

Min(a, b) == IF a < b THEN a ELSE b

\* A text of that many stored: cut short, or extended by zeros.
Resized(f, length) == [i \in 1 .. length |-> IF i \in DOMAIN f THEN f[i] ELSE Zero]

\* JsonBody::parse is given a C string, which ends at the first zero.
CString(f) ==
  LET zeros == {i \in DOMAIN f : f[i] = Zero}
  IN IF zeros = {} THEN f ELSE SubSeq(f, 1, (CHOOSE i \in zeros : \A j \in zeros : i <= j) - 1)

\* What parses: one object to its end, and nothing after it.  Most of a record is the
\* certificate, so two records that are put together anywhere may parse, too.
Parses(text) ==
  /\ text # <<>> /\ Ends(text[Len(text)])
  /\ \A i \in 1 .. Len(text) - 1 : ~Ends(text[i])

Writers(text) == {text[i].of : i \in DOMAIN text}

\* load_paired_device, with the records that a unit of the result is of.
Loaded == IF Parses(CString(stored)) THEN Writers(CString(stored)) ELSE {}

-----------------------------------------------------------------------------

\* save_paired_device, by accept_pair or by an answer to our request.
Save(r) ==
  /\ storing = "no"
  /\ storing' = "create" /\ toStore' = r
  /\ UNCHANGED <<stored, written, mayBe, unbroken>>

\* A file that is there is not created.
Create ==
  /\ storing = "create"
  /\ stored' = IF stored = <<>> THEN Resized(<<>>, toStore.length) ELSE stored
  /\ storing' = "size"
  /\ UNCHANGED <<toStore, written, mayBe, unbroken>>

\* Mutant: a file is never made smaller.
GrowOnly ==
  /\ storing = "size"
  /\ stored' = IF Len(stored) < toStore.length THEN Resized(stored, toStore.length) ELSE stored
  /\ storing' = "write" /\ written' = 0
  /\ UNCHANGED <<toStore, mayBe, unbroken>>

SetSize ==
  /\ storing = "size"
  /\ stored' = Resized(stored, toStore.length)
  /\ storing' = "write" /\ written' = 0
  /\ UNCHANGED <<toStore, mayBe, unbroken>>

Stored ==
  /\ storing' = "no" /\ toStore' = NoRecord
  /\ mayBe' = {toStore} /\ unbroken' = TRUE
  /\ UNCHANGED <<stored, written>>

WriteUpTo(to) ==
  /\ stored' = [i \in DOMAIN stored |-> IF i \in written + 1 .. to THEN Text(toStore)[i] ELSE stored[i]]
  /\ written' = to
  /\ UNCHANGED <<storing, toStore, mayBe, unbroken>>

\* Mutant: the last chunk is left out if it is not full.
WriteFullChunks ==
  /\ storing = "write"
  /\ IF written + Chunk <= toStore.length THEN WriteUpTo(written + Chunk) ELSE Stored

WriteChunk ==
  /\ storing = "write"
  /\ IF written < toStore.length THEN WriteUpTo(Min(written + Chunk, toStore.length)) ELSE Stored

\* The power is cut, or the file cannot be opened, sized or written any further.
\* save_paired_device does not say so to anybody.
BreakOff ==
  /\ storing # "no"
  /\ storing' = "no" /\ toStore' = NoRecord
  /\ mayBe' = mayBe \cup {toStore} /\ unbroken' = FALSE
  /\ UNCHANGED <<stored, written>>

RemovePairedDevice ==
  /\ storing = "no"
  /\ stored' = <<>> /\ written' = 0
  /\ mayBe' = {} /\ unbroken' = TRUE
  /\ UNCHANGED <<storing, toStore>>

Next ==
  \/ \E r \in Record : Save(r)
  \/ Create \/ SetSize \/ WriteChunk \/ BreakOff
  \/ RemovePairedDevice

-----------------------------------------------------------------------------

\* A record that was saved is loaded, and one that was removed is not, whatever was
\* in its file before.
SavedIsLoaded == storing = "no" /\ unbroken => Loaded = mayBe

\* After a save that was broken off there is no record, or one of those that may be
\* in the file.  A mixture, whose certificate no device has, takes two records that
\* are longer than a chunk.
LongOnes == \E r, s \in mayBe : r # s /\ Chunk < r.length /\ Chunk < s.length

BrokenOffIsWhole ==
  storing = "no" /\ ~LongOnes => Loaded = {} \/ \E r \in mayBe : Loaded = {r}

=============================================================================
