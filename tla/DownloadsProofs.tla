--------------------------- MODULE DownloadsProofs ---------------------------
(***************************************************************************)
(* The inductive invariant of Downloads and the theorems that rest on it,  *)
(* for any threads, names, sizes and chunks.                               *)
(***************************************************************************)
EXTENDS Downloads, TLAPS

\* The kind of file each part of the code works on, and what the copy loop
\* has counted so far.
At(t) ==
  /\ pc[t] # "idle" => what[t] \in File
  /\ pc[t] \in Receiving => what[t][1] # "rgba"
  /\ pc[t] \in {"magic", "check", "touch"} => what[t][1] = "art"
  /\ pc[t] \in {"decode"} \cup Decoding => what[t][1] = "png"
  /\ pc[t] \in {"connect", "delete", "create", "open"} => left[t] = Size /\ fill[t] = 0 /\ off[t] = 0
  /\ pc[t] \in {"mk", "openOut"} => off[t] = 0
  /\ pc[t] \in Copying => off[t] + fill[t] + left[t] = Size
  /\ pc[t] = "copy" => fill[t] < Chunk
  /\ pc[t] = "close" /\ ~err[t] => fill[t] = 0

Place == \A t \in Thread : At(t)

\* The types, those of the files and those of the threads.
FilesOK ==
  /\ exists \in [File -> BOOLEAN] /\ got \in [File -> SUBSET Nat]
  /\ wr \in [File -> Thread \cup {NoThread}]
  /\ rd \in [File -> SUBSET (Thread \cup {Overlay})]

ThreadsOK ==
  /\ pc \in [Thread -> {"idle", "magic", "check", "touch", "decode", "unlink"} \cup Receiving \cup Decoding]
  /\ what \in [Thread -> File \cup {NoFile}]
  /\ disc \in [Thread -> BOOLEAN]
  /\ left \in [Thread -> 0 .. Size] /\ fill \in [Thread -> 0 .. Chunk]
  /\ off \in [Thread -> Nat] /\ err \in [Thread -> BOOLEAN]

\* They make up TypeOK.
LEMMA Types == TypeOK <=> FilesOK /\ ThreadsOK
  BY DEF TypeOK, FilesOK, ThreadsOK

\* A path of a file, and of the decoded icon, is a file.
LEMMA Paths ==
  ASSUME NEW f \in File
  PROVE  /\ f[1] \in Kind /\ f[2] \in Name
         /\ <<"rgba", f[2]>> \in File
         /\ <<"rgba", f[2]>>[1] = "rgba"
  BY DEF File, Kind

\* The types hold at the start, and so does Place.
LEMMA TypeInit == Init => TypeOK /\ Place
  <1> SUFFICES ASSUME Init PROVE TypeOK /\ Place
    OBVIOUS
  <1>1. TypeOK
    BY DownloadsAssumption DEF Init, TypeOK, Receiving, Decoding, Copying
  <1>2. Place
    BY DownloadsAssumption DEF Init, Place, At, Receiving, Decoding, Copying
  <1> QED
    BY <1>1, <1>2

-----------------------------------------------------------------------------

\* Removing a file keeps the types of the files.
LEMMA RemoveType ==
  ASSUME FilesOK, NEW f \in File, Remove(f)
  PROVE  FilesOK'
  BY DEF FilesOK, Remove

\* Creating a file does.
LEMMA CreateType ==
  ASSUME FilesOK, NEW f \in File, CreateFile(f)
  PROVE  FilesOK'
  BY DEF FilesOK, CreateFile

\* So does opening one for writing.
LEMMA OpenType ==
  ASSUME FilesOK, NEW f \in File, NEW t \in Thread, OpenWrite(f, t)
  PROVE  FilesOK'
  BY DEF FilesOK, OpenWrite

\* So does leaving them alone.
LEMMA SameType ==
  ASSUME FilesOK, UNCHANGED files
  PROVE  FilesOK'
  BY DEF FilesOK, files

\* What a thread does keeps the types of the files.
LEMMA FilesStep ==
  ASSUME TypeOK, Place, NEW t \in Thread,
         Step(t) \/ Wait(t) \/ TearDown(t) \/ NewSession(t) \/ \E h \in File : Begin(t, h)
  PROVE  FilesOK'
  <1>0. FilesOK /\ ThreadsOK
    BY Types
  <1>a. pc[t] # "idle" => what[t] \in File /\ Rgba(t) \in File
    BY Paths DEF Place, At, Rgba
  <1>b. pc[t] = "idle" => what[t] \in File \cup {NoFile}
    BY <1>0 DEF ThreadsOK
  <1> USE <1>0, <1>a
  <1>1. CASE Connect(t)
    BY <1>1, SameType DEF Connect
  <1>2. CASE Delete(t)
    BY <1>2, RemoveType, SameType DEF Delete
  <1>3. CASE Create(t)
    BY <1>3, CreateType, SameType DEF Create
  <1>4. CASE Open(t)
    BY <1>4, OpenType, SameType DEF Open
  <1>5. CASE Receive(t)
    BY <1>5, SameType DEF Receive
  <1>6. CASE Flush(t)
    BY <1>6, SameType DEF Flush, Write, WriteFails, FilesOK, ThreadsOK, files
  <1>7. CASE EndCopy(t)
    BY <1>7, SameType DEF EndCopy
  <1>8. CASE ReadFails(t)
    BY <1>8, SameType DEF ReadFails
  <1>9. CASE LastFlush(t)
    BY <1>9, SameType DEF LastFlush, Write, WriteFails, FilesOK, ThreadsOK, files
  <1>10. CASE Close(t)
    BY <1>10 DEF Close, FilesOK, ThreadsOK
  <1>11. CASE Decide(t)
    BY <1>11, RemoveType, SameType DEF Decide
  <1>12. CASE OpenArt(t)
    BY <1>12 DEF OpenArt, FilesOK, ThreadsOK
  <1>13. CASE CheckArt(t)
    BY <1>13 DEF CheckArt, FilesOK, ThreadsOK
  <1>14. CASE DecodeOpen(t)
    BY <1>14 DEF DecodeOpen, FilesOK, ThreadsOK
  <1>15. CASE ReadHeader(t)
    BY <1>15, RemoveType DEF ReadHeader, CloseIn, FilesOK
  <1>16. CASE CreateOut(t)
    BY <1>16, CreateType DEF CreateOut, CloseIn, FilesOK
  <1>17. CASE OpenOut(t)
    BY <1>17, OpenType, SameType DEF OpenOut
  <1>18. CASE WriteRow(t)
    BY <1>18 DEF WriteRow, FilesOK, ThreadsOK
  <1>19. CASE EndRows(t)
    BY <1>19 DEF EndRows, CloseIn, FilesOK, ThreadsOK
  <1>20. CASE DropOut(t)
    BY <1>20, RemoveType, SameType DEF DropOut
  <1>21. CASE Unlink(t)
    BY <1>21, RemoveType, SameType DEF Unlink
  <1>22. CASE TearDown(t)
    BY <1>22, SameType DEF TearDown
  <1>23. CASE NewSession(t)
    BY <1>23, SameType DEF NewSession
  <1>24. ASSUME NEW f \in File, Begin(t, f) PROVE FilesOK'
    BY <1>24, SameType DEF Begin
  <1>25. CASE Touch(t)
    BY <1>25, RemoveType, SameType DEF Touch, File, Kind
  <1>26. CASE ShutOut(t)
    BY <1>26 DEF ShutOut, FilesOK, ThreadsOK
  <1>27. CASE ShutIn(t)
    BY <1>27 DEF ShutIn, CloseIn, FilesOK, ThreadsOK
  <1> QED
    BY <1>1, <1>2, <1>3, <1>4, <1>5, <1>6, <1>7, <1>8, <1>9, <1>10, <1>11, <1>12, <1>13, <1>14,
       <1>15, <1>16, <1>17, <1>18, <1>19, <1>20, <1>21, <1>22, <1>23, <1>24, <1>25, <1>26, <1>27 DEF Step, Wait

\* Going back to io_loop keeps the types of the locals, and Place.
LEMMA LeavePlace ==
  ASSUME ThreadsOK, Place, NEW t \in Thread, Leave(t), UNCHANGED disc
  PROVE  ThreadsOK' /\ Place'
  BY DownloadsAssumption DEF ThreadsOK, Place, At, Leave, Goto, Receiving, Copying, Decoding

\* So does going on with the file that was downloaded.
LEMMA ReturnPlace ==
  ASSUME ThreadsOK, Place, NEW t \in Thread, NEW ok \in BOOLEAN, pc[t] \in Receiving, pc[t] # "idle",
         Return(t, ok), UNCHANGED disc
  PROVE  ThreadsOK' /\ Place'
  <1>1. CASE Leave(t)
    BY <1>1, LeavePlace
  <1>2. CASE what[t][1] = "art" /\ Continue(t, "magic")
    BY <1>2 DEF Continue, ThreadsOK, Place, At, Goto, Receiving, Copying, Decoding, locals
  <1>3. CASE what[t][1] \notin {"share", "art"} /\ Continue(t, "decode")
    <2>1. what[t][1] = "png"
      BY <1>3, Paths DEF Place, At, Receiving, Copying, Kind
    <2> QED
      BY <1>3, <2>1 DEF Continue, ThreadsOK, Place, At, Goto, Receiving, Copying, Decoding, locals
  <1> QED
    BY <1>1, <1>2, <1>3 DEF Return

\* It keeps the types of its locals, and what it has counted.
LEMMA PlaceStep ==
  ASSUME TypeOK, Place, NEW t \in Thread,
         Step(t) \/ Wait(t) \/ TearDown(t) \/ NewSession(t) \/ \E h \in File : Begin(t, h)
  PROVE  ThreadsOK' /\ Place'
  <1>0. ThreadsOK
    BY Types
  <1> USE <1>0, DownloadsAssumption DEF ThreadsOK, Place, At, Goto, Receiving, Copying, Decoding, locals
  <1>1. CASE Connect(t)
    <2>1. CASE Continue(t, "delete") /\ UNCHANGED disc
      BY <1>1, <2>1 DEF Connect, Continue
    <2>2. CASE Return(t, FALSE) /\ UNCHANGED disc
      BY <1>1, <2>2, ReturnPlace DEF Connect
    <2> QED
      BY <1>1, <2>1, <2>2 DEF Connect
  <1>2. CASE Delete(t)
    BY <1>2, Paths DEF Delete
  <1>3. CASE Create(t)
    <2>1. CASE Continue(t, "open") /\ UNCHANGED disc
      BY <1>3, <2>1 DEF Create, Continue
    <2>2. CASE Return(t, FALSE) /\ UNCHANGED disc
      BY <1>3, <2>2, ReturnPlace DEF Create
    <2> QED
      BY <1>3, <2>1, <2>2 DEF Create
  <1>4. CASE Open(t)
    <2>1. CASE Continue(t, "copy") /\ UNCHANGED disc
      BY <1>4, <2>1 DEF Open, Continue
    <2>2. CASE Return(t, FALSE) /\ UNCHANGED disc
      BY <1>4, <2>2, ReturnPlace DEF Open
    <2> QED
      BY <1>4, <2>1, <2>2 DEF Open
  <1>5. CASE Receive(t)
    <2>1. /\ pc[t] = "copy" /\ left[t] \in 1 .. Size /\ fill[t] \in 0 .. (Chunk - 1)
          /\ UNCHANGED <<what, off, err, disc>>
      BY <1>5 DEF Receive
    <2>2. fill' = [fill EXCEPT ![t] = fill[t] + 1] /\ left' = [left EXCEPT ![t] = left[t] - 1]
      BY <1>5 DEF Receive
    <2>3. \/ pc' = [pc EXCEPT ![t] = "copy"] /\ fill[t] + 1 # Chunk
          \/ pc' = [pc EXCEPT ![t] = "flush"]
      BY <1>5 DEF Receive
    <2>4. ThreadsOK'
      BY <2>1, <2>2, <2>3
    <2>5. off'[t] + fill'[t] + left'[t] = Size /\ (pc'[t] = "copy" => fill'[t] < Chunk)
      BY <2>1, <2>2, <2>3
    <2>6. ASSUME NEW s \in Thread, s # t PROVE At(s)'
      BY <2>1, <2>2, <2>3, <2>6
    <2>7. At(t)'
      BY <2>1, <2>2, <2>3, <2>5
    <2> QED
      BY <2>4, <2>6, <2>7
  <1>6. CASE Flush(t)
    <2>1. CASE Write(t) /\ Goto(t, "copy")
      BY <1>6, <2>1 DEF Flush, Write
    <2>2. CASE WriteFails(t) /\ Goto(t, "close")
      BY <1>6, <2>2 DEF Flush, WriteFails
    <2> QED
      BY <1>6, <2>1, <2>2 DEF Flush
  <1>7. CASE EndCopy(t)
    BY <1>7, Paths DEF EndCopy
  <1>8. CASE ReadFails(t)
    BY <1>8, Paths DEF ReadFails
  <1>9. CASE LastFlush(t)
    <2>1. CASE Write(t)
      BY <1>9, <2>1 DEF LastFlush, Write
    <2>2. CASE WriteFails(t)
      BY <1>9, <2>2 DEF LastFlush, WriteFails
    <2> QED
      BY <1>9, <2>1, <2>2 DEF LastFlush
  <1>10. CASE Close(t)
    BY <1>10, Paths DEF Close
  <1>11. CASE Decide(t)
    <2>1. (~Failed(t)) \in BOOLEAN
      BY DEF Failed
    <2> QED
      BY <1>11, <2>1, ReturnPlace DEF Decide
  <1>12. CASE OpenArt(t)
    BY <1>12, Paths DEF OpenArt
  <1>13. CASE CheckArt(t)
    BY <1>13, Paths DEF CheckArt
  <1>14. CASE DecodeOpen(t)
    BY <1>14, Paths DEF DecodeOpen
  <1>15. CASE ReadHeader(t)
    BY <1>15, Paths DEF ReadHeader, CloseIn
  <1>16. CASE CreateOut(t)
    BY <1>16, Paths DEF CreateOut, CloseIn
  <1>17. CASE OpenOut(t)
    BY <1>17, Paths DEF OpenOut, CloseIn
  <1>18. CASE WriteRow(t)
    BY <1>18, Paths DEF WriteRow
  <1>19. CASE EndRows(t)
    BY <1>19, Paths DEF EndRows, CloseIn
  <1>20. CASE DropOut(t)
    BY <1>20, Paths DEF DropOut
  <1>21. CASE Unlink(t)
    BY <1>21, Paths DEF Unlink, Leave
  <1>22. CASE TearDown(t)
    BY <1>22, Paths DEF TearDown
  <1>23. CASE NewSession(t)
    BY <1>23, Paths DEF NewSession
  <1>24. ASSUME NEW f \in File, Begin(t, f) PROVE ThreadsOK' /\ Place'
    BY <1>24, Paths DEF Begin
  <1>25. CASE Touch(t)
    BY <1>25, LeavePlace DEF Touch
  <1>26. CASE ShutOut(t)
    BY <1>26, Paths DEF ShutOut
  <1>27. CASE ShutIn(t)
    BY <1>27, Paths DEF ShutIn, CloseIn
  <1> QED
    BY <1>1, <1>2, <1>3, <1>4, <1>5, <1>6, <1>7, <1>8, <1>9, <1>10, <1>11, <1>12, <1>13, <1>14,
       <1>15, <1>16, <1>17, <1>18, <1>19, <1>20, <1>21, <1>22, <1>23, <1>24, <1>25, <1>26, <1>27 DEF Step, Wait

-----------------------------------------------------------------------------

\* A step of anybody, thread or overlay, keeps the types and Place.
LEMMA TypeStep == TypeOK /\ Place /\ [Next]_vars => (TypeOK /\ Place)'
  <1> SUFFICES ASSUME TypeOK, Place, [Next]_vars PROVE TypeOK' /\ Place'
    OBVIOUS
  <1>0. FilesOK /\ ThreadsOK
    BY Types
  <1>1. ASSUME NEW t \in Thread,
               Step(t) \/ Wait(t) \/ TearDown(t) \/ NewSession(t) \/ \E h \in File : Begin(t, h)
        PROVE  FilesOK' /\ ThreadsOK' /\ Place'
    BY <1>1, FilesStep, PlaceStep
  <1>2. ASSUME NEW f \in File, OverlayOpens(f) \/ OverlayCloses(f)
        PROVE  FilesOK' /\ ThreadsOK' /\ Place'
    <2>1. UNCHANGED <<pc, disc, what, left, fill, off, err>>
      BY <1>2 DEF OverlayOpens, OverlayCloses, locals
    <2>2. ThreadsOK' /\ Place'
      BY <1>0, <2>1 DEF ThreadsOK, Place, At
    <2>3. FilesOK'
      BY <1>0, <1>2 DEF FilesOK, OverlayOpens, OverlayCloses
    <2> QED
      BY <2>2, <2>3
  <1>5. ASSUME NEW n \in Name, ClearIcon(n)
        PROVE  FilesOK' /\ ThreadsOK' /\ Place'
    <2>1. UNCHANGED <<pc, disc, what, left, fill, off, err>>
      BY <1>5 DEF ClearIcon, locals
    <2>2. ThreadsOK' /\ Place'
      BY <1>0, <2>1 DEF ThreadsOK, Place, At
    <2>3. <<"rgba", n>> \in File
      BY DEF File, Kind
    <2> QED
      BY <1>0, <1>5, <2>2, <2>3, RemoveType DEF ClearIcon
  <1>3. CASE UNCHANGED vars
    <2>1. ThreadsOK' /\ Place'
      BY <1>0, <1>3 DEF ThreadsOK, Place, At, vars, locals
    <2>2. FilesOK'
      BY <1>0, <1>3, SameType DEF vars
    <2> QED
      BY <2>1, <2>2 DEF TypeOK, FilesOK, ThreadsOK
  <1>4. FilesOK' /\ ThreadsOK' => TypeOK'
    BY DEF TypeOK, FilesOK, ThreadsOK
  <1> QED
    BY <1>1, <1>2, <1>3, <1>4, <1>5 DEF Next

-----------------------------------------------------------------------------

\* Where a thread may have the file open that it downloaded.
Reading == {"check", "header", "mk", "openOut", "rows", "drop", "shutIn"}

\* Who has which file open.
Locks ==
  /\ \A t \in Thread :
       /\ pc[t] \in Copying => wr[what[t]] = t
       /\ pc[t] \in {"rows", "shutOut"} => wr[Rgba(t)] = t
  /\ \A f \in File :
       /\ wr[f] # NoThread =>
            /\ exists[f]
            /\ \/ pc[wr[f]] \in Copying /\ what[wr[f]] = f
               \/ pc[wr[f]] \in {"rows", "shutOut"} /\ Rgba(wr[f]) = f
       /\ \A t \in rd[f] \ {Overlay} :
            pc[t] \in Reading /\ what[t] = f
       /\ Overlay \in rd[f] => f[1] = "art"

\* What the copy loop has written is in the file.
Written == \A t \in Thread : pc[t] \in Copying => 1 .. off[t] \subseteq got[what[t]]

\* Somebody will remove or complete the file.
Partial(f) ==
  \E t \in Thread :
    /\ what[t] = f
    /\ pc[t] \in {"open"} \cup Copying \/ (pc[t] = "decide" /\ Failed(t))

Temporary(f) ==
  \E t \in Thread :
    /\ what[t] = f
    /\ pc[t] \in {"open", "decide", "decode", "unlink"} \cup Copying \cup Decoding

Accounted ==
  \A f \in File :
    /\ f[1] = "share" /\ exists[f] => Whole(f) \/ Partial(f)
    /\ f[1] = "png" /\ exists[f] => Temporary(f)

\* A removal or a creation leaves files that are open alone.
LEMMA OpenStays ==
  ASSUME FilesOK, NEW f \in File, Remove(f) \/ CreateFile(f) \/ UNCHANGED files
  PROVE  /\ UNCHANGED <<wr, rd>>
         /\ \A g \in File : wr[g] # NoThread /\ exists[g] => exists'[g] /\ got'[g] = got[g]
  BY DEF FilesOK, Remove, CreateFile, Free, files

\* A thread that has nothing open and opens nothing keeps Locks.
LEMMA LocksFrame ==
  ASSUME TypeOK, Locks, NEW t \in Thread, UNCHANGED <<wr, rd>>,
         \A g \in File : wr[g] # NoThread /\ exists[g] => exists'[g],
         \A s \in Thread \ {t} : pc'[s] = pc[s] /\ what'[s] = what[s],
         pc[t] \notin Copying \cup Reading \cup {"shutOut"},
         pc'[t] \notin Copying \cup {"rows", "shutOut"}
  PROVE  Locks'
  BY DownloadsAssumption DEF TypeOK, Locks, Copying, Reading, Rgba

\* So does one that goes on reading a file.
LEMMA LocksRead ==
  ASSUME TypeOK, Locks, NEW t \in Thread, UNCHANGED <<wr, rd>>,
         \A g \in File : wr[g] # NoThread /\ exists[g] => exists'[g],
         \A s \in Thread \ {t} : pc'[s] = pc[s] /\ what'[s] = what[s],
         what'[t] = what[t],
         pc[t] \in {"header", "mk", "openOut", "drop"}, pc'[t] \notin Copying \cup {"rows", "shutOut"},
         pc'[t] \in Reading \/ t \notin rd[what[t]]
  PROVE  Locks'
  <1> USE DownloadsAssumption DEF TypeOK
  <1>1. \A s \in Thread : /\ pc'[s] \in Copying => wr'[what'[s]] = s
                          /\ pc'[s] \in {"rows", "shutOut"} => wr'[Rgba(s)'] = s
    BY DEF Locks, Copying, Reading, Rgba
  <1>2. ASSUME NEW f \in File
        PROVE  /\ wr'[f] # NoThread =>
                    /\ exists'[f]
                    /\ \/ pc'[wr'[f]] \in Copying /\ what'[wr'[f]] = f
                       \/ pc'[wr'[f]] \in {"rows", "shutOut"} /\ Rgba(wr[f])' = f
               /\ Overlay \in rd'[f] => f[1] = "art"
    BY DEF Locks, Copying, Reading, Rgba
  <1>3. ASSUME NEW f \in File, NEW s \in rd'[f] \ {Overlay}
        PROVE  pc'[s] \in Reading /\ what'[s] = f
    <2>1. s \in rd[f] \ {Overlay} /\ s \in Thread
      OBVIOUS
    <2>2. what[s] = f /\ pc[s] \in Reading
      BY <2>1 DEF Locks
    <2> QED
      BY <2>1, <2>2
  <1> QED
    BY <1>1, <1>2, <1>3 DEF Locks

\* And one that closes what it reads.
LEMMA LocksClose ==
  ASSUME TypeOK, Locks, NEW t \in Thread, UNCHANGED <<exists, wr>>, what[t] \in File,
         rd' = [rd EXCEPT ![what[t]] = @ \ {t}],
         \A s \in Thread \ {t} : pc'[s] = pc[s] /\ what'[s] = what[s],
         pc[t] \in {"check", "header", "mk", "shutIn"},
         pc'[t] \notin Copying \cup {"rows", "shutOut"}
  PROVE  Locks'
  <1> USE DownloadsAssumption DEF TypeOK
  <1>1. \A s \in Thread : /\ pc'[s] \in Copying => wr'[what'[s]] = s
                          /\ pc'[s] \in {"rows", "shutOut"} => wr'[Rgba(s)'] = s
    BY DEF Locks, Copying, Reading, Rgba
  <1>2. ASSUME NEW f \in File
        PROVE  /\ wr'[f] # NoThread =>
                    /\ exists'[f]
                    /\ \/ pc'[wr'[f]] \in Copying /\ what'[wr'[f]] = f
                       \/ pc'[wr'[f]] \in {"rows", "shutOut"} /\ Rgba(wr[f])' = f
               /\ Overlay \in rd'[f] => f[1] = "art"
    BY DEF Locks, Copying, Reading, Rgba
  <1>3. ASSUME NEW f \in File, NEW s \in rd'[f] \ {Overlay}
        PROVE  pc'[s] \in Reading /\ what'[s] = f
    <2>1. s \in rd[f] \ {Overlay} /\ s \in Thread
      OBVIOUS
    <2>2. what[s] = f /\ pc[s] \in Reading
      BY <2>1 DEF Locks
    <2>3. s # t
      BY <2>2
    <2> QED
      BY <2>1, <2>2, <2>3
  <1> QED
    BY <1>1, <1>2, <1>3 DEF Locks

\* And one that opens what it downloaded for reading.
LEMMA LocksOpen ==
  ASSUME TypeOK, Locks, NEW t \in Thread, what[t] \in File, UNCHANGED <<what, exists, wr>>,
         pc[t] \in {"magic", "decode"},
         NEW p \in {"check", "header", "unlink"}, pc' = [pc EXCEPT ![t] = p],
         \/ rd' = rd
         \/ rd' = [rd EXCEPT ![what[t]] = @ \cup {t}] /\ p # "unlink"
  PROVE  Locks'
  <1> USE DownloadsAssumption DEF TypeOK, Locks, Copying, Reading, Rgba
  <1>1. \A s \in Thread : /\ pc'[s] \in Copying => wr'[what'[s]] = s
                          /\ pc'[s] \in {"rows", "shutOut"} => wr'[Rgba(s)'] = s
    OBVIOUS
  <1>2. ASSUME NEW f \in File
        PROVE  wr'[f] # NoThread =>
                 /\ exists'[f]
                 /\ \/ pc'[wr'[f]] \in Copying /\ what'[wr'[f]] = f
                    \/ pc'[wr'[f]] \in {"rows", "shutOut"} /\ Rgba(wr[f])' = f
    OBVIOUS
  <1>3. ASSUME NEW f \in File
        PROVE  /\ \A s \in rd'[f] \ {Overlay} : pc'[s] \in Reading /\ what'[s] = f
               /\ Overlay \in rd'[f] => f[1] = "art"
    OBVIOUS
  <1> QED
    BY <1>1, <1>2, <1>3

\* And one that goes on with the same files open.
LEMMA LocksSame ==
  ASSUME TypeOK, Locks, NEW t \in Thread, UNCHANGED <<what, exists, wr, rd>>,
         \/ pc' = pc
         \/ \E p \in Copying : pc' = [pc EXCEPT ![t] = p] /\ pc[t] \in Copying
  PROVE  Locks'
  <1>1. \A s \in Thread : pc'[s] = pc[s] \/ (pc'[s] \in Copying /\ pc[s] \in Copying)
    BY DEF TypeOK
  <1>2. /\ Copying \cap {"rows", "shutOut"} = {}
        /\ Copying \cap Reading = {}
    BY DEF Copying, Reading
  <1>3. \A s \in Thread : Rgba(s)' = Rgba(s)
    BY DEF Rgba
  <1>4. \A f \in File : wr[f] # NoThread => wr[f] \in Thread
    BY DEF TypeOK
  <1>5. \A f \in File : \A s \in rd[f] \ {Overlay} : s \in Thread
    BY DEF TypeOK
  <1> QED
    BY <1>1, <1>2, <1>3, <1>4, <1>5 DEF Locks

\* Steps keep Locks.
LEMMA LocksStep ==
  ASSUME TypeOK, Place, Locks, NEW t \in Thread,
         Step(t) \/ Wait(t) \/ TearDown(t) \/ NewSession(t) \/ \E h \in File : Begin(t, h)
  PROVE  Locks'
  <1>0. FilesOK /\ ThreadsOK
    BY Types
  <1>a. pc[t] # "idle" => what[t] \in File /\ Rgba(t) \in File
    BY Paths DEF Place, At, Rgba
  <1> USE <1>0, <1>a, DownloadsAssumption DEF FilesOK, ThreadsOK, Goto, Copying, Reading, Rgba, locals, files
  <1>1. CASE Connect(t)
    <2>1. \A s \in Thread \ {t} : pc'[s] = pc[s] /\ what'[s] = what[s]
      BY <1>1 DEF Connect, Return, Leave, Continue
    <2>2. pc'[t] \notin Copying \cup {"rows", "shutOut"}
      BY <1>1 DEF Connect, Return, Leave, Continue
    <2> QED
      BY <1>1, <2>1, <2>2, LocksFrame DEF Connect
  <1>2. CASE Delete(t)
    <2>1. \A s \in Thread \ {t} : pc'[s] = pc[s] /\ what'[s] = what[s]
      BY <1>2 DEF Delete
    <2>2. pc'[t] \notin Copying \cup {"rows", "shutOut"}
      BY <1>2 DEF Delete
    <2> QED
      BY <1>2, <2>1, <2>2, OpenStays, LocksFrame DEF Delete
  <1>3. CASE Create(t)
    <2>1. \A s \in Thread \ {t} : pc'[s] = pc[s] /\ what'[s] = what[s]
      BY <1>3 DEF Create, Return, Leave, Continue
    <2>2. pc'[t] \notin Copying \cup {"rows", "shutOut"}
      BY <1>3 DEF Create, Return, Leave, Continue
    <2>3. CreateFile(what[t]) \/ UNCHANGED files
      BY <1>3 DEF Create
    <2>4. what[t] \in File /\ pc[t] = "create"
      BY <1>3 DEF Create
    <2>5. /\ UNCHANGED <<wr, rd>>
          /\ \A g \in File : wr[g] # NoThread /\ exists[g] => exists'[g]
      BY <2>3, <2>4, OpenStays
    <2> QED
      BY <2>1, <2>2, <2>4, <2>5, LocksFrame
  <1>4. CASE Open(t)
    <2>1. CASE OpenWrite(what[t], t) /\ Continue(t, "copy")
      BY <1>4, <2>1 DEF Open, Continue, OpenWrite, CanWrite, Locks, Free
    <2>2. CASE UNCHANGED files /\ Return(t, FALSE)
      <3>1. /\ \A s \in Thread \ {t} : pc'[s] = pc[s] /\ what'[s] = what[s]
            /\ pc'[t] \notin Copying \cup {"rows", "shutOut"}
        BY <2>2 DEF Return, Leave
      <3> QED
        BY <1>4, <2>2, <3>1, OpenStays, LocksFrame DEF Open
    <2> QED
      BY <1>4, <2>1, <2>2 DEF Open
  <1>5. CASE Receive(t)
    BY <1>5, LocksSame DEF Receive
  <1>6. CASE Flush(t)
    BY <1>6, LocksSame DEF Flush, Write, WriteFails
  <1>7. CASE EndCopy(t)
    BY <1>7, LocksSame DEF EndCopy
  <1>8. CASE ReadFails(t)
    BY <1>8, LocksSame DEF ReadFails
  <1>9. CASE LastFlush(t)
    BY <1>9, LocksSame DEF LastFlush, Write, WriteFails
  <1>10. CASE Close(t)
    <2>1. pc[t] = "close" /\ what[t] \in File /\ UNCHANGED <<what, exists, rd>>
      BY <1>10 DEF Close
    <2>2. pc' = [pc EXCEPT ![t] = "decide"] /\ wr' = [wr EXCEPT ![what[t]] = NoThread]
      BY <1>10 DEF Close
    <2>3. wr[what[t]] = t
      BY <2>1 DEF Locks
    <2>4. \A s \in Thread : /\ pc'[s] \in Copying => wr'[what'[s]] = s
                            /\ pc'[s] \in {"rows", "shutOut"} => wr'[Rgba(s)'] = s
      BY <2>1, <2>2, <2>3 DEF Locks
    <2>5. ASSUME NEW f \in File
          PROVE  wr'[f] # NoThread =>
                   /\ exists'[f]
                   /\ \/ pc'[wr'[f]] \in Copying /\ what'[wr'[f]] = f
                      \/ pc'[wr'[f]] \in {"rows", "shutOut"} /\ Rgba(wr[f])' = f
      <3>1. CASE f = what[t]
        BY <2>2, <3>1
      <3>2. CASE f # what[t]
        <4>1. wr'[f] = wr[f] /\ (wr[f] # NoThread => wr[f] # t)
          BY <2>1, <2>2, <3>2 DEF Locks
        <4> QED
          BY <2>1, <2>2, <4>1 DEF Locks
      <3> QED
        BY <3>1, <3>2
    <2>6. ASSUME NEW f \in File
          PROVE  /\ \A s \in rd'[f] \ {Overlay} : pc'[s] \in Reading /\ what'[s] = f
                 /\ Overlay \in rd'[f] => f[1] = "art"
      BY <2>1, <2>2 DEF Locks
    <2> QED
      BY <2>4, <2>5, <2>6 DEF Locks
  <1>11. CASE Decide(t)
    <2>1. \A s \in Thread \ {t} : pc'[s] = pc[s] /\ what'[s] = what[s]
      BY <1>11 DEF Decide, Return, Leave, Continue
    <2>2. pc'[t] \notin Copying \cup {"rows", "shutOut"}
      BY <1>11 DEF Decide, Return, Leave, Continue
    <2> QED
      BY <1>11, <2>1, <2>2, OpenStays, LocksFrame DEF Decide
  <1>12. CASE OpenArt(t)
    <2>1. \E p \in {"check", "unlink"} :
            /\ pc' = [pc EXCEPT ![t] = p]
            /\ rd' = rd \/ (rd' = [rd EXCEPT ![what[t]] = @ \cup {t}] /\ p # "unlink")
      BY <1>12 DEF OpenArt
    <2> QED
      BY <1>12, <2>1, LocksOpen DEF OpenArt
  <1>13. CASE CheckArt(t)
    <2>1. \A s \in Thread \ {t} : pc'[s] = pc[s] /\ what'[s] = what[s]
      BY <1>13 DEF CheckArt
    <2>2. pc'[t] \notin Copying \cup {"rows", "shutOut"}
      BY <1>13 DEF CheckArt
    <2> QED
      BY <1>13, <2>1, <2>2, LocksClose DEF CheckArt
  <1>14. CASE DecodeOpen(t)
    <2>1. \E p \in {"header", "unlink"} :
            /\ pc' = [pc EXCEPT ![t] = p]
            /\ rd' = rd \/ (rd' = [rd EXCEPT ![what[t]] = @ \cup {t}] /\ p # "unlink")
      BY <1>14 DEF DecodeOpen
    <2> QED
      BY <1>14, <2>1, LocksOpen DEF DecodeOpen
  <1>15. CASE ReadHeader(t)
    <2>1. CASE Remove(Rgba(t)) /\ Goto(t, "mk")
      <3>1. \A s \in Thread \ {t} : pc'[s] = pc[s] /\ what'[s] = what[s]
        BY <1>15, <2>1 DEF ReadHeader
      <3> HIDE DEF Rgba
      <3> QED
        BY <1>15, <2>1, <3>1, OpenStays, LocksRead DEF ReadHeader
    <2>2. CASE CloseIn(t) /\ Goto(t, "unlink") /\ UNCHANGED <<exists, got, wr>>
      BY <1>15, <2>2, LocksClose DEF ReadHeader, CloseIn
    <2> QED
      BY <1>15, <2>1, <2>2 DEF ReadHeader
  <1>16. CASE CreateOut(t)
    <2>1. CASE CreateFile(Rgba(t)) /\ Goto(t, "openOut")
      <3>1. \A s \in Thread \ {t} : pc'[s] = pc[s] /\ what'[s] = what[s]
        BY <1>16, <2>1 DEF CreateOut
      <3> HIDE DEF Rgba
      <3> QED
        BY <1>16, <2>1, <3>1, OpenStays, LocksRead DEF CreateOut
    <2>2. CASE CloseIn(t) /\ Goto(t, "unlink") /\ UNCHANGED <<exists, got, wr>>
      BY <1>16, <2>2, LocksClose DEF CreateOut, CloseIn
    <2> QED
      BY <1>16, <2>1, <2>2 DEF CreateOut
  <1>17. CASE OpenOut(t)
    <2>1. CASE OpenWrite(Rgba(t), t) /\ Goto(t, "rows")
      <3> DEFINE r == Rgba(t)
      <3>0. pc[t] = "openOut" /\ r \in File /\ UNCHANGED <<what, exists, rd>> /\ pc' = [pc EXCEPT ![t] = "rows"]
        BY <1>17, <2>1 DEF OpenOut, OpenWrite
      <3>1. wr[r] = NoThread /\ exists[r] /\ wr' = [wr EXCEPT ![r] = t]
        BY <2>1 DEF OpenWrite, CanWrite, Locks, Free
      <3>2. Rgba(t)' = r /\ \A s \in Thread : Rgba(s)' = Rgba(s)
        BY <3>0
      <3> HIDE DEF r, Rgba
      <3>3. \A s \in Thread : /\ pc'[s] \in Copying => wr'[what'[s]] = s
                              /\ pc'[s] \in {"rows", "shutOut"} => wr'[Rgba(s)'] = s
        <4> SUFFICES ASSUME NEW s \in Thread
                     PROVE  /\ pc'[s] \in Copying => wr'[what'[s]] = s
                            /\ pc'[s] \in {"rows", "shutOut"} => wr'[Rgba(s)'] = s
          OBVIOUS
        <4>1. CASE s = t
          BY <3>0, <3>1, <3>2, <4>1
        <4>2. CASE s # t
          BY <3>0, <3>1, <3>2, <4>2 DEF Locks
        <4> QED
          BY <4>1, <4>2
      <3>4. ASSUME NEW f \in File
            PROVE  wr'[f] # NoThread =>
                     /\ exists'[f]
                     /\ \/ pc'[wr'[f]] \in Copying /\ what'[wr'[f]] = f
                        \/ pc'[wr'[f]] \in {"rows", "shutOut"} /\ Rgba(wr[f])' = f
        BY <3>0, <3>1, <3>2 DEF Rgba, Locks
      <3>5. ASSUME NEW f \in File
            PROVE  /\ \A s \in rd'[f] \ {Overlay} :
                        pc'[s] \in Reading /\ what'[s] = f
                   /\ Overlay \in rd'[f] => f[1] = "art"
        BY <3>0 DEF Locks
      <3> QED
        BY <3>3, <3>4, <3>5 DEF Locks
    <2>2. CASE Goto(t, "drop") /\ UNCHANGED files
      BY <1>17, <2>2, LocksRead DEF OpenOut
    <2> QED
      BY <1>17, <2>1, <2>2 DEF OpenOut
  <1>18. CASE WriteRow(t)
    BY <1>18, LocksSame DEF WriteRow
  <1>19. CASE EndRows(t)
    BY <1>19 DEF EndRows, CloseIn, Locks
  <1>20. CASE DropOut(t)
    <2>1. \A s \in Thread \ {t} : pc'[s] = pc[s] /\ what'[s] = what[s]
      BY <1>20 DEF DropOut
    <2> HIDE DEF Rgba
    <2> QED
      BY <1>20, <2>1, OpenStays, LocksRead DEF DropOut
  <1>21. CASE Unlink(t)
    <2>1. \A s \in Thread \ {t} : pc'[s] = pc[s] /\ what'[s] = what[s]
      BY <1>21 DEF Unlink, Leave
    <2>2. pc'[t] \notin Copying \cup {"rows", "shutOut"}
      BY <1>21 DEF Unlink, Leave
    <2> QED
      BY <1>21, <2>1, <2>2, OpenStays, LocksFrame DEF Unlink
  <1>22. CASE TearDown(t)
    BY <1>22, LocksSame DEF TearDown
  <1>23. CASE NewSession(t)
    BY <1>23, LocksSame DEF NewSession
  <1>24. ASSUME NEW f \in File, Begin(t, f) PROVE Locks'
    <2>1. \A s \in Thread \ {t} : pc'[s] = pc[s] /\ what'[s] = what[s]
      BY <1>24 DEF Begin
    <2>2. pc'[t] \notin Copying \cup {"rows", "shutOut"}
      BY <1>24 DEF Begin
    <2> QED
      BY <1>24, <2>1, <2>2, LocksFrame DEF Begin
  <1>25. CASE Touch(t)
    <2>1. \A s \in Thread \ {t} : pc'[s] = pc[s] /\ what'[s] = what[s]
      BY <1>25 DEF Touch, Leave
    <2>2. pc'[t] = "idle" /\ pc[t] = "touch"
      BY <1>25 DEF Touch, Leave
    <2>3. \A n \in Name : <<"art", n>> \in File
      BY DEF File, Kind
    <2>4. ASSUME NEW g \in File, Remove(g)
          PROVE  UNCHANGED <<wr, rd>> /\ \A k \in File : wr[k] # NoThread /\ exists[k] => exists'[k]
      BY <2>4, OpenStays
    <2>5. CASE \E n \in Name : Remove(<<"art", n>>)
      <3>1. PICK n \in Name : Remove(<<"art", n>>)
        BY <2>5
      <3>2. UNCHANGED <<wr, rd>> /\ \A k \in File : wr[k] # NoThread /\ exists[k] => exists'[k]
        BY <2>3, <2>4, <3>1
      <3> QED
        BY <2>1, <2>2, <3>2, LocksFrame
    <2>6. CASE UNCHANGED files
      BY <2>1, <2>2, <2>6, LocksFrame
    <2> QED
      BY <1>25, <2>5, <2>6 DEF Touch
  <1>26. CASE ShutOut(t)
    BY <1>26 DEF ShutOut, Locks
  <1>27. CASE ShutIn(t)
    BY <1>27, LocksClose DEF ShutIn, CloseIn
  <1> QED
    BY <1>1, <1>2, <1>3, <1>4, <1>5, <1>6, <1>7, <1>8, <1>9, <1>10, <1>11, <1>12, <1>13, <1>14,
       <1>15, <1>16, <1>17, <1>18, <1>19, <1>20, <1>21, <1>22, <1>23, <1>24, <1>25, <1>26, <1>27 DEF Step, Wait

-----------------------------------------------------------------------------

\* A thread changes its own locals only.
LEMMA Frame ==
  ASSUME TypeOK, NEW t \in Thread,
         Step(t) \/ Wait(t) \/ TearDown(t) \/ NewSession(t) \/ \E h \in File : Begin(t, h)
  PROVE  \A s \in Thread \ {t} :
           /\ pc'[s] = pc[s] /\ what'[s] = what[s] /\ disc'[s] = disc[s]
           /\ left'[s] = left[s] /\ off'[s] = off[s] /\ err'[s] = err[s]
  <1>0. ThreadsOK
    BY Types
  <1> USE <1>0 DEF ThreadsOK, Goto, locals
  <1>1. CASE Connect(t)
    BY <1>1 DEF Connect, Return, Leave, Continue
  <1>2. CASE Delete(t)
    BY <1>2 DEF Delete
  <1>3. CASE Create(t)
    BY <1>3 DEF Create, Return, Leave, Continue
  <1>4. CASE Open(t)
    BY <1>4 DEF Open, Return, Leave, Continue
  <1>5. CASE Receive(t)
    BY <1>5 DEF Receive
  <1>6. CASE Flush(t)
    BY <1>6 DEF Flush, Write, WriteFails
  <1>7. CASE EndCopy(t)
    BY <1>7 DEF EndCopy
  <1>8. CASE ReadFails(t)
    BY <1>8 DEF ReadFails
  <1>9. CASE LastFlush(t)
    BY <1>9 DEF LastFlush, Write, WriteFails
  <1>10. CASE Close(t)
    BY <1>10 DEF Close
  <1>11. CASE Decide(t)
    BY <1>11 DEF Decide, Return, Leave, Continue
  <1>12. CASE OpenArt(t)
    BY <1>12 DEF OpenArt
  <1>13. CASE CheckArt(t)
    BY <1>13 DEF CheckArt
  <1>14. CASE DecodeOpen(t)
    BY <1>14 DEF DecodeOpen
  <1>15. CASE ReadHeader(t)
    BY <1>15 DEF ReadHeader
  <1>16. CASE CreateOut(t)
    BY <1>16 DEF CreateOut
  <1>17. CASE OpenOut(t)
    BY <1>17 DEF OpenOut
  <1>18. CASE WriteRow(t)
    BY <1>18 DEF WriteRow
  <1>19. CASE EndRows(t)
    BY <1>19 DEF EndRows
  <1>20. CASE DropOut(t)
    BY <1>20 DEF DropOut
  <1>21. CASE Unlink(t)
    BY <1>21 DEF Unlink, Leave
  <1>22. CASE TearDown(t)
    BY <1>22 DEF TearDown
  <1>23. CASE NewSession(t)
    BY <1>23 DEF NewSession
  <1>24. CASE \E h \in File : Begin(t, h)
    BY <1>24 DEF Begin
  <1>25. CASE Touch(t)
    BY <1>25 DEF Touch, Leave
  <1>26. CASE ShutOut(t)
    BY <1>26 DEF ShutOut
  <1>27. CASE ShutIn(t)
    BY <1>27 DEF ShutIn
  <1> QED
    BY <1>1, <1>2, <1>3, <1>4, <1>5, <1>6, <1>7, <1>8, <1>9, <1>10, <1>11, <1>12, <1>13, <1>14,
       <1>15, <1>16, <1>17, <1>18, <1>19, <1>20, <1>21, <1>22, <1>23, <1>24, <1>25, <1>26, <1>27 DEF Step, Wait

\* Nobody writes to a file that another has open for writing, or removes it.
LEMMA GotStays ==
  ASSUME TypeOK, Place, Locks, NEW t \in Thread, NEW g \in File, wr[g] \notin {NoThread, t},
         Step(t) \/ Wait(t) \/ TearDown(t) \/ NewSession(t) \/ \E h \in File : Begin(t, h)
  PROVE  got'[g] = got[g]
  <1>0. FilesOK /\ ThreadsOK
    BY Types
  <1>a. pc[t] # "idle" => what[t] \in File /\ Rgba(t) \in File
    BY Paths DEF Place, At, Rgba
  <1>b. exists[g]
    BY DEF Locks
  <1>c. UNCHANGED got => got'[g] = got[g]
    OBVIOUS
  <1>d. \A f \in File : Remove(f) \/ CreateFile(f) \/ UNCHANGED files => got'[g] = got[g]
    BY <1>0, <1>b, OpenStays
  <1> USE <1>0, <1>a, <1>c, <1>d
  <1>1. CASE Connect(t)
    BY <1>1 DEF Connect, files
  <1>2. CASE Delete(t)
    BY <1>2 DEF Delete
  <1>3. CASE Create(t)
    BY <1>3 DEF Create
  <1>4. CASE Open(t)
    BY <1>4 DEF Open, OpenWrite, files
  <1>5. CASE Receive(t)
    BY <1>5 DEF Receive, files
  <1>6. CASE Flush(t)
    BY <1>6 DEF Flush, Write, WriteFails, files, Locks, Copying, FilesOK
  <1>7. CASE EndCopy(t)
    BY <1>7 DEF EndCopy, files
  <1>8. CASE ReadFails(t)
    BY <1>8 DEF ReadFails, files
  <1>9. CASE LastFlush(t)
    BY <1>9 DEF LastFlush, Write, WriteFails, files, Locks, Copying, FilesOK
  <1>10. CASE Close(t)
    BY <1>10 DEF Close
  <1>11. CASE Decide(t)
    BY <1>11 DEF Decide
  <1>12. CASE OpenArt(t)
    BY <1>12 DEF OpenArt
  <1>13. CASE CheckArt(t)
    BY <1>13 DEF CheckArt
  <1>14. CASE DecodeOpen(t)
    BY <1>14 DEF DecodeOpen
  <1>15. CASE ReadHeader(t)
    BY <1>15 DEF ReadHeader
  <1>16. CASE CreateOut(t)
    BY <1>16 DEF CreateOut
  <1>17. CASE OpenOut(t)
    BY <1>17 DEF OpenOut, OpenWrite, files
  <1>18. CASE WriteRow(t)
    BY <1>18 DEF WriteRow, Locks, FilesOK
  <1>19. CASE EndRows(t)
    BY <1>19 DEF EndRows
  <1>20. CASE DropOut(t)
    BY <1>20 DEF DropOut
  <1>21. CASE Unlink(t)
    BY <1>21 DEF Unlink
  <1>22. CASE TearDown(t)
    BY <1>22 DEF TearDown, files
  <1>23. CASE NewSession(t)
    BY <1>23 DEF NewSession, files
  <1>24. CASE \E h \in File : Begin(t, h)
    BY <1>24 DEF Begin, files
  <1>25. CASE Touch(t)
    <2>1. \A n \in Name : <<"art", n>> \in File
      BY DEF File, Kind
    <2> QED
      BY <1>25, <2>1 DEF Touch, files
  <1>26. CASE ShutOut(t)
    BY <1>26 DEF ShutOut
  <1>27. CASE ShutIn(t)
    BY <1>27 DEF ShutIn
  <1> QED
    BY <1>1, <1>2, <1>3, <1>4, <1>5, <1>6, <1>7, <1>8, <1>9, <1>10, <1>11, <1>12, <1>13, <1>14,
       <1>15, <1>16, <1>17, <1>18, <1>19, <1>20, <1>21, <1>22, <1>23, <1>24, <1>25, <1>26, <1>27 DEF Step, Wait

\* Steps keep Written.
LEMMA WrittenStep ==
  ASSUME TypeOK, Place, Locks, Written, NEW t \in Thread,
         Step(t) \/ Wait(t) \/ TearDown(t) \/ NewSession(t) \/ \E h \in File : Begin(t, h)
  PROVE  Written'
  <1>0. FilesOK /\ ThreadsOK
    BY Types
  <1>a. ASSUME NEW s \in Thread \ {t}, pc'[s] \in Copying
        PROVE  1 .. off'[s] \subseteq got'[what'[s]]
    <2>1. pc'[s] = pc[s] /\ what'[s] = what[s] /\ off'[s] = off[s]
      BY Frame
    <2>2. what[s] \in File /\ wr[what[s]] = s
      BY <1>a, <2>1 DEF Place, At, Locks, Copying
    <2>3. got'[what[s]] = got[what[s]]
      BY <2>2, GotStays, DownloadsAssumption
    <2> QED
      BY <1>a, <2>1, <2>3 DEF Written
  <1>b. SUFFICES ASSUME pc'[t] \in Copying
                 PROVE  1 .. off'[t] \subseteq got'[what'[t]]
    BY <1>a DEF Written
  <1>c. pc[t] # "idle" => what[t] \in File
    BY DEF Place, At
  <1> USE <1>0, <1>b, <1>c DEF ThreadsOK, Goto, Copying, locals
  <1>1. CASE Connect(t)
    BY <1>1 DEF Connect, Return, Leave, Continue, Written, files
  <1>2. CASE Delete(t)
    BY <1>2 DEF Delete, Remove, Written, files
  <1>3. CASE Create(t)
    BY <1>3 DEF Create, Return, Leave, Continue, CreateFile, Written, files
  <1>4. CASE Open(t)
    <2>1. off[t] = 0 /\ off' = off
      BY <1>4 DEF Open, Return, Leave, Continue, Place, At
    <2> QED
      BY <2>1
  <1>5. CASE Receive(t)
    BY <1>5 DEF Receive, Written, files
  <1>6. CASE Flush(t)
    <2>0. what' = what /\ what[t] \in File /\ 1 .. off[t] \subseteq got[what[t]]
      BY <1>6 DEF Flush, Written
    <2>1. CASE Write(t)
      <3>1. got'[what[t]] = got[what[t]] \cup (off[t] + 1 .. off[t] + fill[t]) /\ off'[t] = off[t] + fill[t]
        BY <2>0, <2>1 DEF Write, FilesOK
      <3>2. fill[t] \in Nat /\ off[t] \in Nat
        BY DownloadsAssumption
      <3> QED
        BY <2>0, <3>1, <3>2
    <2>2. CASE WriteFails(t)
      BY <2>0, <2>2 DEF WriteFails, files
    <2> QED
      BY <1>6, <2>1, <2>2 DEF Flush
  <1>7. CASE EndCopy(t)
    BY <1>7 DEF EndCopy, Written, files
  <1>8. CASE ReadFails(t)
    BY <1>8 DEF ReadFails, Written, files
  <1>9. CASE LastFlush(t)
    <2>0. what' = what /\ what[t] \in File /\ 1 .. off[t] \subseteq got[what[t]]
      BY <1>9 DEF LastFlush, Written
    <2>1. CASE Write(t)
      <3>1. got'[what[t]] = got[what[t]] \cup (off[t] + 1 .. off[t] + fill[t]) /\ off'[t] = off[t] + fill[t]
        BY <2>0, <2>1 DEF Write, FilesOK
      <3>2. fill[t] \in Nat /\ off[t] \in Nat
        BY DownloadsAssumption
      <3> QED
        BY <2>0, <3>1, <3>2
    <2>2. CASE WriteFails(t)
      BY <2>0, <2>2 DEF WriteFails, files
    <2> QED
      BY <1>9, <2>1, <2>2 DEF LastFlush
  <1>10. CASE Close(t)
    BY <1>10 DEF Close, Written, files
  <1>11. CASE Decide(t)
    BY <1>11 DEF Decide, Return, Leave, Continue, Remove, Written, files
  <1>12. CASE OpenArt(t)
    BY <1>12 DEF OpenArt, CanRead, Written, files
  <1>13. CASE CheckArt(t)
    BY <1>13 DEF CheckArt, Written, files
  <1>14. CASE DecodeOpen(t)
    BY <1>14 DEF DecodeOpen, CanRead, Written, files
  <1>15. CASE ReadHeader(t)
    BY <1>15 DEF ReadHeader, CloseIn, Remove, Written, files
  <1>16. CASE CreateOut(t)
    BY <1>16 DEF CreateOut, CloseIn, CreateFile, Written, files
  <1>17. CASE OpenOut(t)
    BY <1>17 DEF OpenOut, CloseIn, OpenWrite, CanWrite, Written, files
  <1>18. CASE WriteRow(t)
    BY <1>18 DEF WriteRow, Written, files
  <1>19. CASE EndRows(t)
    BY <1>19 DEF EndRows, CloseIn, Written, files
  <1>20. CASE DropOut(t)
    BY <1>20 DEF DropOut, Remove, Written, files
  <1>21. CASE Unlink(t)
    BY <1>21 DEF Unlink, Leave, Remove, Written, files
  <1>22. CASE TearDown(t)
    BY <1>22 DEF TearDown, Written, files
  <1>23. CASE NewSession(t)
    BY <1>23 DEF NewSession, Written, files
  <1>24. CASE \E h \in File : Begin(t, h)
    BY <1>24 DEF Begin
  <1>25. CASE Touch(t)
    BY <1>25 DEF Touch, Leave
  <1>26. CASE ShutOut(t)
    BY <1>26 DEF ShutOut
  <1>27. CASE ShutIn(t)
    BY <1>27 DEF ShutIn
  <1> QED
    BY <1>1, <1>2, <1>3, <1>4, <1>5, <1>6, <1>7, <1>8, <1>9, <1>10, <1>11, <1>12, <1>13, <1>14,
       <1>15, <1>16, <1>17, <1>18, <1>19, <1>20, <1>21, <1>22, <1>23, <1>24, <1>25, <1>26, <1>27 DEF Step, Wait

-----------------------------------------------------------------------------

\* A shared file or an icon that is open has somebody at work on it.
LEMMA Holder ==
  ASSUME TypeOK, Place, Locks, NEW f \in File, f[1] \in {"share", "png"}, ~Free(f)
  PROVE  \E s \in Thread :
           /\ what[s] = f
           /\ pc[s] \in Copying \/ (f[1] = "png" /\ pc[s] \in Reading \ {"check"})
  <1>0. FilesOK /\ ThreadsOK
    BY Types
  <1>1. CASE wr[f] # NoThread
    <2>1. wr[f] \in Thread
      BY <1>0, <1>1 DEF FilesOK
    <2>2. Rgba(wr[f]) # f
      BY DEF Rgba
    <2> QED
      BY <1>1, <2>1, <2>2 DEF Locks
  <1>2. CASE rd[f] # {}
    <2>1. PICK s \in rd[f] : TRUE
      BY <1>2
    <2>2. s # Overlay /\ s \in Thread
      BY <1>0, <2>1 DEF Locks, FilesOK
    <2>3. pc[s] \in Reading /\ what[s] = f
      BY <2>1, <2>2 DEF Locks
    <2>4. pc[s] # "check" /\ f[1] = "png"
      BY <2>2, <2>3 DEF Place, At, Reading, Decoding
    <2> QED
      BY <2>2, <2>3, <2>4
  <1> QED
    BY <1>1, <1>2 DEF Free

\* Only create brings a file into being or empties it, and then its maker is
\* about to open it.
LEMMA MadeByCreate ==
  ASSUME TypeOK, Place, NEW t \in Thread, NEW f \in File, f[1] \in {"share", "png"},
         exists'[f], exists[f] => Whole(f) /\ ~Whole(f)',
         Step(t) \/ Wait(t) \/ TearDown(t) \/ NewSession(t) \/ \E h \in File : Begin(t, h)
  PROVE  what'[t] = f /\ pc'[t] = "open"
  <1>0. FilesOK /\ ThreadsOK
    BY Types
  <1>a. pc[t] # "idle" => what[t] \in File /\ Rgba(t) \in File /\ Rgba(t) # f
    BY Paths DEF Place, At, Rgba
  <1>b. ~(exists' = exists /\ \A u \in got[f] : u \in got'[f])
    BY DEF Whole
  <1>c. ASSUME NEW g \in File PROVE ~Remove(g)
    <2>1. Remove(g) => exists[f] /\ (g = f => ~Free(f))
      BY <1>0 DEF Remove, FilesOK
    <2>2. Remove(g) => got'[f] = got[f]
      BY <1>0, <2>1 DEF Remove, FilesOK
    <2> QED
      BY <2>1, <2>2 DEF Whole
  <1>d. ASSUME NEW g \in File \ {f} PROVE ~CreateFile(g)
    <2>1. CreateFile(g) => exists'[f] = exists[f] /\ got'[f] = got[f]
      BY <1>0 DEF CreateFile, FilesOK
    <2> QED
      BY <2>1 DEF Whole
  <1> USE <1>0, <1>a, <1>b, <1>c, <1>d
  <1>1. CASE Connect(t)
    BY <1>1 DEF Connect, files
  <1>2. CASE Delete(t)
    BY <1>2 DEF Delete
  <1>3. CASE Create(t)
    BY <1>3 DEF Create, Continue, Goto, ThreadsOK, locals, files
  <1>4. CASE Open(t)
    BY <1>4 DEF Open, OpenWrite, files
  <1>5. CASE Receive(t)
    BY <1>5 DEF Receive, files
  <1>6. CASE Flush(t)
    BY <1>6 DEF Flush, Write, WriteFails, FilesOK, files
  <1>7. CASE EndCopy(t)
    BY <1>7 DEF EndCopy, files
  <1>8. CASE ReadFails(t)
    BY <1>8 DEF ReadFails, files
  <1>9. CASE LastFlush(t)
    BY <1>9 DEF LastFlush, Write, WriteFails, FilesOK, files
  <1>10. CASE Close(t)
    BY <1>10 DEF Close
  <1>11. CASE Decide(t)
    BY <1>11 DEF Decide, files
  <1>12. CASE OpenArt(t)
    BY <1>12 DEF OpenArt
  <1>13. CASE CheckArt(t)
    BY <1>13 DEF CheckArt
  <1>14. CASE DecodeOpen(t)
    BY <1>14 DEF DecodeOpen
  <1>15. CASE ReadHeader(t)
    BY <1>15 DEF ReadHeader
  <1>16. CASE CreateOut(t)
    BY <1>16 DEF CreateOut
  <1>17. CASE OpenOut(t)
    BY <1>17 DEF OpenOut, OpenWrite, files
  <1>18. CASE WriteRow(t)
    BY <1>18 DEF WriteRow, FilesOK
  <1>19. CASE EndRows(t)
    BY <1>19 DEF EndRows
  <1>20. CASE DropOut(t)
    BY <1>20 DEF DropOut
  <1>21. CASE Unlink(t)
    BY <1>21 DEF Unlink
  <1>22. CASE TearDown(t)
    BY <1>22 DEF TearDown, files
  <1>23. CASE NewSession(t)
    BY <1>23 DEF NewSession, files
  <1>24. CASE \E h \in File : Begin(t, h)
    BY <1>24 DEF Begin, files
  <1>25. CASE Touch(t)
    BY <1>25 DEF Touch, File, Kind, files
  <1>26. CASE ShutOut(t)
    BY <1>26 DEF ShutOut
  <1>27. CASE ShutIn(t)
    BY <1>27 DEF ShutIn
  <1> QED
    BY <1>1, <1>2, <1>3, <1>4, <1>5, <1>6, <1>7, <1>8, <1>9, <1>10, <1>11, <1>12, <1>13, <1>14,
       <1>15, <1>16, <1>17, <1>18, <1>19, <1>20, <1>21, <1>22, <1>23, <1>24, <1>25, <1>26, <1>27 DEF Step, Wait

\* The thread that a partial file is left to stays responsible, or hands it to
\* another, or the file is whole or gone.
LEMMA PartialStep ==
  ASSUME ~OpenFails, TypeOK, Place, Locks, Written, NEW t \in Thread, NEW f \in File, f[1] = "share",
         exists'[f], what[t] = f, pc[t] \in {"open"} \cup Copying \/ (pc[t] = "decide" /\ Failed(t)),
         Step(t) \/ Wait(t) \/ TearDown(t) \/ NewSession(t) \/ \E h \in File : Begin(t, h)
  PROVE  Whole(f)' \/ Partial(f)'
  <1>0. FilesOK /\ ThreadsOK
    BY Types
  <1>a. ASSUME ~Free(f), pc[t] \notin Copying PROVE Partial(f)'
    <2>1. PICK s \in Thread : what[s] = f /\ pc[s] \in Copying
      BY <1>a, Holder
    <2>2. s # t
      BY <1>a, <2>1
    <2> QED
      BY <2>1, <2>2, Frame DEF Partial
  <1>b. ASSUME what'[t] = f, pc'[t] \in Copying PROVE Partial(f)'
    BY <1>b DEF Partial
  <1> USE <1>0, <1>a, <1>b DEF ThreadsOK, Goto, locals
  <1>1. CASE Open(t)
    <2>1. CASE OpenWrite(what[t], t) /\ Continue(t, "copy")
      BY <2>1 DEF Continue, Copying
    <2>2. CASE ~CanWrite(what[t]) /\ UNCHANGED files
      BY <1>1, <2>2 DEF CanWrite, Open, Copying, files
    <2> QED
      BY <1>1, <2>1, <2>2 DEF Open
  <1>2. CASE Receive(t) \/ EndCopy(t) \/ ReadFails(t)
    BY <1>2 DEF Receive, EndCopy, ReadFails, Copying
  <1>3. CASE Flush(t) \/ LastFlush(t)
    BY <1>3 DEF Flush, LastFlush, Copying
  <1>4. CASE Close(t)
    <2>0. what'[t] = f /\ pc'[t] = "decide" /\ UNCHANGED <<disc, left, err, got>>
      BY <1>4 DEF Close
    <2>1. CASE Failed(t)
      BY <2>0, <2>1 DEF Partial, Failed
    <2>2. CASE ~Failed(t)
      <3>1. left[t] = 0 /\ ~err[t] /\ pc[t] = "close"
        BY <1>4, <2>2, DownloadsAssumption DEF Failed, Close
      <3>2. off[t] = Size
        BY <3>1, DownloadsAssumption DEF Place, At, Copying
      <3> QED
        BY <2>0, <3>1, <3>2 DEF Written, Whole, Units, Copying
    <2> QED
      BY <2>1, <2>2
  <1>5. CASE Decide(t)
    <2>1. Failed(t) /\ Remove(f) /\ pc[t] = "decide"
      BY <1>5 DEF Decide, Copying
    <2>2. ~Free(f)
      BY <2>1 DEF Remove, FilesOK
    <2> QED
      BY <2>1, <2>2 DEF Copying
  <1>6. CASE TearDown(t)
    BY <1>6 DEF TearDown, Partial, Failed
  <1>7. Open(t) \/ Receive(t) \/ EndCopy(t) \/ ReadFails(t) \/ Flush(t) \/ LastFlush(t) \/ Close(t) \/ Decide(t) \/ TearDown(t)
    BY DEF Step, Wait, Copying, Connect, Delete, Create, OpenArt, CheckArt, DecodeOpen, ReadHeader, CreateOut,
           OpenOut, WriteRow, EndRows, ShutOut, DropOut, ShutIn, Unlink, Touch, NewSession, Begin
  <1> QED
    BY <1>1, <1>2, <1>3, <1>4, <1>5, <1>6, <1>7

\* The same for an icon as it was received: it is removed in the end, whole or
\* not.
LEMMA TemporaryStep ==
  ASSUME ~OpenFails, TypeOK, Place, Locks, NEW t \in Thread, NEW f \in File, f[1] = "png",
         exists'[f], what[t] = f, pc[t] \in {"open", "decide", "decode", "unlink"} \cup Copying \cup Decoding,
         Step(t) \/ Wait(t) \/ TearDown(t) \/ NewSession(t) \/ \E h \in File : Begin(t, h)
  PROVE  Temporary(f)'
  <1>0. FilesOK /\ ThreadsOK
    BY Types
  <1>a. ASSUME ~Free(f), pc[t] \notin Copying \cup Decoding PROVE Temporary(f)'
    <2>1. PICK s \in Thread : what[s] = f /\ pc[s] \in Copying \cup Decoding
      BY <1>a, Holder DEF Reading, Decoding
    <2>2. s # t
      BY <1>a, <2>1
    <2> QED
      BY <2>1, <2>2, Frame DEF Temporary
  <1>b. ASSUME what'[t] = f, pc'[t] \in {"open", "decide", "decode", "unlink"} \cup Copying \cup Decoding PROVE Temporary(f)'
    BY <1>b DEF Temporary
  <1> USE <1>0, <1>a, <1>b DEF ThreadsOK, Goto, locals
  <1>1. CASE Open(t)
    <2>1. CASE OpenWrite(what[t], t) /\ Continue(t, "copy")
      BY <2>1 DEF Continue, Copying
    <2>2. CASE ~CanWrite(what[t]) /\ UNCHANGED files
      BY <1>1, <2>2 DEF CanWrite, Open, Copying, Decoding, files
    <2> QED
      BY <1>1, <2>1, <2>2 DEF Open
  <1>2. CASE Receive(t) \/ EndCopy(t) \/ ReadFails(t) \/ Flush(t) \/ LastFlush(t) \/ Close(t)
    BY <1>2 DEF Receive, EndCopy, ReadFails, Flush, LastFlush, Close, Copying
  <1>3. CASE Decide(t)
    <2>1. CASE Failed(t)
      <3>1. Remove(f) /\ pc[t] = "decide"
        BY <1>3, <2>1 DEF Decide
      <3>2. ~Free(f)
        BY <3>1 DEF Remove, FilesOK
      <3> QED
        BY <3>1, <3>2 DEF Copying, Decoding
    <2>2. CASE ~Failed(t)
      BY <1>3, <2>2 DEF Decide, Return, Continue
    <2> QED
      BY <2>1, <2>2
  <1>4. CASE DecodeOpen(t) \/ ReadHeader(t) \/ CreateOut(t) \/ OpenOut(t) \/ WriteRow(t) \/ EndRows(t)
               \/ ShutOut(t) \/ DropOut(t) \/ ShutIn(t)
    BY <1>4 DEF DecodeOpen, ReadHeader, CreateOut, OpenOut, WriteRow, EndRows, ShutOut, DropOut, ShutIn, Decoding
  <1>5. CASE Unlink(t)
    <2>1. Remove(f) /\ pc[t] = "unlink"
      BY <1>5 DEF Unlink
    <2>2. ~Free(f)
      BY <2>1 DEF Remove, FilesOK
    <2> QED
      BY <2>1, <2>2 DEF Copying, Decoding
  <1>6. CASE TearDown(t)
    BY <1>6 DEF TearDown
  <1>7. \/ Open(t) \/ Receive(t) \/ EndCopy(t) \/ ReadFails(t) \/ Flush(t) \/ LastFlush(t) \/ Close(t) \/ Decide(t)
        \/ DecodeOpen(t) \/ ReadHeader(t) \/ CreateOut(t) \/ OpenOut(t) \/ WriteRow(t) \/ EndRows(t) \/ ShutOut(t)
        \/ DropOut(t) \/ ShutIn(t) \/ Unlink(t) \/ TearDown(t)
    BY DEF Step, Wait, Copying, Decoding, Connect, Delete, Create, OpenArt, CheckArt, Touch, NewSession, Begin
  <1> QED
    BY <1>1, <1>2, <1>3, <1>4, <1>5, <1>6, <1>7

\* Steps keep Accounted.
LEMMA AccountedStep ==
  ASSUME ~OpenFails, TypeOK, Place, Locks, Written, Accounted, NEW t \in Thread,
         Step(t) \/ Wait(t) \/ TearDown(t) \/ NewSession(t) \/ \E h \in File : Begin(t, h)
  PROVE  Accounted'
  <1> SUFFICES ASSUME NEW f \in File, f[1] \in {"share", "png"}, exists'[f]
               PROVE  /\ f[1] = "share" => Whole(f)' \/ Partial(f)'
                      /\ f[1] = "png" => Temporary(f)'
    BY DEF Accounted
  <1>1. CASE ~exists[f] \/ (Whole(f) /\ ~Whole(f)')
    <2>1. what'[t] = f /\ pc'[t] = "open"
      BY <1>1, MadeByCreate
    <2> QED
      BY <2>1 DEF Partial, Temporary
  <1>2. CASE exists[f] /\ (Whole(f) => Whole(f)') /\ f[1] = "share"
    <2>1. CASE Whole(f)
      BY <1>2, <2>1
    <2>2. CASE ~Whole(f)
      <3>1. PICK s \in Thread : what[s] = f /\ (pc[s] \in {"open"} \cup Copying \/ (pc[s] = "decide" /\ Failed(s)))
        BY <1>2, <2>2 DEF Accounted, Partial
      <3>2. CASE s = t
        BY <1>2, <3>1, <3>2, PartialStep
      <3>3. CASE s # t
        BY <1>2, <3>1, <3>3, Frame DEF Partial, Failed
      <3> QED
        BY <3>2, <3>3
    <2> QED
      BY <2>1, <2>2
  <1>3. CASE exists[f] /\ f[1] = "png"
    <2>1. PICK s \in Thread : what[s] = f /\ pc[s] \in {"open", "decide", "decode", "unlink"} \cup Copying \cup Decoding
      BY <1>3 DEF Accounted, Temporary
    <2>2. CASE s = t
      BY <1>3, <2>1, <2>2, TemporaryStep
    <2>3. CASE s # t
      BY <1>3, <2>1, <2>3, Frame DEF Temporary
    <2> QED
      BY <1>3, <2>2, <2>3
  <1> QED
    BY <1>1, <1>2, <1>3

-----------------------------------------------------------------------------

\* Nothing is open and nothing is there at the start.
LEMMA LocksInit == Init => Locks /\ Written /\ Accounted
  BY DEF Init, Locks, Written, Accounted, Copying

\* The overlay, which reads a picture, keeps Locks; Written and Accounted speak
\* of nothing it changes.
LEMMA OverlayStep ==
  ASSUME TypeOK, Place, Locks, Written, NEW f \in File, OverlayOpens(f) \/ OverlayCloses(f)
  PROVE  Locks' /\ Written' /\ (Accounted => Accounted')
  <1>0. FilesOK /\ ThreadsOK
    BY Types
  <1>1. UNCHANGED <<pc, disc, what, left, fill, off, err, exists, got, wr>>
    BY DEF OverlayOpens, OverlayCloses, locals
  <1>2. \A g \in File : /\ rd'[g] \ {Overlay} = rd[g] \ {Overlay}
                        /\ Overlay \in rd'[g] => Overlay \in rd[g] \/ g[1] = "art"
    BY <1>0 DEF OverlayOpens, OverlayCloses, FilesOK
  <1>3. Locks'
    BY <1>1, <1>2 DEF Locks, Rgba
  <1>4. Written' /\ (Accounted => Accounted')
    BY <1>1 DEF Written, Accounted, Whole, Partial, Temporary, Failed
  <1> QED
    BY <1>3, <1>4

\* A session that comes up and removes icons disturbs nobody who has one open,
\* and none of the files that were received.
LEMMA ClearStep ==
  ASSUME TypeOK, Place, Locks, Written, NEW n \in Name, ClearIcon(n)
  PROVE  /\ UNCHANGED <<pc, disc, what, left, fill, off, err, wr, rd>>
         /\ \A g \in File : wr[g] # NoThread => got'[g] = got[g]
         /\ \A g \in File : exists'[g] => exists[g] /\ got'[g] = got[g]
         /\ Locks' /\ Written' /\ (Accounted => Accounted')
  <1>0. FilesOK /\ ThreadsOK
    BY Types
  <1>1. <<"rgba", n>> \in File /\ Remove(<<"rgba", n>>)
    BY DEF ClearIcon, File, Kind
  <1>2. UNCHANGED <<pc, disc, what, left, fill, off, err, wr, rd>>
    BY <1>1 DEF ClearIcon, Remove, locals
  <1>3. \A g \in File : wr[g] # NoThread => exists'[g] /\ got'[g] = got[g]
    BY <1>0, <1>1, OpenStays DEF Locks
  <1>4. \A g \in File : exists'[g] => exists[g] /\ got'[g] = got[g]
    BY <1>0, <1>1 DEF Remove, FilesOK
  <1>5. Locks'
    BY <1>2, <1>3 DEF Locks, Rgba
  <1>6. Written'
    <2> SUFFICES ASSUME NEW s \in Thread, pc[s] \in Copying PROVE 1 .. off[s] \subseteq got'[what[s]]
      BY <1>2 DEF Written
    <2>1. what[s] \in File /\ wr[what[s]] # NoThread
      BY DownloadsAssumption DEF Place, At, Locks, Copying
    <2> QED
      BY <1>3, <2>1 DEF Written
  <1>7. Accounted => Accounted'
    BY <1>2, <1>4 DEF Accounted, Whole, Partial, Temporary, Failed
  <1> QED
    BY <1>2, <1>3, <1>4, <1>5, <1>6, <1>7

\* A stuttering step keeps everything.
LEMMA Stutter ==
  ASSUME Locks, Written, UNCHANGED vars
  PROVE  Locks' /\ Written' /\ (Accounted => Accounted')
  <1>1. UNCHANGED <<pc, disc, what, left, fill, off, err, exists, got, wr, rd>>
    BY DEF vars, locals, files
  <1>2. Locks'
    BY <1>1 DEF Locks, Rgba
  <1>3. Written' /\ (Accounted => Accounted')
    BY <1>1 DEF Written, Accounted, Whole, Partial, Temporary, Failed
  <1> QED
    BY <1>2, <1>3

\* The inductive invariant: types, counters, who has what open, and what has
\* been written.
IInv == TypeOK /\ Place /\ Locks /\ Written

\* It holds at the start and every step keeps it.
LEMMA Invariance == Spec => []IInv
  <1>1. Init => IInv
    BY TypeInit, LocksInit DEF IInv
  <1>2. IInv /\ [Next]_vars => IInv'
    <2> SUFFICES ASSUME IInv, [Next]_vars PROVE IInv'
      OBVIOUS
    <2>0. TypeOK /\ Place /\ Locks /\ Written
      BY DEF IInv
    <2>1. TypeOK' /\ Place'
      BY <2>0, TypeStep
    <2>2. ASSUME NEW t \in Thread,
                 Step(t) \/ Wait(t) \/ TearDown(t) \/ NewSession(t) \/ \E h \in File : Begin(t, h)
          PROVE  Locks' /\ Written'
      BY <2>0, <2>2, LocksStep, WrittenStep
    <2>3. ASSUME NEW f \in File, OverlayOpens(f) \/ OverlayCloses(f)
          PROVE  Locks' /\ Written'
      BY <2>0, <2>3, OverlayStep
    <2>4. ASSUME UNCHANGED vars PROVE Locks' /\ Written'
      BY <2>0, <2>4, Stutter
    <2>6. ASSUME NEW n \in Name, ClearIcon(n)
          PROVE  Locks' /\ Written'
      BY <2>0, <2>6, ClearStep
    <2>5. Locks' /\ Written'
      BY <2>2, <2>3, <2>4, <2>6 DEF Next
    <2> QED
      BY <2>1, <2>5 DEF IInv
  <1> QED
    BY <1>1, <1>2, PTL DEF Spec

\* The counters of download_payload stay in their ranges, and nothing but a
\* thread or the overlay holds a file.
THEOREM DownloadsTypeCorrect == Spec => []TypeOK
  <1>1. IInv => TypeOK
    BY DEF IInv
  <1> QED
    BY <1>1, Invariance, PTL

\* A download that is going to report success has written every unit, and its
\* file is there, whatever other threads do with files of that name.
THEOREM SavedIsWholeTheorem == Spec => []SavedIsWhole
  <1>1. IInv => SavedIsWhole
    <2> SUFFICES ASSUME IInv, NEW t \in Thread, pc[t] = "close", left[t] = 0, ~err[t]
                 PROVE  exists[what[t]] /\ Whole(what[t])
      BY DEF SavedIsWhole
    <2>0. TypeOK /\ Place /\ Locks /\ Written
      BY DEF IInv
    <2>1. what[t] \in File /\ what[t][1] # "rgba" /\ off[t] = Size
      BY <2>0, DownloadsAssumption DEF Place, At, TypeOK, Receiving, Copying
    <2>2. wr[what[t]] = t /\ t # NoThread
      BY <2>0, DownloadsAssumption DEF Locks, Copying
    <2>3. exists[what[t]]
      BY <2>0, <2>1, <2>2 DEF Locks
    <2>4. 1 .. Size \subseteq got[what[t]]
      BY <2>0, <2>1 DEF Written, Copying
    <2> QED
      BY <2>1, <2>3, <2>4 DEF Whole, Units
  <1> QED
    BY <1>1, Invariance, PTL

\* When all threads are back in io_loop no shared file is left in part, and no
\* icon as it was received, if files that nobody has open can be opened.
THEOREM NothingPartialTheorem ==
  ASSUME ~OpenFails
  PROVE  Spec => []NothingPartial
  <1>1. Init => Accounted
    BY LocksInit
  <1>2. IInv /\ Accounted /\ [Next]_vars => Accounted'
    <2> SUFFICES ASSUME IInv, Accounted, [Next]_vars PROVE Accounted'
      OBVIOUS
    <2>0. TypeOK /\ Place /\ Locks /\ Written
      BY DEF IInv
    <2>1. ASSUME NEW t \in Thread,
                 Step(t) \/ Wait(t) \/ TearDown(t) \/ NewSession(t) \/ \E h \in File : Begin(t, h)
          PROVE  Accounted'
      BY <2>0, <2>1, AccountedStep
    <2>2. ASSUME NEW f \in File, OverlayOpens(f) \/ OverlayCloses(f)
          PROVE  Accounted'
      BY <2>0, <2>2, OverlayStep
    <2>3. CASE UNCHANGED vars
      BY <2>0, <2>3, Stutter
    <2>4. ASSUME NEW n \in Name, ClearIcon(n)
          PROVE  Accounted'
      BY <2>0, <2>4, ClearStep
    <2> QED
      BY <2>1, <2>2, <2>3, <2>4 DEF Next
  <1>3. Accounted => NothingPartial
    <2> SUFFICES ASSUME Accounted, AllIdle, NEW n \in Name
                 PROVE  /\ exists[<<"share", n>>] => Whole(<<"share", n>>)
                        /\ ~exists[<<"png", n>>]
      BY DEF NothingPartial
    <2>1. <<"share", n>> \in File /\ <<"png", n>> \in File
      BY DEF File, Kind
    <2>2. ~Partial(<<"share", n>>) /\ ~Temporary(<<"png", n>>)
      BY DEF AllIdle, Partial, Temporary, Copying, Decoding
    <2> QED
      BY <2>1, <2>2 DEF Accounted
  <1> QED
    BY <1>1, <1>2, <1>3, Invariance, PTL DEF Spec

-----------------------------------------------------------------------------

\* Rows that were decoded are in the file.
Decoded == \A t \in Thread : pc[t] \in {"rows", "shutOut"} => 1 .. off[t] \subseteq got[Rgba(t)]

\* Somebody will remove or complete the decoded icon.
Half(f) ==
  \E t \in Thread :
    /\ Rgba(t) = f
    /\ pc[t] \in {"openOut", "rows", "drop"} \/ (pc[t] = "shutOut" /\ off[t] # Rows)

IconsAccounted == \A f \in File : f[1] = "rgba" /\ exists[f] => Whole(f) \/ Half(f)

\* Steps keep Decoded, if rows can be written.
LEMMA DecodedStep ==
  ASSUME ~RowsFail, TypeOK, Place, Locks, Decoded, NEW t \in Thread,
         Step(t) \/ Wait(t) \/ TearDown(t) \/ NewSession(t) \/ \E h \in File : Begin(t, h)
  PROVE  Decoded'
  <1>0. FilesOK /\ ThreadsOK
    BY Types
  <1>a. ASSUME NEW s \in Thread \ {t}, pc'[s] \in {"rows", "shutOut"}
        PROVE  1 .. off'[s] \subseteq got'[Rgba(s)']
    <2>1. pc'[s] = pc[s] /\ Rgba(s)' = Rgba(s) /\ off'[s] = off[s]
      BY Frame DEF Rgba
    <2>2. Rgba(s) \in File /\ wr[Rgba(s)] = s
      BY <1>a, <2>1, Paths DEF Place, At, Locks, Rgba
    <2>3. got'[Rgba(s)] = got[Rgba(s)]
      BY <2>2, GotStays, DownloadsAssumption
    <2> QED
      BY <1>a, <2>1, <2>3 DEF Decoded
  <1>b. SUFFICES ASSUME pc'[t] \in {"rows", "shutOut"}
                 PROVE  1 .. off'[t] \subseteq got'[Rgba(t)']
    BY <1>a DEF Decoded
  <1>1. OpenOut(t) \/ WriteRow(t) \/ EndRows(t) \/ ((TearDown(t) \/ NewSession(t)) /\ pc[t] \in {"rows", "shutOut"})
    BY <1>0, <1>b DEF ThreadsOK, Goto, Step, Wait, Connect, Delete, Create, Open, Receive, Flush, EndCopy, ReadFails,
       LastFlush, Close, Decide, Return, Leave, Continue, OpenArt, CheckArt, Touch, DecodeOpen, ReadHeader, CreateOut,
       ShutOut, DropOut, ShutIn, Unlink, Begin, TearDown, NewSession
  <1>2. CASE OpenOut(t)
    <2>1. off'[t] = 0
      BY <1>2 DEF OpenOut, Place, At, locals
    <2> QED
      BY <2>1
  <1>3. CASE WriteRow(t)
    <2>1. pc[t] = "rows" /\ Rgba(t)' = Rgba(t) /\ Rgba(t) \in File
      BY <1>3, Paths DEF WriteRow, Rgba, Place, At
    <2>2. got'[Rgba(t)] = got[Rgba(t)] \cup {off[t] + 1} /\ off'[t] = off[t] + 1
      BY <1>0, <1>3, <2>1 DEF WriteRow, FilesOK, ThreadsOK
    <2>3. 1 .. off[t] \subseteq got[Rgba(t)] /\ off[t] \in Nat
      BY <1>0, <2>1 DEF Decoded, ThreadsOK
    <2> QED
      BY <2>1, <2>2, <2>3
  <1>4. CASE EndRows(t)
    BY <1>4 DEF EndRows, Decoded, Rgba, locals
  <1>5. CASE (TearDown(t) \/ NewSession(t)) /\ pc[t] \in {"rows", "shutOut"}
    BY <1>5 DEF TearDown, NewSession, Decoded, Rgba, locals, files
  <1> QED
    BY <1>1, <1>2, <1>3, <1>4, <1>5

\* Only the step that creates it brings a decoded icon into being or empties it.
LEMMA MadeByCreateOut ==
  ASSUME TypeOK, Place, NEW t \in Thread, NEW f \in File, f[1] = "rgba",
         exists'[f], exists[f] => Whole(f) /\ ~Whole(f)',
         Step(t) \/ Wait(t) \/ TearDown(t) \/ NewSession(t) \/ \E h \in File : Begin(t, h)
  PROVE  Rgba(t)' = f /\ pc'[t] = "openOut"
  <1>0. FilesOK /\ ThreadsOK
    BY Types
  <1>a. pc[t] # "idle" => what[t] \in File /\ Rgba(t) \in File
    BY Paths DEF Place, At, Rgba
  <1>b. ~(exists' = exists /\ \A u \in got[f] : u \in got'[f])
    BY DEF Whole
  <1>c. ASSUME NEW g \in File PROVE ~Remove(g)
    <2>1. Remove(g) => exists[f] /\ (g = f => ~Free(f))
      BY <1>0 DEF Remove, FilesOK
    <2>2. Remove(g) => got'[f] = got[f]
      BY <1>0, <2>1 DEF Remove, FilesOK
    <2> QED
      BY <2>1, <2>2 DEF Whole
  <1>d. ASSUME NEW g \in File \ {f} PROVE ~CreateFile(g)
    <2>1. CreateFile(g) => exists'[f] = exists[f] /\ got'[f] = got[f]
      BY <1>0 DEF CreateFile, FilesOK
    <2> QED
      BY <2>1 DEF Whole
  <1> USE <1>0, <1>a, <1>b, <1>c, <1>d
  <1>1. CASE Create(t)
    <2>1. what[t] # f
      BY <1>1 DEF Create, Place, At, Receiving
    <2> QED
      BY <1>1, <2>1 DEF Create, files
  <1>2. CASE CreateOut(t)
    <2>1. CreateFile(Rgba(t)) /\ Goto(t, "openOut") /\ what' = what
      BY <1>2 DEF CreateOut, locals
    <2> QED
      BY <1>2, <2>1 DEF CreateOut, Goto, ThreadsOK, Rgba
  <1>3. CASE Flush(t) \/ LastFlush(t)
    BY <1>3 DEF Flush, LastFlush, Write, WriteFails, FilesOK, files
  <1>4. CASE WriteRow(t)
    BY <1>4 DEF WriteRow, FilesOK
  <1>5. CASE Touch(t)
    <2>1. \A n \in Name : <<"art", n>> \in File
      BY DEF File, Kind
    <2> QED
      BY <1>5, <2>1 DEF Touch, files
  <1>6. CASE Delete(t) \/ Decide(t) \/ DropOut(t) \/ Unlink(t) \/ ReadHeader(t)
    BY <1>6 DEF Delete, Decide, DropOut, Unlink, ReadHeader, files
  <1>7. CASE Open(t) \/ OpenOut(t)
    BY <1>7 DEF Open, OpenOut, OpenWrite, files
  <1>8. CASE \/ Connect(t) \/ Receive(t) \/ EndCopy(t) \/ ReadFails(t) \/ Close(t) \/ OpenArt(t) \/ CheckArt(t)
             \/ DecodeOpen(t) \/ EndRows(t) \/ ShutOut(t) \/ ShutIn(t) \/ TearDown(t) \/ NewSession(t)
             \/ \E h \in File : Begin(t, h)
    BY <1>8 DEF Connect, Receive, EndCopy, ReadFails, Close, OpenArt, CheckArt, DecodeOpen, EndRows, ShutOut,
       ShutIn, TearDown, NewSession, Begin, files
  <1> QED
    BY <1>1, <1>2, <1>3, <1>4, <1>5, <1>6, <1>7, <1>8 DEF Step, Wait

\* The thread that an unfinished icon is left to stays responsible, or another
\* has it open, or the icon is whole or gone.
LEMMA HalfStep ==
  ASSUME TypeOK, Place, Locks, Decoded, NEW t \in Thread, NEW f \in File, f[1] = "rgba",
         exists'[f], Rgba(t) = f,
         pc[t] \in {"openOut", "rows", "drop"} \/ (pc[t] = "shutOut" /\ off[t] # Rows),
         Step(t) \/ Wait(t) \/ TearDown(t) \/ NewSession(t) \/ \E h \in File : Begin(t, h)
  PROVE  Whole(f)' \/ Half(f)'
  <1>0. FilesOK /\ ThreadsOK
    BY Types
  <1>1. \/ OpenOut(t) \/ WriteRow(t) \/ EndRows(t) \/ ShutOut(t) \/ DropOut(t) \/ TearDown(t)
    BY DEF Step, Wait, Connect, Delete, Create, Open, Receive, Flush, EndCopy, ReadFails, LastFlush, Close, Decide,
       OpenArt, CheckArt, Touch, DecodeOpen, ReadHeader, CreateOut, ShutIn, Unlink, Begin, NewSession
  <1>2. Rgba(t)' = f
    BY <1>1 DEF OpenOut, WriteRow, EndRows, ShutOut, DropOut, TearDown, Rgba, locals
  <1>3. CASE OpenOut(t) \/ WriteRow(t) \/ ShutOut(t)
    <2>1. pc'[t] \in {"rows", "drop"}
      BY <1>0, <1>3 DEF OpenOut, WriteRow, ShutOut, Goto, ThreadsOK
    <2> QED
      BY <1>2, <2>1 DEF Half
  <1>4. CASE EndRows(t)
    <2>1. pc[t] = "rows" /\ pc'[t] = "shutOut" /\ off'[t] = off[t] /\ got' = got
      BY <1>0, <1>4 DEF EndRows, Goto, ThreadsOK, locals
    <2>2. CASE off[t] = Rows
      BY <2>1, <2>2 DEF Decoded, Whole, Units
    <2>3. CASE off[t] # Rows
      BY <1>2, <2>1, <2>3 DEF Half
    <2> QED
      BY <2>2, <2>3
  <1>5. CASE TearDown(t)
    BY <1>2, <1>5 DEF TearDown, Half, locals
  <1>6. CASE DropOut(t)
    <2>1. Remove(f) /\ pc[t] = "drop"
      BY <1>6 DEF DropOut
    <2>2. ~Free(f) /\ got'[f] = got[f]
      BY <1>0, <2>1 DEF Remove, FilesOK
    <2>3. rd[f] = {}
      <3>1. SUFFICES ASSUME NEW s \in rd[f] PROVE FALSE
        OBVIOUS
      <3>2. s # Overlay /\ s \in Thread
        BY <1>0 DEF Locks, FilesOK
      <3>3. pc[s] \in Reading /\ what[s] = f
        BY <3>2 DEF Locks
      <3> QED
        BY <3>2, <3>3 DEF Place, At, Reading, Decoding
    <2>4. wr[f] \in Thread
      BY <1>0, <2>2, <2>3 DEF Free, FilesOK
    <2>5. wr[f] # NoThread
      BY <2>2, <2>3 DEF Free
    <2>6. pc[wr[f]] \in {"rows", "shutOut"} /\ Rgba(wr[f]) = f
      BY <2>4, <2>5 DEF Locks, Place, At, Receiving
    <2>7. PICK s \in Thread : pc[s] \in {"rows", "shutOut"} /\ Rgba(s) = f
      BY <2>4, <2>6
    <2>8. s # t
      BY <2>1, <2>7
    <2>9. pc'[s] = pc[s] /\ off'[s] = off[s] /\ Rgba(s)' = f
      BY <2>7, <2>8, Frame DEF Rgba
    <2>10. CASE pc[s] = "shutOut" /\ off[s] = Rows
      BY <2>2, <2>7, <2>10 DEF Decoded, Whole, Units
    <2>11. CASE ~(pc[s] = "shutOut" /\ off[s] = Rows)
      BY <2>7, <2>9, <2>11 DEF Half
    <2> QED
      BY <2>10, <2>11
  <1> QED
    BY <1>1, <1>3, <1>4, <1>5, <1>6

\* Steps keep IconsAccounted.
LEMMA IconsStep ==
  ASSUME TypeOK, Place, Locks, Decoded, IconsAccounted, NEW t \in Thread,
         Step(t) \/ Wait(t) \/ TearDown(t) \/ NewSession(t) \/ \E h \in File : Begin(t, h)
  PROVE  IconsAccounted'
  <1> SUFFICES ASSUME NEW f \in File, f[1] = "rgba", exists'[f]
               PROVE  Whole(f)' \/ Half(f)'
    BY DEF IconsAccounted
  <1>1. CASE ~exists[f] \/ (Whole(f) /\ ~Whole(f)')
    <2>1. Rgba(t)' = f /\ pc'[t] = "openOut"
      BY <1>1, MadeByCreateOut
    <2> QED
      BY <2>1 DEF Half
  <1>2. CASE exists[f] /\ (Whole(f) => Whole(f)')
    <2>1. CASE Whole(f)
      BY <1>2, <2>1
    <2>2. CASE ~Whole(f)
      <3>1. PICK s \in Thread :
              /\ Rgba(s) = f
              /\ pc[s] \in {"openOut", "rows", "drop"} \/ (pc[s] = "shutOut" /\ off[s] # Rows)
        BY <1>2, <2>2 DEF IconsAccounted, Half
      <3>2. CASE s = t
        BY <3>1, <3>2, HalfStep
      <3>3. CASE s # t
        <4>1. pc'[s] = pc[s] /\ off'[s] = off[s] /\ Rgba(s)' = f
          BY <3>1, <3>3, Frame DEF Rgba
        <4> QED
          BY <3>1, <4>1 DEF Half
      <3> QED
        BY <3>2, <3>3
    <2> QED
      BY <2>1, <2>2
  <1> QED
    BY <1>1, <1>2

\* When all threads are back in io_loop, a decoded icon that is there is whole,
\* however many threads worked on it at once, if its rows can be written.
THEOREM IconIsWholeTheorem ==
  ASSUME ~RowsFail
  PROVE  Spec => []IconIsWhole
  <1>1. Init => Decoded /\ IconsAccounted
    BY DEF Init, Decoded, IconsAccounted
  <1>2. IInv /\ Decoded /\ IconsAccounted /\ [Next]_vars => (Decoded /\ IconsAccounted)'
    <2> SUFFICES ASSUME IInv, Decoded, IconsAccounted, [Next]_vars PROVE (Decoded /\ IconsAccounted)'
      OBVIOUS
    <2>0. TypeOK /\ Place /\ Locks /\ Written
      BY DEF IInv
    <2>1. ASSUME NEW t \in Thread,
                 Step(t) \/ Wait(t) \/ TearDown(t) \/ NewSession(t) \/ \E h \in File : Begin(t, h)
          PROVE  (Decoded /\ IconsAccounted)'
      BY <2>0, <2>1, DecodedStep, IconsStep
    <2>2. ASSUME UNCHANGED <<pc, what, off, exists, got>>
          PROVE  (Decoded /\ IconsAccounted)'
      BY <2>2 DEF Decoded, IconsAccounted, Whole, Half, Rgba
    <2>3. ASSUME NEW f \in File, OverlayOpens(f) \/ OverlayCloses(f)
          PROVE  UNCHANGED <<pc, what, off, exists, got>>
      BY <2>3 DEF OverlayOpens, OverlayCloses, locals
    <2>4. UNCHANGED vars => UNCHANGED <<pc, what, off, exists, got>>
      BY DEF vars, locals, files
    <2>5. ASSUME NEW n \in Name, ClearIcon(n)
          PROVE  (Decoded /\ IconsAccounted)'
      <3>1. /\ UNCHANGED <<pc, what, off>>
            /\ \A g \in File : wr[g] # NoThread => got'[g] = got[g]
            /\ \A g \in File : exists'[g] => exists[g] /\ got'[g] = got[g]
        BY <2>0, <2>5, ClearStep
      <3>2. \A s \in Thread : pc[s] \in {"rows", "shutOut"} => Rgba(s) \in File /\ wr[Rgba(s)] # NoThread
        BY <2>0, Paths, DownloadsAssumption DEF Place, At, Locks, Rgba
      <3>3. \A s \in Thread : Rgba(s)' = Rgba(s)
        BY <3>1 DEF Rgba
      <3>4. Decoded'
        BY <3>1, <3>2, <3>3 DEF Decoded
      <3>5. IconsAccounted'
        BY <3>1, <3>3 DEF IconsAccounted, Whole, Half
      <3> QED
        BY <3>4, <3>5
    <2> QED
      BY <2>1, <2>2, <2>3, <2>4, <2>5 DEF Next
  <1>3. IconsAccounted => IconIsWhole
    <2> SUFFICES ASSUME IconsAccounted, AllIdle, NEW n \in Name, exists[<<"rgba", n>>]
                 PROVE  Whole(<<"rgba", n>>)
      BY DEF IconIsWhole
    <2>1. <<"rgba", n>> \in File /\ <<"rgba", n>>[1] = "rgba"
      BY DEF File, Kind
    <2>2. ~Half(<<"rgba", n>>)
      BY DEF AllIdle, Half
    <2> QED
      BY <2>1, <2>2 DEF IconsAccounted
  <1> QED
    BY <1>1, <1>2, <1>3, Invariance, PTL DEF Spec

=============================================================================
