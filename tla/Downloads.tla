------------------------------ MODULE Downloads ------------------------------
(***************************************************************************)
(* Payloads that arrive: KdeConnectClient::download_payload                *)
(* (sysmodule/src/net/kdeconnect_client.cpp) and what its three users make *)
(* of the file: a shared file (share_plugin.cpp), album art (album_art.cpp *)
(* for mpris_plugin.cpp) and the icon of a notification                    *)
(* (notification_plugin.cpp, which decodes it into a second file).         *)
(*                                                                         *)
(* Every io thread downloads on its own, with no lock between them: two    *)
(* devices, or the old and the new session of one device, may work on one  *)
(* file at the same time.  A name stands for contents (a hash of them, for *)
(* icons, and of where they come from, for art), so both write the same.   *)
(***************************************************************************)
EXTENDS Integers

CONSTANTS
  Thread,     \* the io threads
  NoThread,   \* no thread
  Overlay,    \* the overlay, which reads album art
  Name,       \* file names without the directory they are in
  Size,       \* the size of a payload, in units
  Chunk,      \* kChunkSize, in units
  Rows,       \* the size of a decoded icon, in rows
  OpenFails,  \* whether opening a file may fail although nobody has it open
  RowsFail    \* whether a row of a decoded icon may fail to be written

ASSUME DownloadsAssumption ==
  /\ NoThread \notin Thread \cup {Overlay} /\ Overlay \notin Thread
  /\ Size \in Nat \ {0} /\ Chunk \in Nat \ {0} /\ Rows \in Nat \ {0}
  /\ OpenFails \in BOOLEAN /\ RowsFail \in BOOLEAN

VARIABLES
  pc,      \* where each io thread is
  what,    \* the file it downloads: file_path
  disc,    \* session->disconnected
  left,    \* remaining
  fill,    \* chunk_fill
  off,     \* offset; when an icon is decoded, out_offset
  err,     \* write_error
  exists,  \* the files on the SD card
  got,     \* which units of each are as they should be
  wr,      \* the thread that has it open for writing
  rd       \* those that have it open for reading

locals == <<what, left, fill, off, err>>
files == <<exists, got, wr, rd>>
vars == <<pc, disc, locals, files>>

\* Shared files, album art, and icons as received and as decoded.
Kind == {"share", "art", "png", "rgba"}
File == Kind \X Name
NoFile == <<"none", "none">>
Units(f) == 1 .. IF f[1] = "rgba" THEN Rows ELSE Size
Whole(f) == Units(f) \subseteq got[f]

\* The decoded icon of the one being downloaded.
Rgba(t) == <<"rgba", what[t][2]>>

Copying == {"copy", "flush", "last", "close"}
Receiving == {"connect", "delete", "create", "open", "decide"} \cup Copying
Decoding == {"header", "mk", "openOut", "rows", "shutOut", "drop", "shutIn"}

TypeOK ==
  /\ pc \in [Thread -> {"idle", "magic", "check", "touch", "decode", "unlink"} \cup Receiving \cup Decoding]
  /\ what \in [Thread -> File \cup {NoFile}]
  /\ disc \in [Thread -> BOOLEAN]
  /\ left \in [Thread -> 0 .. Size] /\ fill \in [Thread -> 0 .. Chunk]
  /\ off \in [Thread -> Nat] /\ err \in [Thread -> BOOLEAN]
  /\ exists \in [File -> BOOLEAN] /\ got \in [File -> SUBSET Nat]
  /\ wr \in [File -> Thread \cup {NoThread}]
  /\ rd \in [File -> SUBSET (Thread \cup {Overlay})]

\* The directories of art and icons are emptied when plugins are first created.
Init ==
  /\ pc = [t \in Thread |-> "idle"]
  /\ what = [t \in Thread |-> NoFile]
  /\ disc = [t \in Thread |-> FALSE]
  /\ left = [t \in Thread |-> 0] /\ fill = [t \in Thread |-> 0]
  /\ off = [t \in Thread |-> 0] /\ err = [t \in Thread |-> FALSE]
  /\ exists = [f \in File |-> FALSE] /\ got = [f \in File |-> {}]
  /\ wr = [f \in File |-> NoThread] /\ rd = [f \in File |-> {}]

-----------------------------------------------------------------------------
(* The file system: a file that is open can be neither deleted nor opened  *)
(* for writing, and one open for writing cannot be opened at all.          *)

Free(f) == wr[f] = NoThread /\ rd[f] = {}

\* fsFsDeleteFile and remove(); nobody looks at the result.
Remove(f) ==
  /\ exists' = [exists EXCEPT ![f] = exists[f] /\ ~Free(f)]
  /\ got' = [got EXCEPT ![f] = IF Free(f) THEN {} ELSE got[f]]
  /\ UNCHANGED <<wr, rd>>

CreateFile(f) ==
  /\ ~exists[f]
  /\ exists' = [exists EXCEPT ![f] = TRUE]
  /\ got' = [got EXCEPT ![f] = {}]
  /\ UNCHANGED <<wr, rd>>

CanWrite(f) == exists[f] /\ Free(f)

OpenWrite(f, t) ==
  /\ CanWrite(f)
  /\ wr' = [wr EXCEPT ![f] = t]
  /\ UNCHANGED <<exists, got, rd>>

CanRead(f) == exists[f] /\ wr[f] = NoThread

-----------------------------------------------------------------------------

Goto(t, p) == pc' = [pc EXCEPT ![t] = p]

\* Back to io_loop; the locals are gone.
Leave(t) ==
  /\ Goto(t, "idle")
  /\ what' = [what EXCEPT ![t] = NoFile]
  /\ left' = [left EXCEPT ![t] = 0] /\ fill' = [fill EXCEPT ![t] = 0]
  /\ off' = [off EXCEPT ![t] = 0] /\ err' = [err EXCEPT ![t] = FALSE]

Continue(t, p) == Goto(t, p) /\ UNCHANGED locals

\* A packet with a payload.  Art and icons that are there are not downloaded
\* again; whether they are is not looked at again later.
Begin(t, f) ==
  /\ pc[t] = "idle"
  /\ f[1] # "rgba"
  /\ f[1] = "png" => ~exists[<<"rgba", f[2]>>]
  /\ what' = [what EXCEPT ![t] = f]
  /\ left' = [left EXCEPT ![t] = Size] /\ fill' = [fill EXCEPT ![t] = 0]
  /\ off' = [off EXCEPT ![t] = 0] /\ err' = [err EXCEPT ![t] = FALSE]
  /\ Goto(t, IF f[1] = "art" /\ exists[f] THEN "touch" ELSE "connect")
  /\ UNCHANGED <<disc, files>>

\* download_payload returns true or false to its caller.
Return(t, ok) ==
  IF ~ok \/ what[t][1] = "share" THEN Leave(t)
  ELSE Continue(t, IF what[t][1] = "art" THEN "magic" ELSE "decode")

Connect(t) ==
  /\ pc[t] = "connect"
  /\ Continue(t, "delete") \/ Return(t, FALSE)
  /\ UNCHANGED <<disc, files>>

Delete(t) ==
  /\ pc[t] = "delete"
  /\ Remove(what[t])
  /\ Goto(t, "create")
  /\ UNCHANGED <<disc, locals>>

Create(t) ==
  /\ pc[t] = "create"
  /\ \/ CreateFile(what[t]) /\ Continue(t, "open")
     \/ Return(t, FALSE) /\ UNCHANGED files
  /\ UNCHANGED disc

\* If it fails, the file stays.
Open(t) ==
  /\ pc[t] = "open"
  /\ \/ OpenWrite(what[t], t) /\ Continue(t, "copy")
     \/ (OpenFails \/ ~CanWrite(what[t])) /\ Return(t, FALSE) /\ UNCHANGED files
  /\ UNCHANGED disc

\* mbedtls_ssl_read returns something.
Receive(t) ==
  /\ pc[t] = "copy" /\ left[t] > 0 /\ ~disc[t]
  /\ fill' = [fill EXCEPT ![t] = fill[t] + 1]
  /\ left' = [left EXCEPT ![t] = left[t] - 1]
  /\ Goto(t, IF fill[t] + 1 = Chunk \/ left[t] = 1 THEN "flush" ELSE "copy")
  /\ UNCHANGED <<disc, what, off, err, files>>

\* flush_chunk; with nothing to write it does nothing.
Write(t) ==
  LET f == what[t] IN
  /\ got' = [got EXCEPT ![f] = got[f] \cup (off[t] + 1 .. off[t] + fill[t])]
  /\ off' = [off EXCEPT ![t] = off[t] + fill[t]]
  /\ fill' = [fill EXCEPT ![t] = 0]
  /\ UNCHANGED <<err, exists, wr, rd>>

WriteFails(t) ==
  /\ fill[t] > 0
  /\ err' = [err EXCEPT ![t] = TRUE]
  /\ UNCHANGED <<fill, off, files>>

\* Mutant: the result of flush_chunk is not looked at.
FlushUnchecked(t) ==
  /\ pc[t] = "flush"
  /\ \/ Write(t)
     \/ /\ off' = [off EXCEPT ![t] = off[t] + fill[t]]
        /\ fill' = [fill EXCEPT ![t] = 0]
        /\ UNCHANGED <<err, files>>
  /\ Goto(t, "copy")
  /\ UNCHANGED <<disc, what, left>>

Flush(t) ==
  /\ pc[t] = "flush"
  /\ \/ Write(t) /\ Goto(t, "copy")
     \/ WriteFails(t) /\ Goto(t, "close")
  /\ UNCHANGED <<disc, what, left>>

\* Mutant: the loop goes on although the session is torn down.
EndCopyDeaf(t) ==
  /\ pc[t] = "copy" /\ (left[t] = 0 \/ disc[t])
  /\ Goto(t, IF left[t] = 0 THEN "last" ELSE "copy")
  /\ UNCHANGED <<disc, locals, files>>

\* The loop ends: everything is read, or the session is torn down.  A read
\* that times out comes back to this test.
EndCopy(t) ==
  /\ pc[t] = "copy" /\ (left[t] = 0 \/ disc[t])
  /\ Goto(t, "last")
  /\ UNCHANGED <<disc, locals, files>>

\* The peer closes the connection or it breaks.
ReadFails(t) ==
  /\ pc[t] = "copy" /\ left[t] > 0 /\ ~disc[t]
  /\ Goto(t, "last")
  /\ UNCHANGED <<disc, locals, files>>

LastFlush(t) ==
  /\ pc[t] = "last"
  /\ Write(t) \/ WriteFails(t)
  /\ Goto(t, "close")
  /\ UNCHANGED <<disc, what, left>>

Close(t) ==
  /\ pc[t] = "close"
  /\ wr' = [wr EXCEPT ![what[t]] = NoThread]
  /\ Goto(t, "decide")
  /\ UNCHANGED <<disc, locals, exists, got, rd>>

Failed(t) == disc[t] \/ left[t] > 0 \/ err[t]

\* Mutant: a download that was broken off leaves its file.
DecideKeeps(t) ==
  /\ pc[t] = "decide"
  /\ Return(t, ~Failed(t))
  /\ UNCHANGED <<disc, files>>

Decide(t) ==
  /\ pc[t] = "decide"
  /\ IF Failed(t) THEN Remove(what[t]) ELSE UNCHANGED files
  /\ Return(t, ~Failed(t))
  /\ UNCHANGED disc

-----------------------------------------------------------------------------
(* AlbumArt::download_raw looks at the first bytes of the file.            *)

OpenArt(t) ==
  /\ pc[t] = "magic"
  /\ \/ /\ CanRead(what[t])
        /\ rd' = [rd EXCEPT ![what[t]] = @ \cup {t}]
        /\ Goto(t, "check")
     \/ Goto(t, "unlink") /\ UNCHANGED rd
  /\ UNCHANGED <<disc, locals, exists, got, wr>>

\* It closes the file, and removes it if it is not an image.
CheckArt(t) ==
  /\ pc[t] = "check"
  /\ rd' = [rd EXCEPT ![what[t]] = @ \ {t}]
  /\ Goto(t, "touch") \/ Goto(t, "unlink")
  /\ UNCHANGED <<disc, locals, exists, got, wr>>

\* lru_touch removes the picture at the end of its list, if that is full; the
\* list is not locked, so it may be any.
Touch(t) ==
  /\ pc[t] = "touch"
  /\ \/ \E n \in Name : Remove(<<"art", n>>)
     \/ UNCHANGED files
  /\ Leave(t)
  /\ UNCHANGED disc

\* MediaTitleBar::setAlbumArt, in the overlay's process.
OverlayOpens(f) ==
  /\ f[1] = "art" /\ CanRead(f)
  /\ rd' = [rd EXCEPT ![f] = @ \cup {Overlay}]
  /\ UNCHANGED <<pc, disc, locals, exists, got, wr>>

OverlayCloses(f) ==
  /\ Overlay \in rd[f]
  /\ rd' = [rd EXCEPT ![f] = @ \ {Overlay}]
  /\ UNCHANGED <<pc, disc, locals, exists, got, wr>>

-----------------------------------------------------------------------------
(* NotificationPlugin::write_app_icon decodes the icon into another file.  *)

CloseIn(t) == rd' = [rd EXCEPT ![what[t]] = @ \ {t}]

DecodeOpen(t) ==
  /\ pc[t] = "decode"
  /\ \/ /\ CanRead(what[t])
        /\ rd' = [rd EXCEPT ![what[t]] = @ \cup {t}]
        /\ Goto(t, "header")
     \/ Goto(t, "unlink") /\ UNCHANGED rd
  /\ UNCHANGED <<disc, locals, exists, got, wr>>

\* png_read_info; the icon may be damaged, or too large.
ReadHeader(t) ==
  /\ pc[t] = "header"
  /\ \/ Remove(Rgba(t)) /\ Goto(t, "mk")
     \/ CloseIn(t) /\ Goto(t, "unlink") /\ UNCHANGED <<exists, got, wr>>
  /\ off' = [off EXCEPT ![t] = 0]
  /\ UNCHANGED <<disc, what, left, fill, err>>

CreateOut(t) ==
  /\ pc[t] = "mk"
  /\ \/ CreateFile(Rgba(t)) /\ Goto(t, "openOut")
     \/ CloseIn(t) /\ Goto(t, "unlink") /\ UNCHANGED <<exists, got, wr>>
  /\ UNCHANGED <<disc, locals>>

\* If it fails, both files are removed, and the first is closed in between.
OpenOut(t) ==
  /\ pc[t] = "openOut"
  /\ \/ OpenWrite(Rgba(t), t) /\ Goto(t, "rows")
     \/ /\ OpenFails \/ ~CanWrite(Rgba(t))
        /\ Goto(t, "drop") /\ UNCHANGED files
  /\ UNCHANGED <<disc, locals>>

\* One row is decoded and written; nobody looks at the result of fsFileWrite.
WriteRow(t) ==
  LET u == off[t] + 1 IN
  /\ pc[t] = "rows" /\ off[t] < Rows
  /\ got' \in {[got EXCEPT ![Rgba(t)] = got[Rgba(t)] \cup {u}]} \cup (IF RowsFail THEN {got} ELSE {})
  /\ off' = [off EXCEPT ![t] = u]
  /\ UNCHANGED <<pc, disc, what, left, fill, err, exists, wr, rd>>

\* All rows are written, or (longjmp) one cannot be decoded.
EndRows(t) ==
  /\ pc[t] = "rows"
  /\ CloseIn(t) /\ Goto(t, "shutOut")
  /\ UNCHANGED <<disc, locals, exists, got, wr>>

\* Mutant: an icon that could not be decoded to its end stays.
ShutOutKeeps(t) ==
  /\ pc[t] = "shutOut"
  /\ wr' = [wr EXCEPT ![Rgba(t)] = NoThread]
  /\ Goto(t, "unlink")
  /\ UNCHANGED <<disc, locals, exists, got, rd>>

ShutOut(t) ==
  /\ pc[t] = "shutOut"
  /\ wr' = [wr EXCEPT ![Rgba(t)] = NoThread]
  /\ Goto(t, IF off[t] = Rows THEN "unlink" ELSE "drop")
  /\ UNCHANGED <<disc, locals, exists, got, rd>>

DropOut(t) ==
  /\ pc[t] = "drop"
  /\ Remove(Rgba(t))
  /\ Goto(t, IF t \in rd[what[t]] THEN "shutIn" ELSE "unlink")
  /\ UNCHANGED <<disc, locals>>

ShutIn(t) ==
  /\ pc[t] = "shutIn"
  /\ CloseIn(t) /\ Goto(t, "unlink")
  /\ UNCHANGED <<disc, locals, exists, got, wr>>

\* remove() of the downloaded file, at the end.
Unlink(t) ==
  /\ pc[t] = "unlink"
  /\ Remove(what[t])
  /\ Leave(t)
  /\ UNCHANGED disc

-----------------------------------------------------------------------------

\* The session is replaced or stopped (see Sessions); its thread then ends,
\* and the next one starts.
TearDown(t) ==
  /\ ~disc[t] /\ disc' = [disc EXCEPT ![t] = TRUE]
  /\ UNCHANGED <<pc, locals, files>>

NewSession(t) ==
  /\ pc[t] = "idle" /\ disc[t] /\ disc' = [disc EXCEPT ![t] = FALSE]
  /\ UNCHANGED <<pc, locals, files>>

\* The plugins of a session that comes up remove the decoded icons, one by one
\* (clear_our_icons); other threads may be at work on them.
ClearIcon(n) ==
  /\ Remove(<<"rgba", n>>)
  /\ UNCHANGED <<pc, disc, locals>>

\* What a thread does without waiting for its peer.
Step(t) ==
  \/ Delete(t) \/ Create(t) \/ Open(t) \/ Flush(t) \/ EndCopy(t) \/ LastFlush(t)
  \/ Close(t) \/ Decide(t) \/ OpenArt(t) \/ CheckArt(t) \/ Touch(t)
  \/ DecodeOpen(t) \/ ReadHeader(t) \/ CreateOut(t) \/ OpenOut(t)
  \/ WriteRow(t) \/ EndRows(t) \/ ShutOut(t) \/ DropOut(t) \/ ShutIn(t) \/ Unlink(t)

Wait(t) == Connect(t) \/ Receive(t) \/ ReadFails(t)

Next ==
  \/ \E t \in Thread :
       \/ Step(t) \/ Wait(t) \/ TearDown(t) \/ NewSession(t)
       \/ \E f \in File : Begin(t, f)
  \/ \E f \in File : OverlayOpens(f) \/ OverlayCloses(f)
  \/ \E n \in Name : ClearIcon(n)

Spec == Init /\ [][Next]_vars

\* The threads run; peers need not answer.
FairSpec == Spec /\ \A t \in Thread : WF_vars(Step(t))

-----------------------------------------------------------------------------

\* What is going to be reported as saved is there to the last unit, whatever
\* sizes reads come in, however chunks fall and whoever else downloads the same
\* file: at the moment the file is closed (download_payload).
SavedIsWhole ==
  \A t \in Thread : pc[t] = "close" /\ left[t] = 0 /\ ~err[t] => exists[what[t]] /\ Whole(what[t])

AllIdle == \A t \in Thread : pc[t] = "idle"

\* When no download is under way, a shared file is there whole or not at all,
\* and no icon is left as it was received: each of the ways a download ends
\* removes what it made, or leaves it to another that is still at it (provided
\* that a file nobody has open can be opened).
NothingPartial ==
  AllIdle => \A n \in Name :
    /\ exists[<<"share", n>>] => Whole(<<"share", n>>)
    /\ ~exists[<<"png", n>>]

\* "Allow aborting mid-transfer if session is torn down" (download_payload):
\* although the peer may go silent.
AbortsWhenTornDown ==
  \A t \in Thread : pc[t] = "copy" /\ disc[t] ~> pc[t] = "idle"

\* "Icon content is addressed by its hash; if the file already exists it is
\* identical." (write_app_icon): a decoded icon that is left is whole, although
\* two threads may decode it at once, fail half-way, and delete and create it
\* under each other (provided that rows can be written).
IconIsWhole == AllIdle => \A n \in Name : exists[<<"rgba", n>>] => Whole(<<"rgba", n>>)

=============================================================================
