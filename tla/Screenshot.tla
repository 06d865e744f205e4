------------------------------ MODULE Screenshot ------------------------------
(***************************************************************************)
(* A screenshot for a device: SharePlugin::send_screenshot                 *)
(* (sysmodule/src/plugins/share_plugin.cpp) presses the capture button and *)
(* then looks for the picture in today's folder of the album.              *)
(*                                                                         *)
(* The capture service is external: it makes a file, without a size while  *)
(* it writes, in the folder of the day on which it begins.  The user of    *)
(* the console may take pictures too.                                      *)
(***************************************************************************)
EXTENDS Naturals, FiniteSetsExt

CONSTANTS
  MaxShot,   \* bound: the pictures taken; their names grow with their number
  Polls      \* how often a folder is looked at: 20 and 40 times

VARIABLES
  shot,      \* send_screenshot: where it is
  prev,      \* prev_newest
  picked,     \* new_name
  tries,     \* attempt, or i
  today,     \* day_path
  day,       \* the day it is
  album,     \* the pictures: their day, and whether they are complete
  begun,     \* history: the pictures that were there when the command began
  blind,     \* history: the folder could not be read when the command began
  result     \* the picture that the last command sends, if it does

shotVars == <<shot, prev, picked, tries, today, day, album, begun, blind, result>>

Shot == 1 .. MaxShot
None == 0
Day == {1, 2}

TypeOK ==
  /\ shot \in {"idle", "press", "poll", "size", "open"}
  /\ prev \in Shot \cup {None} /\ picked \in Shot \cup {None}
  /\ tries \in 0 .. Polls
  /\ today \in Day /\ day \in Day
  /\ album \in [Shot -> [day : Day \cup {0}, whole : BOOLEAN]]
  /\ begun \subseteq Shot /\ blind \in BOOLEAN
  /\ result \in Shot \cup {None}

Absent == [day |-> 0, whole |-> FALSE]
Taken == {n \in Shot : album[n] # Absent}

\* The album may hold older pictures.
Init ==
  /\ shot = "idle" /\ prev = None /\ picked = None /\ tries = 0
  /\ day = 1 /\ today = 1
  /\ \E n \in Shot \cup {None} :
       album = [k \in Shot |-> IF k <= n THEN [day |-> 1, whole |-> TRUE] ELSE Absent]
  /\ begun = {} /\ blind = FALSE /\ result = None

\* scan_newest_jpg: the greatest name in the folder.
Newest == Max({None} \cup {n \in Shot : album[n].day = today})

End(r) == shot' = "idle" /\ result' = r

-----------------------------------------------------------------------------
(* send_screenshot, on the IPC thread.                                     *)

\* A folder that cannot be read looks like an empty one.
Begin ==
  /\ shot = "idle"
  /\ today' = day
  /\ LET newest == Max({None} \cup {n \in Shot : album[n].day = day})
     IN prev' \in {newest, None} /\ blind' = (prev' # newest)
  /\ shot' = "press" /\ begun' = Taken /\ result' = None
  /\ UNCHANGED <<picked, tries, day, album>>

\* press_capture_button; hiddbg may not let it, and the picture comes or does not.
Press ==
  /\ shot = "press"
  /\ shot' = "poll" /\ tries' = 0
  /\ UNCHANGED <<prev, picked, today, day, album, begun, blind, result>>

\* Mutant: any picture in the folder will do.
IsNewAny == Newest # None

IsNew == Newest # None /\ Newest > prev

\* One turn of poll_for_new_screenshot.
Poll ==
  /\ shot = "poll"
  /\ \/ IsNew /\ picked' = Newest /\ shot' = "size" /\ tries' = 0 /\ UNCHANGED result
     \/ ~IsNew /\ tries < Polls /\ tries' = tries + 1 /\ UNCHANGED <<shot, picked, result>>
     \/ ~IsNew /\ tries = Polls /\ End(None) /\ UNCHANGED <<picked, tries>>
  /\ UNCHANGED <<prev, today, day, album, begun, blind>>

\* Mutant: the name is enough.
HasSizeAlways == TRUE

\* The size in the folder's entry; a file that is being written has none.
HasSize == album[picked].whole

\* One turn of wait_for_file_entry_size.
WaitForSize ==
  /\ shot = "size"
  /\ \/ HasSize /\ shot' = "open" /\ UNCHANGED <<tries, result>>
     \/ ~HasSize /\ tries < Polls /\ tries' = tries + 1 /\ UNCHANGED <<shot, result>>
     \/ ~HasSize /\ tries = Polls /\ End(None) /\ UNCHANGED tries
  /\ UNCHANGED <<prev, picked, today, day, album, begun, blind>>

\* The file is opened and given to an upload thread, which reads it until it
\* has been sent; the user may have deleted it.
Open ==
  /\ shot = "open"
  /\ \/ album[picked] # Absent /\ End(picked)
     \/ End(None)
  /\ UNCHANGED <<prev, picked, tries, today, day, album, begun, blind>>

-----------------------------------------------------------------------------

\* The capture service takes the next picture, because it was asked or because
\* the user of the console has pressed the button.
Capture ==
  /\ \E n \in Shot :
       /\ Taken = 1 .. (n - 1)
       /\ album' = [album EXCEPT ![n] = [day |-> day, whole |-> FALSE]]
  /\ UNCHANGED <<shot, prev, picked, tries, today, day, begun, blind, result>>

Finish ==
  /\ \E n \in Taken : ~album[n].whole /\ album' = [album EXCEPT ![n].whole = TRUE]
  /\ UNCHANGED <<shot, prev, picked, tries, today, day, begun, blind, result>>

Midnight ==
  /\ day = 1 /\ day' = 2
  /\ UNCHANGED <<shot, prev, picked, tries, today, album, begun, blind, result>>

Next == Begin \/ Press \/ Poll \/ WaitForSize \/ Open \/ Capture \/ Finish \/ Midnight

-----------------------------------------------------------------------------

\* What is sent is a picture taken after the command, whoever pressed the
\* button and whatever the day, and never one that was there before; unless the
\* folder could not be read at first, when the newest picture passes for new.
SentIsNew == ~blind /\ result \in Shot => result \notin begun

\* "The capture service keeps the file locked; opening it for reading during
\* that window corrupts the JPEG" (share_plugin.cpp): the file that is opened
\* has been written to its end.
OpenedIsWhole == shot = "open" => album[picked].whole

=============================================================================
