--------------------------------- MODULE Sinks ---------------------------------
(***************************************************************************)
(* The volume of the computer's sink, turned from the overlay              *)
(* (plugins/system_volume_plugin.cpp and overlay/src/gui/volume_gui.cpp).  *)
(*                                                                         *)
(* The computer counts to max_volume, the plugin and the slider in         *)
(* percent, and the slider shows what the plugin knew when the screen was  *)
(* opened.                                                                 *)
(***************************************************************************)
EXTENDS Integers, Sequences

CONSTANTS
  Full,       \* a slider's 100 %
  MaxVolume,  \* what the computer's sink counts to
  MaxMoves    \* bound: what computer and user do

VARIABLES
  raw,        \* the sink: its volume
  quiet,      \*   and whether it is muted
  listed,     \* whether the sink is in remote_sinks_
  pct,        \*   its volume there
  hush,       \*   and is_muted there
  toSink,     \* the requests that are on their way to the computer
  toUs,       \* what it has told, on its way to the console
  slider,     \* the open screen's slider; value is m_value
  loudest,    \* the volume the sink had when the user last saw or chose it
  moved,      \* the computer has changed the sink since the screen was opened
  moves

vars == <<raw, quiet, listed, pct, hush, toSink, toUs, slider, loudest, moved, moves>>

NoSlider == [open |-> FALSE, value |-> 0, real |-> 0, muted |-> FALSE]

TypeOK ==
  /\ raw \in 0 .. MaxVolume /\ loudest \in 0 .. MaxVolume
  /\ quiet \in BOOLEAN /\ listed \in BOOLEAN /\ hush \in BOOLEAN /\ moved \in BOOLEAN
  /\ pct \in 0 .. Full
  /\ \A i \in DOMAIN toSink : toSink[i] \in [volume : Int, muted : BOOLEAN]
  /\ \A i \in DOMAIN toUs : toUs[i] \in [raw : 0 .. MaxVolume, muted : BOOLEAN, list : BOOLEAN]
  /\ slider \in [open : BOOLEAN, value : 0 .. Full, real : 0 .. Full, muted : BOOLEAN]
  /\ moves \in 0 .. MaxMoves

Init ==
  /\ raw = 0 /\ quiet = FALSE
  /\ listed = FALSE /\ pct = 0 /\ hush = FALSE
  /\ toSink = <<>> /\ toUs = <<>>
  /\ slider = NoSlider
  /\ loudest = 0
  /\ moved = FALSE
  /\ moves = 0

Count == moves < MaxMoves /\ moves' = moves + 1

-----------------------------------------------------------------------------

\* Mutant: a percentage is rounded up.
PercentUp(r) == (r * Full + MaxVolume - 1) \div MaxVolume

Percent(r) == (r * Full) \div MaxVolume

\* The volume that set_remote_sink sends for a percentage: a sink that has left
\* the list counts to 100.
RawOf(p) == IF listed THEN (p * MaxVolume) \div Full ELSE p

\* The computer tells a change of its sink, or its whole list.
SinkTells(list) == toUs' = Append(toUs, [raw |-> raw', muted |-> quiet', list |-> list])

SinkMoves ==
  /\ Count
  /\ raw' \in 0 .. MaxVolume
  /\ quiet' \in BOOLEAN
  /\ \E list \in BOOLEAN : SinkTells(list)
  /\ moved' = slider.open
  /\ UNCHANGED <<listed, pct, hush, toSink, slider, loudest>>

\* The io thread takes the news: a list replaces remote_sinks_, anything else is for
\* a sink that is known.
TakeNews ==
  /\ toUs # <<>>
  /\ LET u == Head(toUs)
     IN IF u.list \/ listed
        THEN listed' = TRUE /\ pct' = Percent(u.raw) /\ hush' = u.muted
        ELSE UNCHANGED <<listed, pct, hush>>
  /\ toUs' = Tail(toUs)
  /\ UNCHANGED <<raw, quiet, toSink, slider, loudest, moved, moves>>

\* The IPC thread's answer, of what the io thread has taken so far.
GetVolumeSinks == IF listed THEN {[volume |-> pct, muted |-> hush]} ELSE {}

\* The screen is opened and asks once for the sinks.  A muted slider stands at 0 and
\* keeps the volume for later.  (What is on its way then makes the screen stale.)
OpenScreen ==
  /\ Count
  /\ \E s \in GetVolumeSinks :
       slider' = [open |-> TRUE, value |-> IF s.muted THEN 0 ELSE s.volume,
                  real |-> IF s.muted THEN s.volume ELSE 0, muted |-> s.muted]
  /\ moved' = (toUs # <<>> \/ toSink # <<>>)
  /\ loudest' = raw
  /\ UNCHANGED <<raw, quiet, listed, pct, hush, toSink, toUs>>

SetVolumeSink(v, muted) == toSink' = Append(toSink, [volume |-> RawOf(v), muted |-> muted])

\* The slider is dragged, which ends a mute.
Drag(v) ==
  /\ Count
  /\ slider.open /\ v # slider.value
  /\ slider' = [slider EXCEPT !.value = v, !.real = v, !.muted = FALSE]
  /\ SetVolumeSink(v, FALSE)
  /\ loudest' = RawOf(v)
  /\ UNCHANGED <<raw, quiet, listed, pct, hush, toUs, moved>>

\* Mutant: unmuting leaves the slider at 0.
PressYKeeps ==
  /\ Count
  /\ slider.open
  /\ slider' = IF slider.muted
               THEN [slider EXCEPT !.muted = FALSE]
               ELSE [slider EXCEPT !.muted = TRUE, !.real = slider.value, !.value = 0]
  /\ SetVolumeSink(slider'.real, slider'.muted)
  /\ UNCHANGED <<raw, quiet, listed, pct, hush, toUs, loudest, moved>>

\* Y mutes, with the volume put aside, or unmutes and puts it back.
PressY ==
  /\ Count
  /\ slider.open
  /\ slider' = IF slider.muted
               THEN [slider EXCEPT !.muted = FALSE, !.value = slider.real]
               ELSE [slider EXCEPT !.muted = TRUE, !.real = slider.value, !.value = 0]
  /\ SetVolumeSink(slider'.real, slider'.muted)
  /\ UNCHANGED <<raw, quiet, listed, pct, hush, toUs, loudest, moved>>

RealVolume == IF slider.muted THEN slider.real ELSE slider.value

\* "Set as Default" sends the volume and the mute along.
SetDefault ==
  /\ Count
  /\ slider.open
  /\ SetVolumeSink(RealVolume, slider.muted)
  /\ UNCHANGED <<raw, quiet, listed, pct, hush, toUs, slider, loudest, moved>>

\* The computer takes a request and tells what its sink is now.
SinkTakes ==
  /\ toSink # <<>>
  /\ LET q == Head(toSink)
     IN raw' = (IF q.volume < MaxVolume THEN q.volume ELSE MaxVolume) /\ quiet' = q.muted
  /\ toSink' = Tail(toSink)
  /\ SinkTells(FALSE)
  /\ UNCHANGED <<listed, pct, hush, slider, loudest, moved, moves>>

Next ==
  \/ SinkMoves \/ TakeNews \/ SinkTakes
  \/ OpenScreen \/ PressY \/ SetDefault
  \/ \E v \in 0 .. Full : Drag(v)

Spec == Init /\ [][Next]_vars

-----------------------------------------------------------------------------

\* Muting, unmuting and choosing the default output never make the computer louder
\* than it was when the user last chose or saw its volume.
NeverLouder == slider.open /\ ~moved /\ toSink = <<>> => raw <= loudest

\* When all is delivered, the computer does what the slider shows, as long as only
\* the slider was used.
SliderIsSo ==
  slider.open /\ ~moved /\ toSink = <<>> /\ toUs = <<>> =>
    /\ quiet = slider.muted
    /\ slider.muted => slider.value = 0
    /\ ~quiet => slider.value \in {Percent(raw), Percent(raw) + 1}
=============================================================================
