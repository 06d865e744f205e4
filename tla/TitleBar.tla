------------------------------- MODULE TitleBar -------------------------------
(***************************************************************************)
(* The cover in the media screen's title bar                               *)
(* (overlay/src/gui/elements/media_title_bar.cpp).                         *)
(*                                                                         *)
(* The screen polls the player and names the cover by its hash; the        *)
(* sysmodule downloads the cover into a file of that name meanwhile.  A    *)
(* cover is decoded once, and scaled inside the buffer it was decoded to:  *)
(* to a square of fixed size at the side, or at the top only as far as it  *)
(* is too wide or too high.  At the side a cover with fewer pixels than    *)
(* the square is written past the end of its buffer, and from then on the  *)
(* overlay may crash.                                                      *)
(***************************************************************************)
EXTENDS Naturals

CONSTANTS
  Hash,     \* covers; "" is no cover
  Side,     \* widths and heights of covers
  Dim,      \* kArtDim
  Wide,     \* the width and the height available at the top
  High,
  MaxPolls  \* bound: polls with another cover than the last

VARIABLES
  top,      \* m_layout is Layout::Top
  size,     \* the size of the covers
  cover,    \* the cover files; bad: empty, over 256 KB, or no picture
  hash,     \* m_art_hash
  pixels,   \* m_art_pixels: of which cover, in what size, and what each pixel shows
  memory,   \* the heap: whole, written past the end of a buffer, or so that the overlay crashed
  changes

vars == <<top, size, cover, hash, pixels, memory, changes>>

Size == [w : Side, h : Side]
NoPixels == [of |-> ""]

TypeOK ==
  /\ top \in BOOLEAN
  /\ size \in Size
  /\ cover \in [Hash -> {"missing", "bad", "good"}]
  /\ hash \in Hash \cup {""}
  /\ pixels.of \in Hash \cup {""}
  /\ memory \in {"whole", "overrun", "crashed"}
  /\ changes \in 0 .. MaxPolls

Init ==
  /\ top \in BOOLEAN
  /\ size \in Size
  /\ cover = [h \in Hash |-> "missing"]
  /\ hash = ""
  /\ pixels = NoPixels
  /\ memory = "whole"
  /\ changes = 0

-----------------------------------------------------------------------------

Least(x) == IF x < 1 THEN 1 ELSE x

\* Mutant: a cover that was too wide is not looked at again.
TargetWide(s) ==
  IF s.w > Wide THEN [w |-> Wide, h |-> Least((s.h * Wide) \div s.w)]
  ELSE IF s.h > High THEN [w |-> Least((s.w * High) \div s.h), h |-> High] ELSE s

\* The size that a cover is scaled to.  At the top it keeps its ratio.
TargetTop(s) ==
  LET fitted == IF s.w > Wide THEN [w |-> Wide, h |-> Least((s.h * Wide) \div s.w)] ELSE s
  IN IF fitted.h > High THEN [w |-> Least((s.w * High) \div s.h), h |-> High] ELSE fitted

Target(s) == IF top THEN TargetTop(s) ELSE [w |-> Dim, h |-> Dim]

\* Mutant: the rows are counted by the target's width, where the loop writes.
ReadPlaceTarget(s, t, i) == (((i \div t.w) * s.h) \div t.h) * t.w + ((i % t.w) * s.w) \div t.w

\* The place in the buffer that the loop reads.
ReadPlace(s, t, i) == (((i \div t.w) * s.h) \div t.h) * s.w + ((i % t.w) * s.w) \div t.w

\* The places of the buffer that a cover is decoded to.
Buffer(s) == 0 .. s.w * s.h - 1

\* The loop copies pixel by pixel inside the buffer: what the places of the buffer hold
\* before each pixel of the target, and at the end.  What is written past them is lost.
Copied(s, t) ==
  LET n == t.w * t.h
      after[i \in 0 .. n] ==
        IF i = 0 THEN [k \in Buffer(s) |-> k]
        ELSE IF i - 1 \in Buffer(s)
        THEN [after[i - 1] EXCEPT ![i - 1] = after[i - 1][ReadPlace(s, t, i - 1)]]
        ELSE after[i - 1]
  IN after

Scaled(s, t) == Copied(s, t)[IF s = t THEN 0 ELSE t.w * t.h]

Overruns(s, t) == t.w * t.h > s.w * s.h

\* Opens, decodes and scales the file of a cover, or leaves the bar without.
Load(h) ==
  IF h # "" /\ cover[h] = "good"
  THEN LET t == Target(size)
       IN /\ pixels' = [of |-> h, from |-> size, size |-> t, shows |-> Scaled(size, t)]
          /\ memory' = IF Overruns(size, t) THEN "overrun" ELSE memory
  ELSE pixels' = NoPixels /\ UNCHANGED memory

\* Mutant: the old picture is kept until the new one is there.
SetAlbumArtKeeps(h) ==
  /\ hash' = h
  /\ IF (h = hash /\ pixels # NoPixels) \/ (h # "" /\ cover[h] # "good")
     THEN UNCHANGED <<pixels, memory>>
     ELSE Load(h)

\* Each poll names the cover: one that is shown stays, another frees the picture, and
\* a file that was not there, or not good, is tried again.
SetAlbumArt(h) ==
  /\ hash' = h
  /\ IF h = hash /\ pixels # NoPixels
     THEN UNCHANGED <<pixels, memory>>
     ELSE Load(h)

Poll(h) ==
  /\ memory # "crashed"
  /\ h = hash \/ changes < MaxPolls
  /\ changes' = changes + (IF h = hash THEN 0 ELSE 1)
  /\ SetAlbumArt(h)
  /\ UNCHANGED <<top, size, cover>>

\* The sysmodule downloads a cover, or removes one that it has not used for long.
Download(h) ==
  /\ cover[h] # "good"
  /\ \E is \in {"bad", "good"} : cover' = [cover EXCEPT ![h] = is]
  /\ UNCHANGED <<top, size, hash, pixels, memory, changes>>

Remove(h) ==
  /\ cover[h] # "missing"
  /\ cover' = [cover EXCEPT ![h] = "missing"]
  /\ UNCHANGED <<top, size, hash, pixels, memory, changes>>

\* A heap that was written past the end of a buffer may crash the overlay at any time.
Crash ==
  /\ memory = "overrun"
  /\ memory' = "crashed"
  /\ UNCHANGED <<top, size, cover, hash, pixels, changes>>

Next ==
  \/ Crash
  \/ \E h \in Hash \cup {""} : Poll(h)
  \/ \E h \in Hash : Download(h) \/ Remove(h)

Spec == Init /\ [][Next]_vars

-----------------------------------------------------------------------------

Sampled(p) ==
  \A x \in 0 .. p.size.w - 1, y \in 0 .. p.size.h - 1 :
    p.shows[y * p.size.w + x] = ((y * p.from.h) \div p.size.h) * p.from.w + (x * p.from.w) \div p.size.w

\* The picture is of the cover that was named last and fits in its layout; if the cover is
\* at least as wide and as high as it, each of its pixels is the one at its place in the
\* cover.  The loop stays inside the buffer, except at the side with a cover that has
\* fewer pixels than the square.
CoverIsShown ==
  /\ pixels # NoPixels =>
       /\ pixels.of = hash
       /\ IF top THEN pixels.size.w <= Wide /\ pixels.size.h <= High
                 ELSE pixels.size.w = Dim /\ pixels.size.h = Dim
       /\ (pixels.from.w >= pixels.size.w /\ pixels.from.h >= pixels.size.h => Sampled(pixels))
  /\ memory # "whole" => ~top /\ size.w * size.h < Dim * Dim

=============================================================================
