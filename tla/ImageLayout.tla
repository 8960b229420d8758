---------------------------- MODULE ImageLayout ----------------------------
(***************************************************************************)
(* How process_nybble() of src/touchmouse.c turns the 181 pixels of a      *)
(* complete frame into the 13 x 15 image of the client: the loop over rows *)
(* and columns, and the grey scale table.  Sizes are those of the code.    *)
(*                                                                         *)
(* A cell of image holds the grey value written to it and the index of the *)
(* pixel it was made from.  No pixel affects another, so frames of one     *)
(* level, with the indices, stand for every frame.                         *)
(***************************************************************************)
EXTENDS Integers, Sequences

PartialLen == 181
Rows == 13
Cols == 15
ImageCells == 0 .. Rows * Cols - 1

Untouched == [grey |-> 0, pixel |-> -1]      \* a cell memset() cleared

VARIABLES
  row, col, i,      \* the locals of the loop
  level,            \* the value of every pixel of partial_image
  image             \* dev->image, each cell with the index of its pixel
vars == <<row, col, i, level, image>>

\* The grey scale, indexed from 1.
decoder_table ==
  <<0, 18, 36, 55, 73, 91, 109, 128, 146, 164, 182, 200, 219, 237, 255>>

Levels == 0 .. Len(decoder_table) - 1

\* Mutants: a first row one column too wide, and exclusive column bounds.
startcolWide(r) ==
  CASE r = 0 -> 2 [] r = 1 -> 2 [] r \in {2, 3} -> 1 [] OTHER -> 0
endcolExclusive(r) ==
  CASE r = 0 -> 12 [] r = 1 -> 13 [] r \in {2, 3} -> 14 [] OTHER -> 15

\* Inclusive column bounds of a row.
startcol(r) == CASE r = 0 -> 3 [] r = 1 -> 2 [] r \in {2, 3} -> 1 [] OTHER -> 0
endcol(r)   == CASE r = 0 -> 11 [] r = 1 -> 12 [] r \in {2, 3} -> 13
                 [] OTHER -> 14

Init ==
  /\ row = 0 /\ col = startcol(0) /\ i = 0
  /\ level \in Levels
  /\ image = [c \in ImageCells |-> Untouched]

CopyPixel ==
  /\ row < Rows /\ col <= endcol(row)
  /\ image' = [image EXCEPT ![row * Cols + col] =
                             [grey |-> decoder_table[level + 1], pixel |-> i]]
  /\ i' = i + 1
  /\ col' = col + 1
  /\ UNCHANGED <<row, level>>

NextRow ==
  /\ row < Rows /\ col > endcol(row)
  /\ row' = row + 1
  /\ col' = startcol(row + 1)
  /\ UNCHANGED <<i, level, image>>

Next == CopyPixel \/ NextRow

Spec == Init /\ [][Next]_vars

-----------------------------------------------------------------------------
(* The layout the comment in touchmouse.c draws: the sensor is narrower in *)
(* its first four rows, and centred.                                       *)

Width(r) == CASE r = 0 -> 9 [] r = 1 -> 11 [] r \in {2, 3} -> 13 [] OTHER -> 15

OnSensor(c) ==
  LET r == c \div Cols
      margin == (Cols - Width(r)) \div 2
  IN  c % Cols \in margin .. margin + Width(r) - 1

Done == row = Rows

\* Every read of partial_image and every write of image is inside the array,
\* although the loop bounds and the array sizes are separate literals.
AccessesInBounds ==
  row < Rows /\ col <= endcol(row) =>
    i < PartialLen /\ row * Cols + col \in ImageCells

\* The complete image shows each of the 181 pixels once, in reading order, on
\* exactly the cells of the sensor, its level at the nearest of 0 .. 255.
LayoutIsReadingOrder ==
  Done =>
    /\ i = PartialLen
    /\ \A c \in ImageCells : image[c] # Untouched <=> OnSensor(c)
    /\ \A c, d \in {e \in ImageCells : OnSensor(e)} :
         c < d => image[c].pixel < image[d].pixel
    /\ \A c \in {e \in ImageCells : OnSensor(e)} :
         LET error == (Len(decoder_table) - 1) * image[c].grey - 255 * level
         IN  -7 <= error /\ error <= 7
=============================================================================
