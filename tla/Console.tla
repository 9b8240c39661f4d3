------------------------------ MODULE Console ------------------------------
(***************************************************************************)
(* The boot console of the loader (loader_x86.c): console_putc on a        *)
(* framebuffer and on the text screen, printf's numbers, and the progress  *)
(* bar.  Characters are their codes.  A console is the record              *)
(*   x, y      fb_x and fb_y (vga_x and vga_y)                             *)
(*   rows      what each pixel row (text row) shows: column -> what        *)
(* where what is <<character, row of its glyph>>, or Dark.                 *)
(***************************************************************************)
EXTENDS Integers, Sequences, SequencesExt, FiniteSets, Functions

Dark == <<>>
Clear == 0 \* a cell of the text screen without a character
NewLine == 10
Return == 13

(* The margin before the first and the room behind the last character.     *)
Margin == 4
Room == 5

----------------------------------------------------------------------------
(* A screen of w by h pixels and a font with glyphs fw by fh.              *)

EmptyRow == <<>> \* a function with no columns: nothing drawn

FbConsole(scr) == [x |-> Margin, y |-> Margin, rows |-> [r \in 0 .. scr.h - 1 |-> EmptyRow]]

(* Mutant: the text moves up by one row too few. *)
Scrolled_Short(scr, con) ==
  LET y == scr.h - scr.fh - Room
      d == con.y - y - 1
  IN [con EXCEPT !.y = y,
                 !.rows = [r \in 0 .. scr.h - 1 |->
                     IF r >= y THEN EmptyRow
                     ELSE IF r + d < scr.h THEN con.rows[r + d] ELSE con.rows[r]]]

(* The rows that lie d below move up; those behind the new line's top are  *)
(* cleared.  Nothing clears what lies between the two.                     *)
Scrolled(scr, con) ==
  LET y == scr.h - scr.fh - Room
      d == con.y - y
  IN [con EXCEPT !.y = y,
                 !.rows = [r \in 0 .. scr.h - 1 |->
                     IF r >= y THEN EmptyRow
                     ELSE IF r + d < scr.h THEN con.rows[r + d] ELSE con.rows[r]]]

NextLine(scr, con) == [con EXCEPT !.x = Margin, !.y = @ + scr.fh]

(* The glyph's columns and the one pixel behind it, written in the         *)
(* background's colour.                                                    *)
Glyph(scr, con, c) ==
  [con EXCEPT !.x = @ + scr.fw + 1,
              !.rows = [r \in DOMAIN con.rows |->
                  IF r \in con.y .. con.y + scr.fh - 1
                  THEN [k \in con.x .. con.x + scr.fw |->
                          IF k = con.x + scr.fw THEN Dark ELSE <<c, r - con.y>>] @@ con.rows[r]
                  ELSE con.rows[r]]]

console_putc(scr, con, c) ==
  IF c = Return THEN [con EXCEPT !.x = Margin]
  ELSE IF c = NewLine THEN NextLine(scr, con)
  ELSE LET a == IF con.x + scr.fw + Room >= scr.w THEN NextLine(scr, con) ELSE con
           b == IF a.y + scr.fh + Room > scr.h THEN Scrolled(scr, a) ELSE a
       IN Glyph(scr, b, c)

PutString(scr, text) == FoldLeft(LAMBDA con, c : console_putc(scr, con, c), FbConsole(scr), text)

(* The characters whose glyphs stand whole with their tops on row r, from  *)
(* the left to the right; and so for all rows from the top to the bottom.  *)
GlyphsAt(scr, rows, r) ==
  LET whole(k) == \A j \in 0 .. scr.fh - 1 :
                    r + j < scr.h /\ k \in DOMAIN rows[r + j] /\ rows[r + j][k] = <<rows[r][k][1], j>>
      cells == {k \in DOMAIN rows[r] : rows[r][k] # Dark /\ whole(k)}
  IN [i \in 1 .. Cardinality(cells) |->
        rows[r][CHOOSE k \in cells : Cardinality({j \in cells : j < k}) = i - 1][1]]
Shown(scr, con) ==
  SelectSeq([i \in 1 .. scr.h |-> GlyphsAt(scr, con.rows, i - 1)], LAMBDA t : t # <<>>)

----------------------------------------------------------------------------
(* The text screen of the BIOS: cols by lines cells in one piece of memory.*)

VgaConsole(scr) == [x |-> 0, y |-> 0, cells |-> [k \in 0 .. scr.cols * scr.lines - 1 |-> Clear]]

VgaScrolled(scr, con) ==
  LET last == scr.cols * (scr.lines - 1)
  IN [x |-> 0, y |-> scr.lines - 1,
      cells |-> [k \in DOMAIN con.cells |-> IF k < last THEN con.cells[k + scr.cols] ELSE Clear]]

(* vga_x is never compared with the width: a long line runs on into the    *)
(* cells of the next.                                                      *)
vga_putc(scr, con, c) ==
  IF c = Return THEN [con EXCEPT !.x = 0]
  ELSE IF c = NewLine THEN [con EXCEPT !.x = 0, !.y = @ + 1]
  ELSE LET a == IF con.y >= scr.lines THEN VgaScrolled(scr, con) ELSE con
       IN [a EXCEPT !.x = @ + 1, !.cells = (a.y * scr.cols + a.x :> c) @@ @]

VgaString(scr, text) == FoldLeft(LAMBDA con, c : vga_putc(scr, con, c), VgaConsole(scr), text)

VgaShown(scr, con) ==
  LET line(i) == SelectSeq([j \in 1 .. scr.cols |-> con.cells[(i - 1) * scr.cols + j - 1]], LAMBDA c : c # Clear)
  IN SelectSeq([i \in 1 .. scr.lines |-> line(i)], LAMBDA l : l # <<>>)

----------------------------------------------------------------------------
(* printf's numbers.  int has IntBits bits, long LongBits, and tmpstr      *)
(* keeps Digits digits (18 of the 19 a long may have).  The character      *)
(* '0' + d is written d.                                                   *)

Minus == 45 - 48
Blank == 32 - 48
AsInt(v, bits) == LET m == v % 2^bits IN IF m >= 2^(bits - 1) THEN m - 2^bits ELSE m

(* At most n digits of v, the least significant ones; those of a negative  *)
(* number are negative, as C's remainder is.                               *)
DigitsOf(v, base, n) ==
  LET abs == IF v < 0 THEN -v ELSE v
      count == CHOOSE k \in 1 .. n : /\ k = n \/ abs < base^k
                                     /\ \A j \in 1 .. k - 1 : abs >= base^j
      digit(i) == (abs \div base^(count - i)) % base
  IN [i \in 1 .. count |-> IF v < 0 THEN -digit(i) ELSE digit(i)]

Padded(s, len, max, fill) == IF len > 0 /\ len < max /\ Len(s) < len
                             THEN [i \in 1 .. len - Len(s) |-> fill] \o s ELSE s

(* %d and %ld: the sign is taken from the argument's int part.             *)
print_d(arg, len, fmt) ==
  LET neg == AsInt(arg, fmt.IntBits) < 0
      s == DigitsOf(IF neg THEN -arg ELSE arg, 10, fmt.Digits)
  IN Padded(IF neg THEN <<Minus>> \o s ELSE s, len, fmt.Digits, Blank)

(* %x: an int is extended with its sign first.                             *)
print_x(arg, len, fmt) ==
  Padded(DigitsOf(arg % 2^fmt.LongBits, 16, fmt.LongBits \div 4), len, fmt.LongBits \div 4 + 1, 0)

(* gethex reads at most two digits, getint any number of them; a character *)
(* that is no digit is given as -1.                                        *)
gethex(s) ==
  LET n == CHOOSE k \in 0 .. 2 : /\ k <= Len(s) /\ \A i \in 1 .. k : s[i] >= 0
                                 /\ k = 2 \/ k = Len(s) \/ s[k + 1] < 0
  IN FoldLeft(LAMBDA v, d : 16 * v + d, 0, SubSeq(s, 1, n))
getint(s) ==
  LET n == CHOOSE k \in 0 .. Len(s) : /\ \A i \in 1 .. k : s[i] \in 0 .. 9
                                      /\ k = Len(s) \/ s[k + 1] \notin 0 .. 9
  IN FoldLeft(LAMBDA v, d : 10 * v + d, 0, SubSeq(s, 1, n))

----------------------------------------------------------------------------
(* The progress bar: 2 of the last 4 pixel rows, from column 2 on.  Drawn  *)
(* is counted in columns; unit is 512, the bytes of a sector.              *)

pb_init(scr, size, unit) ==
  LET m == size \div unit + 1
  IN IF size = 0 \/ m < scr.w - 4 THEN [on |-> FALSE, step |-> 0]
     ELSE [on |-> TRUE, m |-> m, drawn |-> 0, step |-> size \div (scr.w - 4)]

pb_draw(scr, pb, curr, unit) ==
  IF pb.on THEN [pb EXCEPT !.drawn = ((curr \div unit) * (scr.w - 4)) \div pb.m] ELSE pb

(* The columns pb_init, pb_draw and pb_fini write, on the rows h - 4 and   *)
(* h - 3 (pb_fini only on the first).                                      *)
BarColumns(scr) == 2 .. scr.w - 3
DrawnColumns(pb) == 2 .. 1 + pb.drawn
FiniColumns(scr) == 2 .. scr.w - 1

(* efi_read reads one pixel's worth at a time, and the whole rest when it  *)
(* is less; what is read and the bar after each piece.                     *)
ReadPieces(scr, size, unit) ==
  LET pb == pb_init(scr, size, unit)
      n == (size + pb.step - 1) \div pb.step
  IN IF ~pb.on THEN <<[at |-> 0, bytes |-> size, bar |-> pb]>>
     ELSE [i \in 1 .. n |->
            LET at == (i - 1) * pb.step
            IN [at |-> at, bytes |-> IF size - at < pb.step THEN size - at ELSE pb.step,
                bar |-> pb_draw(scr, pb, at, unit)]]
=============================================================================
