------------------------------ MODULE Sprintf ------------------------------
(***************************************************************************)
(* vsnprintf of stb_sprintf.h as print.cc builds it, without floating      *)
(* point: how a format is taken apart, how numbers become digits, and how  *)
(* the text reaches a buffer of limited size in pieces.  A text is a       *)
(* sequence of characters.  w holds the widths: IntBits and LongBits of    *)
(* the arguments, ChunkDigits (8) of one round of decimal conversion, and  *)
(* MIN, the size of the piece that is collected before it is handed on.    *)
(***************************************************************************)
EXTENDS Integers, Sequences, SequencesExt, FiniteSets

DigitChars == <<"0","1","2","3","4","5","6","7","8","9","a","b","c","d","e","f">>
UpperDigits == <<"0","1","2","3","4","5","6","7","8","9","A","B","C","D","E","F">>
Char(d) == DigitChars[d + 1]
Repeat(c, n) == [i \in 1 .. n |-> c]
Lesser(a, b) == IF a < b THEN a ELSE b
Greater(a, b) == IF a > b THEN a ELSE b

----------------------------------------------------------------------------
(* The format: flags, width, precision, size and conversion.               *)

FlagChars == {"-", "+", " ", "#", "'", "$", "_"}
Decimals == {DigitChars[i] : i \in 1 .. 10}

(* The first place from i on where the format leaves the set.              *)
Behind(f, i, set) == CHOOSE j \in i .. Len(f) + 1 : /\ \A k \in i .. j - 1 : f[k] \in set
                                                    /\ j = Len(f) + 1 \/ f[j] \notin set
Number(f, i, j) == FoldLeft(LAMBDA n, c : 10 * n + (CHOOSE d \in 0 .. 9 : Char(d) = c), 0, SubSeq(f, i, j - 1))

At(f, i) == IF i <= Len(f) THEN f[i] ELSE "end"

(* A zero ends the flags: those behind it are not seen as flags.           *)
Flags(f, i) ==
  LET j == Behind(f, i, FlagChars)
      zero == At(f, j) = "0"
  IN [set |-> {f[k] : k \in i .. j - 1} \cup (IF zero THEN {"0"} ELSE {}), at |-> IF zero THEN j + 1 ELSE j]

(* A number or, for "*", the next argument.                                *)
Field(f, i, args) ==
  IF At(f, i) = "*" THEN [val |-> Head(args), at |-> i + 1, args |-> Tail(args)]
  ELSE LET j == Behind(f, i, Decimals) IN [val |-> Number(f, i, j), at |-> j, args |-> args]

(* long and the sizes of pointers have 64 bits; h and hh change nothing.   *)
Size(f, i) ==
  LET twice(c) == At(f, i + 1) = c
  IN CASE At(f, i) = "h" -> [long |-> FALSE, at |-> IF twice("h") THEN i + 2 ELSE i + 1]
       [] At(f, i) = "l" -> [long |-> TRUE, at |-> IF twice("l") THEN i + 2 ELSE i + 1]
       [] At(f, i) \in {"j", "z", "t"} -> [long |-> TRUE, at |-> i + 1]
       [] At(f, i) = "I" /\ twice("6") /\ At(f, i + 2) = "4" -> [long |-> TRUE, at |-> i + 3]
       [] At(f, i) = "I" /\ twice("3") /\ At(f, i + 2) = "2" -> [long |-> FALSE, at |-> i + 3]
       [] At(f, i) = "I" /\ ~(twice("6") /\ At(f, i + 2) = "4") /\ ~(twice("3") /\ At(f, i + 2) = "2") ->
            [long |-> TRUE, at |-> i + 1]
       [] OTHER -> [long |-> FALSE, at |-> i]

(* A precision stands behind a point; -1 is none.                          *)
Precision(f, i, args) ==
  IF At(f, i) = "." THEN Field(f, i + 1, args) ELSE [val |-> -1, at |-> i, args |-> args]

Sized(f, flags, width, pr, sz) ==
  [flags |-> flags, width |-> width, prec |-> pr.val, long |-> sz.long,
   conv |-> At(f, sz.at), at |-> sz.at + 1, args |-> pr.args]
BehindWidth(f, flags, width, pr) == Sized(f, flags, width, pr, Size(f, pr.at))
BehindFlags(f, flags, fw) == BehindWidth(f, flags, fw.val, Precision(f, fw.at, fw.args))
BehindPercent(f, fl, args) == BehindFlags(f, fl.set, Field(f, fl.at, args))
Directive(f, i, args) == BehindPercent(f, Flags(f, i), args)

----------------------------------------------------------------------------
(* Digits.  A body has the characters, and how many make a group.          *)

lead_sign(flags, negative) ==
  CASE negative -> <<"-">>
    [] ~negative /\ " " \in flags -> <<" ">>
    [] ~negative /\ " " \notin flags /\ "+" \in flags -> <<"+">>
    [] OTHER -> <<>>

(* A comma before every further group, counted from the right.             *)
RECURSIVE Grouped(_, _)
Grouped(s, n) == IF Len(s) <= n THEN s
                 ELSE Grouped(SubSeq(s, 1, Len(s) - n), n) \o <<",">> \o SubSeq(s, Len(s) - n + 1, Len(s))

RECURSIVE RadixDigits(_, _, _, _)
RadixDigits(n, bits, prec, digits) ==
  LET more == n \div 2^bits
  IN (IF more # 0 \/ prec > 1 THEN RadixDigits(more, bits, prec - 1, digits) ELSE <<>>)
       \o <<digits[(n % 2^bits) + 1]>>

(* Two digits at a time.                                                   *)
RECURSIVE Pairs(_)
Pairs(n) == (IF n >= 100 THEN Pairs(n \div 100) ELSE <<>>) \o <<Char((n % 100) \div 10), Char(n % 10)>>

(* Mutant: a round's leading zeros are not filled in. *)
RECURSIVE Decimal_NoFill(_, _)
Decimal_NoFill(n64, w) ==
  LET one == 10^w.ChunkDigits
      s == Pairs(n64 % one)
  IN IF n64 >= one THEN Decimal_NoFill(n64 \div one, w) \o s
     ELSE IF Head(s) = "0" THEN Tail(s) ELSE s

(* Rounds of ChunkDigits digits, the last one without a leading zero.      *)
RECURSIVE Decimal(_, _)
Decimal(n64, w) ==
  LET one == 10^w.ChunkDigits
      s == Pairs(n64 % one)
  IN IF n64 >= one THEN Decimal(n64 \div one, w) \o Repeat("0", w.ChunkDigits - Len(s)) \o s
     ELSE IF Head(s) = "0" THEN Tail(s) ELSE s

Signed(v, bits) == LET m == v % 2^bits IN IF m >= 2^(bits - 1) THEN m - 2^bits ELSE m

Converted(d, arg, w) ==
  LET bits == IF d.long \/ d.conv = "p" THEN w.LongBits ELSE w.IntBits
      n == arg % 2^bits
      value == IF d.conv = "u" THEN n ELSE Signed(arg, bits)
      commas == "'" \in d.flags
      prec == IF d.conv = "p" THEN w.LongBits \div 4 ELSE d.prec
      radix(per, group, lead, digits) ==
        IF n = 0 /\ prec = 0 THEN [lead |-> <<>>, s |-> <<>>, group |-> 0]
        ELSE [lead |-> IF n # 0 /\ "#" \in d.flags THEN lead ELSE <<>>, group |-> group,
              s |-> LET all == RadixDigits(n, per, prec, digits) IN IF commas THEN Grouped(all, group) ELSE all]
  IN CASE d.conv \in {"d", "i", "u"} ->
            LET s == Decimal(IF value < 0 THEN -value ELSE value, w)
            IN [lead |-> lead_sign(d.flags, value < 0), s |-> IF commas THEN Grouped(s, 3) ELSE s, group |-> 3]
       [] d.conv \in {"x", "p"} -> radix(4, 4, <<"0", "x">>, DigitChars)
       [] d.conv = "X" -> radix(4, 4, <<"0", "X">>, UpperDigits)
       [] d.conv = "o" -> radix(3, 3, <<"0">>, UpperDigits)
       [] d.conv \in {"b", "B"} -> radix(1, 8, <<"0", d.conv>>, DigitChars)
       [] d.conv = "s" -> [lead |-> <<>>, group |-> 0,
                           s |-> IF d.prec >= 0 THEN SubSeq(arg, 1, Lesser(d.prec, Len(arg))) ELSE arg]
       [] d.conv = "c" -> [lead |-> <<>>, s |-> <<arg>>, group |-> 0]
       [] OTHER -> [lead |-> <<>>, s |-> <<d.conv>>, group |-> 0]
Conversions == {"d", "i", "u", "x", "X", "p", "o", "b", "B", "s", "c"}

----------------------------------------------------------------------------
(* scopy: what a directive prints, in the order of its parts.              *)

RECURSIVE ZeroRun(_, _, _)
ZeroRun(n, count, group) ==
  IF n = 0 THEN <<>>
  ELSE IF count = group THEN <<",">> \o ZeroRun(n - 1, 0, group)
  ELSE <<"0">> \o ZeroRun(n - 1, count + 1, group)

Parts(d, body) ==
  LET known == d.conv \in Conversions
      flags == IF known THEN d.flags \ (IF d.conv = "p" THEN {"0"} ELSE {}) ELSE {}
      l == Len(body.s)
      pr == Greater(IF d.conv \in Conversions \ {"s", "c", "p"} THEN d.prec ELSE 0, l)
      n == pr + Len(body.lead)
      space == Greater(IF known THEN d.width ELSE 0, n) - n
      left == "-" \in flags
      zero == ~left /\ "0" \in flags
      zeros == IF zero THEN Greater(space, pr - l) ELSE pr - l
      commas == "'" \in flags /\ (left \/ zero)
  IN << IF left \/ zero THEN <<>> ELSE Repeat(" ", space),
        body.lead,
        IF commas THEN ZeroRun(zeros, body.group - ((zeros + l) % (body.group + 1)), body.group)
        ELSE Repeat("0", zeros),
        body.s,
        IF left THEN Repeat(" ", space) ELSE <<>> >>

----------------------------------------------------------------------------
(* vsnprintf: c.buf is the piece being collected, c.out what the caller's  *)
(* buffer has, c.count the room left there, c.length all that was printed. *)

clamp_callback(c) ==
  LET len == Lesser(Len(c.buf), c.count)
  IN [out |-> c.out \o SubSeq(c.buf, 1, len), count |-> c.count - len,
      length |-> c.length + Len(c.buf), buf |-> <<>>]
chk_cb_buf(c, bytes, w) == IF Len(c.buf) + bytes >= w.MIN THEN clamp_callback(c) ELSE c

RECURSIVE PutPart(_, _, _)
PutPart(c, s, w) ==
  IF s = <<>> THEN c
  ELSE LET i == Lesser(Len(s), w.MIN - Len(c.buf))
       IN PutPart(chk_cb_buf([c EXCEPT !.buf = @ \o SubSeq(s, 1, i)], 1, w), SubSeq(s, i + 1, Len(s)), w)

(* Ordinary characters go one at a time, or four where the format's        *)
(* address (skew) is a multiple of four and there is room.                 *)
Plain(f, i) == i <= Len(f) /\ f[i] # "%"
RECURSIVE Format(_, _, _, _, _, _), Directed(_, _, _, _, _)
Directed(f, d, c, skew, w) ==
  LET takes == d.conv \in Conversions
  IN Format(f, d.at, IF takes THEN Tail(d.args) ELSE d.args,
            FoldLeft(LAMBDA a, part : PutPart(a, part, w), c,
                     Parts(d, Converted(d, IF takes THEN Head(d.args) ELSE 0, w))), skew, w)
Format(f, i, args, c, skew, w) ==
  IF i > Len(f) THEN c
  ELSE IF /\ (i + skew) % 4 = 0 /\ w.MIN - Len(c.buf) >= 4
          /\ \A k \in i .. i + 3 : Plain(f, k)
       THEN Format(f, i + 4, args, [c EXCEPT !.buf = @ \o SubSeq(f, i, i + 3)], skew, w)
  ELSE IF Plain(f, i)
       THEN Format(f, i + 1, args, [chk_cb_buf(c, 1, w) EXCEPT !.buf = Append(@, f[i])], skew, w)
  ELSE Directed(f, Directive(f, i + 1, args), c, skew, w)

(* The buffer up to its terminating zero, and the length that is returned. *)
Flushed(c) == IF c.buf # <<>> THEN clamp_callback(c) ELSE c
Terminated(c, count) == [buf |-> SubSeq(c.out, 1, Lesser(Len(c.out), count - 1)), length |-> c.length]
vsnprintf(count, f, args, skew, w) ==
  Terminated(Flushed(Format(f, 1, args, [buf |-> <<>>, out |-> <<>>, count |-> count, length |-> 0], skew, w)), count)
=============================================================================
