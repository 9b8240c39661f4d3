------------------------------ MODULE Inflate ------------------------------
(***************************************************************************)
(* uncompress (inflate.h), which the loader runs on packed modules, and    *)
(* compress (simpleboot.c), which the image tool runs on a ROM's contents. *)
(* A byte is a number below 256, a stream a sequence of bits; positions in *)
(* a stream count the bits that were read.                                 *)
(***************************************************************************)
EXTENDS Integers, Sequences, SequencesExt, FiniteSets

TINF_OK == 0
TINF_DONE == 1
TINF_DATA_ERROR == -3

Bits(bytes) == [i \in 1 .. 8 * Len(bytes) |-> (bytes[(i - 1) \div 8 + 1] \div 2^((i - 1) % 8)) % 2]
Byte(bits, at) == FoldLeft(LAMBDA v, i : v + 2^(i - 1) * bits[at + i], 0, [i \in 1 .. 8 |-> i])
Zeros(n) == [i \in 1 .. n |-> 0]

----------------------------------------------------------------------------
(* Lengths and distances: the extra bits and the smallest value of a code. *)

length_bits == <<0,0,0,0,0,0,0,0, 1,1,1,1, 2,2,2,2, 3,3,3,3, 4,4,4,4, 5,5,5,5, 0,0>>
length_base == <<3,4,5,6,7,8,9,10, 11,13,15,17, 19,23,27,31, 35,43,51,59, 67,83,99,115,
                 131,163,195,227, 258, 0>>
dist_bits == [i \in 1 .. 30 |-> IF i <= 4 THEN 0 ELSE (i - 3) \div 2]
dist_base == <<1,2,3,4,5,7,9,13,17,25,33,49,65,97,129,193,257,385,513,769,1025,1537,2049,3073,
               4097,6145,8193,12289,16385,24577>>
clcidx == <<16, 17, 18, 0, 8, 7, 9, 6, 10, 5, 11, 4, 12, 3, 13, 2, 14, 1, 15>>

(* A tree: how many codes each length has, and the symbols in code order.  *)
Consecutive(first, n) == [i \in 1 .. n |-> first + i - 1]
fixed_ltree ==
  [table |-> [len \in 1 .. 15 |-> CASE len = 7 -> 24 [] len = 8 -> 152 [] len = 9 -> 112 [] OTHER -> 0],
   trans |-> Consecutive(256, 24) \o Consecutive(0, 144) \o Consecutive(280, 8) \o Consecutive(144, 112)]
fixed_dtree == [table |-> [len \in 1 .. 15 |-> IF len = 5 THEN 32 ELSE 0], trans |-> Consecutive(0, 32)]

(* Symbol i - 1 has a code of lengths[i] bits, or none if that is 0.       *)
build_tree(lengths) ==
  LET coded(len) == SelectSeq(Consecutive(0, Len(lengths)), LAMBDA sym : lengths[sym + 1] = len)
  IN [table |-> [len \in 1 .. 15 |-> Len(coded(len))],
      trans |-> FlattenSeq([len \in 1 .. 15 |-> coded(len)])]

----------------------------------------------------------------------------
(* Reading: each operator returns the value and the position behind it.    *)

read_bits(in, pos, num, base) ==
  [val |-> base + FoldLeft(LAMBDA v, i : v + 2^(i - 1) * in[pos + i], 0, Consecutive(1, num)),
   pos |-> pos + num]

(* One more bit while the code is not below the codes of its length.       *)
RECURSIVE Descend(_, _, _, _, _, _)
Descend(in, pos, tree, len, sum, cur) ==
  LET s == sum + tree.table[len]
      c == 2 * cur + in[pos + 1] - tree.table[len]
  IN IF c < 0 THEN [val |-> tree.trans[s + c + 1], pos |-> pos + 1]
     ELSE Descend(in, pos + 1, tree, len + 1, s, c)
decode_symbol(in, pos, tree) == Descend(in, pos, tree, 1, 0, 0)

RECURSIVE CodeLengths(_, _, _, _, _), Lengthened(_, _, _, _, _)
Repeats(in, sym) ==
  CASE sym.val = 16 -> read_bits(in, sym.pos, 2, 3)
    [] sym.val = 17 -> read_bits(in, sym.pos, 3, 3)
    [] sym.val = 18 -> read_bits(in, sym.pos, 7, 11)
    [] OTHER -> [val |-> 1, pos |-> sym.pos]
Lengthened(in, sym, tree, lengths, n) ==
  LET times == Repeats(in, sym)
      len == CASE sym.val = 16 -> Last(lengths) [] sym.val \in {17, 18} -> 0 [] OTHER -> sym.val
  IN CodeLengths(in, times.pos, tree, lengths \o [i \in 1 .. times.val |-> len], n)
CodeLengths(in, pos, tree, lengths, n) ==
  IF Len(lengths) >= n THEN [val |-> lengths, pos |-> pos]
  ELSE Lengthened(in, decode_symbol(in, pos, tree), tree, lengths, n)

TreesOf(ls, hlit, hdist) ==
  [lt |-> build_tree(SubSeq(ls.val, 1, hlit)), dt |-> build_tree(SubSeq(ls.val, hlit + 1, hlit + hdist)), pos |-> ls.pos]
decode_trees(in, pos) ==
  LET hlit == read_bits(in, pos, 5, 257).val
      hdist == read_bits(in, pos + 5, 5, 1).val
      hclen == read_bits(in, pos + 10, 4, 4).val
      clen(sym) == LET at == CHOOSE i \in 1 .. 19 : clcidx[i] = sym
                   IN IF at > hclen THEN 0 ELSE read_bits(in, pos + 14 + 3 * (at - 1), 3, 0).val
  IN TreesOf(CodeLengths(in, pos + 14 + 3 * hclen, build_tree([i \in 1 .. 19 |-> clen(i - 1)]), <<>>, hlit + hdist),
             hlit, hdist)

----------------------------------------------------------------------------
(* The blocks.  A result has the bytes written, the position and res.      *)

(* Mutant: the bytes are taken from what was there before the copy began. *)
Copied_Whole(out, len, offs) == out \o [i \in 1 .. len |-> out[((Len(out) - offs + i - 1) % Len(out)) + 1]]

(* Byte by byte, so that a copy may come to read what it has just written: *)
(* the last offs bytes again, and after them twice as many.                *)
RECURSIVE Copied(_, _, _)
Copied(out, len, offs) ==
  LET from == Len(out) - offs
  IN IF len <= offs THEN out \o SubSeq(out, from + 1, from + len)
     ELSE Copied(out \o SubSeq(out, from + 1, Len(out)), len - offs, 2 * offs)

RECURSIVE inflate_block_data(_, _, _, _, _), Repeated(_, _, _, _, _, _), Symbol(_, _, _, _, _)
Offset(in, sym) == read_bits(in, sym.pos, dist_bits[sym.val + 1], dist_base[sym.val + 1])
Repeated(in, len, offs, out, lt, dt) == inflate_block_data(in, offs.pos, Copied(out, len.val, offs.val), lt, dt)
Symbol(in, sym, out, lt, dt) ==
  CASE sym.val < 256 -> inflate_block_data(in, sym.pos, Append(out, sym.val), lt, dt)
    [] sym.val = 256 -> [res |-> TINF_DONE, out |-> out, pos |-> sym.pos]
    [] sym.val > 256 ->
         LET len == read_bits(in, sym.pos, length_bits[sym.val - 256], length_base[sym.val - 256])
         IN Repeated(in, len, Offset(in, decode_symbol(in, len.pos, dt)), out, lt, dt)
inflate_block_data(in, pos, out, lt, dt) == Symbol(in, decode_symbol(in, pos, lt), out, lt, dt)

(* The rest of the byte that was begun is dropped.                         *)
inflate_uncompressed_block(in, pos, out) ==
  LET at == 8 * ((pos + 7) \div 8)
      length == Byte(in, at) + 256 * Byte(in, at + 8)
      invlength == Byte(in, at + 16) + 256 * Byte(in, at + 24)
  IN IF length # 65535 - invlength THEN [res |-> TINF_DATA_ERROR, out |-> out, pos |-> at + 32]
     ELSE [res |-> TINF_DONE, pos |-> at + 32 + 8 * length,
           out |-> out \o [i \in 1 .. length |-> Byte(in, at + 24 + 8 * i)]]

(* Blocks up to the final one.  What was asked for is no bound: when       *)
(* destSize reaches 0, the outer loop goes on.                             *)
RECURSIVE Blocks(_, _, _), Then(_, _, _)
Trees(in, pos, btype) ==
  IF btype = 2 THEN decode_trees(in, pos) ELSE [lt |-> fixed_ltree, dt |-> fixed_dtree, pos |-> pos]
Coded(in, trees, out) == inflate_block_data(in, trees.pos, out, trees.lt, trees.dt)
Block(in, pos, btype, out) ==
  CASE btype = 0 -> inflate_uncompressed_block(in, pos, out)
    [] btype \in {1, 2} -> Coded(in, Trees(in, pos, btype), out)
    [] btype = 3 -> [res |-> TINF_DATA_ERROR, out |-> out, pos |-> pos]
Then(in, bfinal, block) ==
  IF block.res = TINF_DONE /\ bfinal = 0 THEN Blocks(in, block.pos, block.out)
  ELSE [res |-> block.res, out |-> block.out]
Blocks(in, pos, out) == Then(in, in[pos + 1], Block(in, pos + 3, read_bits(in, pos + 1, 2, 0).val, out))

(* The bytes of a gzip header, with the optional fields its flags name.    *)
RECURSIVE BehindZero(_, _)
BehindZero(bytes, i) == IF bytes[i] = 0 THEN i + 1 ELSE BehindZero(bytes, i + 1)
GzipHeader(bytes) ==
  LET f(bit) == (bytes[4] \div bit) % 2 = 1
      extra == IF f(4) THEN 13 + bytes[11] + 256 * bytes[12] ELSE 11
      name == IF f(8) THEN BehindZero(bytes, extra) ELSE extra
      comment == IF f(16) THEN BehindZero(bytes, name) ELSE name
  IN (IF f(2) THEN comment + 2 ELSE comment) - 1

uncompress(bytes) ==
  IF bytes[1] = 31 THEN Blocks(Bits(SubSeq(bytes, GzipHeader(bytes) + 1, Len(bytes))), 0, <<>>)
  ELSE IF bytes[9] = 120 THEN Blocks(Bits(SubSeq(bytes, 11, Len(bytes))), 0, SubSeq(bytes, 1, 8))
  ELSE [res |-> TINF_DATA_ERROR, out |-> <<>>]

----------------------------------------------------------------------------
(* compress: one block with the fixed trees.                               *)

HASH_BITS == 12
MIN_MATCH == 3
MAX_MATCH == 258
MAX_OFFSET == 32768

(* zlib_o: n bits, the lowest first; mb turns a code's bits round.         *)
zlib_o(b, n) == [i \in 1 .. n |-> (b \div 2^(i - 1)) % 2]
Turned(code, n) == [i \in 1 .. n |-> (code \div 2^(n - i)) % 2]
Literal(c) == IF c <= 143 THEN Turned(48 + c, 8) ELSE <<1>> \o Turned(c, 8)

Code(v, base, n) == CHOOSE k \in 1 .. n : base[k] <= v /\ (k = n \/ v < base[k + 1])
Length(m) ==
  LET k == Code(m, length_base, 29)
  IN (IF 256 + k <= 279 THEN Turned(k, 7) ELSE Turned(192 - 24 + k, 8))
       \o zlib_o(m - length_base[k], length_bits[k])
Distance(p) == LET k == Code(p, dist_base, 30) IN Turned(k - 1, 5) \o zlib_o(p - dist_base[k], dist_bits[k])

(* A match of o bytes in pieces a length code has.                         *)
RECURSIVE Matched(_, _)
Matched(o, p) ==
  IF o <= 0 THEN <<>>
  ELSE LET m == CASE o > 260 -> 258 [] o <= 258 -> o [] OTHER -> o - 3
       IN Length(m) \o Distance(p) \o Matched(o - m, p)

Hash(data, i) ==
  LET h == data[i] * 65536 + data[i + 1] * 256 + data[i + 2]
  IN (h \div 2^(24 - HASH_BITS) - h) % 2^HASH_BITS

(* The matching bytes from i and s on, without the last MIN_MATCH ones.    *)
MatchLength(data, i, s) ==
  CHOOSE o \in MIN_MATCH .. MAX_MATCH :
    /\ \A k \in MIN_MATCH .. o - 1 : i + k <= Len(data) - MIN_MATCH /\ data[i + k] = data[s + k]
    /\ o = MAX_MATCH \/ i + o > Len(data) - MIN_MATCH \/ data[i + o] # data[s + o]

RECURSIVE Packed(_, _, _)
Packed(data, i, zlib_h) ==
  IF i > Len(data) - MIN_MATCH THEN
       FlattenSeq([k \in 1 .. Len(data) + 1 - i |-> Literal(data[i + k - 1])])
  ELSE LET h == Hash(data, i)
           s == IF h \in DOMAIN zlib_h THEN zlib_h[h] ELSE 0
           next == [k \in DOMAIN zlib_h \cup {h} |-> IF k = h THEN i ELSE zlib_h[k]]
       IN IF /\ s > 0 /\ i - s <= MAX_OFFSET
             /\ SubSeq(data, s, s + MIN_MATCH - 1) = SubSeq(data, i, i + MIN_MATCH - 1)
          THEN LET o == MatchLength(data, i, s) IN Matched(o, i - s) \o Packed(data, i + o, next)
          ELSE Literal(data[i]) \o Packed(data, i + 1, next)

(* The bytes that are full; 14 zero bits end the block and push the last   *)
(* bits out.                                                               *)
compress(data) ==
  LET bits == zlib_o(1, 1) \o zlib_o(1, 2) \o Packed(data, 1, <<>>) \o Zeros(14)
  IN <<120, 218>> \o [i \in 1 .. Len(bits) \div 8 |-> Byte(bits, 8 * (i - 1))]
=============================================================================
