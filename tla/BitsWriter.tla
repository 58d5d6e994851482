------------------------------ MODULE BitsWriter ------------------------------
(***************************************************************************)
(* The BitsWriter of src/binary.go and its batch: bits, bytes and integers *)
(* of any number of bits are written to a writer a byte at a time, and the *)
(* bits that do not fill a byte are kept in a cache, a uint8. The writer   *)
(* may fail at any byte (once; the batch writes nothing after that).       *)
(***************************************************************************)
EXTENDS Integers, Sequences, SequencesExt

CONSTANTS Inputs,       \* what is written, by kind (see Write)
          ByteOrders,   \* "big", "little"
          MaxWrites,    \* bound: the calls of the batch
          MaxFailing    \* bound: the byte at which the writer may fail

\* A string of bits, a byte, a slice of bytes, an integer of n bytes, n bits of an
\* integer, and n bytes of a slice padded with v.
ASSUME InputsAssumption ==
  Inputs \subseteq [kind : {"bits"}, bits : Seq({0, 1})] \cup [kind : {"byte"}, v : 0..255]
                   \cup [kind : {"slice"}, bytes : Seq(0..255)]
                   \cup [kind : {"int"}, v : Nat, n : {2, 4, 8}] \cup [kind : {"n"}, v : Nat, n : 0..64]
                   \cup [kind : {"padded"}, bytes : Seq(0..255), n : Nat, v : 0..255]

VARIABLES byteOrder,
          bw,           \* the writer: cache, cacheLen, the bytes out, and whether a write failed
          failing,      \* the number of the byte at which the writer fails, 0 if it does not
          writes,       \* how many calls were made
          asked         \* history: the bits to write

bitsVars == <<byteOrder, bw, failing, writes, asked>>

BitsInit == /\ byteOrder \in ByteOrders /\ failing \in 0..MaxFailing
            /\ bw = [cache |-> 0, cacheLen |-> 0, out |-> <<>>, err |-> FALSE]
            /\ writes = 0 /\ asked = <<>>

Byte(v) == v % 256

Pow2(n) == LET p[i \in 0..n] == IF i = 0 THEN 1 ELSE 2 * p[i - 1] IN p[n]

\* write: the writer takes all of the bytes or fails.
Flush(w, bs) == IF failing \in Len(w.out) + 1..Len(w.out) + Len(bs)
                THEN [w EXCEPT !.err = TRUE] ELSE [w EXCEPT !.out = @ \o bs]

\* A full cache is written, and reset if that did not fail.
FlushCache(w) == LET f == Flush(w, <<w.cache>>) IN
                 IF f.err THEN f ELSE [f EXCEPT !.cache = 0, !.cacheLen = 0]

\* writeBit, and writeFullByte, which shifts the cache before the flush. What is put in the cache
\* and what is there share no bit, so that | is a sum.
WriteBit(w, bit) == LET v == [w EXCEPT !.cache = @ + bit * Pow2(7 - w.cacheLen), !.cacheLen = @ + 1]
                    IN  IF v.cacheLen = 8 THEN FlushCache(v) ELSE v

WriteFullByte(w, b) ==
  IF w.cacheLen = 0 THEN Flush(w, <<b>>)
  ELSE Flush([w EXCEPT !.cache = Byte(b * Pow2(8 - w.cacheLen))], <<w.cache + b \div Pow2(w.cacheLen)>>)

\* A loop that ends at the first error.
Unless(op(_, _), w, e) == IF w.err THEN w ELSE op(w, e)
Each(op(_, _), w, s) ==
  LET ws[i \in 0..Len(s)] == IF i = 0 THEN w ELSE Unless(op, ws[i - 1], s[i])
  IN  ws[Len(s)]

\* writeByteSlice: at once if there is no bit in the cache.
WriteByteSlice(w, bs) == IF w.cacheLen = 0 THEN Flush(w, bs) ELSE Each(WriteFullByte, w, bs)

\* WriteBytesN: the first n bytes, or all of them and the padding.
WriteBytesN(w, bs, n, pad) ==
  IF Len(bs) >= n THEN WriteByteSlice(w, SubSeq(bs, 1, n))
  ELSE LET v == WriteByteSlice(w, bs) IN
       IF v.err THEN v ELSE Each(WriteFullByte, v, [i \in 1..n - Len(bs) |-> pad])

TurnLow(x, v) ==    \* mutant: the bits that do not fit in the byte are the ones taken
  LET m == IF x.n < 8 - x.w.cacheLen THEN x.n ELSE 8 - x.w.cacheLen
      part == (v % Pow2(m)) * Pow2(8 - x.w.cacheLen - m)
      u == [x.w EXCEPT !.cache = @ + part, !.cacheLen = @ + m]
  IN  [w |-> IF u.cacheLen = 8 THEN FlushCache(u) ELSE u, n |-> x.n - m]

\* A turn of the loop of writeBitsN: of the n last bits of v, those that fit in the
\* byte. A byte that is empty is written, or becomes the cache; another is completed.
Turn(x, v) ==
  IF x.w.cacheLen = 0
  THEN IF x.n >= 8 THEN [w |-> Flush(x.w, <<Byte(v \div Pow2(x.n - 8))>>), n |-> x.n - 8]
       ELSE [w |-> [x.w EXCEPT !.cacheLen = x.n, !.cache = Byte(v * Pow2(8 - x.n))], n |-> 0]
  ELSE LET free == 8 - x.w.cacheLen
           m == IF x.n < free THEN x.n ELSE free
           part == IF x.n <= free THEN Byte(v * Pow2(free - m)) ELSE Byte(v \div Pow2(x.n - m))
           u == [x.w EXCEPT !.cache = @ + part, !.cacheLen = @ + m]
       IN  [w |-> IF u.cacheLen = 8 THEN FlushCache(u) ELSE u, n |-> x.n - m]

NextTurn(x, v) == IF x.n = 0 \/ x.w.err THEN x ELSE Turn(x, v)
WriteBitsN(w, v, n) ==
  LET low == v % Pow2(n)
      xs[i \in 0..n] == IF i = 0 THEN [w |-> w, n |-> n] ELSE NextTurn(xs[i - 1], low)
  IN  xs[n].w

\* writeFullInt of a value of n bytes.
WriteFullInt(w, v, n) == IF byteOrder = "big" THEN WriteBitsN(w, v, n * 8)
                         ELSE Each(WriteFullByte, w, [i \in 1..n |-> Byte(v \div Pow2((i - 1) * 8))])

\* Write, WriteN and WriteBytesN of the batch, which stops at the first error.
Wrote(w, i) == CASE i.kind = "bits"   -> Each(WriteBit, w, i.bits)
                 [] i.kind = "byte"   -> WriteFullByte(w, i.v)
                 [] i.kind = "slice"  -> WriteByteSlice(w, i.bytes)
                 [] i.kind = "int"    -> WriteFullInt(w, i.v, i.n)
                 [] i.kind = "n"      -> WriteBitsN(w, i.v, i.n)
                 [] i.kind = "padded" -> WriteBytesN(w, i.bytes, i.n, i.v)

\* What was asked for, bit by bit.
BitsOf(v, n) == [i \in 1..n |-> (v \div Pow2(n - i)) % 2]
BytesBits(bs) == [i \in 1..8 * Len(bs) |-> BitsOf(bs[(i - 1) \div 8 + 1], 8)[((i - 1) % 8) + 1]]
Asked(i) ==
  CASE i.kind = "bits"   -> i.bits
    [] i.kind = "byte"   -> BitsOf(i.v, 8)
    [] i.kind = "slice"  -> BytesBits(i.bytes)
    [] i.kind = "n"      -> BitsOf(i.v, i.n)
    [] i.kind = "int"    -> IF byteOrder = "big" THEN BitsOf(i.v, 8 * i.n)
                            ELSE BytesBits([k \in 1..i.n |-> Byte(i.v \div Pow2((k - 1) * 8))])
    [] i.kind = "padded" -> BytesBits([k \in 1..i.n |-> IF k <= Len(i.bytes) THEN i.bytes[k] ELSE i.v])

BatchWrite(i) == /\ writes < MaxWrites
                 /\ bw' = IF bw.err THEN bw ELSE Wrote(bw, i)
                 /\ writes' = writes + 1
                 /\ asked' = asked \o Asked(i)
                 /\ UNCHANGED <<byteOrder, failing>>

BitsNext == \E i \in Inputs : BatchWrite(i)

BitsSpec == BitsInit /\ [][BitsNext]_bitsVars

-----------------------------------------------------------------------------
(* The bytes written, followed by the bits in the cache, are the bits of all that was written, in    *)
(* order, however the writes straddle the bytes (src/binary.go:55-247); the rest of the cache is 0.  *)
(* After an error the batch has written a beginning of that, and nothing behind it.                  *)
BitsInOrder == LET cached == BitsOf(bw.cache, 8) IN
  /\ bw.cache \in 0..255 /\ bw.cacheLen \in 0..IF bw.err THEN 8 ELSE 7
  /\ bw.err => IsPrefix(BytesBits(bw.out), asked)
  /\ ~bw.err => /\ BytesBits(bw.out) \o SubSeq(cached, 1, bw.cacheLen) = asked
                /\ \A i \in bw.cacheLen + 1..8 : cached[i] = 0
=============================================================================
