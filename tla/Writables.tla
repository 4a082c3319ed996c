----------------------------- MODULE Writables ------------------------------
(***************************************************************************)
(* The binary encoding of values: OutputBuffer and InputBuffer             *)
(* (src/io/buffer.h) and the Writable types (src/io/writable_types.h,      *)
(* src/io/md5.h).                                                          *)
(*                                                                         *)
(* All sizes in bytes are the code's; only the number of values of a byte, *)
(* 256, is a parameter, so that every width has boundaries within TLC's    *)
(* reach: with ByteBase = 4 an int has 256 values and a short 16.  A float *)
(* is its bits.  A read that throws returns Thrown.                        *)
(***************************************************************************)
EXTENDS Integers, Sequences, FiniteSetsExt

CONSTANTS
    ByteBase,   \* number of values of a byte, 256
    MD5Len      \* kMD5Len

ASSUME WritablesAssumption ==
    /\ ByteBase \in Nat \ {0, 1} /\ ByteBase % 2 = 0
    /\ MD5Len \in Nat \ {0}

Byte == 0..(ByteBase - 1)

\* How many values n bytes have.
Power[n \in 0..8] == IF n = 0 THEN 1 ELSE Power[n - 1] * ByteBase

\* The signed integers of w bytes.
Ints(w) == (-(Power[w] \div 2))..(Power[w] \div 2 - 1)

-----------------------------------------------------------------------------
\* OutputBuffer: what is appended to the buffer

\* A plausible bug: the bytes are not masked.
BugBigEndian(v, w) == [i \in 1..w |-> v \div Power[w - i]]

\* htons, htonl: the low w bytes of v, the most significant first.
BigEndian(v, w) == [i \in 1..w |-> (v \div Power[w - i]) % ByteBase]

WriteShort(v) == BigEndian(v, 2)
WriteInt(v) == BigEndian(v, 4)

\* Two halves of 32 bits, the high one first.
WriteLong(v) == BigEndian(v \div Power[4], 4) \o BigEndian(v % Power[4], 4)

\* WriteBytes and WriteString
WriteBytes(s) == WriteInt(Len(s)) \o s

-----------------------------------------------------------------------------
\* InputBuffer: in is [data, pos]

Thrown == [ok |-> FALSE]
Result(v, pos) == [ok |-> TRUE, value |-> v, pos |-> pos]

\* ntohs, ntohl
Unsigned(s) ==
    LET prefix[n \in 0..Len(s)] == IF n = 0 THEN 0 ELSE prefix[n - 1] * ByteBase + s[n]
    IN  prefix[Len(s)]

Signed(n, w) == IF n < Power[w] \div 2 THEN n ELSE n - Power[w]

CheckBounds(in, need) == in.pos + need <= Len(in.data)

ReadRawBytes(in, n) ==
    IF CheckBounds(in, n)
      THEN Result(SubSeq(in.data, in.pos + 1, in.pos + n), in.pos + n)
      ELSE Thrown

ReadUnsignedShort(in) ==
    LET r == ReadRawBytes(in, 2) IN IF r.ok THEN Result(Unsigned(r.value), r.pos) ELSE r

ReadInt(in) ==
    LET r == ReadRawBytes(in, 4) IN IF r.ok THEN Result(Signed(Unsigned(r.value), 4), r.pos) ELSE r

\* (hi << 32) | lo in 64 bits.
ReadLong(in) ==
    LET r == ReadRawBytes(in, 8)
        hi == Unsigned(SubSeq(r.value, 1, 4))
        lo == Unsigned(SubSeq(r.value, 5, 8))
    IN  IF r.ok THEN Result(Signed(hi * Power[4] + lo, 8), r.pos) ELSE r

\* ReadBytes, ReadString: a negative length does not survive the allocation.
ReadBytes(in) ==
    LET n == ReadInt(in) IN
    IF n.ok /\ n.value >= 0 THEN ReadRawBytes([in EXCEPT !.pos = n.pos], n.value) ELSE Thrown

-----------------------------------------------------------------------------
\* The Writable types: a value is [type, v]

Writable ==
    [type : {"Int", "Float"}, v : Ints(4)] \cup [type : {"Long"}, v : Ints(8)]
      \cup [type : {"Bool"}, v : BOOLEAN] \cup [type : {"UTF8", "Bytes"}, v : Seq(Byte)]
      \cup [type : {"MD5"}, v : [1..MD5Len -> Byte]] \cup [type : {"Null"}, v : {<<>>}]

\* UTF8::Write keeps the low 16 bits of the length and writes all the bytes.
Write(w) ==
    CASE w.type \in {"Int", "Float"} -> WriteInt(w.v)
      [] w.type = "Long"  -> WriteLong(w.v)
      [] w.type = "Bool"  -> <<IF w.v THEN 1 ELSE 0>>
      [] w.type = "UTF8"  -> WriteShort(Len(w.v)) \o w.v
      [] w.type = "Bytes" -> WriteBytes(w.v)
      [] w.type = "MD5"   -> w.v
      [] w.type = "Null"  -> <<>>

\* A plausible bug: the length of a UTF8 is read as a signed short.
BugReadUTF8(in) ==
    LET n == ReadUnsignedShort(in)
    IN  IF n.ok /\ Signed(n.value, 2) >= 0
          THEN ReadRawBytes([in EXCEPT !.pos = n.pos], n.value) ELSE Thrown

ReadUTF8(in) ==
    LET n == ReadUnsignedShort(in)
    IN  IF n.ok THEN ReadRawBytes([in EXCEPT !.pos = n.pos], n.value) ELSE Thrown

ReadBool(in) ==
    LET r == ReadRawBytes(in, 1) IN IF r.ok THEN Result(r.value # <<0>>, r.pos) ELSE r

ReadFields(type, in) ==
    CASE type \in {"Int", "Float"} -> ReadInt(in)
      [] type = "Long"  -> ReadLong(in)
      [] type = "Bool"  -> ReadBool(in)
      [] type = "UTF8"  -> ReadUTF8(in)
      [] type = "Bytes" -> ReadBytes(in)
      [] type = "MD5"   -> ReadRawBytes(in, MD5Len)
      [] type = "Null"  -> Result(<<>>, in.pos)

-----------------------------------------------------------------------------
\* CompareTo

Sign(n) == IF n < 0 THEN -1 ELSE IF n = 0 THEN 0 ELSE 1

\* memcmp and string::compare: the first difference, else the length.
CompareBytes(s, t) ==
    LET differ == {i \in DOMAIN s \intersect DOMAIN t : s[i] # t[i]}
    IN  IF differ = {} THEN Len(s) - Len(t) ELSE s[Min(differ)] - t[Min(differ)]

\* A plausible bug: a long is compared like an int, by a 32-bit difference.
BugCompareLong(a, b) == Signed((a - b) % Power[4], 4)

CompareLong(a, b) == IF a < b THEN -1 ELSE IF a = b THEN 0 ELSE 1

\* IntWritable subtracts; when the difference overflows, which is undefined,
\* the machine's instruction wraps.
CompareInt(a, b) == Signed((a - b) % Power[4], 4)

CompareTo(w, x) ==
    CASE w.type = "Int"  -> CompareInt(w.v, x.v)
      [] w.type = "Long" -> CompareLong(w.v, x.v)
      [] w.type = "Bool" -> (IF w.v THEN 1 ELSE 0) - (IF x.v THEN 1 ELSE 0)
      [] w.type \in {"UTF8", "MD5"} -> CompareBytes(w.v, x.v)
      [] w.type = "Null" -> 0
=============================================================================
