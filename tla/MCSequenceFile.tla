--------------------------- MODULE MCSequenceFile ---------------------------
\* An instance of SequenceFile with 2 bits to a byte, so that an int is
\* -128..127, a long -32768..32767 and a UTF8 has at most 15 bytes.
EXTENDS SequenceFile

MCMagic == <<1, 2, 3, 2>>

\* A marker that looks like an escape.
MCSyncs == {<<3, 3>>}

IntW(n) == [type |-> "Int", v |-> n]
LongW(n) == [type |-> "Long", v |-> n]
UTF8(n) == [type |-> "UTF8", v |-> [i \in 1..n |-> 3]]
Bytes(s) == [type |-> "Bytes", v |-> s]
Null == [type |-> "Null", v |-> <<>>]

\* The long keys differ by all the values of an int, the int keys by the
\* greatest of them.
MCRecords ==
    { [key |-> LongW(-32768), value |-> Null],
      [key |-> LongW(-32512), value |-> Bytes(<<3, 3, 3>>)],
      [key |-> IntW(-1), value |-> [type |-> "MD5", v |-> <<3, 0>>]],
      [key |-> IntW(126), value |-> [type |-> "Bool", v |-> TRUE]],
      [key |-> UTF8(0), value |-> UTF8(15)],
      [key |-> UTF8(1), value |-> UTF8(16)],
      [key |-> Null, value |-> IntW(7)] }
=============================================================================
