------------------------------ MODULE AlutBytes ------------------------------
(***************************************************************************)
(* Numbers as the bytes they are written to and read from: the writers of  *)
(* src/alutOutputStream.c, a reader of src/alutInputStream.c, and how a    *)
(* host takes two bytes in memory for an int16_t.                          *)
(***************************************************************************)
EXTENDS Integers

Byte == 0 .. 255

Int16 == -(2 ^ 15) .. 2 ^ 15 - 1

Int32Max == 2147483647

\* The number a conversion to int8_t, int16_t, int32_t makes of n: it keeps the
\* low bytes, and the highest of them has the sign.
ToInt8(n) == ((n + 128) % 256) - 128

ToInt16(n) == ((n + 32768) % 65536) - 32768

ToInt32(n) == ToInt16(n \div 65536) * 65536 + (n % 65536)

\* The most significant byte goes last.
Int16BE_LowFirst(value) == <<value % 256, (value \div 256) % 256>>

\* _alutOutputStreamWriteInt16BE, ...Int32BE.  The shift is arithmetic.
Int16BE(value) == <<(value \div 256) % 256, value % 256>>

Int32BE(value) ==
  << (value \div 16777216) % 256, (value \div 65536) % 256,
     (value \div 256) % 256, value % 256 >>

\* _alutInputStreamReadInt32BE
ReadInt32BE(buf) ==
  ToInt8(buf[1]) * 16777216 + buf[2] * 65536 + buf[3] * 256 + buf[4]

\* The int16_t that a host finds in two bytes of memory, and the two bytes of
\* memory in which it has one.
Load16(host, b) ==
  IF host = "big" THEN ToInt16(b[1] * 256 + b[2]) ELSE ToInt16(b[2] * 256 + b[1])

Store16(host, v) ==
  IF host = "big" THEN <<(v \div 256) % 256, v % 256>>
  ELSE <<v % 256, (v \div 256) % 256>>

\* The high byte is shifted down with its sign and not masked.
SwapBytes_SignExtended(x) == ToInt16(((x * 256) % 65536) + (x \div 256))

\* ((x << 8) & 0xFF00) | ((x >> 8) & 0x00FF) as an int16_t.
SwapBytes(x) == ToInt16(((x * 256) % 65536) + ((x \div 256) % 256))

=============================================================================
