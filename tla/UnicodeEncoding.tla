--------------------------- MODULE UnicodeEncoding ---------------------------
(* agent/UnicodeEncoding.h: UTF-8 and UTF-16 of code points, and back.  The   *)
(* shifts and masks of the code are divisions and remainders by powers of 2;  *)
(* a buffer with the number of units written is a sequence.                   *)
EXTENDS Integers, Sequences

kInvalid == -1

IsSurrogate(code) == code \in 55296..57343             \* 0xD800..0xDFFF

\* A byte 10xxxxxx, with the six bits of code above 2^shift.
Continuation(code, shift) == 128 + ((code \div shift) % 64)

EncodeUtf8(code) ==
  IF code < 128 THEN <<code>>
  ELSE IF code < 2048 THEN <<192 + ((code \div 64) % 32), Continuation(code, 1)>>
  ELSE IF IsSurrogate(code) \/ code >= 1114112 THEN <<>>
  ELSE IF code < 65536
  THEN <<224 + ((code \div 4096) % 16), Continuation(code, 64), Continuation(code, 1)>>
  ELSE <<240 + ((code \div 262144) % 8), Continuation(code, 4096),
         Continuation(code, 64), Continuation(code, 1)>>

EncodeUtf16(code) ==
  IF IsSurrogate(code) \/ code >= 1114112 THEN <<>>
  ELSE IF code < 65536 THEN <<code>>
  ELSE <<55296 + ((code - 65536) \div 1024), 56320 + ((code - 65536) % 1024)>>

\* The length of a UTF-8 character by its first byte; 0 when no character starts so.
Utf8CharLength(byte) ==
  IF byte < 128 THEN 1
  ELSE IF byte \in 192..223 THEN 2
  ELSE IF byte \in 224..239 THEN 3
  ELSE IF byte \in 240..247 THEN 4
  ELSE 0

\* The caller has checked that the bytes the first one asks for are there.
DecodeUtf8(in) ==
  LET len == Utf8CharLength(in[1])
      tail == \A i \in 2..len : in[i] \in 128..191
      two == ((in[1] % 32) * 64) + (in[2] % 64)
      three == ((in[1] % 16) * 4096) + ((in[2] % 64) * 64) + (in[3] % 64)
      four == ((in[1] % 8) * 262144) + ((in[2] % 64) * 4096) + ((in[3] % 64) * 64) + (in[4] % 64)
  IN IF len = 0 \/ ~tail THEN kInvalid
     ELSE IF len = 1 THEN in[1]
     ELSE IF len = 2 THEN IF two <= 127 THEN kInvalid ELSE two
     ELSE IF len = 3 THEN IF three <= 2047 \/ IsSurrogate(three) THEN kInvalid ELSE three
     ELSE IF four <= 65535 \/ four > 1114111 THEN kInvalid ELSE four

DecodeSurrogatePair(ch1, ch2) == (ch1 - 55296) * 1024 + (ch2 - 56320) + 65536

CodePoint == (0..1114111) \ (55296..57343)
Byte == 0..255
==============================================================================
