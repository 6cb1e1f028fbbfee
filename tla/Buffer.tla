-------------------------------- MODULE Buffer ---------------------------------
(***************************************************************************)
(* The packets of the control pipe (shared/Buffer.cc): a sequence of       *)
(* pieces, each the kind of a value and its bytes; and the formats         *)
(* libwinpty and the agents write and read.                                *)
(*                                                                         *)
(* A byte is a digit to the base Base and numbers are a digit or two wide. *)
(* As in the code, a string's length is a 64-bit number whatever the width *)
(* of size_t, and a character takes several bytes.                         *)
(***************************************************************************)
EXTENDS Integers, Sequences, SequencesExt

Base == 3
Byte == 0..Base - 1
Width == [Int32 |-> 1, Int64 |-> 2]  \* bytes of a number
CharWidth == 2                       \* sizeof(wchar_t)
SizeMax == 7                         \* SIZE_MAX

Code == [Int32 |-> 0, Int64 |-> 1, WString |-> 2]
Kinds == DOMAIN Code

\* A number's bytes, least significant first, and the number some bytes make.
Raw(v, width) == [i \in 1..width |-> (v \div Base^(i - 1)) % Base]
Value(bytes) == FoldRight(LAMBDA b, higher : b + Base * higher, bytes, 0)

-----------------------------------------------------------------------------
(* WriteBuffer                                                             *)

\* Mutant of Put: a string's length is given in bytes.
PutInBytes(k, v) ==
  IF k = "WString"
  THEN <<Code[k]>> \o Raw(CharWidth * Len(v), Width["Int64"])
         \o FlattenSeq([i \in 1..Len(v) |-> Raw(v[i], CharWidth)])
  ELSE <<Code[k]>> \o Raw(v, Width[k])

\* putInt32, putInt64, putWString: len is in characters.
Put(k, v) ==
  IF k = "WString"
  THEN <<Code[k]>> \o Raw(Len(v), Width["Int64"])
         \o FlattenSeq([i \in 1..Len(v) |-> Raw(v[i], CharWidth)])
  ELSE <<Code[k]>> \o Raw(v, Width[k])

Encode(schema, values) == FlattenSeq([i \in 1..Len(schema) |-> Put(schema[i], values[i])])

-----------------------------------------------------------------------------
(* ReadBuffer: what is left of the packet and the values read from it.     *)
(* A DecodeError leaves ok false.                                          *)

DecodeError == [ok |-> FALSE, rest |-> <<>>, value |-> <<>>]

GetRaw(r, len) ==
  IF r.ok /\ len <= Len(r.rest)
  THEN [ok |-> TRUE, rest |-> SubSeq(r.rest, len + 1, Len(r.rest)), value |-> SubSeq(r.rest, 1, len)]
  ELSE DecodeError

GetNumber(r, width) ==
  LET n == GetRaw(r, width) IN IF n.ok THEN [n EXCEPT !.value = Value(@)] ELSE DecodeError

\* Mutant of GetChars: the length is not compared with SIZE_MAX.
GetCharsWrapped(r, charLen) ==
  LET raw == GetRaw(r, (charLen * CharWidth) % (SizeMax + 1))
      chars == [i \in 1..charLen |->
                  Value([j \in 1..CharWidth |->
                    IF CharWidth * (i - 1) + j <= Len(raw.value)
                    THEN raw.value[CharWidth * (i - 1) + j] ELSE 0])]
  IN IF raw.ok THEN [raw EXCEPT !.value = chars] ELSE DecodeError

\* A string's characters: byteLen has size_t's width.
GetChars(r, charLen) ==
  LET raw == GetRaw(r, (charLen * CharWidth) % (SizeMax + 1))
      chars == [i \in 1..charLen |-> Value(SubSeq(raw.value, CharWidth * (i - 1) + 1, CharWidth * i))]
  IN IF charLen <= SizeMax \div CharWidth /\ raw.ok
     THEN [raw EXCEPT !.value = chars] ELSE DecodeError

\* getInt32, getInt64, getWString.
Get(r, k) ==
  LET kind == GetNumber(r, 1) IN
  IF ~kind.ok \/ kind.value # Code[k] THEN DecodeError
  ELSE IF k # "WString" THEN GetNumber(kind, Width[k])
  ELSE LET len == GetNumber(kind, Width["Int64"]) IN
       IF len.ok THEN GetChars(len, len.value) ELSE DecodeError

\* Reading the pieces one after the other, and assertEof.
Decode(schema, bytes) ==
  LET next(r, k) ==
        LET v == Get(r, k) IN
        IF v.ok THEN [v EXCEPT !.value = Append(r.value, @)] ELSE DecodeError
      all == FoldLeft(next, [ok |-> TRUE, rest |-> bytes, value |-> <<>>], schema)
  IN IF all.ok /\ all.rest = <<>> THEN all ELSE DecodeError

-----------------------------------------------------------------------------
(* The formats: kind and meaning of each piece, as one side writes them    *)
(* and as the other reads them.                                            *)

\* winpty_spawn, and handleStartProcessPacket behind handlePacket.
SpawnWritten ==
  << <<"Int32", "type">>, <<"Int64", "spawnFlags">>, <<"Int32", "wantProcessHandle">>,
     <<"Int32", "wantThreadHandle">>, <<"WString", "program">>, <<"WString", "cmdline">>,
     <<"WString", "cwd">>, <<"WString", "env">>, <<"WString", "desktop">> >>
\* Mutant of SpawnRead: program and cmdline change places.
SpawnReadSwapped ==
  << <<"Int32", "type">>, <<"Int64", "spawnFlags">>, <<"Int32", "wantProcessHandle">>,
     <<"Int32", "wantThreadHandle">>, <<"WString", "cmdline">>, <<"WString", "program">>,
     <<"WString", "cwd">>, <<"WString", "env">>, <<"WString", "desktop">> >>
SpawnRead ==
  << <<"Int32", "type">> >> \o
  << <<"Int64", "spawnFlags">>, <<"Int32", "wantProcessHandle">>,
     <<"Int32", "wantThreadHandle">>, <<"WString", "program">>, <<"WString", "cmdline">>,
     <<"WString", "cwd">>, <<"WString", "env">>, <<"WString", "desktop">> >>

\* Its reply, for each result.
SpawnReplyWritten(created) ==
  << <<"Int32", "result">> >> \o
  IF created THEN << <<"Int64", "process">>, <<"Int64", "thread">> >>
             ELSE << <<"Int32", "lastError">> >>
SpawnReplyRead(created) ==
  << <<"Int32", "result">> >> \o
  IF ~created THEN << <<"Int32", "lastError">> >>
              ELSE << <<"Int64", "process">>, <<"Int64", "thread">> >>

\* winpty_set_size, with an empty reply.
SetSizeWritten == << <<"Int32", "type">>, <<"Int32", "cols">>, <<"Int32", "rows">> >>
SetSizeRead == << <<"Int32", "type">> >> \o << <<"Int32", "cols">>, <<"Int32", "rows">> >>

\* winpty_get_console_process_list's reply for n processes and room for m: the
\* ids are read only if they fit, and are written only if there are any.
ListReplyWritten(n) == << <<"Int32", "count">> >> \o [i \in 1..n |-> <<"Int32", "process">>]
ListReplyRead(n, m) ==
  << <<"Int32", "count">> >> \o IF n <= m THEN [i \in 1..n |-> <<"Int32", "process">>] ELSE <<>>

\* The first packet of a desktop agent, and of an agent with or without CONERR.
SetupWritten(role, conerr) ==
  IF role = "desktop" THEN << <<"WString", "desktopName">> >>
  ELSE << <<"WString", "conin">>, <<"WString", "conout">> >>
         \o IF conerr THEN << <<"WString", "conerr">> >> ELSE <<>>
SetupRead(role, conerr) ==
  IF role = "desktop" THEN << <<"WString", "desktopName">> >>
  ELSE << <<"WString", "conin">>, <<"WString", "conout">> >>
         \o IF conerr THEN << <<"WString", "conerr">> >> ELSE <<>>

-----------------------------------------------------------------------------
(* Properties                                                              *)

Schemas == BoundedSeq(Kinds, 2)
SomeValues == [Int32 |-> Byte, Int64 |-> 0..Base^2 - 1,
               WString |-> BoundedSeq({0, 4, 8}, 2)]
SomePackets == BoundedSeq(Byte, 7)

\* What one side puts into a packet is what the other gets out of it.
PacketsArrive ==
  \A k, l \in Kinds : \A v \in SomeValues[k], w \in SomeValues[l] :
    Decode(<<k, l>>, Encode(<<k, l>>, <<v, w>>)) = [ok |-> TRUE, rest |-> <<>>, value |-> <<v, w>>]

\* A packet that is cut short, longer than it should be, made of other kinds of
\* values or garbage is a DecodeError: whatever decodes is the encoding of the
\* values it is decoded to.
OnlyPacketsDecode ==
  \A schema \in Schemas, bytes \in SomePackets :
    LET r == Decode(schema, bytes) IN r.ok => Encode(schema, r.value) = bytes

\* libwinpty and the agents read every packet in the order the other writes it.
\* A process list longer than the caller's array is the exception: its ids are
\* left in the packet, which assertEof then refuses, so winpty_get_console_-
\* process_list closes the session on a reply there is nothing wrong with.
FormatsAgree ==
  \A yes \in BOOLEAN, role \in {"desktop", "primary"}, n, room \in 0..2 :
    /\ SpawnRead = SpawnWritten /\ SetSizeRead = SetSizeWritten
    /\ SpawnReplyRead(yes) = SpawnReplyWritten(yes)
    /\ SetupRead(role, yes) = SetupWritten(role, yes)
    /\ ListReplyRead(n, room) = ListReplyWritten(n) <=> n <= room
=============================================================================
