----------------------------- MODULE SharedStrings -----------------------------
(***************************************************************************)
(* The text the shared code makes and takes apart: numbers and the names   *)
(* of pipes (shared/StringBuilder.h, shared/GenRandom.cc), an environment  *)
(* block on its way to the child (libwinpty/winpty.cc, agent/Agent.cc),    *)
(* names in fixed arrays (shared/StringUtil) and the flags of WINPTY_DEBUG *)
(* (shared/DebugClient.cc).  A text is a sequence of characters.           *)
(***************************************************************************)
EXTENDS Integers, FiniteSets, Sequences, SequencesExt

hex == <<"0", "1", "2", "3", "4", "5", "6", "7", "8", "9", "a", "b", "c", "d", "e", "f">>
NUL == "NUL"

-----------------------------------------------------------------------------
(* StringBuilder: integers of `size` bytes                                 *)

Digits(n, base, count) == [i \in 1..count |-> hex[1 + ((n \div base^(count - i)) % base)]]
DigitCount(n, base) == CHOOSE k \in 1..20 : n < base^k /\ (k = 1 \/ n >= base^(k - 1))

\* Mutant of Magnitude: the value is not negated.
MagnitudeKept(value, size) == value % 2^(8 * size)

\* unsValue: a negative value is negated as an unsigned one.
Magnitude(value, size) ==
  LET unsigned == value % 2^(8 * size)
  IN IF value < 0 THEN (-unsigned) % 2^(8 * size) ELSE unsigned

\* gdecOfInt, and the array it is written to.
decOfInt(value, size) ==
  LET n == Magnitude(value, size)
  IN (IF value < 0 THEN <<"-">> ELSE <<>>) \o Digits(n, 10, DigitCount(n, 10))
decArray(size) == size * 3 + 1 + 1

\* Mutant of hexOfInt: the last digit is dropped too if it is zero.
hexOfIntEmpty(value, size, leadingZeros) ==
  LET all == Digits(value % 2^(8 * size), 16, 2 * size)
      shown == {i \in 1..2 * size : leadingZeros \/ all[i] # "0"}
  IN IF shown = {} THEN <<>> ELSE SubSeq(all, CHOOSE i \in shown : \A j \in shown : i <= j, 2 * size)

\* ghexOfInt: leading zeros are dropped up to the last digit.
hexOfInt(value, size, leadingZeros) ==
  LET all == Digits(value % 2^(8 * size), 16, 2 * size)
      shown == {i \in 1..2 * size : leadingZeros \/ all[i] # "0" \/ i = 2 * size}
  IN SubSeq(all, CHOOSE i \in shown : \A j \in shown : i <= j, 2 * size)
hexArray(size) == size * 2 + 1

\* What a text of digits says.
Number(digits, base) ==
  FoldLeft(LAMBDA n, ch : n * base + (CHOOSE d \in 1..16 : hex[d] = ch) - 1, 0, digits)
Canonical(digits) == digits # <<>> /\ (Len(digits) > 1 => digits[1] # "0")

SomeIntegers(size) ==
  IF size = 1 THEN -128..255
  ELSE (-32768..-32700) \cup (-1010..1010) \cup (9990..10010) \cup (32700..32768) \cup (65500..65535)

\* An integer of either sign, the smallest of its type included, is written as
\* the number it is, without needless zeros, and with its terminator fits its array.
NumbersShown ==
  \A size \in 1..2 : \A v \in SomeIntegers(size) :
    LET dec == decOfInt(v, size)
        digits == IF v < 0 THEN Tail(dec) ELSE dec
        short == hexOfInt(v, size, FALSE)
        long == hexOfInt(v, size, TRUE)
    IN /\ v < 0 => dec[1] = "-"
       /\ Canonical(digits) /\ Number(digits, 10) = (IF v < 0 THEN -v ELSE v)
       /\ Canonical(short) /\ Number(short, 16) = v % 2^(8 * size)
       /\ Len(long) = 2 * size /\ Number(long, 16) = v % 2^(8 * size)
       /\ Len(dec) < decArray(size) /\ Len(short) < hexArray(size) /\ Len(long) < hexArray(size)

-----------------------------------------------------------------------------
(* GenRandom                                                               *)

\* randomHexString: two digits a byte; no bytes if the generator failed.
randomHexString(bytes) == FlattenSeq([i \in 1..Len(bytes) |-> Digits(bytes[i], 16, 2)])

\* Mutant of uniqueName: the parts are not separated.
uniqueNameRunOn(pid, counter, time, bytes) ==
  decOfInt(pid, 1) \o decOfInt(counter, 1) \o hexOfInt(time, 1, FALSE) \o randomHexString(bytes)

\* uniqueName: the process, a counter that wraps to the negative, the time, and
\* random bytes if there are any.
uniqueName(pid, counter, time, bytes) ==
  decOfInt(pid, 1) \o <<"-">> \o decOfInt(counter, 1) \o <<"-">> \o hexOfInt(time, 1, FALSE)
    \o IF bytes = <<>> THEN <<>> ELSE <<"-">> \o randomHexString(bytes)

\* Names for pipes and window stations differ if just one of process, counter
\* and time does, whatever the random part, and with or without one; they are
\* names without regard to case, as Windows takes them.
NamesDiffer ==
  LET origins == {0, 1, 2, 11, 12, 111, 121} \X {-128, -12, -1, 1, 2, 11, 12} \X {0, 1, 2, 16, 17, 18, 255}
      names == {uniqueName(x[1], x[2], x[3], <<>>) : x \in origins}
                 \cup {uniqueName(x[1], x[2], x[3], <<18, 7>>) : x \in origins}
  IN \A n \in {2 * Cardinality(origins)} :
       Cardinality(names) = n /\ \A s \in names : ToSet(s) \subseteq ToSet(hex) \cup {"-"}

-----------------------------------------------------------------------------
(* winpty_spawn's environment block                                        *)

\* Where the loop stops: the NUL that is not behind a character.
BlockEnd(memory) ==
  CHOOSE i \in 1..Len(memory) :
    /\ memory[i] = NUL /\ (i = 1 \/ memory[i - 1] = NUL)
    /\ \A j \in 1..i - 1 : memory[j] = NUL => j > 1 /\ memory[j - 1] # NUL

\* Mutant of wstringFromEnvBlock: the last NUL is left out.
wstringFromEnvBlockShort(memory) == SubSeq(memory, 1, BlockEnd(memory) - 1)

\* The block with both its NULs; an empty one gets a second.
wstringFromEnvBlock(memory) ==
  LET block == SubSeq(memory, 1, BlockEnd(memory))
  IN IF Len(block) = 1 THEN Append(block, NUL) ELSE block

\* The agent, and CreateProcessW: an empty string is no block at all.
Inherited == <<"inherited">>
EnvGiven(packet) == IF packet = <<>> THEN Inherited ELSE packet

Variables(block) ==
  LET Step(acc, ch) ==
        CASE acc.done -> acc
          [] ~acc.done /\ ch # NUL -> [acc EXCEPT !.cur = Append(@, ch)]
          [] ~acc.done /\ ch = NUL /\ acc.cur # <<>> -> [acc EXCEPT !.cur = <<>>, !.list = Append(@, acc.cur)]
          [] OTHER -> [acc EXCEPT !.done = TRUE]
  IN FoldLeft(Step, [list |-> <<>>, cur |-> <<>>, done |-> FALSE], block)

\* A child gets the variables of the caller's block, none if the block is empty,
\* and nothing from the memory behind it; a block ends with two NULs.
EnvironmentArrives ==
  \A list \in BoundedSeq({<<"a">>, <<"a", "b">>}, 3), behind \in BoundedSeq({"x", NUL}, 2) :
    LET block == FlattenSeq([i \in 1..Len(list) |-> Append(list[i], NUL)]) \o <<NUL>>
        arg == EnvGiven(wstringFromEnvBlock(block \o behind))
    IN /\ arg # Inherited /\ Variables(arg) = [list |-> list, cur |-> <<>>, done |-> TRUE]
       /\ Len(arg) >= 2 /\ arg[Len(arg)] = NUL /\ arg[Len(arg) - 1] = NUL

-----------------------------------------------------------------------------
(* WINPTY_DEBUG                                                            *)

bufSize == 6  \* bound: the code's buffer has 256 characters

\* getDebugConfig: a value that does not fit counts as none.
DebugConfig(value) == IF Len(value) >= bufSize THEN <<>> ELSE value

Occurs(part, text) ==
  \E i \in 0..Len(text) - Len(part) : SubSeq(text, i + 1, i + Len(part)) = part

\* Mutant of hasDebugFlag: the flag is looked for as it is.
hasDebugFlagInside(flag, value) == DebugConfig(value) # <<>> /\ Occurs(flag, DebugConfig(value))

hasDebugFlag(flag, value) ==
  LET config == DebugConfig(value)
  IN config # <<>> /\ Occurs(<<",">> \o flag \o <<",">>, <<",">> \o config \o <<",">>)

\* A flag is set if it is one of the words between commas, not a part of one,
\* as force_desktop is of force_desktop_spawn.
FlagsAreWords ==
  \A value \in BoundedSeq({"a", "b", ","}, bufSize), flag \in BoundedSeq({"a", "b"}, 2) \ {<<>>} :
    hasDebugFlag(flag, value) <=>
      /\ Len(value) < bufSize
      /\ \E i \in 1..Len(value) :
           /\ i = 1 \/ value[i - 1] = ","
           /\ i + Len(flag) - 1 <= Len(value)
           /\ SubSeq(value, i, i + Len(flag) - 1) = flag
           /\ i + Len(flag) - 1 = Len(value) \/ value[i + Len(flag)] = ","
=============================================================================
