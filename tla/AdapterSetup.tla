----------------------------- MODULE AdapterSetup -----------------------------
(* What unix-adapter/main.cc does before and after its session: the arguments  *)
(* are taken apart, the program's command line is put together, and the modes  *)
(* of the terminals are changed and restored.                                  *)
EXTENDS Integers, SequencesExt

-------------------------------------------------------------------------------
(* parseArguments.  Words are what is on the adapter's own command line.       *)

Settings == {"--mouse", "--showkey", "-Xallow-non-tty", "-Xconerr", "-Xplain", "-Xcolor"}
Dashed == Settings \union {"-h", "--help", "--version", "--", "-?"}
Words == Dashed \union {"prog"}

\* Mutant of ReadOptions: options are taken from anywhere.
ReadOptionsAnywhere(argv) ==
  LET Step(acc, word) ==
        CASE word \in Settings -> [acc EXCEPT !.options = @ \union {word}]
          [] word \in {"-h", "--help", "--version", "-?"} -> [acc EXCEPT !.stop = word]
          [] word = "--" -> acc
          [] OTHER -> [acc EXCEPT !.child = Append(@, word)]
  IN FoldLeft(Step, [options |-> {}, child |-> <<>>, stop |-> "", reading |-> TRUE], argv)

\* The loop over the options, up to the program's name or to `--`, and the loop behind it.
ReadOptions(argv) ==
  LET Step(acc, word) ==
        CASE acc.stop # "" -> acc
          [] ~acc.reading -> [acc EXCEPT !.child = Append(@, word)]
          [] word \in Settings -> [acc EXCEPT !.options = @ \union {word}]
          [] word = "--" -> [acc EXCEPT !.reading = FALSE]
          [] word \in Dashed \ {"--"} -> [acc EXCEPT !.stop = word]
          [] OTHER -> [acc EXCEPT !.child = Append(@, word), !.reading = FALSE]
  IN FoldLeft(Step, [options |-> {}, child |-> <<>>, stop |-> "", reading |-> TRUE], argv)

parseArguments(argv) ==
  LET r == ReadOptions(argv)
  IN [options |-> r.options, child |-> r.child,
      outcome |-> CASE r.stop # "" -> "exit"
                    [] r.stop = "" /\ "--showkey" \in r.options -> "showkey"
                    [] r.stop = "" /\ "--showkey" \notin r.options /\ r.child = <<>> -> "usage"
                    [] OTHER -> "run"]

\* A program is run with just the words behind it, whatever they look like; only settings,
\* all of which are obeyed, and at most one `--` come before it.
ArgumentsSplit ==
  \A n \in 0..3 : \A argv \in [1..n -> Words] :
    LET r == parseArguments(argv)
        before == SubSeq(argv, 1, n - Len(r.child))
        dashes == IF before # <<>> /\ Last(before) = "--" THEN 1 ELSE 0
        settings == ToSet(SubSeq(before, 1, Len(before) - dashes))
    IN r.outcome = "run" =>
         /\ r.child # <<>> /\ argv = before \o r.child
         /\ settings \subseteq Settings /\ settings = r.options
         /\ dashes = 0 => r.child[1] \notin Dashed

-------------------------------------------------------------------------------
(* argvToCommandLine, and how a Windows program takes the line apart again.    *)

BS == "\\"
QUOTE == "\""
Times(n, ch) == [i \in 1..n |-> ch]

\* Mutant of QuotedArg: the backslashes before the closing quote are not doubled.
QuotedArgTail(arg) ==
  LET Step(acc, ch) ==
        IF ch = BS THEN [acc EXCEPT !.bs = @ + 1]
        ELSE [out |-> acc.out \o Times(IF ch = QUOTE THEN 2 * acc.bs + 1 ELSE acc.bs, BS) \o <<ch>>, bs |-> 0]
      r == FoldLeft(Step, [out |-> <<>>, bs |-> 0], arg)
  IN IF arg = <<>> \/ " " \in ToSet(arg)
     THEN <<QUOTE>> \o r.out \o Times(r.bs, BS) \o <<QUOTE>>
     ELSE r.out \o Times(r.bs, BS)

\* Backslashes are doubled before a quote, the closing one included.  A tab is as a space.
QuotedArg(arg) ==
  LET Step(acc, ch) ==
        IF ch = BS THEN [acc EXCEPT !.bs = @ + 1]
        ELSE [out |-> acc.out \o Times(IF ch = QUOTE THEN 2 * acc.bs + 1 ELSE acc.bs, BS) \o <<ch>>, bs |-> 0]
      r == FoldLeft(Step, [out |-> <<>>, bs |-> 0], arg)
  IN IF arg = <<>> \/ " " \in ToSet(arg)
     THEN <<QUOTE>> \o r.out \o Times(2 * r.bs, BS) \o <<QUOTE>>
     ELSE r.out \o Times(r.bs, BS)

argvToCommandLine(argv) ==
  FlattenSeq([i \in 1..Len(argv) |-> (IF i > 1 THEN <<" ">> ELSE <<>>) \o QuotedArg(argv[i])])

\* CommandLineToArgvW.  In the program's name a backslash is a character like others.
CommandLineToArgv(line) ==
  LET Flush(acc) == [acc EXCEPT !.cur = @ \o Times(acc.bs, BS), !.bs = 0]
      End(acc) == IF acc.begun THEN [acc EXCEPT !.args = Append(@, acc.cur), !.cur = <<>>, !.begun = FALSE]
                  ELSE acc
      Step(acc, ch) ==
        CASE ch = BS /\ acc.args # <<>> -> [acc EXCEPT !.bs = @ + 1, !.begun = TRUE]
          [] ch = QUOTE ->
               LET half == [acc EXCEPT !.cur = @ \o Times(acc.bs \div 2, BS), !.bs = 0, !.begun = TRUE]
               IN IF acc.bs % 2 = 1 THEN [half EXCEPT !.cur = Append(@, QUOTE)]
                  ELSE [half EXCEPT !.quoted = ~@]
          [] ch = " " /\ ~acc.quoted -> End(Flush(acc))
          [] OTHER -> [Flush(acc) EXCEPT !.cur = Append(@, ch), !.begun = TRUE]
  IN End(Flush(FoldLeft(Step, [args |-> <<>>, cur |-> <<>>, begun |-> FALSE, quoted |-> FALSE, bs |-> 0],
                        line))).args

Strings(n) == UNION {[1..k -> {"a", " ", BS, QUOTE}] : k \in 0..n}
Programs == {<<"a">>, <<"a", BS, "a">>, <<"a", " ", BS, "a">>}

\* Every argument the user gives reaches the program as it was given.
ArgumentsArrive ==
  \A argv \in ({<<"a">>} \X Strings(4)) \union (Programs \X Strings(2) \X Strings(2)) :
    CommandLineToArgv(argvToCommandLine(argv)) = argv

-------------------------------------------------------------------------------
(* findProgram.  A file is what realpath makes of a directory and the program's  *)
(* name: its extension, whether it may be run, and whether the same name with    *)
(* ".exe" behind it may.                                                         *)

NoFile == [exists |-> FALSE, ext |-> "", runs |-> FALSE, exeRuns |-> FALSE]
Lower(ext) == IF ext = ".EXE" THEN ".exe" ELSE ext
endsWith(file, suffix) == Lower(file.ext) = suffix

\* Mutant of Candidate: what is found is taken as it is.
CandidateAny(file) == [found |-> file.exists /\ file.runs, suffix |-> ""]

\* access() of the candidate, which is a batch file or has a program's extension.
Candidate(file) ==
  IF \E suffix \in {".bat", ".cmd", ".com", ".exe"} : endsWith(file, suffix)
  THEN [found |-> file.exists /\ file.runs, suffix |-> ""]
  ELSE [found |-> file.exists /\ file.exeRuns, suffix |-> ".exe"]

\* The loop over PATH; an empty directory is the current one.
FindInPath(pathList, fileIn) ==
  LET Try(acc) ==
        LET c == Candidate(fileIn[acc.dir])
        IN IF c.found THEN [acc EXCEPT !.done = TRUE, !.suffix = c.suffix]
           ELSE [acc EXCEPT !.dir = <<>>]
      Step(acc, ch) ==
        CASE acc.done -> acc
          [] ~acc.done /\ ch = ":" -> Try(acc)
          [] OTHER -> [acc EXCEPT !.dir = Append(@, ch)]
      r == FoldLeft(Step, [dir |-> <<>>, done |-> FALSE, suffix |-> ""], pathList)
  IN IF r.done THEN r ELSE Try(r)

\* A program given with its directory is only resolved.
findProgram(withSlash, pathList, fileIn) ==
  IF withSlash THEN [dir |-> <<>>, done |-> fileIn[<<>>].exists, suffix |-> ""]
  ELSE FindInPath(pathList, fileIn)

SomeFiles ==
  {NoFile} \union [exists : {TRUE}, ext : {"", ".EXE", ".bat"}, runs : BOOLEAN, exeRuns : {FALSE}]
           \union [exists : {TRUE}, ext : {""}, runs : {TRUE}, exeRuns : {TRUE}]
IsProgram(file) == file.exists /\ (IF file.ext = "" THEN file.exeRuns ELSE file.runs)

\* The first directory of PATH with a program or batch file that may be run is the one the
\* program is taken from, a script beside no .exe is passed over, and the adapter gives up
\* only if there is none in any directory, the empty and the last one included.
ProgramFound ==
  \A pathList \in BoundedSeq({"d", ":"}, 4),
     fileIn \in [{<<>>, <<"d">>} -> SomeFiles], slash \in BOOLEAN :
    LET files == [dir \in BoundedSeq({"d"}, 4) |-> IF dir \in DOMAIN fileIn THEN fileIn[dir] ELSE NoFile]
        r == findProgram(slash, pathList, files)
        starts == {i \in 1..Len(pathList) + 1 : i = 1 \/ pathList[i - 1] = ":"}
        DirAt(i) == CHOOSE dir \in DOMAIN files :
                      /\ SubSeq(pathList \o <<":">>, i, i + Len(dir)) = dir \o <<":">>
        good == {i \in starts : IsProgram(files[DirAt(i)])}
    IN IF slash THEN r.done = files[<<>>].exists
       ELSE /\ r.done <=> good # {}
            /\ \A i \in good : (\A j \in good : i <= j) =>
                 r.dir = DirAt(i) /\ (r.suffix = ".exe" <=> files[r.dir].ext = "")

-------------------------------------------------------------------------------
(* setupWin32Environment: from the Cygwin environment to the one the agent has.  *)

DebugVars == {"WINPTY_DEBUG", "WINPTY_SHOW_CONSOLE"}
EnvVars == DebugVars \union {"TERM", "HOME"}
Unset == "unset"

\* Mutant of setupWin32Environment: TERM is cleared before the environments are synced.
setupWin32EnvironmentTermFirst(unix, win, syncs) ==
  LET synced == IF syncs THEN unix ELSE [win EXCEPT !["TERM"] = Unset]
  IN [v \in EnvVars |-> IF v \in DebugVars /\ unix[v] \notin {Unset, ""} THEN unix[v] ELSE synced[v]]

\* CW_SYNC_WINENV, where there is one, then the variables noted before, then TERM.
setupWin32Environment(unix, win, syncs) ==
  LET varsToCopy == {v \in DebugVars : unix[v] \notin {Unset, ""}}
      synced == IF syncs THEN unix ELSE win
      copied == [v \in EnvVars |-> IF v \in varsToCopy THEN unix[v] ELSE synced[v]]
  IN [copied EXCEPT !["TERM"] = Unset]

\* With an old Cygwin or a new one, the agent has the debugging variables the user has set,
\* and no TERM, which is about another terminal than the child's.
EnvironmentSynced ==
  \A unix, win \in [EnvVars -> {Unset, "", "x"}], syncs \in BOOLEAN :
    LET env == setupWin32Environment(unix, win, syncs)
    IN /\ env["TERM"] = Unset
       /\ \A v \in DebugVars : unix[v] = "x" => env[v] = "x"
       /\ syncs => \A v \in EnvVars \ {"TERM"} : env[v] = unix[v]

-------------------------------------------------------------------------------
(* setRawTerminalMode and restoreTerminalMode.  Streams are stdin, stdout and  *)
(* stderr; streams on one terminal share its mode.                             *)

Streams == 1..3
NoTty == "none"
Cooked == [input |-> "cooked", output |-> "cooked"]

\* Mutant of SavedModes: a stream's mode is saved when it is its turn to be set.
SavedModesLate(device, used, mode) ==
  [i \in used |-> [input |-> IF \E j \in used : j <= i /\ j = 1 /\ device[j] = device[i] /\ i # 1
                             THEN "raw" ELSE mode[device[i]].input,
                   output |-> IF \E j \in used \ {1} : j < i /\ device[j] = device[i]
                              THEN "raw" ELSE mode[device[i]].output]]

\* All modes are saved before the first is changed.
SavedModes(device, used, mode) == [i \in used |-> mode[device[i]]]

\* `broken` is a stream whose tcsetattr fails: the adapter exits with what it has set before.
setRawTerminalMode(device, asked, allowNonTtys, mode, broken) ==
  LET used == {i \in asked : device[i] # NoTty}
      Step(acc, i) ==
        CASE i \notin used \/ acc.exit -> acc
          [] i \in used /\ ~acc.exit /\ i = broken -> [acc EXCEPT !.exit = TRUE]
          [] OTHER -> IF i = 1 THEN [acc EXCEPT !.mode[device[i]].input = "raw"]
                      ELSE [acc EXCEPT !.mode[device[i]].output = "raw"]
      start == [exit |-> ~allowNonTtys /\ used # asked, mode |-> mode, saved |-> SavedModes(device, used, mode)]
  IN FoldLeft(Step, start, <<1, 2, 3>>)

restoreTerminalMode(device, saved, mode) ==
  LET Step(m, i) == IF i \in DOMAIN saved THEN [m EXCEPT ![device[i]] = saved[i]] ELSE m
  IN FoldLeft(Step, mode, <<1, 2, 3>>)

\* Whichever streams are on which terminal: during a session what is typed is not echoed and
\* what is printed not changed, and afterwards every terminal is as it was; an adapter that
\* refuses to start because a stream is no terminal leaves them alone.
TerminalsRestored ==
  \A device \in [Streams -> {"tty1", "tty2", NoTty}], asked \in {{1}, {1, 2}, Streams}, allow \in BOOLEAN,
     mode \in [{"tty1", "tty2"} -> [input : {"cooked", "raw"}, output : {"cooked", "raw"}]] :
    LET r == setRawTerminalMode(device, asked, allow, mode, 0)
    IN IF r.exit THEN r.mode = mode
       ELSE /\ restoreTerminalMode(device, r.saved, r.mode) = mode
            /\ device[1] # NoTty => r.mode[device[1]].input = "raw"
            /\ \A i \in asked \ {1} : device[i] # NoTty => r.mode[device[i]].output = "raw"
===============================================================================
