---------------------------- MODULE DotfilesProofs -----------------------------
(***************************************************************************)
(* Proofs about Dotfiles: whatever scripts are run, stopped and run again, *)
(* what the user wrote is lost only where the user gave it up, and an      *)
(* install that is not stopped links every name.                           *)
(***************************************************************************)
EXTENDS Dotfiles, TLAPS

-----------------------------------------------------------------------------
(* The inductive invariant                                                 *)

\* The steps of the loop over the names.
InLoop == run.step \in {"backup", "remove", "link"}

\* A script that runs has its clock reading, which is the time now, and is at a
\* name of its list once it is in the loop.
RunFits ==
  /\ run.step = "idle" => run = NotRunning
  /\ run.step # "idle" =>
       /\ run.script \in Scripts /\ run.mode \in Modes(run.script)
       /\ run.stamp = <<run.script, minute>> /\ run.stamp \in stamps
  /\ InLoop => run.script # "download" /\ run.at >= 1
  /\ run.step = "fetch" => run.at = 0

\* Links and nothing hold no text.
Textless(x) == x.kind \notin {"file", "dir"} => x.holds = {}
TextsInFiles == \A f \in Home : Textless(home[f]) /\ \A s \in Stamps : Textless(backup[f][s])

\* What has a time behind it was put there by a run that began at that time.
BackupsDated ==
  /\ \A s \in stamps : s[2] <= minute
  /\ \A f \in Home, s \in Stamps : backup[f][s] # Nothing => s \in stamps

\* What a run of this minute finds in the way of the copy of a directory is a directory.
DirsCopyIn ==
  \A f \in Home, s \in Stamps :
    home[f].kind = "dir" /\ s[2] = minute => backup[f][s].kind \in {"none", "dir"}

\* The name at i is still to be backed up.
ToDo(i) == i > run.at \/ (i = run.at /\ run.step = "backup")

\* A backup that the run may still write over holds what the user gave up.
OldBackupsGivenUp ==
  run.step # "idle" /\ run.stamp \in Stamps =>
    \A i \in 1..Len(Touched(run.script)) :
      LET f == Touched(run.script)[i] IN
      ToDo(i) /\ backup[f][run.stamp].kind = "file" => backup[f][run.stamp].holds \subseteq given

\* What is removed without a backup was given up, what is removed with one is in it.
RemovedIsKept ==
  /\ run.step # "idle" /\ run.script # "download" =>
       \A f \in ToSet(Touched(run.script)) :
         ~BacksUp(run.script, run.mode, f) => home[f].holds \subseteq given
  /\ run.step = "remove" /\ BacksUp(run.script, run.mode, At(run)) /\ Seen(run.script, At(run)) =>
       home[At(run)].holds \subseteq given \cup backup[At(run)][run.stamp].holds

KeepInv ==
  /\ TypeOK /\ RunFits /\ TextsInFiles /\ BackupsDated /\ DirsCopyIn
  /\ OldBackupsGivenUp /\ RemovedIsKept /\ NothingLost

\* A name in ~/bin is in a directory.
BinIsThere == \A f \in Bin : home[f].kind # "none" => binDir = "dir"

\* A name is linked, or a directory that rm -rf could not remove.
Linked(f) == home[f] = Ours \/ (f \in run.kept /\ home[f].kind = "dir")

\* install_mydotfiles.sh has linked the names before the one it is at, and what
\* it has removed is gone, unless it could not be removed.
LinkedSoFar ==
  run.script = "install" =>
    /\ InLoop => \A i \in 1..(run.at - 1) : Linked(Names[i])
    /\ run.step = "finished" => \A f \in Home : Linked(f)
    /\ run.step = "link" => home[At(run)].kind = "none" \/ At(run) \in run.kept
    /\ run.step = "link" => home[At(run)].kind \in {"none", "file", "dir"}
    /\ (InLoop /\ run.at > Len(DotNames) + 1) \/ run.step = "finished" => binDir = "dir"
    /\ run.step = "failed" =>
         \/ run.at = 0
         \/ At(run) \in run.kept /\ home[At(run)].kind = "file"
         \/ At(run) \in Bin /\ binDir = "blocked"

\* Part of a clone is there only after a failure; past the fetch the clone is
\* there, unless it failed.
CloneKnown ==
  /\ repo = "partial" => badClone
  /\ run.script = "install" /\ (InLoop \/ run.step = "finished") /\ ~badClone => repo = "whole"

IInv == KeepInv /\ BinIsThere /\ LinkedSoFar /\ CloneKnown

-----------------------------------------------------------------------------
(* The names                                                               *)

\* The names are those of the two lists one after the other, each once.
LEMMA NamesAre ==
  /\ Len(DotNames) \in Nat /\ Len(BinNames) \in Nat /\ Len(BinNames) > 0
  /\ Len(Names) = Len(DotNames) + Len(BinNames)
  /\ \A i \in 1..Len(DotNames) : Names[i] = DotNames[i] /\ DotNames[i] \in ToSet(DotNames)
  /\ \A i \in 1..Len(Names) : i > Len(DotNames) =>
       Names[i] = BinNames[i - Len(DotNames)] /\ i - Len(DotNames) \in 1..Len(BinNames)
<1> USE DotfilesAssumption
<1>1. Len(DotNames) \in Nat /\ Len(BinNames) \in Nat /\ Len(BinNames) > 0
  OBVIOUS
<1>2. \A i \in 1..Len(DotNames) : DotNames[i] \in ToSet(DotNames)
  BY DEF ToSet
<1> QED
  BY <1>1, <1>2 DEF Names

LEMMA NamesDistinct ==
  /\ \A i \in 1..Len(Names) : Names[i] \in Home
  /\ \A i \in 1..Len(Names) : Names[i] \in Bin <=> i > Len(DotNames)
  /\ \A i, j \in 1..Len(Names) : Names[i] = Names[j] => i = j
  /\ \A f \in Home : \E i \in 1..Len(Names) : Names[i] = f
<1> USE NamesAre
<1>1. /\ DOMAIN Names = 1..Len(Names)
      /\ DOMAIN DotNames = 1..Len(DotNames)
      /\ DOMAIN BinNames = 1..Len(BinNames)
  BY DotfilesAssumption DEF Names
<1>2. /\ \A i \in 1..Len(Names) : Names[i] \in Home
      /\ \A f \in Home : \E i \in 1..Len(Names) : Names[i] = f
  BY <1>1 DEF Home, ToSet
<1>3. /\ \A i, j \in 1..Len(DotNames) : DotNames[i] = DotNames[j] => i = j
      /\ \A i, j \in 1..Len(BinNames) : BinNames[i] = BinNames[j] => i = j
  BY <1>1, DotfilesAssumption DEF IsInjective
<1>4. \A i \in 1..Len(BinNames) : BinNames[i] \in Bin
  BY <1>1 DEF Bin, ToSet
<1>5. \A i \in 1..Len(DotNames) : DotNames[i] \notin Bin
  BY DotfilesAssumption DEF Bin
<1>6. \A i \in 1..Len(Names) : Names[i] \in Bin <=> i > Len(DotNames)
  BY <1>4, <1>5
<1>7. ASSUME NEW i \in 1..Len(Names), NEW j \in 1..Len(Names), Names[i] = Names[j]
      PROVE  i = j
  <2>1. CASE i > Len(DotNames)
    <3>1. j > Len(DotNames)
      BY <2>1, <1>6, <1>7
    <3>2. BinNames[i - Len(DotNames)] = BinNames[j - Len(DotNames)]
      BY <2>1, <3>1, <1>7
    <3>3. i - Len(DotNames) = j - Len(DotNames)
      BY <2>1, <3>1, <3>2, <1>3
    <3> QED
      BY <3>3
  <2>2. CASE ~(i > Len(DotNames))
    <3>1. ~(j > Len(DotNames))
      BY <2>2, <1>6, <1>7
    <3>2. i \in 1..Len(DotNames) /\ j \in 1..Len(DotNames)
      BY <2>2, <3>1
    <3> QED
      BY <3>2, <1>3, <1>7
  <2> QED
    BY <2>1, <2>2
<1> QED
  BY <1>2, <1>6, <1>7

\* The names a script replaces are names at home, each once.
LEMMA ToSetOfTouched ==
  ASSUME NEW script
  PROVE  /\ DOMAIN Touched(script) = 1..Len(Touched(script)) /\ Len(Touched(script)) \in Nat
         /\ \A i \in 1..Len(Touched(script)) : Touched(script)[i] \in Home
         /\ \A i, j \in 1..Len(Touched(script)) : Touched(script)[i] = Touched(script)[j] => i = j
         /\ ToSet(Touched(script)) \subseteq Home
<1>1. CASE script = "symlink"
  <2>1. /\ Touched(script) = SymlinkNames /\ SymlinkNames \in Seq(Home)
        /\ \A i, j \in DOMAIN SymlinkNames : SymlinkNames[i] = SymlinkNames[j] => i = j
    BY <1>1, DotfilesAssumption DEF Touched, IsInjective, Home, Names
  <2> QED
    BY <2>1 DEF ToSet
<1>2. CASE script = "cygwin"
  <2>1. ToSet(DotNames) \subseteq Home
    <3> SUFFICES ASSUME NEW f \in ToSet(DotNames) PROVE f \in Home
      OBVIOUS
    <3>1. PICK i \in 1..Len(DotNames) : DotNames[i] = f
      BY DotfilesAssumption DEF ToSet
    <3> QED
      BY <3>1, NamesAre, NamesDistinct
  <2>2. /\ Touched(script) = CygwinNames /\ CygwinNames \in Seq(Home)
        /\ \A i, j \in DOMAIN CygwinNames : CygwinNames[i] = CygwinNames[j] => i = j
    BY <1>2, <2>1, DotfilesAssumption DEF Touched, IsInjective
  <2> QED
    BY <2>2 DEF ToSet
<1>3. CASE script \notin {"symlink", "cygwin"}
  <2>1. Touched(script) = Names /\ DOMAIN Names = 1..Len(Names) /\ Len(Names) \in Nat
    BY <1>3, NamesAre, DotfilesAssumption DEF Touched, Names
  <2> QED
    BY <2>1, NamesDistinct DEF ToSet
<1> QED
  BY <1>1, <1>2, <1>3

\* The name a script is at is in its list.
LEMMA AtFits ==
  ASSUME TypeOK, RunFits, InLoop
  PROVE  /\ run.at \in 1..Len(Touched(run.script))
         /\ At(run) = Touched(run.script)[run.at]
         /\ At(run) \in Home
         /\ At(run) \in ToSet(Touched(run.script))
         /\ BacksUp(run.script, run.mode, At(run)) => run.stamp \in Stamps
         /\ run.script = "install" => run.at \in 1..Len(Names) /\ At(run) = Names[run.at]
<1>0. run.step # "idle" /\ run.script \in Scripts \ {"download"} /\ run.at \in Nat /\ run.at >= 1
  BY DEF InLoop, RunFits, TypeOK
<1>1. run.at \in 1..Len(Touched(run.script))
  BY <1>0, ToSetOfTouched DEF TypeOK
<1>2. At(run) = Touched(run.script)[run.at]
  BY DEF At
<1>3. DOMAIN Touched(run.script) = 1..Len(Touched(run.script)) /\ At(run) \in Home
  BY <1>1, <1>2, ToSetOfTouched
<1>4. At(run) \in ToSet(Touched(run.script))
  BY <1>1, <1>2, <1>3 DEF ToSet
<1>5. BacksUp(run.script, run.mode, At(run)) => run.stamp \in Stamps
  <2>1. run.stamp = <<run.script, minute>> /\ minute \in Minutes
    BY <1>0 DEF RunFits, TypeOK
  <2>2. BacksUp(run.script, run.mode, At(run)) => run.script \in {"install", "symlink"}
    BY <1>0 DEF BacksUp, Scripts
  <2> QED
    BY <2>1, <2>2 DEF Stamps
<1>6. run.script = "install" => Touched(run.script) = Names
  BY DEF Touched
<1> QED
  BY <1>1, <1>2, <1>3, <1>4, <1>5, <1>6

\* Where the next name of the loop is.
LEMMA NextNameFits ==
  ASSUME TypeOK
  PROVE  /\ NextName(run).script = run.script /\ NextName(run).mode = run.mode
         /\ NextName(run).stamp = run.stamp /\ NextName(run).kept = run.kept
         /\ \/ /\ run.at < Len(Touched(run.script))
               /\ NextName(run).at = run.at + 1 /\ NextName(run).step = "backup"
            \/ /\ run.at = Len(Touched(run.script))
               /\ NextName(run).at = run.at /\ NextName(run).step = "finished"
         /\ NextName(run) = [script |-> run.script, mode |-> run.mode, stamp |-> run.stamp,
                             at |-> NextName(run).at, step |-> NextName(run).step, kept |-> run.kept]
         /\ NextName(run).at \in 0..Len(Touched(run.script))
<1> DEFINE advanced == [run EXCEPT !.at = @ + 1]
<1>1. /\ Len(Touched(run.script)) \in Nat
      /\ run.at \in Nat /\ run.at <= Len(Touched(run.script))
      /\ run = [script |-> run.script, mode |-> run.mode, stamp |-> run.stamp,
                at |-> run.at, step |-> run.step, kept |-> run.kept]
  BY ToSetOfTouched DEF TypeOK
<1>2. advanced = [script |-> run.script, mode |-> run.mode, stamp |-> run.stamp,
                  at |-> run.at + 1, step |-> run.step, kept |-> run.kept]
  BY <1>1
<1>3. NextName(run) = IF run.at < Len(Touched(run.script))
                      THEN [advanced EXCEPT !.step = "backup"] ELSE [run EXCEPT !.step = "finished"]
  BY Zenon DEF NextName
<1> HIDE DEF advanced
<1>4. NextName(run) =
        [script |-> run.script, mode |-> run.mode, stamp |-> run.stamp,
         at |-> IF run.at < Len(Touched(run.script)) THEN run.at + 1 ELSE run.at,
         step |-> IF run.at < Len(Touched(run.script)) THEN "backup" ELSE "finished",
         kept |-> run.kept]
  BY <1>1, <1>2, <1>3
<1> QED
  BY <1>1, <1>4

-----------------------------------------------------------------------------
(* Types                                                                   *)

\* What cp leaves at the copy: it loses no text of the source, unless it is a
\* directory and something else is in the way, nor one that was there, unless
\* in a file.
LEMMA CopiedKeeps ==
  ASSUME NEW source \in Things, NEW target \in Things
  PROVE  /\ Copied(source, target) \in Things
         /\ Textless(source) /\ Textless(target) => Textless(Copied(source, target))
         /\ Textless(target) /\ (source.kind = "dir" => target.kind \in {"none", "dir"})
              => source.holds \subseteq Copied(source, target).holds
         /\ Textless(target) /\ target.kind # "file"
              => target.holds \subseteq Copied(source, target).holds
         /\ source.kind = "dir" /\ target.kind \in {"none", "dir"}
              => Copied(source, target).kind = "dir"
<1>1. CASE target.kind = "none"
  BY <1>1 DEF Copied, Things, Textless
<1>2. CASE target.kind = "dir"
  <2>1. Copied(source, target) = [target EXCEPT !.holds = target.holds \cup source.holds]
    BY <1>2 DEF Copied
  <2>2. /\ Copied(source, target) \in Things
        /\ Copied(source, target).kind = "dir"
        /\ Copied(source, target).holds = target.holds \cup source.holds
    BY <1>2, <2>1 DEF Things
  <2> QED
    BY <1>2, <2>2 DEF Textless
<1>3. CASE target.kind \notin {"none", "dir"}
  <2>1. Copied(source, target) = IF source.kind = "dir" THEN target ELSE source
    BY <1>3 DEF Copied
  <2> QED
    BY <1>3, <2>1 DEF Textless, Things
<1> QED
  BY <1>1, <1>2, <1>3

LEMMA PartialThing ==
  ASSUME NEW x \in Things
  PROVE  /\ [x EXCEPT !.holds = {}] \in Things
         /\ [x EXCEPT !.holds = {}].kind = x.kind
         /\ [x EXCEPT !.holds = {}].holds = {}
BY DEF Things

LEMMA PlainThings == Nothing \in Things /\ Ours \in Things /\ Foreign \in Things
BY DEF Nothing, Ours, Foreign, Things

LEMMA TypesAtStart == Init => TypeOK
<1> SUFFICES ASSUME Init PROVE TypeOK
  OBVIOUS
<1>1. home \in [Home -> Things] /\ backup \in [Home -> [Stamps -> Things]]
  BY PlainThings DEF Init
<1>2. NotRunning \in [script : Scripts \cup {"none"}, mode : {"none", "yes", "no", "backup", "overwrite"},
              stamp : (Scripts \cup {"none"}) \X Minutes, at : Nat,
              step : {"idle", "fetch", "backup", "remove", "link", "finished", "failed"},
              kept : SUBSET Home]
  BY DotfilesAssumption DEF NotRunning, Minutes
<1>3. NotRunning.at = 0 /\ 0 <= Len(Touched(NotRunning.script))
  BY ToSetOfTouched DEF NotRunning
<1>4. /\ binDir \in {"absent", "dir", "blocked"} /\ repo \in {"absent", "partial", "whole"} /\ badClone \in BOOLEAN
      /\ edits \in SUBSET Texts /\ putAside \in SUBSET Texts
      /\ stamps \in SUBSET (Scripts \X Minutes) /\ superseded \in SUBSET Texts /\ given \in SUBSET Texts
  BY DEF Init
<1>5. minute \in Minutes /\ runs \in 0..MaxRuns /\ written \in 0..MaxWrites
  BY DotfilesAssumption DEF Init, Minutes
<1> QED
  BY <1>1, <1>2, <1>3, <1>4, <1>5 DEF Init, TypeOK

\* The run goes on after rm, with one more name kept if rm failed.
LEMMA RunAfterRemove ==
  ASSUME TypeOK, RemoveOld
  PROVE  /\ run' = [script |-> run.script, mode |-> run.mode, stamp |-> run.stamp, at |-> run.at,
                    step |-> "link", kept |-> run'.kept]
         /\ run'.kept \in {run.kept, run.kept \cup {At(run)}}
         /\ At(run') = At(run)
<1> DEFINE after(kept) == [script |-> run.script, mode |-> run.mode, stamp |-> run.stamp, at |-> run.at,
                           step |-> "link", kept |-> kept]
<1>1. run = [script |-> run.script, mode |-> run.mode, stamp |-> run.stamp,
             at |-> run.at, step |-> run.step, kept |-> run.kept]
  BY DEF TypeOK
<1>2. \/ run' = [run EXCEPT !.step = "link"]
      \/ run' = [run EXCEPT !.step = "link", !.kept = run.kept \cup {At(run)}]
  BY DEF RemoveOld
<1>3. run' = after(run.kept) \/ run' = after(run.kept \cup {At(run)})
  BY <1>1, <1>2
<1> QED
  BY <1>3 DEF At

\* What rm leaves of what is at the name.
LEMMA HomeAfterRemove ==
  ASSUME TypeOK, RunFits, RemoveOld
  PROVE  \/ run'.kept = run.kept /\ Seen(run.script, At(run)) /\ home' = [home EXCEPT ![At(run)] = Nothing]
         \/ run'.kept = run.kept /\ ~Seen(run.script, At(run)) /\ home' = home
         \/ /\ At(run) \in run'.kept /\ home[At(run)].kind \in {"file", "dir"}
            /\ \/ home' = home
               \/ /\ home[At(run)].kind = "dir"
                  /\ home' = [home EXCEPT ![At(run)] = [home[At(run)] EXCEPT !.holds = {}]]
<1>1. At(run) \in Home /\ home \in [Home -> Things]
  BY AtFits DEF RemoveOld, InLoop, TypeOK
<1>2. run = [script |-> run.script, mode |-> run.mode, stamp |-> run.stamp,
             at |-> run.at, step |-> run.step, kept |-> run.kept]
  BY DEF TypeOK
<1>3. CASE /\ run' = [run EXCEPT !.step = "link"]
           /\ home' = [home EXCEPT ![At(run)] = IF Seen(run.script, At(run)) THEN Nothing ELSE @]
  <2>1. run'.kept = run.kept
    BY <1>2, <1>3
  <2>2. Seen(run.script, At(run)) => home' = [home EXCEPT ![At(run)] = Nothing]
    BY <1>3
  <2>3. ~Seen(run.script, At(run)) => home' = home
    BY <1>1, <1>3
  <2> QED
    BY <2>1, <2>2, <2>3
<1>4. CASE /\ home[At(run)].kind \in {"file", "dir"}
           /\ run' = [run EXCEPT !.step = "link", !.kept = @ \cup {At(run)}]
           /\ \/ UNCHANGED home
              \/ home[At(run)].kind = "dir" /\ home' = [home EXCEPT ![At(run)].holds = {}]
  <2>1. At(run) \in run'.kept
    BY <1>2, <1>4
  <2>2. home' = [home EXCEPT ![At(run)].holds = {}]
          => home' = [home EXCEPT ![At(run)] = [home[At(run)] EXCEPT !.holds = {}]]
    OBVIOUS
  <2> QED
    BY <1>4, <2>1, <2>2
<1> QED
  BY <1>3, <1>4 DEF RemoveOld

\* The records a running script passes through.
Running == [script : Scripts \cup {"none"}, mode : {"none", "yes", "no", "backup", "overwrite"},
            stamp : (Scripts \cup {"none"}) \X Minutes, at : Nat,
            step : {"idle", "fetch", "backup", "remove", "link", "finished", "failed"},
            kept : SUBSET Home]
RunTyped == run \in Running /\ run.at <= Len(Touched(run.script))

LEMMA RunTypedStep ==
  ASSUME TypeOK, RunFits, [Next]_vars
  PROVE  RunTyped'
<1> USE DEF RunTyped
<1>1. RunTyped
  BY DEF TypeOK, Running
<1>2. ASSUME NextName(run) = run' PROVE RunTyped'
  <2>1. run.script \in Scripts \cup {"none"} /\ Len(Touched(run.script)) \in Nat
    BY ToSetOfTouched DEF TypeOK
  <2>2. run'.at \in Nat /\ run'.at <= Len(Touched(run'.script))
    BY <1>2, <2>1, NextNameFits
  <2>3. run' = [script |-> run.script, mode |-> run.mode, stamp |-> run.stamp,
                at |-> run'.at, step |-> run'.step, kept |-> run.kept] /\ run'.step \in {"backup", "finished"}
    BY <1>2, NextNameFits
  <2> QED
    BY <1>1, <2>2, <2>3 DEF Running
<1>3. ASSUME NEW step \in {"remove", "link", "failed", "finished"}, run' = [run EXCEPT !.step = step]
      PROVE  RunTyped'
  <2>1. run' \in Running /\ run'.at = run.at /\ run'.script = run.script
    BY <1>1, <1>3 DEF Running
  <2> QED
    BY <1>1, <2>1 DEF Touched
<1>4. ASSUME run' = NotRunning PROVE RunTyped'
  <2>1. 0 <= Len(Touched("none"))
    BY ToSetOfTouched
  <2> QED
    BY <1>4, <2>1, DotfilesAssumption DEF NotRunning, Running, Minutes
<1>5. ASSUME NEW script \in Scripts, NEW mode \in Modes(script), Start(script, mode) PROVE RunTyped'
  <2>1. mode \in {"none", "yes", "no", "backup", "overwrite"}
    BY <1>5 DEF Modes, Scripts
  <2>2. run' = [script |-> script, mode |-> mode, stamp |-> <<script, minute>>, at |-> 0, step |-> "fetch",
                kept |-> {}]
    BY <1>5 DEF Start
  <2>3. minute \in Minutes /\ 0 <= Len(Touched(script))
    BY ToSetOfTouched DEF TypeOK
  <2> QED
    BY <2>1, <2>2, <2>3 DEF Running
<1>6. CASE Fetch
  <2>1. run' = NextName(run) \/ run' = [run EXCEPT !.step = "failed"]
    BY <1>6 DEF Fetch
  <2> QED
    BY <2>1, <1>2, <1>3
<1>7. CASE Link
  <2>1. run' = NextName(run) \/ run' = [run EXCEPT !.step = "failed"]
    BY <1>7 DEF Link
  <2> QED
    BY <2>1, <1>2, <1>3
<1>8. CASE Download \/ Backup
  <2>1. \E step \in {"remove", "link", "failed", "finished"} : run' = [run EXCEPT !.step = step]
    BY <1>8 DEF Download, Backup
  <2> QED
    BY <2>1, <1>3
<1>11. CASE RemoveOld
  <2>1. /\ run' = [script |-> run.script, mode |-> run.mode, stamp |-> run.stamp, at |-> run.at,
                   step |-> "link", kept |-> run'.kept]
        /\ run'.kept \in {run.kept, run.kept \cup {At(run)}}
    BY <1>11, RunAfterRemove
  <2>2. At(run) \in Home
    BY <1>11, AtFits DEF RemoveOld, InLoop
  <2>3. run' \in Running
    BY <1>1, <2>1, <2>2 DEF Running
  <2> QED
    BY <1>1, <2>1, <2>3
<1>9. CASE Leave \/ Stop
  BY <1>9, <1>4 DEF Leave, Stop
<1>10. CASE (\E f \in Home : Write(f)) \/ TimePasses \/ UNCHANGED vars
  <2>1. run' = run
    BY <1>10 DEF Write, TimePasses, vars
  <2> QED
    BY <1>1, <2>1 DEF Touched
<1> QED
  BY <1>5, <1>6, <1>7, <1>8, <1>9, <1>10, <1>11 DEF Next

\* What the scripts do to the home and to the backups.
HomeTyped == home \in [Home -> Things] /\ backup \in [Home -> [Stamps -> Things]]

LEMMA HomeTypedStep ==
  ASSUME TypeOK, RunFits, [Next]_vars
  PROVE  HomeTyped'
<1> USE DEF HomeTyped
<1>1. HomeTyped
  BY DEF TypeOK
<1>2. ASSUME InLoop
      PROVE  /\ At(run) \in Home /\ home[At(run)] \in Things
             /\ BacksUp(run.script, run.mode, At(run)) => run.stamp \in Stamps
  BY <1>1, <1>2, AtFits
<1>3. ASSUME InLoop, BacksUp(run.script, run.mode, At(run)), NEW source \in Things,
             backup' = [backup EXCEPT ![At(run)][run.stamp] = Copied(source, @)]
      PROVE  backup' \in [Home -> [Stamps -> Things]]
  <2>1. At(run) \in Home /\ run.stamp \in Stamps /\ backup[At(run)][run.stamp] \in Things
    BY <1>1, <1>2, <1>3
  <2>2. Copied(source, backup[At(run)][run.stamp]) \in Things
    BY <2>1, CopiedKeeps
  <2>3. backup' = [backup EXCEPT ![At(run)] =
                     [backup[At(run)] EXCEPT ![run.stamp] = Copied(source, backup[At(run)][run.stamp])]]
    BY <1>3
  <2> QED
    BY <1>1, <2>1, <2>2, <2>3
<1>4. CASE Backup
  BY <1>1, <1>2, <1>3, <1>4 DEF Backup, InLoop
<1>5. CASE RemoveOld
  <2>1. InLoop /\ backup' = backup
    BY <1>5 DEF RemoveOld, InLoop
  <2>2. [home[At(run)] EXCEPT !.holds = {}] \in Things
    BY <1>2, <2>1, PartialThing
  <2>3. \E x \in Things : home' = home \/ home' = [home EXCEPT ![At(run)] = x]
    BY <1>5, <2>2, PlainThings, HomeAfterRemove
  <2> QED
    BY <1>1, <2>1, <2>3
<1>6. CASE Link
  BY <1>1, <1>6, PlainThings DEF Link
<1>7. CASE Stop
  <2>1. CASE UNCHANGED <<home, backup>>
    BY <1>1, <2>1
  <2>2. CASE /\ run.step = "backup" /\ UNCHANGED home
             /\ BacksUp(run.script, run.mode, At(run))
             /\ backup' = [backup EXCEPT ![At(run)][run.stamp] =
                             Copied([home[At(run)] EXCEPT !.holds = {}], @)]
    <3>1. InLoop /\ [home[At(run)] EXCEPT !.holds = {}] \in Things
      BY <1>2, <2>2, PartialThing DEF InLoop
    <3> QED
      BY <1>1, <1>3, <2>2, <3>1
  <2>3. CASE /\ run.step = "remove" /\ UNCHANGED backup
             /\ home' = [home EXCEPT ![At(run)].holds = {}]
    <3>1. InLoop /\ [home[At(run)] EXCEPT !.holds = {}] \in Things
      BY <1>2, <2>3, PartialThing DEF InLoop
    <3>2. home' = [home EXCEPT ![At(run)] = [home[At(run)] EXCEPT !.holds = {}]]
      BY <2>3
    <3> QED
      BY <1>1, <2>3, <3>1, <3>2
  <2> QED
    BY <1>7, <2>1, <2>2, <2>3 DEF Stop
<1>8. ASSUME NEW f \in Home, Write(f) PROVE HomeTyped'
  <2>1. written + 1 \in Texts
    BY <1>8, DotfilesAssumption DEF Write, TypeOK, Texts
  <2>2. \A kind \in {"file", "dir"} : [kind |-> kind, holds |-> {written + 1}] \in Things
    BY <2>1 DEF Things
  <2>3. home' = home \/ \E x \in Things : home' = [home EXCEPT ![f] = x]
    BY <1>8, <2>2 DEF Write
  <2>4. backup' = backup
    BY <1>8 DEF Write
  <2> QED
    BY <1>1, <2>3, <2>4
<1>9. CASE (\E script \in Scripts : \E mode \in Modes(script) : Start(script, mode))
           \/ Fetch \/ Download \/ Leave \/ TimePasses \/ UNCHANGED vars
  BY <1>1, <1>9 DEF Start, Fetch, Download, Leave, TimePasses, vars
<1> QED
  BY <1>4, <1>5, <1>6, <1>7, <1>8, <1>9 DEF Next

LEMMA TypeStep ==
  ASSUME TypeOK, RunFits, [Next]_vars
  PROVE  TypeOK'
<1>1. RunTyped' /\ HomeTyped'
  BY RunTypedStep, HomeTypedStep
<1>2. binDir' \in {"absent", "dir", "blocked"}
  BY DEF TypeOK, Next, vars, Start, Fetch, Download, Backup, RemoveOld, Link, Leave, Stop, Write, TimePasses
<1>3. repo' \in {"absent", "partial", "whole"} /\ badClone' \in BOOLEAN
  BY DEF TypeOK, Next, vars, Start, Fetch, Download, Clone, Backup, RemoveOld, Link, Leave, Stop, Write,
         TimePasses
<1>4. /\ minute' \in Minutes /\ runs' \in 0..MaxRuns /\ written' \in 0..MaxWrites
  <2>1. /\ minute' = minute \/ (minute < MaxMinutes /\ minute' = minute + 1)
        /\ runs' = runs \/ (runs < MaxRuns /\ runs' = runs + 1)
        /\ written' = written \/ (written < MaxWrites /\ written' = written + 1)
    BY DEF Next, vars, Start, Fetch, Download, Backup, RemoveOld, Link, Leave, Stop, Write, TimePasses
  <2>2. MaxMinutes \in Nat /\ MaxRuns \in Nat /\ MaxWrites \in Nat
    BY DotfilesAssumption
  <2>3. minute \in 0..MaxMinutes /\ runs \in 0..MaxRuns /\ written \in 0..MaxWrites
    BY DEF TypeOK, Minutes
  <2>4. minute' \in 0..MaxMinutes
    BY <2>1, <2>2, <2>3
  <2>5. runs' \in 0..MaxRuns
    BY <2>1, <2>2, <2>3
  <2>6. written' \in 0..MaxWrites
    BY <2>1, <2>2, <2>3
  <2> QED
    BY <2>4, <2>5, <2>6 DEF Minutes
<1>5. \A f \in Home : home[f].holds \subseteq Texts
  BY DEF TypeOK, Things
<1>6. edits' \subseteq Texts /\ putAside' \subseteq Texts /\ superseded' \subseteq Texts
  <2>1. ASSUME NEW f \in Home, Write(f)
        PROVE  edits' \subseteq Texts /\ putAside' \subseteq Texts /\ superseded' \subseteq Texts
    <3>1. written + 1 \in Texts
      BY <2>1, DotfilesAssumption DEF Write, TypeOK, Texts
    <3> QED
      BY <1>5, <2>1, <3>1 DEF Write, TypeOK
  <2>2. CASE ~\E f \in Home : Write(f)
    BY <2>2 DEF TypeOK, Next, vars, Start, Fetch, Download, Backup, RemoveOld, Link, Leave, Stop, TimePasses
  <2> QED
    BY <2>1, <2>2
<1>7. stamps' \subseteq Scripts \X Minutes
  <2>1. ASSUME NEW script \in Scripts, NEW mode \in Modes(script), Start(script, mode)
        PROVE  stamps' \subseteq Scripts \X Minutes
    BY <2>1 DEF Start, TypeOK
  <2>2. CASE UNCHANGED stamps
    BY <2>2 DEF TypeOK
  <2> QED
    BY <2>1, <2>2 DEF Next, vars, Fetch, Download, Backup, RemoveOld, Link, Leave, Stop, Write, TimePasses
<1>8. given' \subseteq Texts
  <2>1. ASSUME NEW script \in Scripts, NEW mode \in Modes(script), Start(script, mode)
        PROVE  given' \subseteq Texts
    <3>1. ToSet(Touched(script)) \subseteq Home
      BY ToSetOfTouched
    <3>2. UNION {HomeTexts(f) : f \in {g \in ToSet(Touched(script)) : ~BacksUp(script, mode, g)}} \subseteq Texts
      BY <1>5, <3>1 DEF HomeTexts
    <3>3. <<script, minute>> \in Stamps =>
            UNION {x.holds : x \in {y \in {backup[f][<<script, minute>>] : f \in Home} : y.kind = "file"}}
              \subseteq Texts
      BY DEF TypeOK, Things
    <3> QED
      BY <2>1, <3>2, <3>3 DEF Start, TypeOK
  <2>2. CASE Backup
    BY <1>5, <2>2, AtFits DEF Backup, InLoop, HomeTexts, TypeOK
  <2>3. CASE UNCHANGED given
    BY <2>3 DEF TypeOK
  <2> QED
    BY <2>1, <2>2, <2>3 DEF Next, vars, Fetch, Download, RemoveOld, Link, Leave, Stop, Write, TimePasses
<1> QED
  BY <1>1, <1>2, <1>3, <1>4, <1>6, <1>7, <1>8 DEF TypeOK, RunTyped, HomeTyped, Running

-----------------------------------------------------------------------------
(* The script that runs, and what changes in the home                      *)

\* A run has its time, and is at a name of its list in the loop.
LEMMA RunFitsStep ==
  ASSUME TypeOK, RunFits, [Next]_vars
  PROVE  RunFits'
<1> USE DEF RunFits, InLoop
<1>1. ASSUME UNCHANGED <<minute, stamps>>, run.step # "idle",
             run.script = "download" => run' = [run EXCEPT !.step = "finished"],
             run' = NextName(run)
      PROVE  RunFits'
  <2>1. /\ run'.script = run.script /\ run'.mode = run.mode /\ run'.stamp = run.stamp
        /\ run'.step = "finished" \/ (run'.step = "backup" /\ run'.at = run.at + 1 /\ run.at \in Nat)
    BY <1>1, NextNameFits DEF TypeOK
  <2>2. run.script # "download" \/ run'.step = "finished"
    BY <1>1 DEF TypeOK
  <2>3. /\ run'.step \notin {"idle", "fetch"}
        /\ run'.step \in {"backup", "remove", "link"} => run'.script # "download" /\ run'.at >= 1
    BY <2>1, <2>2
  <2>4. run'.script \in Scripts /\ run'.mode \in Modes(run'.script)
    BY <1>1, <2>1
  <2>5. run'.stamp = <<run'.script, minute'>> /\ run'.stamp \in stamps'
    BY <1>1, <2>1
  <2> QED
    BY <2>3, <2>4, <2>5
<1>2. ASSUME UNCHANGED <<minute, stamps>>, run.step # "idle",
             NEW step \in {"remove", "link", "failed", "finished"}, run' = [run EXCEPT !.step = step],
             step \in {"remove", "link"} => InLoop
      PROVE  RunFits'
  <2>1. /\ run'.script = run.script /\ run'.mode = run.mode /\ run'.stamp = run.stamp
        /\ run'.step = step /\ run'.at = run.at
    BY <1>2 DEF TypeOK
  <2>2. run'.script \in Scripts /\ run'.mode \in Modes(run'.script)
    BY <1>2, <2>1
  <2>3. run'.stamp = <<run'.script, minute'>> /\ run'.stamp \in stamps'
    BY <1>2, <2>1
  <2> QED
    BY <1>2, <2>1, <2>2, <2>3
<1>3. ASSUME run' = NotRunning PROVE RunFits'
  BY <1>3 DEF NotRunning
<1>4. ASSUME NEW script \in Scripts, NEW mode \in Modes(script), Start(script, mode) PROVE RunFits'
  <2>1. run' = [script |-> script, mode |-> mode, stamp |-> <<script, minute>>, at |-> 0, step |-> "fetch",
                kept |-> {}]
    BY <1>4 DEF Start
  <2>2. <<script, minute'>> \in stamps' /\ minute' = minute
    BY <1>4 DEF Start
  <2> QED
    BY <2>1, <2>2
<1>5. CASE Fetch
  <2>1. UNCHANGED <<minute, stamps>> /\ run.step = "fetch" /\ run.script # "download"
    BY <1>5 DEF Fetch
  <2>2. run' = NextName(run) \/ run' = [run EXCEPT !.step = "failed"]
    BY <1>5 DEF Fetch
  <2> QED
    BY <2>1, <2>2, <1>1, <1>2
<1>6. CASE Link
  <2>1. UNCHANGED <<minute, stamps>> /\ run.step = "link" /\ run.script # "download"
    BY <1>6 DEF Link
  <2>2. run' = NextName(run) \/ run' = [run EXCEPT !.step = "failed"]
    BY <1>6 DEF Link
  <2> QED
    BY <2>1, <2>2, <1>1, <1>2
<1>7. CASE Download
  BY <1>2, <1>7 DEF Download
<1>8. CASE Backup
  BY <1>2, <1>8 DEF Backup
<1>9. CASE RemoveOld
  <2>1. /\ run' = [script |-> run.script, mode |-> run.mode, stamp |-> run.stamp, at |-> run.at,
                   step |-> "link", kept |-> run'.kept]
        /\ UNCHANGED <<minute, stamps>> /\ run.step = "remove"
    BY <1>9, RunAfterRemove DEF RemoveOld
  <2> QED
    BY <2>1
<1>10. CASE Leave \/ Stop
  BY <1>3, <1>10 DEF Leave, Stop
<1>11. CASE (\E f \in Home : Write(f)) \/ TimePasses
  <2>1. run' = run /\ run.step = "idle"
    BY <1>11 DEF Write, TimePasses
  <2> QED
    BY <1>3, <2>1
<1>12. CASE UNCHANGED vars
  BY <1>12 DEF vars
<1> QED
  BY <1>4, <1>5, <1>6, <1>7, <1>8, <1>9, <1>10, <1>11, <1>12 DEF Next

\* cp of source, which is what is at the name or part of it.
Copies(source) ==
  /\ run.step = "backup" /\ UNCHANGED <<home, minute, stamps, repo>>
  /\ Seen(run.script, At(run)) /\ BacksUp(run.script, run.mode, At(run))
  /\ source \in Things /\ source.kind = home[At(run)].kind
  /\ source.holds \subseteq home[At(run)].holds
  /\ backup' = [backup EXCEPT ![At(run)] =
       [backup[At(run)] EXCEPT ![run.stamp] = Copied(source, backup[At(run)][run.stamp])]]

LEMMA BackupChanges ==
  ASSUME TypeOK, RunFits, [Next]_vars
  PROVE  UNCHANGED backup \/ \E source : Copies(source)
<1>1. CASE Backup
  <2>1. InLoop /\ run.step = "backup" /\ UNCHANGED <<home, minute, stamps, repo>>
    BY <1>1 DEF Backup, InLoop
  <2>2. home[At(run)] \in Things
    BY <2>1, AtFits DEF TypeOK
  <2>3. CASE UNCHANGED backup
    BY <2>3
  <2>4. CASE /\ Seen(run.script, At(run)) /\ BacksUp(run.script, run.mode, At(run))
             /\ backup' = [backup EXCEPT ![At(run)][run.stamp] = Copied(home[At(run)], @)]
    <3>1. Copies(home[At(run)])
      BY <2>1, <2>2, <2>4 DEF Copies
    <3> QED
      BY <3>1
  <2> QED
    BY <1>1, <2>3, <2>4 DEF Backup
<1>2. CASE Stop
  <2>1. CASE UNCHANGED backup
    BY <2>1
  <2>2. CASE ~UNCHANGED backup
    <3> DEFINE source == [home[At(run)] EXCEPT !.holds = {}]
    <3>1. /\ InLoop /\ run.step = "backup" /\ UNCHANGED <<home, minute, stamps, repo>>
          /\ Seen(run.script, At(run)) /\ BacksUp(run.script, run.mode, At(run))
          /\ backup' = [backup EXCEPT ![At(run)][run.stamp] = Copied(source, @)]
      BY <1>2, <2>2 DEF Stop, InLoop
    <3>2. home[At(run)] \in Things
      BY <3>1, AtFits DEF TypeOK
    <3>3. source \in Things /\ source.kind = home[At(run)].kind /\ source.holds = {}
      BY <3>2, PartialThing
    <3>4. Copies(source)
      BY <3>1, <3>3 DEF Copies
    <3> QED
      BY <3>4
  <2> QED
    BY <2>1, <2>2
<1>3. CASE ~Backup /\ ~Stop
  BY <1>3 DEF Next, vars, Start, Fetch, Download, RemoveOld, Link, Leave, Write, TimePasses
<1> QED
  BY <1>1, <1>2, <1>3

\* What a script puts in the place of what is at the name: nothing, its link, or
\* what rm -rf has left of a directory.
Replaces(x) ==
  /\ InLoop /\ UNCHANGED <<backup, minute, stamps, repo>>
  /\ \/ x = Nothing /\ run.step = "remove" /\ Seen(run.script, At(run))
     \/ x = Ours /\ run.step = "link" /\ home[At(run)].kind = "none"
     \/ /\ x \in Things /\ x.kind = home[At(run)].kind /\ x.holds = {}
        /\ x.kind = "dir" /\ run.step = "remove"
  /\ home' = [home EXCEPT ![At(run)] = x]

LEMMA HomeChanges ==
  ASSUME TypeOK, RunFits, [Next]_vars
  PROVE  UNCHANGED home \/ (\E x : Replaces(x)) \/ \E f \in Home : Write(f)
<1>1. ASSUME InLoop
      PROVE  At(run) \in Home /\ home[At(run)] \in Things /\ home \in [Home -> Things]
  BY <1>1, AtFits DEF TypeOK
<1>2. CASE RemoveOld
  <2>1. InLoop /\ run.step = "remove" /\ UNCHANGED <<backup, minute, stamps, repo>>
    BY <1>2 DEF RemoveOld, InLoop
  <2> DEFINE x == [home[At(run)] EXCEPT !.holds = {}]
  <2>2. \/ home' = home
        \/ Seen(run.script, At(run)) /\ home' = [home EXCEPT ![At(run)] = Nothing]
        \/ home[At(run)].kind = "dir" /\ home' = [home EXCEPT ![At(run)] = x]
    BY <1>2, HomeAfterRemove
  <2>3. x \in Things /\ x.kind = home[At(run)].kind /\ x.holds = {}
    BY <1>1, <2>1, PartialThing
  <2> HIDE DEF x
  <2>4. CASE Seen(run.script, At(run)) /\ home' = [home EXCEPT ![At(run)] = Nothing]
    BY <2>1, <2>4 DEF Replaces
  <2>5. CASE home[At(run)].kind = "dir" /\ home' = [home EXCEPT ![At(run)] = x]
    BY <2>1, <2>3, <2>5 DEF Replaces
  <2> QED
    BY <2>2, <2>4, <2>5
<1>3. CASE Link
  <2>1. InLoop /\ run.step = "link" /\ UNCHANGED <<backup, minute, stamps, repo>>
    BY <1>3 DEF Link, InLoop
  <2>2. UNCHANGED home \/ (home[At(run)].kind = "none" /\ home' = [home EXCEPT ![At(run)] = Ours])
    BY <1>3 DEF Link
  <2> QED
    BY <2>1, <2>2 DEF Replaces
<1>4. CASE Stop
  <2>1. CASE UNCHANGED home
    BY <2>1
  <2>2. CASE ~UNCHANGED home
    <3> DEFINE x == [home[At(run)] EXCEPT !.holds = {}]
    <3>1. /\ InLoop /\ run.step = "remove" /\ UNCHANGED <<backup, minute, stamps, repo>>
          /\ home[At(run)].kind = "dir"
          /\ home' = [home EXCEPT ![At(run)] = x]
      BY <1>4, <2>2 DEF Stop, InLoop
    <3>2. x \in Things /\ x.kind = home[At(run)].kind /\ x.holds = {}
      BY <1>1, <3>1, PartialThing
    <3>3. Replaces(x)
      BY <3>1, <3>2 DEF Replaces
    <3> QED
      BY <3>3
  <2> QED
    BY <2>1, <2>2
<1>5. CASE ~RemoveOld /\ ~Link /\ ~Stop /\ ~\E f \in Home : Write(f)
  BY <1>5 DEF Next, vars, Start, Fetch, Download, Backup, Leave, TimePasses
<1> QED
  BY <1>2, <1>3, <1>4, <1>5

\* Time passes only while no script runs, and times of backups only come.
LEMMA TimeChanges ==
  ASSUME TypeOK, RunFits, [Next]_vars
  PROVE  /\ minute' \in Nat /\ minute \in Nat /\ minute' >= minute
         /\ stamps \subseteq stamps'
         /\ \A s \in stamps' \ stamps : s[2] = minute
         /\ run.step # "idle" => UNCHANGED <<minute, stamps>>
         /\ \A f \in Home : Write(f) => minute' = minute + 1
<1>1. minute \in Nat
  BY DotfilesAssumption DEF TypeOK, Minutes
<1>2. minute' = minute \/ (run.step = "idle" /\ minute' = minute + 1)
  BY DEF Next, vars, Start, Fetch, Download, Backup, RemoveOld, Link, Leave, Stop, Write, TimePasses
<1>3. stamps' = stamps \/ (run.step = "idle" /\ \E script \in Scripts : stamps' = stamps \cup {<<script, minute>>})
  <2>1. ASSUME NEW script \in Scripts, NEW mode \in Modes(script), Start(script, mode)
        PROVE  run.step = "idle" /\ stamps' = stamps \cup {<<script, minute>>}
    BY <2>1 DEF Start
  <2> QED
    BY <2>1 DEF Next, vars, Fetch, Download, Backup, RemoveOld, Link, Leave, Stop, Write, TimePasses
<1>4. \A f \in Home : Write(f) => minute' = minute + 1
  BY DEF Write
<1> QED
  BY <1>1, <1>2, <1>3, <1>4

-----------------------------------------------------------------------------
(* What the copies hold                                                    *)

\* What a cp does to one backup.
LEMMA CopiesOne ==
  ASSUME TypeOK, RunFits, NEW source, Copies(source)
  PROVE  /\ At(run) \in Home /\ run.stamp \in Stamps /\ home[At(run)] \in Things
         /\ backup[At(run)][run.stamp] \in Things
         /\ backup'[At(run)][run.stamp] = Copied(source, backup[At(run)][run.stamp])
         /\ \A f \in Home, s \in Stamps :
              f # At(run) \/ s # run.stamp => backup'[f][s] = backup[f][s]
         /\ run.stamp \in stamps /\ run.stamp[2] = minute /\ run.script \in {"install", "symlink"}
<1>1. InLoop
  BY DEF Copies, InLoop
<1>2. /\ At(run) \in Home /\ run.stamp \in Stamps
      /\ home \in [Home -> Things] /\ backup \in [Home -> [Stamps -> Things]]
  BY <1>1, AtFits DEF Copies, TypeOK
<1>3. run.stamp = <<run.script, minute>> /\ run.stamp \in stamps
  BY <1>1 DEF RunFits, InLoop
<1>4. run.script \in {"install", "symlink"}
  BY <1>2, <1>3 DEF Stamps
<1>5. backup' = [backup EXCEPT ![At(run)] =
       [backup[At(run)] EXCEPT ![run.stamp] = Copied(source, backup[At(run)][run.stamp])]]
  BY DEF Copies
<1> QED
  BY <1>2, <1>3, <1>4, <1>5

\* What a script does to one name.
LEMMA ReplacesOne ==
  ASSUME TypeOK, RunFits, NEW x, Replaces(x)
  PROVE  /\ At(run) \in Home /\ home[At(run)] \in Things /\ home'[At(run)] = x
         /\ \A f \in Home : f # At(run) => home'[f] = home[f]
         /\ run.step # "idle"
<1>1. InLoop /\ run.step # "idle"
  BY DEF Replaces, InLoop
<1>2. At(run) \in Home /\ home \in [Home -> Things]
  BY <1>1, AtFits DEF TypeOK
<1> QED
  BY <1>1, <1>2 DEF Replaces

\* What the user does to one name.
LEMMA WritesOne ==
  ASSUME TypeOK, NEW f \in Home, Write(f)
  PROVE  /\ UNCHANGED <<backup, run, given, stamps>> /\ run.step = "idle"
         /\ \A g \in Home : g # f => home'[g] = home[g]
         /\ home'[f] = home[f] \/ home'[f].kind \in {"file", "dir"}
<1>1. UNCHANGED <<backup, run, given, stamps>> /\ run.step = "idle"
  BY DEF Write
<1>2. \/ home' = home
      \/ \E kind \in {"file", "dir"} : home' = [home EXCEPT ![f] = [kind |-> kind, holds |-> {written + 1}]]
  BY DEF Write
<1> QED
  BY <1>1, <1>2 DEF TypeOK

LEMMA TextsInFilesStep ==
  ASSUME TypeOK, RunFits, TextsInFiles, [Next]_vars
  PROVE  TextsInFiles'
<1>1. \A f \in Home : Textless(home'[f])
  <2>1. CASE UNCHANGED home
    BY <2>1 DEF TextsInFiles
  <2>2. ASSUME NEW x, Replaces(x) PROVE \A f \in Home : Textless(home'[f])
    <3>1. Textless(x)
      BY <2>2 DEF Replaces, Textless, Nothing, Ours
    <3> QED
      BY <2>2, <3>1, ReplacesOne DEF TextsInFiles
  <2>3. ASSUME NEW g \in Home, Write(g) PROVE \A f \in Home : Textless(home'[f])
    BY <2>3, WritesOne DEF TextsInFiles, Textless
  <2> QED
    BY <2>1, <2>2, <2>3, HomeChanges
<1>2. \A f \in Home, s \in Stamps : Textless(backup'[f][s])
  <2>1. CASE UNCHANGED backup
    BY <2>1 DEF TextsInFiles
  <2>2. ASSUME NEW source, Copies(source) PROVE \A f \in Home, s \in Stamps : Textless(backup'[f][s])
    <3>1. /\ At(run) \in Home /\ run.stamp \in Stamps /\ home[At(run)] \in Things
          /\ backup[At(run)][run.stamp] \in Things
      BY <2>2, CopiesOne
    <3>2. Textless(source) /\ source \in Things
      BY <2>2, <3>1 DEF Copies, Textless, TextsInFiles
    <3>3. Textless(Copied(source, backup[At(run)][run.stamp]))
      BY <3>1, <3>2, CopiedKeeps DEF TextsInFiles
    <3> QED
      BY <2>2, <3>3, CopiesOne DEF TextsInFiles
  <2> QED
    BY <2>1, <2>2, BackupChanges
<1> QED
  BY <1>1, <1>2 DEF TextsInFiles, Textless

LEMMA BackupsDatedStep ==
  ASSUME TypeOK, RunFits, BackupsDated, [Next]_vars
  PROVE  BackupsDated'
<1>1. \A s \in stamps' : s[2] <= minute'
  <2> SUFFICES ASSUME NEW s \in stamps' PROVE s[2] <= minute'
    OBVIOUS
  <2>1. CASE s \in stamps
    <3>1. s[2] \in Nat /\ s[2] <= minute
      BY <2>1, DotfilesAssumption DEF BackupsDated, TypeOK, Minutes
    <3> QED
      BY <3>1, TimeChanges
  <2>2. CASE s \notin stamps
    BY <2>2, TimeChanges
  <2> QED
    BY <2>1, <2>2
<1>2. \A f \in Home, s \in Stamps : backup'[f][s] # Nothing => s \in stamps'
  <2>1. CASE UNCHANGED backup
    BY <2>1, TimeChanges DEF BackupsDated
  <2>2. ASSUME NEW source, Copies(source)
        PROVE  \A f \in Home, s \in Stamps : backup'[f][s] # Nothing => s \in stamps'
    <3>1. run.stamp \in stamps
      BY <2>2, CopiesOne
    <3>2. \A f \in Home, s \in Stamps : s # run.stamp => backup'[f][s] = backup[f][s]
      BY <2>2, CopiesOne
    <3> QED
      BY <3>1, <3>2, TimeChanges DEF BackupsDated
  <2> QED
    BY <2>1, <2>2, BackupChanges
<1> QED
  BY <1>1, <1>2 DEF BackupsDated, Nothing

LEMMA DirsCopyInStep ==
  ASSUME TypeOK, RunFits, BackupsDated, DirsCopyIn, [Next]_vars
  PROVE  DirsCopyIn'
<1> SUFFICES ASSUME NEW f \in Home, NEW s \in Stamps, home'[f].kind = "dir", s[2] = minute'
             PROVE  backup'[f][s].kind \in {"none", "dir"}
  BY DEF DirsCopyIn
<1>1. CASE minute' # minute
  <2>1. s[2] \in Nat /\ s[2] > minute
    BY <1>1, TimeChanges
  <2>2. s \notin stamps
    BY <2>1, TimeChanges DEF BackupsDated
  <2>3. backup[f][s] = Nothing
    BY <2>2 DEF BackupsDated
  <2>4. run.step = "idle"
    BY <1>1, TimeChanges
  <2>5. UNCHANGED backup
    BY <2>4, BackupChanges DEF Copies
  <2> QED
    BY <2>3, <2>5 DEF Nothing
<1>2. CASE minute' = minute
  <2>1. home[f].kind = "dir"
    <3>1. CASE UNCHANGED home
      BY <3>1
    <3>2. ASSUME NEW x, Replaces(x) PROVE home[f].kind = "dir"
      BY <3>2, ReplacesOne DEF Replaces, Nothing, Ours
    <3>3. ~\E g \in Home : Write(g)
      BY <1>2, TimeChanges
    <3> QED
      BY <3>1, <3>2, <3>3, HomeChanges
  <2>2. backup[f][s].kind \in {"none", "dir"}
    BY <1>2, <2>1 DEF DirsCopyIn
  <2>3. ASSUME NEW source, Copies(source) PROVE backup'[f][s].kind \in {"none", "dir"}
    <3>1. CASE f # At(run) \/ s # run.stamp
      BY <2>2, <2>3, <3>1, CopiesOne
    <3>2. CASE f = At(run) /\ s = run.stamp
      <4>1. source \in Things /\ source.kind = "dir" /\ backup[f][s] \in Things
        BY <2>1, <2>3, <3>2, CopiesOne DEF Copies
      <4>2. Copied(source, backup[f][s]).kind = "dir"
        BY <2>2, <4>1, CopiedKeeps
      <4> QED
        BY <2>3, <3>2, <4>2, CopiesOne
    <3> QED
      BY <3>1, <3>2
  <2> QED
    BY <2>2, <2>3, BackupChanges
<1> QED
  BY <1>1, <1>2

-----------------------------------------------------------------------------
(* What is given up and what is kept                                       *)

\* What was given up, put aside or written over stays so, and what is in the
\* clone stays there or is put aside.
LEMMA HistoryGrows ==
  ASSUME [Next]_vars
  PROVE  /\ given \subseteq given' /\ superseded \subseteq superseded' /\ putAside \subseteq putAside'
         /\ edits \subseteq edits' \cup putAside'
BY DEF Next, vars, Start, Fetch, Download, Backup, RemoveOld, Link, Leave, Stop, Write, TimePasses

\* A run keeps its script, its mode and its time; it comes to a name once, and
\* has made the backup of the name it was at when it goes on.
LEMMA RunGoesOn ==
  ASSUME TypeOK, RunFits, [Next]_vars, run.step # "idle", run'.step # "idle"
  PROVE  /\ run'.script = run.script /\ run'.mode = run.mode /\ run'.stamp = run.stamp
         /\ \A i \in Nat : ToDo(i)' => ToDo(i)
         /\ \A source : Copies(source) => UNCHANGED backup \/ (run'.step = "remove" /\ run'.at = run.at)
<1>1. /\ run.at \in Nat
      /\ run = [script |-> run.script, mode |-> run.mode, stamp |-> run.stamp,
                at |-> run.at, step |-> run.step, kept |-> run.kept]
  BY DEF TypeOK
<1>2. CASE Fetch
  <2>1. run.step = "fetch" /\ (run' = NextName(run) \/ run' = [run EXCEPT !.step = "failed"])
    BY <1>2 DEF Fetch
  <2>2. \/ /\ run'.at = run.at + 1 \/ (run'.at = run.at /\ run'.step = "finished")
           /\ run'.script = run.script /\ run'.mode = run.mode /\ run'.stamp = run.stamp
        \/ run' = [run EXCEPT !.step = "failed"]
    BY <2>1, NextNameFits
  <2> QED
    BY <1>1, <2>1, <2>2 DEF ToDo, Copies
<1>3. CASE Link
  <2>1. run.step = "link" /\ (run' = NextName(run) \/ run' = [run EXCEPT !.step = "failed"])
    BY <1>3 DEF Link
  <2>2. \/ /\ run'.at = run.at + 1 \/ (run'.at = run.at /\ run'.step = "finished")
           /\ run'.script = run.script /\ run'.mode = run.mode /\ run'.stamp = run.stamp
        \/ run' = [run EXCEPT !.step = "failed"]
    BY <2>1, NextNameFits
  <2> QED
    BY <1>1, <2>1, <2>2 DEF ToDo, Copies
<1>4. CASE Download
  BY <1>1, <1>4 DEF Download, ToDo, Copies
<1>5. CASE Backup
  BY <1>1, <1>5 DEF Backup, ToDo, Copies
<1>6. CASE RemoveOld
  <2>1. run.step = "remove" /\ UNCHANGED backup
    BY <1>6 DEF RemoveOld
  <2>2. /\ run'.script = run.script /\ run'.mode = run.mode /\ run'.stamp = run.stamp
        /\ run'.at = run.at /\ run'.step = "link"
    BY <1>6, RunAfterRemove
  <2> QED
    BY <1>1, <2>1, <2>2 DEF ToDo
<1>7. CASE Leave \/ Stop
  BY <1>7 DEF Leave, Stop, NotRunning
<1>8. CASE (\E script \in Scripts : \E mode \in Modes(script) : Start(script, mode))
           \/ (\E f \in Home : Write(f)) \/ TimePasses
  BY <1>8 DEF Start, Write, TimePasses
<1>9. CASE UNCHANGED vars
  <2>1. UNCHANGED <<run, backup>>
    BY <1>9 DEF vars
  <2> QED
    BY <2>1 DEF ToDo
<1> QED
  BY <1>2, <1>3, <1>4, <1>5, <1>6, <1>7, <1>8, <1>9 DEF Next

\* A script starts only where none runs.
LEMMA RunStarts ==
  ASSUME RunFits, [Next]_vars, run.step = "idle", run'.step # "idle"
  PROVE  \E script \in Scripts : \E mode \in Modes(script) : Start(script, mode)
BY DEF Next, vars, Fetch, Download, Backup, RemoveOld, Link, Leave, Stop, Write, TimePasses

LEMMA OldBackupsGivenUpStep ==
  ASSUME TypeOK, RunFits, BackupsDated, OldBackupsGivenUp, [Next]_vars
  PROVE  OldBackupsGivenUp'
<1> SUFFICES ASSUME run'.step # "idle", run'.stamp \in Stamps,
                    NEW i \in 1..Len(Touched(run'.script)), NEW f, f = Touched(run'.script)[i], ToDo(i)',
                    backup'[f][run'.stamp].kind = "file"
             PROVE  backup'[f][run'.stamp].holds \subseteq given'
  BY DEF OldBackupsGivenUp, Touched
<1>1. f \in Home
  BY ToSetOfTouched
<1>2. CASE run.step = "idle"
  <2>1. PICK script \in Scripts : \E mode \in Modes(script) : Start(script, mode)
    BY <1>2, RunStarts
  <2>2. run'.stamp = <<script, minute>> /\ UNCHANGED backup
    BY <2>1 DEF Start
  <2>3. run'.stamp \in stamps
    BY <1>1, <2>2 DEF BackupsDated, Nothing
  <2>4. UNION {x.holds : x \in {y \in {backup[g][<<script, minute>>] : g \in Home} : y.kind = "file"}}
          \subseteq given'
    BY <2>1, <2>2, <2>3 DEF Start
  <2> QED
    BY <1>1, <2>2, <2>4
<1>3. CASE run.step # "idle"
  <2>0. i \in Nat /\ run'.script = run.script
    BY <1>3, RunGoesOn, ToSetOfTouched
  <2>1. run'.stamp = run.stamp /\ ToDo(i)
    BY <1>3, <2>0, RunGoesOn
  <2>2. backup'[f][run.stamp] = backup[f][run.stamp]
    <3>1. ASSUME NEW source, Copies(source), ~UNCHANGED backup PROVE backup'[f][run.stamp] = backup[f][run.stamp]
      <4>1. run'.step = "remove" /\ run'.at = run.at
        BY <1>3, <3>1, RunGoesOn
      <4>2. i > run.at /\ run.at \in Nat
        BY <4>1 DEF ToDo, TypeOK
      <4>3. At(run) = Touched(run.script)[run.at] /\ run.at \in 1..Len(Touched(run.script))
        BY <3>1, AtFits DEF Copies, InLoop
      <4>4. f # At(run)
        BY <2>0, <4>2, <4>3, ToSetOfTouched
      <4> QED
        BY <1>1, <2>1, <3>1, <4>4, CopiesOne
    <3> QED
      BY <3>1, BackupChanges
  <2>3. backup[f][run.stamp].holds \subseteq given
    BY <1>3, <2>0, <2>1, <2>2 DEF OldBackupsGivenUp
  <2> QED
    BY <2>1, <2>2, <2>3, HistoryGrows
<1> QED
  BY <1>2, <1>3

LEMMA RemovedIsKeptStep ==
  ASSUME TypeOK, RunFits, TextsInFiles, DirsCopyIn, RemovedIsKept, [Next]_vars
  PROVE  RemovedIsKept'
<1>1. ASSUME run'.step # "idle", run'.script # "download", NEW f \in ToSet(Touched(run'.script)),
             ~BacksUp(run'.script, run'.mode, f)
      PROVE  home'[f].holds \subseteq given'
  <2>1. f \in Home
    BY ToSetOfTouched
  <2>2. CASE run.step = "idle"
    <3>1. PICK script \in Scripts : \E mode \in Modes(script) : Start(script, mode)
      BY <1>1, <2>2, RunStarts
    <3> PICK mode \in Modes(script) : Start(script, mode)
      BY <3>1
    <3>2. run'.script = script /\ run'.mode = mode /\ UNCHANGED home
      BY DEF Start
    <3>3. UNION {HomeTexts(g) : g \in {h \in ToSet(Touched(script)) : ~BacksUp(script, mode, h)}} \subseteq given'
      BY <1>1, <3>2 DEF Start
    <3> QED
      BY <1>1, <3>2, <3>3 DEF HomeTexts
  <2>3. CASE run.step # "idle"
    <3>1. run'.script = run.script /\ run'.mode = run.mode
      BY <1>1, <2>3, RunGoesOn
    <3>2. home[f].holds \subseteq given
      BY <1>1, <2>3, <3>1 DEF RemovedIsKept
    <3>3. home'[f].holds \subseteq home[f].holds
      <4>1. ASSUME NEW x, Replaces(x) PROVE home'[f].holds \subseteq home[f].holds
        <5>1. x.holds = {}
          BY <4>1 DEF Replaces, Nothing, Ours
        <5> QED
          BY <2>1, <4>1, <5>1, ReplacesOne
      <4>2. ~\E g \in Home : Write(g)
        BY <2>3 DEF Write
      <4> QED
        BY <4>1, <4>2, HomeChanges
    <3> QED
      BY <3>2, <3>3, HistoryGrows
  <2> QED
    BY <2>2, <2>3
<1>2. ASSUME run'.step = "remove", BacksUp(run'.script, run'.mode, At(run')), Seen(run.script, At(run))'
      PROVE  home'[At(run')].holds \subseteq given' \cup backup'[At(run')][run'.stamp].holds
  <2>1. CASE Backup
    <3>1. InLoop /\ run.step = "backup" /\ run' = [run EXCEPT !.step = "remove"] /\ UNCHANGED <<home, repo>>
      BY <2>1 DEF Backup, InLoop
    <3>2. run'.script = run.script /\ run'.mode = run.mode /\ run'.stamp = run.stamp /\ run'.at = run.at
      BY <3>1 DEF TypeOK
    <3>3. At(run') = At(run)
      BY <3>2 DEF At
    <3>4. Seen(run.script, At(run)) /\ BacksUp(run.script, run.mode, At(run))
      BY <1>2, <3>1, <3>2, <3>3 DEF Seen, Exists
    <3>5. CASE backup' = [backup EXCEPT ![At(run)][run.stamp] = Copied(home[At(run)], @)]
      <4>1. home[At(run)] \in Things
        BY <3>1, AtFits DEF TypeOK
      <4>2. Copies(home[At(run)])
        BY <2>1, <3>1, <3>4, <3>5, <4>1 DEF Copies, Backup
      <4>3. /\ At(run) \in Home /\ run.stamp \in Stamps /\ run.stamp[2] = minute
            /\ backup[At(run)][run.stamp] \in Things
        BY <4>2, CopiesOne
      <4>4. home[At(run)].holds \subseteq Copied(home[At(run)], backup[At(run)][run.stamp]).holds
        BY <4>1, <4>3, CopiedKeeps DEF DirsCopyIn, TextsInFiles
      <4> QED
        BY <3>1, <3>2, <3>3, <4>2, <4>4, CopiesOne
    <3>6. CASE given' = given \cup HomeTexts(At(run))
      BY <3>1, <3>3, <3>6 DEF HomeTexts
    <3> QED
      BY <2>1, <3>4, <3>5, <3>6 DEF Backup
  <2>2. CASE UNCHANGED vars
    <3>1. UNCHANGED <<run, home, repo, given, backup>>
      BY <2>2 DEF vars
    <3> QED
      BY <1>2, <3>1 DEF RemovedIsKept, Seen, Exists
  <2>3. Backup \/ UNCHANGED vars
    <3>1. CASE run.step = "idle"
      <4>1. \E script \in Scripts : \E mode \in Modes(script) : Start(script, mode)
        BY <1>2, <3>1, RunStarts
      <4>2. run'.step = "fetch"
        BY <4>1 DEF Start
      <4> QED
        BY <1>2, <4>2
    <3>2. CASE run.step # "idle"
      <4>1. CASE Fetch \/ Link
        <5>1. run'.step \in {"backup", "finished", "failed"}
          BY <4>1, NextNameFits DEF Fetch, Link, TypeOK
        <5> QED
          BY <1>2, <5>1
      <4>2. CASE Download \/ RemoveOld
        BY <1>2, <4>2, RunAfterRemove DEF Download, TypeOK
      <4>3. CASE Leave \/ Stop
        BY <1>2, <4>3 DEF Leave, Stop, NotRunning
      <4> QED
        BY <3>2, <4>1, <4>2, <4>3 DEF Next, Start, Write, TimePasses
    <3> QED
      BY <3>1, <3>2
  <2> QED
    BY <2>1, <2>2, <2>3
<1> QED
  BY <1>1, <1>2 DEF RemovedIsKept, Seen, Exists, BacksUp, Touched, At

-----------------------------------------------------------------------------
(* Nothing is lost                                                         *)

\* Where a text may be, or what became of it.
Accounted(text) ==
  \/ text \in superseded \cup given \cup edits \cup putAside
  \/ \E f \in Home : text \in home[f].holds
  \/ \E f \in Home, s \in Stamps : text \in backup[f][s].holds

LEMMA NothingLostMeans ==
  /\ NothingLost <=> \A text \in 1..written : Accounted(text)
  /\ NothingLost' <=> \A text \in 1..written' : Accounted(text)'
BY DEF NothingLost, Accounted

LEMMA HomeTextsKept ==
  ASSUME KeepInv, [Next]_vars, NEW f \in Home, NEW text \in home[f].holds
  PROVE  Accounted(text)'
<1>1. CASE text \in home'[f].holds
  BY <1>1 DEF Accounted
<1>2. ASSUME text \notin home'[f].holds, NEW x, Replaces(x) PROVE Accounted(text)'
  <2>1. f = At(run) /\ home'[f] = x /\ x \in {Nothing, Ours, x}
    BY <1>2, ReplacesOne DEF KeepInv
  <2>2. TypeOK /\ RunFits /\ InLoop /\ home[f] \in Things
    BY <1>2, <2>1, ReplacesOne DEF Replaces, KeepInv
  <2>3. home[f].kind \in {"file", "dir"}
    BY DEF KeepInv, TextsInFiles, Textless
  <2>4. run.step = "remove" /\ Seen(run.script, f)
    BY <1>2, <2>1, <2>3 DEF Replaces, Seen, Exists
  <2>5. CASE BacksUp(run.script, run.mode, f)
    <3>1. run.stamp \in Stamps
      BY <2>1, <2>2, <2>5, AtFits
    <3>2. text \in given \cup backup[f][run.stamp].holds
      BY <2>1, <2>4, <2>5 DEF KeepInv, RemovedIsKept
    <3>3. UNCHANGED backup /\ given \subseteq given'
      BY <1>2, HistoryGrows DEF Replaces
    <3> QED
      BY <3>1, <3>2, <3>3 DEF Accounted
  <2>6. CASE ~BacksUp(run.script, run.mode, f)
    <3>1. f \in ToSet(Touched(run.script))
      BY <2>1, <2>2, AtFits
    <3>2. run.step # "idle" /\ run.script # "download"
      BY <2>2, <2>4 DEF RunFits
    <3>3. text \in given
      BY <2>6, <3>1, <3>2 DEF KeepInv, RemovedIsKept
    <3> QED
      BY <3>3, HistoryGrows DEF Accounted
  <2> QED
    BY <2>5, <2>6
<1>3. ASSUME text \notin home'[f].holds, NEW g \in Home, Write(g) PROVE Accounted(text)'
  <2>1. f = g
    BY <1>1, <1>3, WritesOne DEF KeepInv
  <2>2. text \in superseded'
    BY <1>3, <2>1 DEF Write
  <2> QED
    BY <2>2 DEF Accounted
<1> QED
  BY <1>1, <1>2, <1>3, HomeChanges DEF KeepInv

LEMMA BackupTextsKept ==
  ASSUME KeepInv, [Next]_vars, NEW f \in Home, NEW s \in Stamps, NEW text \in backup[f][s].holds
  PROVE  Accounted(text)'
<1>1. CASE text \in backup'[f][s].holds
  BY <1>1 DEF Accounted
<1>2. ASSUME text \notin backup'[f][s].holds, NEW source, Copies(source) PROVE Accounted(text)'
  <2>1. f = At(run) /\ s = run.stamp
    BY <1>2, CopiesOne DEF KeepInv
  <2>2. /\ backup'[f][s] = Copied(source, backup[f][s]) /\ backup[f][s] \in Things
        /\ source \in Things /\ run.step = "backup"
    BY <1>2, <2>1, CopiesOne DEF KeepInv, Copies
  <2>3. backup[f][s].kind = "file"
    BY <1>2, <2>2, CopiedKeeps DEF KeepInv, TextsInFiles
  <2>4. f = Touched(run.script)[run.at] /\ run.at \in 1..Len(Touched(run.script))
    BY <2>1, <2>2, AtFits DEF KeepInv, InLoop
  <2>5. text \in given
    BY <2>1, <2>2, <2>3, <2>4 DEF KeepInv, OldBackupsGivenUp, ToDo
  <2> QED
    BY <2>5, HistoryGrows DEF Accounted
<1> QED
  BY <1>1, <1>2, BackupChanges DEF KeepInv

LEMMA NothingLostStep ==
  ASSUME KeepInv, [Next]_vars
  PROVE  NothingLost'
<1>1. ASSUME NEW text, Accounted(text) PROVE Accounted(text)'
  <2>1. CASE text \in superseded \cup given \cup edits \cup putAside
    BY <2>1, HistoryGrows DEF Accounted
  <2>2. CASE \E f \in Home : text \in home[f].holds
    BY <2>2, HomeTextsKept
  <2>3. CASE \E f \in Home, s \in Stamps : text \in backup[f][s].holds
    BY <2>3, BackupTextsKept
  <2> QED
    BY <1>1, <2>1, <2>2, <2>3 DEF Accounted
<1>2. \A text \in 1..written : Accounted(text)
  BY NothingLostMeans DEF KeepInv
<1>3. ASSUME NEW f \in Home, Write(f), NEW text, text = written + 1
      PROVE  written' = text /\ Accounted(text)'
  <2>1. written' = text
    BY <1>3 DEF Write
  <2>2. \/ text \in edits'
        \/ \E kind \in {"file", "dir"} : home' = [home EXCEPT ![f] = [kind |-> kind, holds |-> {text}]]
    BY <1>3 DEF Write
  <2>3. home \in [Home -> Things]
    BY DEF KeepInv, TypeOK
  <2>4. text \in edits' \/ text \in home'[f].holds
    BY <2>2, <2>3
  <2> QED
    BY <2>1, <2>4 DEF Accounted
<1>4. (~\E f \in Home : Write(f)) => written' = written
  BY DEF Next, vars, Start, Fetch, Download, Backup, RemoveOld, Link, Leave, Stop, TimePasses
<1>5. \A text \in 1..written' : Accounted(text)'
  <2> SUFFICES ASSUME NEW text \in 1..written' PROVE Accounted(text)'
    OBVIOUS
  <2>1. written \in Nat
    BY DotfilesAssumption DEF KeepInv, TypeOK
  <2>2. CASE text \in 1..written
    BY <1>1, <1>2, <2>2
  <2>3. CASE text \notin 1..written
    <3>1. PICK f \in Home : Write(f)
      BY <1>4, <2>3
    <3>2. written' = written + 1
      BY <3>1 DEF Write
    <3>3. text = written + 1
      BY <2>1, <2>3, <3>2
    <3> QED
      BY <1>3, <3>1, <3>3
  <2> QED
    BY <2>2, <2>3
<1> QED
  BY <1>5, NothingLostMeans

LEMMA KeepInvAtStart == Init => KeepInv
<1> SUFFICES ASSUME Init PROVE KeepInv
  OBVIOUS
<1>1. TypeOK
  BY TypesAtStart
<1>2. run = NotRunning /\ run.step = "idle"
  BY DEF Init, NotRunning
<1>3. \A f \in Home : home[f] \in {Nothing, Foreign} /\ \A s \in Stamps : backup[f][s] = Nothing
  BY DEF Init
<1>4. RunFits
  BY <1>2 DEF RunFits, InLoop
<1>5. TextsInFiles
  BY <1>3 DEF TextsInFiles, Textless, Nothing, Foreign
<1>6. BackupsDated
  BY <1>3 DEF BackupsDated, Init
<1>7. DirsCopyIn
  BY <1>3 DEF DirsCopyIn, Nothing, Foreign
<1>8. OldBackupsGivenUp /\ RemovedIsKept
  BY <1>2 DEF OldBackupsGivenUp, RemovedIsKept
<1>9. NothingLost
  BY DEF NothingLost, Init
<1> QED
  BY <1>1, <1>4, <1>5, <1>6, <1>7, <1>8, <1>9 DEF KeepInv

LEMMA KeepInvStep == KeepInv /\ [Next]_vars => KeepInv'
<1> SUFFICES ASSUME KeepInv, [Next]_vars PROVE KeepInv'
  OBVIOUS
<1>1. TypeOK /\ RunFits /\ TextsInFiles /\ BackupsDated /\ DirsCopyIn /\ OldBackupsGivenUp /\ RemovedIsKept
  BY DEF KeepInv
<1>2. TypeOK' /\ RunFits' /\ TextsInFiles'
  BY <1>1, TypeStep, RunFitsStep, TextsInFilesStep
<1>3. BackupsDated' /\ DirsCopyIn'
  BY <1>1, BackupsDatedStep, DirsCopyInStep
<1>4. OldBackupsGivenUp' /\ RemovedIsKept' /\ NothingLost'
  BY <1>1, OldBackupsGivenUpStep, RemovedIsKeptStep, NothingLostStep
<1> QED
  BY <1>2, <1>3, <1>4 DEF KeepInv

LEMMA KeepInvHolds == Spec => []KeepInv
<1>1. Init => KeepInv
  BY KeepInvAtStart
<1>2. KeepInv /\ [Next]_vars => KeepInv'
  BY KeepInvStep
<1> QED
  BY <1>1, <1>2, PTL DEF Spec

\* Whatever scripts are run in whatever modes, stopped anywhere and run again,
\* in the same minute or later: a text the user wrote is at its name, in a
\* backup, in the clone or in a clone put aside, unless the user wrote over it
\* or gave it up.
THEOREM NothingIsLost == Spec => []NothingLost
<1>1. KeepInv => NothingLost
  BY DEF KeepInv
<1> QED
  BY <1>1, KeepInvHolds, PTL

-----------------------------------------------------------------------------
(* An install that is not stopped is complete                              *)

LEMMA BinIsThereStep ==
  ASSUME TypeOK, RunFits, BinIsThere, [Next]_vars
  PROVE  BinIsThere'
<1> SUFFICES ASSUME NEW f \in Bin, home'[f].kind # "none" PROVE binDir' = "dir"
  BY DEF BinIsThere
<1>1. f \in Home
  <2>1. PICK i \in 1..Len(BinNames) : BinNames[i] = f
    BY DotfilesAssumption DEF Bin, ToSet
  <2>2. Len(DotNames) + i \in 1..Len(Names) /\ Names[Len(DotNames) + i] = f
    BY <2>1, NamesAre
  <2> QED
    BY <2>2, NamesDistinct
<1>2. binDir = "dir" => binDir' = "dir"
  BY DEF Next, vars, Start, Fetch, Download, Backup, RemoveOld, Link, Leave, Stop, Write, TimePasses
<1>3. CASE home[f].kind # "none"
  BY <1>2, <1>3 DEF BinIsThere
<1>4. ASSUME home[f].kind = "none", NEW x, Replaces(x) PROVE binDir' = "dir"
  <2>1. f = At(run) /\ x.kind # "none"
    BY <1>1, <1>4, ReplacesOne
  <2>2. run.step = "link" /\ home'[f] = Ours
    BY <1>4, <2>1, ReplacesOne DEF Replaces, Nothing
  <2>3. home' # home
    BY <1>4, <2>2 DEF Ours
  <2>4. Link
    BY <2>2, <2>3 DEF Next, vars, Start, Fetch, Download, Backup, RemoveOld, Leave, Stop, Write, TimePasses
  <2> QED
    BY <2>1, <2>3, <2>4 DEF Link
<1>5. ASSUME home[f].kind = "none", NEW g \in Home, Write(g) PROVE binDir' = "dir"
  <2>1. g = f
    BY <1>1, <1>5, WritesOne
  <2>2. home' # home
    BY <1>5
  <2> QED
    BY <1>5, <2>1, <2>2 DEF Write
<1>6. CASE UNCHANGED home
  BY <1>3, <1>6
<1> QED
  BY <1>3, <1>4, <1>5, <1>6, HomeChanges

\* What an ln of install_mydotfiles.sh does: it makes its link, or one inside a
\* directory that is still there, or is refused by a file that is still there or
\* for want of ~/bin.
LEMMA LinkOutcomes ==
  ASSUME TypeOK, RunFits, LinkedSoFar, run.script = "install", Link
  PROVE  /\ binDir' = IF At(run) \in Bin /\ binDir = "absent" THEN "dir" ELSE binDir
         /\ \/ /\ home' = [home EXCEPT ![At(run)] = Ours] /\ run' = NextName(run)
               /\ At(run) \in Bin => binDir' = "dir"
            \/ /\ home' = home /\ run' = NextName(run)
               /\ At(run) \in run.kept /\ home[At(run)].kind = "dir"
            \/ /\ home' = home /\ run' = [run EXCEPT !.step = "failed"]
               /\ \/ At(run) \in run.kept /\ home[At(run)].kind = "file"
                  \/ At(run) \in Bin /\ binDir' = "blocked"
<1>1. /\ home[At(run)].kind \in {"none", "file", "dir"}
      /\ home[At(run)].kind = "none" \/ At(run) \in run.kept
      /\ binDir \in {"absent", "dir", "blocked"}
  BY DEF LinkedSoFar, Link, TypeOK
<1>2. binDir' = IF At(run) \in Bin /\ binDir = "absent" THEN "dir" ELSE binDir
  BY DEF Link
<1>3. CASE home[At(run)].kind = "none" /\ (At(run) \in Bin => binDir' = "dir")
  BY <1>2, <1>3 DEF Link
<1>4. CASE home[At(run)].kind = "none" /\ At(run) \in Bin /\ binDir' # "dir"
  BY <1>1, <1>2, <1>4 DEF Link
<1>5. CASE home[At(run)].kind = "file"
  BY <1>1, <1>2, <1>5 DEF Link
<1>6. CASE home[At(run)].kind = "dir"
  BY <1>1, <1>2, <1>6 DEF Link
<1> QED
  BY <1>1, <1>3, <1>4, <1>5, <1>6

LEMMA LinkedSoFarStep ==
  ASSUME TypeOK, RunFits, BinIsThere, LinkedSoFar, [Next]_vars
  PROVE  LinkedSoFar'
<1> SUFFICES ASSUME run'.script = "install"
             PROVE  /\ InLoop' => \A i \in 1..(run'.at - 1) : Linked(Names[i])'
                    /\ run'.step = "finished" => \A f \in Home : Linked(f)'
                    /\ run'.step = "link" => home'[At(run')].kind = "none" \/ At(run') \in run'.kept
                    /\ run'.step = "link" => home'[At(run')].kind \in {"none", "file", "dir"}
                    /\ (InLoop' /\ run'.at > Len(DotNames) + 1) \/ run'.step = "finished" => binDir' = "dir"
                    /\ run'.step = "failed" =>
                         \/ run'.at = 0
                         \/ At(run') \in run'.kept /\ home'[At(run')].kind = "file"
                         \/ At(run') \in Bin /\ binDir' = "blocked"
  BY DEF LinkedSoFar, At, Touched
<1> USE DEF InLoop
<1>1. /\ run = [script |-> run.script, mode |-> run.mode, stamp |-> run.stamp,
               at |-> run.at, step |-> run.step, kept |-> run.kept]
      /\ run.at \in Nat /\ Len(DotNames) \in Nat /\ Len(BinNames) \in Nat /\ Len(BinNames) > 0
      /\ Len(Names) = Len(DotNames) + Len(BinNames)
      /\ Touched("install") = Names
  BY NamesAre DEF TypeOK, Touched
<1>2. CASE Fetch
  <2>1. run.step = "fetch" /\ run.at = 0 /\ UNCHANGED <<home, binDir>>
    BY <1>2 DEF Fetch, RunFits
  <2>2. CASE run' = NextName(run)
    <3>1. run.script = "install" /\ run'.at = 1 /\ run'.step = "backup"
      BY <1>1, <2>1, <2>2, NextNameFits
    <3> QED
      BY <1>1, <3>1
  <2>3. CASE run' = [run EXCEPT !.step = "failed"]
    BY <1>1, <2>1, <2>3
  <2> QED
    BY <1>2, <2>2, <2>3 DEF Fetch
<1>3. CASE Backup
  <2>1. run' = [run EXCEPT !.step = "remove"] /\ run.step = "backup" /\ UNCHANGED <<home, binDir>>
    BY <1>3 DEF Backup
  <2>2. run.script = "install" /\ run'.at = run.at /\ run'.step = "remove" /\ run'.kept = run.kept
    BY <1>1, <2>1
  <2> QED
    BY <2>1, <2>2 DEF LinkedSoFar, Linked
<1>4. CASE RemoveOld
  <2>1. run.step = "remove" /\ UNCHANGED binDir
    BY <1>4 DEF RemoveOld
  <2>2. /\ run.script = "install" /\ run'.at = run.at /\ run'.step = "link" /\ At(run') = At(run)
        /\ run.kept \subseteq run'.kept
    BY <1>4, RunAfterRemove
  <2>3. /\ run.at \in 1..Len(Names) /\ At(run) = Names[run.at] /\ At(run) \in Home
        /\ home \in [Home -> Things]
    BY <2>1, <2>2, AtFits DEF TypeOK
  <2>4. \/ Seen("install", At(run)) /\ home' = [home EXCEPT ![At(run)] = Nothing]
        \/ ~Seen("install", At(run)) /\ home' = home
        \/ /\ At(run) \in run'.kept /\ home[At(run)].kind \in {"file", "dir"}
           /\ \/ home' = home
              \/ home' = [home EXCEPT ![At(run)] = [home[At(run)] EXCEPT !.holds = {}]]
    BY <1>4, <2>2, HomeAfterRemove
  <2>5. /\ home'[At(run)].kind = "none" \/ At(run) \in run'.kept
        /\ home'[At(run)].kind \in {"none", "file", "dir"}
    <3>1. CASE home' = [home EXCEPT ![At(run)] = Nothing]
      BY <2>3, <3>1 DEF Nothing
    <3>2. CASE ~Seen("install", At(run)) /\ home' = home
      <4>1. home[At(run)].kind \notin {"link", "gone", "file", "dir"}
        BY <3>2 DEF Seen, Exists, IsLink
      <4>2. home[At(run)].kind = "none"
        BY <2>3, <4>1 DEF Things
      <4> QED
        BY <3>2, <4>2
    <3>3. CASE At(run) \in run'.kept /\ home[At(run)].kind \in {"file", "dir"} /\ home' = home
      BY <3>3
    <3>4. CASE /\ At(run) \in run'.kept /\ home[At(run)].kind \in {"file", "dir"}
               /\ home' = [home EXCEPT ![At(run)] = [home[At(run)] EXCEPT !.holds = {}]]
      <4>1. home'[At(run)].kind = home[At(run)].kind
        BY <2>3, <3>4, PartialThing
      <4> QED
        BY <3>4, <4>1
    <3> QED
      BY <2>4, <3>1, <3>2, <3>3, <3>4
  <2>6. \A i \in 1..(run.at - 1) : Linked(Names[i])'
    <3> SUFFICES ASSUME NEW i \in 1..(run.at - 1) PROVE Linked(Names[i])'
      OBVIOUS
    <3>1. i \in 1..Len(Names) /\ i # run.at
      BY <2>3
    <3>2. Names[i] # At(run) /\ Names[i] \in Home
      BY <2>3, <3>1, NamesDistinct
    <3>3. Linked(Names[i])
      BY <2>1, <2>2 DEF LinkedSoFar
    <3>4. home'[Names[i]] = home[Names[i]]
      BY <2>3, <2>4, <3>2
    <3> QED
      BY <2>2, <3>3, <3>4 DEF Linked
  <2>7. run.at > Len(DotNames) + 1 => binDir' = "dir"
    BY <2>1, <2>2 DEF LinkedSoFar
  <2> QED
    BY <2>2, <2>5, <2>6, <2>7
<1>5. CASE Link
  <2>1. run.step = "link"
    BY <1>5 DEF Link
  <2>2. run.script = "install" /\ run'.kept = run.kept
    BY <1>5, <1>1, NextNameFits DEF Link
  <2>3. /\ run.at \in 1..Len(Names) /\ At(run) = Names[run.at] /\ At(run) \in Home
        /\ home \in [Home -> Things]
    BY <2>1, <2>2, AtFits DEF TypeOK
  <2>4. CASE run' = [run EXCEPT !.step = "failed"] /\ run' # NextName(run)
    <3>1. run'.step = "failed" /\ run'.at = run.at /\ At(run') = At(run)
      BY <1>1, <2>4 DEF At
    <3>2. /\ home' = home
          /\ \/ At(run) \in run.kept /\ home[At(run)].kind = "file"
             \/ At(run) \in Bin /\ binDir' = "blocked"
      BY <1>5, <2>2, <2>4, LinkOutcomes
    <3> QED
      BY <2>2, <3>1, <3>2
  <2>5. CASE run' = NextName(run)
    <3>1. \/ run'.at = run.at + 1 /\ run'.step = "backup"
          \/ run'.at = Len(Names) /\ run.at = Len(Names) /\ run'.step = "finished"
      BY <1>1, <2>2, <2>5, NextNameFits
    <3>2. \/ home' = [home EXCEPT ![At(run)] = Ours] /\ (At(run) \in Bin => binDir' = "dir")
          \/ home' = home /\ At(run) \in run.kept /\ home[At(run)].kind = "dir"
      <4>1. run' # [run EXCEPT !.step = "failed"]
        BY <1>1, <3>1
      <4> QED
        BY <1>5, <2>2, <4>1, LinkOutcomes
    <3>3. \A i \in 1..run.at : Linked(Names[i])'
      <4> SUFFICES ASSUME NEW i \in 1..run.at PROVE Linked(Names[i])'
        OBVIOUS
      <4>1. Names[i] \in Home
        BY <2>3, NamesDistinct
      <4>2. CASE Names[i] = At(run)
        BY <2>2, <2>3, <3>2, <4>2 DEF Linked
      <4>3. CASE Names[i] # At(run)
        <5>1. i \in 1..(run.at - 1)
          BY <2>3, <4>3
        <5>2. Linked(Names[i])
          BY <2>1, <2>2, <5>1 DEF LinkedSoFar
        <5>3. home'[Names[i]] = home[Names[i]]
          BY <2>3, <3>2, <4>1, <4>3
        <5> QED
          BY <2>2, <5>2, <5>3 DEF Linked
      <4> QED
        BY <4>2, <4>3
    <3>4. run.at > Len(DotNames) => binDir' = "dir"
      <4>1. run.at > Len(DotNames) => At(run) \in Bin
        BY <2>3, NamesDistinct
      <4>2. binDir = "dir" => binDir' = "dir"
        BY <1>5 DEF Link
      <4> QED
        BY <3>2, <4>1, <4>2 DEF BinIsThere
    <3>5. run'.step = "finished" => \A f \in Home : Linked(f)'
      BY <3>1, <3>3, NamesDistinct
    <3> QED
      BY <1>1, <3>1, <3>3, <3>4, <3>5
  <2> QED
    BY <1>5, <2>4, <2>5 DEF Link
<1>6. CASE Download
  BY <1>1, <1>6 DEF Download
<1>7. CASE Leave \/ Stop
  BY <1>7 DEF Leave, Stop, NotRunning
<1>8. ASSUME NEW script \in Scripts, NEW mode \in Modes(script), Start(script, mode)
      PROVE  run'.step = "fetch"
  BY <1>8 DEF Start
<1>9. CASE (\E f \in Home : Write(f)) \/ TimePasses
  BY <1>9 DEF Write, TimePasses, RunFits, NotRunning
<1>10. CASE UNCHANGED vars
  <2>1. UNCHANGED <<run, home, binDir>>
    BY <1>10 DEF vars
  <2> QED
    BY <2>1 DEF LinkedSoFar, Linked
<1> QED
  BY <1>2, <1>3, <1>4, <1>5, <1>6, <1>7, <1>8, <1>9, <1>10 DEF Next

LEMMA CloneKnownStep ==
  ASSUME TypeOK, RunFits, CloneKnown, [Next]_vars
  PROVE  CloneKnown'
<1>1. repo' = "partial" => badClone'
  BY DEF CloneKnown, Next, vars, Start, Fetch, Download, Clone, Backup, RemoveOld, Link, Leave, Stop, Write,
         TimePasses
<1>2. ASSUME run'.script = "install", InLoop' \/ run'.step = "finished", ~badClone'
      PROVE  repo' = "whole"
  <2>1. CASE Fetch
    <3>1. UNCHANGED <<repo, badClone>> \/ Clone
      BY <2>1 DEF Fetch
    <3>2. CASE Clone
      BY <1>2, <3>2 DEF Clone
    <3>3. CASE UNCHANGED <<repo, badClone>> /\ ~Clone
      <4>1. run' # [run EXCEPT !.step = "failed"]
        BY <1>2 DEF InLoop, TypeOK
      <4>2. run' = NextName(run)
        BY <2>1, <4>1 DEF Fetch
      <4>3. repo # "absent"
        <5>1. run.script # "cygwin"
          BY <1>2, <4>2, NextNameFits
        <5> QED
          BY <2>1, <3>3, <4>1, <5>1 DEF Fetch
      <4> QED
        BY <1>2, <3>3, <4>3 DEF CloneKnown, TypeOK
    <3> QED
      BY <3>1, <3>2, <3>3
  <2>2. CASE Link
    <3>1. UNCHANGED <<repo, badClone>> /\ run.step = "link" /\ run'.script = run.script
      BY <2>2, NextNameFits DEF Link, TypeOK
    <3> QED
      BY <1>2, <3>1 DEF CloneKnown, InLoop
  <2>3. CASE Backup \/ RemoveOld
    <3>1. /\ UNCHANGED <<repo, badClone>> /\ run.step \in {"backup", "remove"}
          /\ run'.script = run.script
      BY <2>3, RunAfterRemove DEF Backup, RemoveOld, TypeOK
    <3> QED
      BY <1>2, <3>1 DEF CloneKnown, InLoop
  <2>4. CASE Download
    BY <1>2, <2>4 DEF Download, TypeOK
  <2>5. CASE Leave \/ Stop
    BY <1>2, <2>5 DEF Leave, Stop, NotRunning
  <2>6. ASSUME NEW script \in Scripts, NEW mode \in Modes(script), Start(script, mode)
        PROVE  run'.step = "fetch"
    BY <2>6 DEF Start
  <2>7. CASE (\E f \in Home : Write(f)) \/ TimePasses
    BY <1>2, <2>7 DEF Write, TimePasses, RunFits, NotRunning
  <2>8. CASE UNCHANGED vars
    BY <1>2, <2>8 DEF vars, CloneKnown, InLoop
  <2> QED
    BY <1>2, <2>1, <2>2, <2>3, <2>4, <2>5, <2>6, <2>7, <2>8 DEF Next, InLoop
<1> QED
  BY <1>1, <1>2 DEF CloneKnown, InLoop

LEMMA IInvHolds == Spec => []IInv
<1>1. Init => BinIsThere /\ LinkedSoFar /\ CloneKnown
  BY DEF Init, BinIsThere, LinkedSoFar, CloneKnown, NotRunning, Nothing
<1>2. Init => IInv
  BY <1>1, KeepInvAtStart DEF IInv
<1>3. IInv /\ [Next]_vars => IInv'
  BY KeepInvStep, BinIsThereStep, LinkedSoFarStep, CloneKnownStep DEF IInv, KeepInv
<1> QED
  BY <1>2, <1>3, PTL DEF Spec

\* Whatever scripts ran before, however they ended: an install_mydotfiles.sh that
\* gets its packages has no ln refused, unless rm -rf failed on a file or ~/bin is
\* not a directory, and one that reaches its end has every name linked but for
\* directories rm -rf failed on, to where something is unless git clone failed or
\* was stopped.
THEOREM InstallIsComplete == Spec => []InstallComplete
<1>1. IInv => InstallComplete
  <2> SUFFICES ASSUME IInv PROVE InstallComplete
    OBVIOUS
  <2>1. TypeOK /\ LinkedSoFar /\ CloneKnown
    BY DEF IInv, KeepInv
  <2>2. InstallLinksAll
    BY <2>1 DEF InstallLinksAll, LinkedSoFar, Linked
  <2>3. LinksLead
    <3> SUFFICES ASSUME run.script = "install", run.step = "finished", ~badClone, NEW f \in Home
                 PROVE  Exists(f)
      BY DEF LinksLead
    <3>1. (home[f] = Ours \/ home[f].kind = "dir") /\ repo = "whole"
      BY <2>1 DEF LinkedSoFar, CloneKnown, Linked
    <3>2. CASE home[f].kind = "dir"
      BY <3>2 DEF Exists
    <3>3. CASE home[f].kind = "link"
      BY <3>1, <3>3 DEF Exists
    <3> QED
      BY <3>1, <3>2, <3>3 DEF Ours
  <2> QED
    BY <2>1, <2>2, <2>3 DEF InstallComplete
<1> QED
  BY <1>1, IInvHolds, PTL
=============================================================================
