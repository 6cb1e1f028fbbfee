------------------------------- MODULE Dotfiles --------------------------------
(***************************************************************************)
(* The scripts that put links to a clone of the dotfiles and to the        *)
(* repository's bin directory into a home directory:                       *)
(* src/my/install_mydotfiles.sh, lib/create_symbolic_link.sh,              *)
(* lib/download_dotfiles.sh and cygwin_setups/cygwin_setup_all.sh.         *)
(*                                                                         *)
(* Scripts run one after the other, may be stopped at any point and are    *)
(* run again; between them the user writes files, which takes a minute.    *)
(* What the user writes is a number; the same text is never written twice. *)
(***************************************************************************)
EXTENDS Naturals, Sequences, SequencesExt

CONSTANTS
  DotNames,   \* sequence: names install_mydotfiles.sh links into the clone
  BinNames,   \* sequence: names it links into bin
  SymlinkNames,  \* sequence: those of them that create_symbolic_link.sh links
  CygwinNames,   \* sequence: those that cygwin_setup_all.sh links
  Dirs,       \* the names that may be directories
  MaxRuns,    \* bound: runs of scripts
  MaxWrites,  \* bound: texts the user writes
  MaxMinutes  \* bound: of the clock

\* The lists in the scripts: no name is in one of them twice, and there is a bin
\* file.  install_mydotfiles.sh has every name of the others.
ASSUME DotfilesAssumption ==
  /\ DotNames \in Seq(ToSet(DotNames)) /\ IsInjective(DotNames)
  /\ BinNames \in Seq(ToSet(BinNames)) /\ IsInjective(BinNames) /\ BinNames # <<>>
  /\ SymlinkNames \in Seq(ToSet(DotNames \o BinNames)) /\ IsInjective(SymlinkNames)
  /\ CygwinNames \in Seq(ToSet(DotNames)) /\ IsInjective(CygwinNames)
  /\ ToSet(DotNames) \cap ToSet(BinNames) = {} /\ Dirs \subseteq ToSet(DotNames)
  /\ MaxRuns \in Nat /\ MaxWrites \in Nat /\ MaxMinutes \in Nat

VARIABLES
  home,        \* what is at each name
  backup,      \* what is at each name with a time behind it
  binDir,      \* ~/bin: "absent", "dir", or "blocked" by a file or a link to nowhere
  repo,        \* ~/.dotfiles: "absent", "partial" or "whole"
  edits,       \* what the user has written into the clone, through the links
  putAside,    \* what was in clones moved to ~/.dotfiles.DATETIME
  run,         \* the script that runs
  minute,      \* the clock
  runs, written,  \* counts
  stamps,      \* history: the times under which runs made backups
  superseded,  \* history: texts the user has written over
  given,       \* history: texts the user gave up by how a script was run, or that cp failed on
  badClone     \* history: a clone was stopped half way, or failed in this run
vars == <<home, backup, binDir, repo, edits, putAside, run, minute, runs, written, stamps,
          superseded, given, badClone>>

Names == DotNames \o BinNames
Home == ToSet(Names)
Bin == ToSet(BinNames)
Texts == 1..MaxWrites
Minutes == 0..MaxMinutes
Stamps == {"install", "symlink"} \X Minutes   \* the two scripts write the time differently

\* A file, a directory or a link, and the texts in it.
Nothing == [kind |-> "none", holds |-> {}]
Ours == [kind |-> "link", holds |-> {}]       \* into the clone or bin
Foreign == [kind |-> "gone", holds |-> {}]    \* a link to where nothing is any more

\* kept: history: the names at which the run's rm failed.
NotRunning == [script |-> "none", mode |-> "none", stamp |-> <<"none", 0>>, at |-> 0, step |-> "idle",
               kept |-> {}]

-----------------------------------------------------------------------------
(* The scripts' tests and the commands they use                            *)

IsLink(x) == x.kind \in {"link", "gone"}

\* test -e follows links.
Exists(f) ==
  CASE home[f].kind \in {"file", "dir"} -> TRUE
    [] home[f].kind = "link" -> f \in Bin \/ repo = "whole"
    [] home[f].kind \in {"none", "gone"} -> FALSE

\* Mutant of Seen: a link that leads nowhere is not noticed by install_mydotfiles.sh either.
SeenByExists(script, f) == Exists(f)

\* create_symbolic_link.sh does not notice a link that leads nowhere.
Seen(script, f) == Exists(f) \/ (script # "symlink" /\ IsLink(home[f]))

\* Which names a script replaces, in its order, and of which it makes a backup in
\* a mode; install_mydotfiles.sh takes its first argument for bin files too.
Touched(script) ==
  CASE script = "symlink" -> SymlinkNames
    [] script = "cygwin" -> CygwinNames
    [] OTHER -> Names
BacksUp(script, mode, f) ==
  CASE script = "install" -> mode = "backup"
    [] script = "symlink" -> mode \in {"backup", "no"} /\ f \notin Bin
    [] script = "cygwin" -> FALSE
Modes(script) ==
  CASE script = "install" -> {"backup", "no"}
    [] script = "symlink" -> {"yes", "backup", "no"}
    [] script = "cygwin" -> {"overwrite"}
    [] script = "download" -> {"none"}

\* cp -r onto what may be there from an earlier run in the same minute: into a
\* directory, over anything else, and a directory is not copied over a file.
Copied(source, target) ==
  CASE target.kind = "none" -> source
    [] target.kind = "dir" -> [target EXCEPT !.holds = @ \cup source.holds]
    [] OTHER -> IF source.kind = "dir" THEN target ELSE source

At(r) == Touched(r.script)[r.at]

\* Mutant of NextName: one name too many.
NextNameTooFar(r) ==
  IF r.at <= Len(Touched(r.script)) THEN [r EXCEPT !.at = @ + 1, !.step = "backup"]
  ELSE [r EXCEPT !.step = "finished"]

\* The first line of the loop for the next name.
NextName(r) ==
  IF r.at < Len(Touched(r.script)) THEN [r EXCEPT !.at = @ + 1, !.step = "backup"]
  ELSE [r EXCEPT !.step = "finished"]

-----------------------------------------------------------------------------
(* The steps of a script                                                   *)

HomeTexts(f) == home[f].holds

\* The user starts a script, and with it gives up what it will remove without a
\* backup; and what a backup of the same minute holds, unless it is a directory.
Start(script, mode) ==
  /\ run.step = "idle" /\ runs < MaxRuns /\ mode \in Modes(script)
  /\ runs' = runs + 1
  /\ run' = [script |-> script, mode |-> mode, stamp |-> <<script, minute>>, at |-> 0, step |-> "fetch",
            kept |-> {}]
  /\ stamps' = stamps \cup {<<script, minute>>}
  /\ given' = given
       \cup (IF script = "download" THEN {}
             ELSE UNION {HomeTexts(f) : f \in {g \in ToSet(Touched(script)) : ~BacksUp(script, mode, g)}})
       \cup (IF <<script, minute>> \in stamps \cap Stamps
             THEN UNION {x.holds : x \in {y \in {backup[f][<<script, minute>>] : f \in Home} : y.kind = "file"}}
             ELSE {})
  /\ badClone' = (badClone /\ repo = "partial")
  /\ UNCHANGED <<home, backup, binDir, repo, edits, putAside, minute, written, superseded>>

\* git clone, whose failure nobody notices.
Clone ==
  \/ repo' = "whole" /\ UNCHANGED badClone
  \/ repo' = "absent" /\ badClone' = TRUE

\* Mutant of Fetch: the links of an earlier run count as installed.
FetchUnlessLinked ==
  /\ run.step = "fetch" /\ run.script # "download"
  /\ run' = NextName(run)
  /\ IF repo # "absent" \/ run.script = "cygwin" \/ \E f \in ToSet(DotNames) : home[f] = Ours
     THEN UNCHANGED <<repo, badClone>> ELSE Clone
  /\ UNCHANGED <<edits, putAside>>
  /\ UNCHANGED <<home, backup, binDir, minute, runs, written, stamps, superseded, given>>

\* The packages, in install_mydotfiles.sh; then the clone, unless there is one:
\* create_symbolic_link.sh pulls into it, which keeps what the user has changed.
Fetch ==
  /\ run.step = "fetch" /\ run.script # "download"
  /\ \/ /\ run' = NextName(run)
        /\ IF repo # "absent" \/ run.script = "cygwin" THEN UNCHANGED <<repo, badClone>> ELSE Clone
     \/ /\ run.script = "install"
        /\ run' = [run EXCEPT !.step = "failed"]
        /\ UNCHANGED <<repo, badClone>>
  /\ UNCHANGED <<home, backup, binDir, edits, putAside, minute, runs, written, stamps, superseded, given>>

\* Mutant of Download: the clone is removed.
DownloadAfterRemoving ==
  /\ run.step = "fetch" /\ run.script = "download"
  /\ run' = [run EXCEPT !.step = "finished"]
  /\ edits' = {} /\ UNCHANGED putAside
  /\ Clone
  /\ UNCHANGED <<home, backup, binDir, minute, runs, written, stamps, superseded, given>>

\* download_dotfiles.sh: the clone is moved away, into one moved away in the
\* same minute if there is one.
Download ==
  /\ run.step = "fetch" /\ run.script = "download"
  /\ run' = [run EXCEPT !.step = "finished"]
  /\ edits' = {} /\ putAside' = putAside \cup edits
  /\ Clone
  /\ UNCHANGED <<home, backup, binDir, minute, runs, written, stamps, superseded, given>>

\* The first line of a name's loop.  If cp fails the script goes on.
Backup ==
  LET f == At(run) IN
  /\ run.step = "backup"
  /\ run' = [run EXCEPT !.step = "remove"]
  /\ IF Seen(run.script, f) /\ BacksUp(run.script, run.mode, f)
     THEN \/ backup' = [backup EXCEPT ![f][run.stamp] = Copied(home[f], @)] /\ UNCHANGED given
          \/ given' = given \cup HomeTexts(f) /\ UNCHANGED backup
     ELSE UNCHANGED <<backup, given>>
  /\ UNCHANGED <<home, binDir, repo, edits, putAside, minute, runs, written, stamps, superseded, badClone>>

\* Mutant of RemoveOld: the name is removed while its backup is still to be made.
RemoveOldEarly ==
  LET f == At(run) IN
  /\ run.step \in {"backup", "remove"}
  /\ run' = [run EXCEPT !.step = "link"]
  /\ home' = [home EXCEPT ![f] = IF Seen(run.script, f) THEN Nothing ELSE @]
  /\ UNCHANGED <<backup, binDir, repo, edits, putAside, minute, runs, written, stamps, superseded, given, badClone>>

\* The second line: rm -rf, or rm, which leaves a directory.  Either may fail on
\* what is there, rm -rf after it has removed part of a directory; the script
\* goes on.
RemoveOld ==
  LET f == At(run)
      plainRm == run.script = "cygwin"
  IN
  /\ run.step = "remove"
  /\ \/ /\ ~(plainRm /\ home[f].kind = "dir")
        /\ run' = [run EXCEPT !.step = "link"]
        /\ home' = [home EXCEPT ![f] = IF Seen(run.script, f) THEN Nothing ELSE @]
     \/ /\ home[f].kind \in {"file", "dir"}
        /\ run' = [run EXCEPT !.step = "link", !.kept = @ \cup {f}]
        /\ \/ UNCHANGED home
           \/ home[f].kind = "dir" /\ ~plainRm /\ home' = [home EXCEPT ![f].holds = {}]
  /\ UNCHANGED <<backup, binDir, repo, edits, putAside, minute, runs, written, stamps, superseded, given, badClone>>

\* The third line: ln -s, which makes its link inside a directory, and fails on
\* anything else that is there.  Only install_mydotfiles.sh makes ~/bin, which
\* fails where something else is, and ends when ln fails.
Link ==
  LET f == At(run)
      made == IF run.script = "install" /\ f \in Bin /\ binDir = "absent" THEN "dir" ELSE binDir
      fits == home[f].kind = "none" /\ (f \in Bin => made = "dir")
      refused == ~fits /\ home[f].kind # "dir"
  IN
  /\ run.step = "link"
  /\ binDir' = made
  /\ home' = IF fits THEN [home EXCEPT ![f] = Ours] ELSE home
  /\ run' = IF refused /\ run.script = "install" THEN [run EXCEPT !.step = "failed"] ELSE NextName(run)
  /\ UNCHANGED <<backup, repo, edits, putAside, minute, runs, written, stamps, superseded, given, badClone>>

Leave ==
  /\ run.step \in {"finished", "failed"}
  /\ run' = NotRunning
  /\ UNCHANGED <<home, backup, binDir, repo, edits, putAside, minute, runs, written, stamps,
                 superseded, given, badClone>>

\* The script is stopped: in git clone, which may leave part of it; in cp,
\* which may leave part of a backup; in rm -rf, which may leave part of a
\* directory; or between two commands.
Stop ==
  /\ run.step \in {"fetch", "backup", "remove", "link"}
  /\ run' = NotRunning
  /\ \/ UNCHANGED <<home, backup, repo, edits, putAside, badClone>>
     \/ /\ run.step = "fetch" /\ run.script # "cygwin"
        /\ repo = "absent" \/ run.script = "download"
        /\ repo' = "partial" /\ badClone' = TRUE
        /\ edits' = {} /\ putAside' = putAside \cup edits
        /\ UNCHANGED <<home, backup>>
     \/ /\ run.step = "backup"
        /\ LET f == At(run) IN
           /\ Seen(run.script, f) /\ BacksUp(run.script, run.mode, f)
           /\ home[f].kind \in {"file", "dir"}
           /\ backup' = [backup EXCEPT ![f][run.stamp] = Copied([home[f] EXCEPT !.holds = {}], @)]
        /\ UNCHANGED <<home, repo, edits, putAside, badClone>>
     \/ /\ run.step = "remove" /\ run.script # "cygwin"
        /\ home[At(run)].kind = "dir"
        /\ home' = [home EXCEPT ![At(run)].holds = {}]
        /\ UNCHANGED <<backup, repo, edits, putAside, badClone>>
  /\ UNCHANGED <<binDir, minute, runs, written, stamps, superseded, given>>

-----------------------------------------------------------------------------
(* The user                                                                *)

\* The user writes a text: into the clone, if the name leads there, or a file or
\* directory of the user's own, in place of what was there.
Write(f) ==
  LET text == written + 1 IN
  /\ run.step = "idle" /\ written < MaxWrites /\ minute < MaxMinutes
  /\ written' = text /\ minute' = minute + 1
  /\ \/ /\ home[f] = Ours /\ f \notin Bin /\ repo = "whole"
        /\ edits' = edits \cup {text}
        /\ UNCHANGED <<home, superseded, binDir>>
     \/ /\ \E kind \in IF f \in Dirs THEN {"file", "dir"} ELSE {"file"} :
             home' = [home EXCEPT ![f] = [kind |-> kind, holds |-> {text}]]
        /\ superseded' = superseded \cup home[f].holds
        /\ binDir' = IF f \in Bin THEN "dir" ELSE binDir
        /\ UNCHANGED edits
  /\ UNCHANGED <<backup, repo, putAside, run, runs, stamps, given, badClone>>

\* Time that passes while a script runs may as well pass after it: the script
\* has read the clock when it starts.
TimePasses ==
  /\ run.step = "idle" /\ minute < MaxMinutes
  /\ minute' = minute + 1
  /\ UNCHANGED <<home, backup, binDir, repo, edits, putAside, run, runs, written, stamps,
                 superseded, given, badClone>>

-----------------------------------------------------------------------------

\* A home without the dotfiles, in which some names may be links to nowhere and
\* something else may be at ~/bin.
Init ==
  /\ home \in [Home -> {Nothing, Foreign}]
  /\ backup = [f \in Home |-> [s \in Stamps |-> Nothing]]
  /\ binDir \in IF \E f \in Bin : home[f] # Nothing THEN {"dir"} ELSE {"absent", "dir", "blocked"}
  /\ repo = "absent" /\ edits = {} /\ putAside = {}
  /\ run = NotRunning /\ minute = 0 /\ runs = 0 /\ written = 0
  /\ stamps = {} /\ superseded = {} /\ given = {} /\ badClone = FALSE

Scripts == {"install", "symlink", "cygwin", "download"}

Next ==
  \/ \E script \in Scripts : \E mode \in Modes(script) : Start(script, mode)
  \/ Fetch \/ Download \/ Backup \/ RemoveOld \/ Link \/ Leave \/ Stop
  \/ \E f \in Home : Write(f)
  \/ TimePasses

Spec == Init /\ [][Next]_vars

-----------------------------------------------------------------------------
(* Properties                                                              *)

Things == [kind : {"none", "file", "dir", "link", "gone"}, holds : SUBSET Texts]

TypeOK ==
  /\ home \in [Home -> Things] /\ backup \in [Home -> [Stamps -> Things]]
  /\ binDir \in {"absent", "dir", "blocked"} /\ repo \in {"absent", "partial", "whole"} /\ badClone \in BOOLEAN
  /\ edits \in SUBSET Texts /\ putAside \in SUBSET Texts
  /\ run \in [script : Scripts \cup {"none"}, mode : {"none", "yes", "no", "backup", "overwrite"},
              stamp : (Scripts \cup {"none"}) \X Minutes, at : Nat,
              step : {"idle", "fetch", "backup", "remove", "link", "finished", "failed"},
              kept : SUBSET Home]
  /\ run.at <= Len(Touched(run.script))
  /\ minute \in Minutes /\ runs \in 0..MaxRuns /\ written \in 0..MaxWrites
  /\ stamps \in SUBSET (Scripts \X Minutes) /\ superseded \in SUBSET Texts /\ given \in SUBSET Texts

\* Whatever scripts are run and stopped wherever, what the user wrote is at its
\* name, in a backup or in a clone, unless the user wrote over it or gave it up:
\* by a mode without backup (create_symbolic_link.sh never has one for bin
\* files), by starting a script in the minute of the backup, or with a cp that
\* failed.
NothingLost ==
  1..written \subseteq
    superseded \cup given \cup edits \cup putAside
      \cup (UNION {home[f].holds : f \in Home})
      \cup (UNION {backup[f][s].holds : f \in Home, s \in Stamps})

\* Whatever earlier scripts left behind, install_mydotfiles.sh, if it is not
\* stopped and can install its packages, ends with every name linked, but for
\* directories its rm -rf could not remove; no ln is refused, except where a file
\* could not be removed or something that is not a directory is at ~/bin.
InstallLinksAll ==
  run.script = "install" =>
    /\ run.step = "finished" =>
         binDir = "dir" /\ \A f \in Home : home[f] = Ours \/ (f \in run.kept /\ home[f].kind = "dir")
    /\ run.step = "failed" =>
         \/ run.at = 0
         \/ At(run) \in run.kept /\ home[At(run)].kind = "file"
         \/ At(run) \in Bin /\ binDir = "blocked"

\* What is at its names is there, a link leading nowhere only if git clone failed
\* in this run or was stopped half way in an earlier one; a clone that failed
\* earlier is made up for.
LinksLead ==
  run.script = "install" /\ run.step = "finished" /\ ~badClone => \A f \in Home : Exists(f)

\* A complete run makes up for what runs before it left undone.
InstallComplete == TypeOK /\ InstallLinksAll /\ LinksLead
=============================================================================
