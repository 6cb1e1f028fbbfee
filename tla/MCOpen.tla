-------------------------------- MODULE MCOpen ---------------------------------
(* Open, Buffer and SharedStrings for TLC.                                 *)
EXTENDS Open, Buffer, SharedStrings

CONSTANTS o1, o2
TwoOpeners == {o1, o2}

Debug(flags) == [show |-> FALSE, windows7 |-> TRUE, debug |-> flags]
SomeEnvironments ==
  { Debug({}), Debug({"force_desktop"}), Debug({"force_desktop_spawn"}),
    Debug({"force_desktop_curproc"}), Debug({"force_desktop", "no_desktop"}),
    [show |-> FALSE, windows7 |-> FALSE, debug |-> {}],
    [show |-> FALSE, windows7 |-> FALSE, debug |-> {"no_desktop"}],
    [show |-> TRUE, windows7 |-> FALSE, debug |-> {}] }

\* These depend on no state, and are evaluated in the first ones.
\* What one side puts into a packet the other gets out, in the order both have, and
\* nothing else decodes; numbers, names, the environment and the debugging flags are
\* what they stand for.
ConversionsRightAtStart ==
  Init => /\ PacketsArrive /\ OnlyPacketsDecode /\ FormatsAgree
          /\ NumbersShown /\ NamesDiffer /\ EnvironmentArrives /\ FlagsAreWords
=============================================================================
