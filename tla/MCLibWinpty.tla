----------------------------- MODULE MCLibWinpty ------------------------------
(* LibWinpty for TLC.                                                      *)
EXTENDS LibWinpty

CONSTANTS t1, t2
TwoThreads == {t1, t2}
AllKinds == {"spawn", "setSize", "processList"}

=============================================================================
