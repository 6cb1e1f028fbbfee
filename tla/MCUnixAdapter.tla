---------------------------- MODULE MCUnixAdapter -----------------------------
(* UnixAdapter and AdapterSetup for TLC.                                   *)
EXTENDS UnixAdapter, AdapterSetup

Conout == {"conout"}

\* These depend on no state, and are evaluated in the first ones.
\* The adapter obeys its own options and finds the program, which gets every other
\* word as it was given and the debugging variables but no TERM; the terminals are
\* raw during a session and afterwards as they were.
StartsAsAskedAtStart ==
  Init => ArgumentsSplit /\ ArgumentsArrive /\ ProgramFound /\ EnvironmentSynced /\ TerminalsRestored
=============================================================================
