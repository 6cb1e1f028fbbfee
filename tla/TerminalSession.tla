--------------------------- MODULE TerminalSession ---------------------------
(***************************************************************************)
(* What winpty promises a client of an auto-shutdown session, with no      *)
(* pipes, polls or buffers: a console program draws on screens, each shown *)
(* on a terminal of the client's that follows it at its own pace, and a    *)
(* terminal's session ends once it shows all there was when the program    *)
(* exited.  A client that hangs up gives that up, and only such a client's *)
(* program is killed.                                                      *)
(***************************************************************************)
EXTENDS Naturals

CONSTANT Terminals

VARIABLES
  screen,   \* changes drawn on each screen
  child,    \* the program
  atExit,   \* what was on the screens when the program exited
  view,     \* what each terminal shows
  ended,    \* the terminals whose end the client has seen
  hungUp    \* the client has given the session up

vars == <<screen, child, atExit, view, ended, hungUp>>

Init ==
  /\ screen = [t \in Terminals |-> 0]
  /\ child = "none"
  /\ atExit = [t \in Terminals |-> 0]
  /\ view = [t \in Terminals |-> 0]
  /\ ended = [t \in Terminals |-> FALSE]
  /\ hungUp = FALSE

Start ==
  /\ child = "none"
  /\ child' = "running"
  /\ UNCHANGED <<screen, atExit, view, ended, hungUp>>

Draw(t) ==
  /\ child # "none"
  /\ screen' = [screen EXCEPT ![t] = @ + 1]
  /\ UNCHANGED <<child, atExit, view, ended, hungUp>>

Exit ==
  /\ child = "running"
  /\ child' = "exited"
  /\ atExit' = screen
  /\ UNCHANGED <<screen, view, ended, hungUp>>

Show(t) ==
  /\ ~ended[t]
  /\ \E n \in view[t]..screen[t] : view' = [view EXCEPT ![t] = n]
  /\ UNCHANGED <<screen, child, atExit, ended, hungUp>>

End(t) ==
  /\ ~ended[t]
  /\ hungUp \/ (child = "exited" /\ view[t] >= atExit[t])
  /\ ended' = [ended EXCEPT ![t] = TRUE]
  /\ UNCHANGED <<screen, child, atExit, view, hungUp>>

HangUp ==
  /\ ~hungUp
  /\ hungUp' = TRUE
  /\ UNCHANGED <<screen, child, atExit, view, ended>>

Kill ==
  /\ hungUp /\ child = "running"
  /\ child' = "killed"
  /\ UNCHANGED <<screen, atExit, view, ended, hungUp>>

Next ==
  \/ Start \/ Exit \/ HangUp \/ Kill
  \/ \E t \in Terminals : Draw(t) \/ Show(t) \/ End(t)

Spec == Init /\ [][Next]_vars

=============================================================================
