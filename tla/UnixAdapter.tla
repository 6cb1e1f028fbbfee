----------------------------- MODULE UnixAdapter ------------------------------
(***************************************************************************)
(* The unix adapter (unix-adapter/): main(), the thread of InputHandler,   *)
(* one thread for each OutputHandler, the SIGWINCH handler, and the        *)
(* WakeupFds by which the others wake main() and main() wakes the input    *)
(* thread.                                                                 *)
(*                                                                         *)
(* The agent is what the adapter sees of it: data pipes that it closes     *)
(* once the child has exited and its output is written (module Agent), or  *)
(* abandons when it dies.                                                  *)
(***************************************************************************)
EXTENDS Naturals

CONSTANTS
  Outputs,     \* the output pipes: CONOUT, and CONERR with -Xconerr
  MaxDrawn,    \* bound: pieces of output per pipe
  MaxInputs,   \* bound: resizes of the terminal and pieces of input typed
  MayFail      \* the agent may die, and so may the terminal

ASSUME AdapterAssumption ==
  /\ Outputs # {} /\ "input" \notin Outputs
  /\ MaxDrawn \in Nat /\ MaxInputs \in Nat
  /\ MayFail \in BOOLEAN

Handlers == Outputs \cup {"input"}

VARIABLES
  main,        \* where main() is
  woken,       \* mainWakeup() is readable
  sz,          \* main's winsize
  completed,   \* the handlers whose m_threadCompleted is set
  pc,          \* where each handler's thread is
  shouldShutdown, inputWoken,   \* InputHandler::m_shouldShutdown, m_wakeup
  exitCode,    \* what main() returns: "none", "child" or "stillActive"
  size, winch, \* the terminal's size, and a SIGWINCH to be handled
  typed,       \* input waiting in the terminal
  hungUp,      \* the terminal is gone
  console,     \* the console's size
  agent,       \* "running", "dead" (it exited) or "crashed"
  controlOpen, \* the adapter's end of the control pipe
  child,       \* "running" or "exited"
  conin,       \* input in CONIN
  drawn, sent, read, shown,  \* output drawn, written to its pipe, read from
                             \* it, written to the terminal
  end          \* the output pipes at the agent: "open", "finished" by it, or
               \* "broken" when it died

mainVars == <<main, sz, exitCode>>
threadVars == <<pc, completed>>
wakeVars == <<woken, inputWoken, shouldShutdown>>
ttyVars == <<size, winch, typed, hungUp>>
outVars == <<drawn, sent, read, shown, end>>
agentVars == <<agent, child, console, controlOpen, conin>>
vars == <<mainVars, threadVars, wakeVars, ttyVars, outVars, agentVars>>

Loop == {"select", "resize", "setSize", "check"}

-----------------------------------------------------------------------------
(* main()                                                                  *)

MainGoes(from, to) == main = from /\ main' = to

\* The size is read, the agent is started with it, and so is the child.
Start ==
  /\ MainGoes("start", "register")
  /\ sz' = size /\ console' = size
  /\ UNCHANGED <<exitCode, threadVars, wakeVars, ttyVars, outVars, agent, child,
                 controlOpen, conin>>

\* registerResizeSignalHandler, the raw mode, and the handlers' threads.
StartHandlers ==
  /\ MainGoes("register", "select")
  /\ pc' = [h \in Handlers |-> IF h = "input" THEN "top" ELSE "read"]
  /\ UNCHANGED <<sz, exitCode, completed, wakeVars, ttyVars, outVars, agentVars>>

\* select returns; mainWakeup().reset() empties the pipe.
Wake ==
  /\ MainGoes("select", "resize") /\ woken
  /\ woken' = FALSE
  /\ UNCHANGED <<sz, exitCode, threadVars, inputWoken, shouldShutdown, ttyVars,
                 outVars, agentVars>>

\* The terminal's size is compared with the one last set.
CheckSize ==
  /\ main = "resize"
  /\ main' = IF sz = size THEN "check" ELSE "setSize"
  /\ sz' = size
  /\ UNCHANGED <<exitCode, threadVars, wakeVars, ttyVars, outVars, agentVars>>

\* winpty_set_size, whose result is not looked at.  A call that fails closes
\* the control pipe (module LibWinpty).
SetSize ==
  /\ MainGoes("setSize", "check")
  /\ IF agent = "running"
     THEN console' = sz /\ UNCHANGED controlOpen
     ELSE controlOpen' = FALSE /\ UNCHANGED console
  /\ UNCHANGED <<sz, exitCode, threadVars, wakeVars, ttyVars, outVars, agent, child, conin>>

\* Mutant of CheckHandlers: the wakeup is reset here.
CheckThenReset ==
  /\ main = "check"
  /\ main' = IF completed # {} THEN "free" ELSE "select"
  /\ woken' = FALSE
  /\ UNCHANGED <<sz, exitCode, threadVars, inputWoken, shouldShutdown, ttyVars,
                 outVars, agentVars>>

\* Mutant of CheckHandlers: the child's exit ends the loop.
CheckChild ==
  /\ main = "check"
  /\ main' = IF child = "exited" \/ completed # {} THEN "free" ELSE "select"
  /\ UNCHANGED <<sz, exitCode, threadVars, wakeVars, ttyVars, outVars, agentVars>>

\* The loop ends with the first handler that completes.
CheckHandlers ==
  /\ main = "check"
  /\ main' = IF completed # {} THEN "free" ELSE "select"
  /\ UNCHANGED <<sz, exitCode, threadVars, wakeVars, ttyVars, outVars, agentVars>>

\* winpty_free.
FreeWinpty ==
  /\ MainGoes("free", "shutdown")
  /\ controlOpen' = FALSE
  /\ UNCHANGED <<sz, exitCode, threadVars, wakeVars, ttyVars, outVars, agent, child,
                 console, conin>>

\* InputHandler::startShutdown: first the flag, then the wakeup.
SetShutdown ==
  /\ MainGoes("shutdown", "wakeInput")
  /\ shouldShutdown' = TRUE
  /\ UNCHANGED <<sz, exitCode, threadVars, woken, inputWoken, ttyVars, outVars, agentVars>>

WakeInput ==
  /\ MainGoes("wakeInput", "join")
  /\ inputWoken' = TRUE
  /\ UNCHANGED <<sz, exitCode, threadVars, woken, shouldShutdown, ttyVars, outVars,
                 agentVars>>

\* pthread_join of every handler, the handles closed, the mode restored.
Join ==
  /\ MainGoes("join", "exit")
  /\ \A h \in Handlers : pc[h] = "ended"
  /\ UNCHANGED <<sz, exitCode, threadVars, wakeVars, ttyVars, outVars, agentVars>>

\* GetExitCodeProcess gives STILL_ACTIVE for a child that has not exited.
Exit ==
  /\ MainGoes("exit", "done")
  /\ exitCode' = IF child = "exited" THEN "child" ELSE "stillActive"
  /\ UNCHANGED <<sz, threadVars, wakeVars, ttyVars, outVars, agentVars>>

Main ==
  \/ Start \/ StartHandlers \/ Wake \/ CheckSize \/ SetSize \/ CheckHandlers
  \/ FreeWinpty \/ SetShutdown \/ WakeInput \/ Join \/ Exit

-----------------------------------------------------------------------------
(* The handlers' threads                                                   *)

HandlerGoes(h, from, to) == pc[h] = from /\ pc' = [pc EXCEPT ![h] = to]

\* The end of either threadProc: m_threadCompleted, then the wakeup.
Complete(h) ==
  \/ /\ HandlerGoes(h, "completing", "waking")
     /\ completed' = completed \cup {h}
     /\ UNCHANGED <<mainVars, wakeVars, ttyVars, outVars, agentVars>>
  \/ /\ HandlerGoes(h, "waking", "ended")
     /\ woken' = TRUE
     /\ UNCHANGED <<mainVars, completed, inputWoken, shouldShutdown, ttyVars, outVars,
                    agentVars>>

\* Mutant of InputTop: m_wakeup is reset once shutdown has not been seen.
InputTopLate ==
  \/ /\ pc["input"] = "top"
     /\ pc' = [pc EXCEPT !["input"] = IF shouldShutdown THEN "completing" ELSE "checked"]
     /\ UNCHANGED <<mainVars, completed, wakeVars, ttyVars, outVars, agentVars>>
  \/ /\ HandlerGoes("input", "checked", "select")
     /\ inputWoken' = FALSE
     /\ UNCHANGED <<mainVars, completed, woken, shouldShutdown, ttyVars, outVars, agentVars>>

\* InputHandler::threadProc: m_wakeup.reset(), then the check for shutdown.
InputTop ==
  \/ /\ HandlerGoes("input", "top", "checked")
     /\ inputWoken' = FALSE
     /\ UNCHANGED <<mainVars, completed, woken, shouldShutdown, ttyVars, outVars, agentVars>>
  \/ /\ pc["input"] = "checked"
     /\ pc' = [pc EXCEPT !["input"] = IF shouldShutdown THEN "completing" ELSE "select"]
     /\ UNCHANGED <<mainVars, completed, wakeVars, ttyVars, outVars, agentVars>>

\* select returns: to the top for a wakeup or EINTR, to read for input or a
\* hang-up.
InputSelect ==
  /\ \/ HandlerGoes("input", "select", "top") /\ winch
     \/ HandlerGoes("input", "select", "top") /\ inputWoken /\ typed = 0 /\ ~hungUp
     \/ HandlerGoes("input", "select", "read") /\ (typed > 0 \/ hungUp)
  /\ UNCHANGED <<mainVars, completed, wakeVars, ttyVars, outVars, agentVars>>

\* Mutant of InputRead: a read that SIGWINCH interrupts counts as an error.
InputReadNoRetry ==
  /\ \/ HandlerGoes("input", "read", "completing") /\ (hungUp \/ winch) /\ UNCHANGED typed
     \/ HandlerGoes("input", "read", "write") /\ typed > 0 /\ typed' = typed - 1
  /\ UNCHANGED <<mainVars, completed, wakeVars, size, winch, hungUp, outVars, agentVars>>

\* read from the terminal: end of file, input, or EINTR.
InputRead ==
  /\ \/ HandlerGoes("input", "read", "completing") /\ hungUp /\ UNCHANGED typed
     \/ HandlerGoes("input", "read", "write") /\ typed > 0 /\ typed' = typed - 1
     \/ HandlerGoes("input", "read", "top") /\ winch /\ UNCHANGED typed
  /\ UNCHANGED <<mainVars, completed, wakeVars, size, winch, hungUp, outVars, agentVars>>

\* WriteFile to CONIN waits until the agent takes the input.
InputWrite ==
  /\ \/ /\ HandlerGoes("input", "write", "top")
        /\ agent = "running" /\ conin = 0 /\ conin' = conin + 1
     \/ HandlerGoes("input", "write", "completing") /\ agent # "running" /\ UNCHANGED conin
  /\ UNCHANGED <<mainVars, completed, wakeVars, ttyVars, outVars, agent, child, console,
                 controlOpen>>

\* OutputHandler::threadProc: ReadFile waits for data or for the pipe's end.
OutputRead(p) ==
  /\ \/ /\ HandlerGoes(p, "read", "write")
        /\ read[p] < sent[p] /\ read' = [read EXCEPT ![p] = @ + 1]
     \/ HandlerGoes(p, "read", "completing") /\ read[p] = sent[p] /\ end[p] # "open" /\ UNCHANGED read
  /\ UNCHANGED <<mainVars, completed, wakeVars, ttyVars, drawn, sent, shown, end, agentVars>>

\* writeAll to the terminal.
OutputWrite(p) ==
  /\ \/ HandlerGoes(p, "write", "read") /\ ~hungUp /\ shown' = [shown EXCEPT ![p] = @ + 1]
     \/ HandlerGoes(p, "write", "completing") /\ hungUp /\ UNCHANGED shown
  /\ UNCHANGED <<mainVars, completed, wakeVars, ttyVars, drawn, sent, read, end, agentVars>>

InputThread == InputTop \/ InputSelect \/ InputRead \/ InputWrite \/ Complete("input")
OutputThread(p) == OutputRead(p) \/ OutputWrite(p) \/ Complete(p)

-----------------------------------------------------------------------------
(* The terminal                                                            *)

Resize ==
  /\ size + typed < MaxInputs /\ main # "done"
  /\ size' = size + 1 /\ winch' = TRUE
  /\ UNCHANGED <<mainVars, threadVars, wakeVars, typed, hungUp, outVars, agentVars>>

\* terminalResized; until main has registered it, SIGWINCH is ignored.
HandleWinch ==
  /\ winch /\ winch' = FALSE
  /\ \/ main \in {"start", "register"} /\ UNCHANGED woken
     \/ main \notin {"start", "register"} /\ woken' = TRUE
  /\ UNCHANGED <<mainVars, threadVars, inputWoken, shouldShutdown, size, typed, hungUp,
                 outVars, agentVars>>

Type ==
  /\ size + typed < MaxInputs /\ ~hungUp
  /\ typed' = typed + 1
  /\ UNCHANGED <<mainVars, threadVars, wakeVars, size, winch, hungUp, outVars, agentVars>>

HangUp ==
  /\ MayFail /\ ~hungUp
  /\ hungUp' = TRUE
  /\ UNCHANGED <<mainVars, threadVars, wakeVars, size, winch, typed, outVars, agentVars>>

-----------------------------------------------------------------------------
(* The agent and the child                                                 *)

Draw(p) ==
  /\ main # "start" /\ child = "running" /\ agent = "running" /\ drawn[p] < MaxDrawn
  /\ drawn' = [drawn EXCEPT ![p] = @ + 1]
  /\ UNCHANGED <<mainVars, threadVars, wakeVars, ttyVars, sent, read, shown, end, agentVars>>

ChildExits ==
  /\ main # "start" /\ child = "running"
  /\ child' = "exited"
  /\ UNCHANGED <<mainVars, threadVars, wakeVars, ttyVars, outVars, agent, console,
                 controlOpen, conin>>

Send(p) ==
  /\ agent = "running" /\ sent[p] < drawn[p]
  /\ sent' = [sent EXCEPT ![p] = @ + 1]
  /\ UNCHANGED <<mainVars, threadVars, wakeVars, ttyVars, drawn, read, shown, end, agentVars>>

\* WINPTY_SPAWN_FLAG_AUTO_SHUTDOWN.
ShutDownOutput(p) ==
  /\ agent = "running" /\ child = "exited" /\ end[p] = "open" /\ sent[p] = drawn[p]
  /\ end' = [end EXCEPT ![p] = "finished"]
  /\ UNCHANGED <<mainVars, threadVars, wakeVars, ttyVars, drawn, sent, read, shown, agentVars>>

TakeInput ==
  /\ agent = "running" /\ conin > 0
  /\ conin' = conin - 1
  /\ UNCHANGED <<mainVars, threadVars, wakeVars, ttyVars, outVars, agent, child, console,
                 controlOpen>>

Die ==
  /\ agent = "running" /\ main # "start"
  /\ end' = [p \in Outputs |-> IF end[p] = "open" THEN "broken" ELSE end[p]]
  /\ UNCHANGED <<mainVars, threadVars, wakeVars, ttyVars, drawn, sent, read, shown, child,
                 console, controlOpen, conin>>

\* The agent finds the control pipe closed.
AgentExits == ~controlOpen /\ Die /\ agent' = "dead"
AgentCrashes == controlOpen /\ MayFail /\ Die /\ agent' = "crashed"

-----------------------------------------------------------------------------
(* Specification                                                           *)

Init ==
  /\ main = "start" /\ sz = 0 /\ exitCode = "none"
  /\ pc = [h \in Handlers |-> "unborn"]
  /\ completed = {}
  /\ woken = FALSE /\ inputWoken = FALSE /\ shouldShutdown = FALSE
  /\ size = 0 /\ winch = FALSE /\ typed = 0 /\ hungUp = FALSE
  /\ console = 0 /\ agent = "running" /\ controlOpen = TRUE /\ child = "running" /\ conin = 0
  /\ drawn = [p \in Outputs |-> 0] /\ sent = [p \in Outputs |-> 0]
  /\ read = [p \in Outputs |-> 0] /\ shown = [p \in Outputs |-> 0]
  /\ end = [p \in Outputs |-> "open"]

AgentStep ==
  \/ TakeInput \/ AgentExits
  \/ \E p \in Outputs : Send(p) \/ ShutDownOutput(p)

Environment ==
  \/ Resize \/ Type \/ HangUp
  \/ ChildExits \/ AgentCrashes \/ \E p \in Outputs : Draw(p)

Next ==
  \/ Main \/ InputThread \/ (\E p \in Outputs : OutputThread(p))
  \/ HandleWinch \/ AgentStep \/ Environment

Spec == Init /\ [][Next]_vars

\* Threads are scheduled, signals are delivered, and the terminal takes what is
\* written to it; the agent does its work (module Agent).
FairSpec ==
  /\ Spec
  /\ WF_vars(Main) /\ WF_vars(InputThread) /\ WF_vars(HandleWinch)
  /\ \A p \in Outputs : WF_vars(OutputThread(p)) /\ WF_vars(Send(p))
                        /\ WF_vars(ShutDownOutput(p))
  /\ WF_vars(TakeInput) /\ WF_vars(AgentExits)

-----------------------------------------------------------------------------
(* Properties                                                              *)

TypeOK ==
  /\ main \in {"start", "register", "free", "shutdown", "wakeInput", "join", "exit", "done"} \cup Loop
  /\ exitCode \in {"none", "child", "stillActive"}
  /\ completed \subseteq Handlers
  /\ pc \in [Handlers -> {"unborn", "top", "checked", "select", "read", "write",
                          "completing", "waking", "ended"}]
  /\ woken \in BOOLEAN /\ inputWoken \in BOOLEAN /\ shouldShutdown \in BOOLEAN
  /\ sz \in Nat /\ size \in Nat /\ console \in Nat /\ winch \in BOOLEAN
  /\ typed \in Nat /\ conin \in Nat /\ hungUp \in BOOLEAN
  /\ agent \in {"running", "dead", "crashed"}
  /\ controlOpen \in BOOLEAN /\ child \in {"running", "exited"}
  /\ drawn \in [Outputs -> Nat] /\ sent \in [Outputs -> Nat]
  /\ read \in [Outputs -> Nat] /\ shown \in [Outputs -> Nat]
  /\ end \in [Outputs -> {"open", "finished", "broken"}]

\* main() returns only after the terminal was given everything that was drawn,
\* unless the terminal went away or the agent crashed.
AllOutputCopied ==
  main = "done" /\ ~hungUp /\ agent # "crashed" =>
    \A p \in Outputs : shown[p] = drawn[p]

\* The adapter returns the child's exit code; STILL_ACTIVE at most when it had
\* to give up before the child exited.
ExitCodeKnown ==
  exitCode = "stillActive" => hungUp \/ agent = "crashed"

\* The adapter ends when the child has exited, the terminal has gone or the
\* agent has crashed: no wakeup is lost and no thread is joined for ever.
SessionEnds == child = "exited" \/ hungUp \/ agent = "crashed" ~> main = "done"

\* The console gets the terminal's size, however resizes, signals and the call
\* that sets it interleave.
SizeFollows ==
  \A s \in 1..MaxInputs :
    main \in Loop /\ winch /\ size = s ~> console >= s \/ main \notin Loop

-----------------------------------------------------------------------------
(* The inductive invariant from which they are proved                      *)

Ending == {"completing", "waking", "ended"}

\* What was drawn goes through the pipe, the thread's buffer and to the
\* terminal in order.
OutputInOrder ==
  \A p \in Outputs :
    /\ read[p] <= sent[p] /\ sent[p] <= drawn[p]
    /\ ~hungUp => read[p] = shown[p] + (IF pc[p] = "write" THEN 1 ELSE 0)

\* A pipe is finished with everything in it, after the child has exited.
FinishedComplete ==
  \A p \in Outputs :
    /\ end[p] = "finished" => sent[p] = drawn[p] /\ child = "exited"
    /\ end[p] = "broken" => agent # "running"

\* An output thread ends at the end of its pipe.
ThreadsEndAtEof ==
  \A p \in Outputs :
    pc[p] \in Ending => hungUp \/ (read[p] = sent[p] /\ end[p] # "open")

InLoop == main \in {"start", "register"} \cup Loop

\* Until main leaves its loop, only a crash takes the agent away, and only a
\* failure or a finished pipe completes a handler.
WhyComplete ==
  /\ agent = "dead" => ~controlOpen
  /\ InLoop => /\ ~shouldShutdown
               /\ controlOpen \/ agent = "crashed"
  /\ \A h \in completed : pc[h] \in Ending
  /\ pc["input"] \in Ending => hungUp \/ agent # "running" \/ shouldShutdown
  /\ ~InLoop => \/ hungUp \/ agent = "crashed"
                \/ \E p \in Outputs : end[p] = "finished"

\* The threads run between their creation and main's join.
ThreadsWithinMain ==
  /\ main \in {"start", "register"} => \A h \in Handlers : pc[h] = "unborn"
  /\ main \in {"exit", "done"} => \A h \in Handlers : pc[h] = "ended"

IInv ==
  /\ TypeOK /\ OutputInOrder /\ FinishedComplete /\ ThreadsEndAtEof
  /\ WhyComplete /\ ThreadsWithinMain /\ ExitCodeKnown

=============================================================================
