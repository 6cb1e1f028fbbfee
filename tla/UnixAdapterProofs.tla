-------------------------- MODULE UnixAdapterProofs ---------------------------
(***************************************************************************)
(* Proofs about UnixAdapter, for any output pipes and every bound.         *)
(***************************************************************************)
EXTENDS UnixAdapter, TLAPS

LEMMA InitInvariant == Init => IInv
<1> SUFFICES ASSUME Init PROVE IInv
  OBVIOUS
<1> USE AdapterAssumption DEF Init, Handlers
<1>1. TypeOK
  BY DEF TypeOK, Loop
<1>2. OutputInOrder /\ FinishedComplete
  BY DEF OutputInOrder, FinishedComplete
<1>3. ThreadsEndAtEof
  BY DEF ThreadsEndAtEof, Ending
<1>4. WhyComplete /\ ThreadsWithinMain /\ ExitCodeKnown
  BY DEF WhyComplete, ThreadsWithinMain, ExitCodeKnown, InLoop, Ending
<1> QED
  BY <1>1, <1>2, <1>3, <1>4 DEF IInv

-----------------------------------------------------------------------------
(* Type correctness, and what each part of the system leaves alone         *)

LEMMA MainType == ASSUME TypeOK, Main PROVE TypeOK'
<1> USE DEF TypeOK, MainGoes, Loop, mainVars, threadVars, wakeVars, ttyVars, outVars, agentVars
<1>1. CASE Start
  BY <1>1 DEF Start
<1>2. CASE StartHandlers
  <2>1. pc' \in [Handlers -> {"top", "read"}]
    BY <1>2 DEF StartHandlers
  <2> QED
    BY <1>2, <2>1 DEF StartHandlers
<1>3. CASE Wake
  BY <1>3 DEF Wake
<1>4. CASE CheckSize
  BY <1>4 DEF CheckSize
<1>5. CASE SetSize
  BY <1>5 DEF SetSize
<1>6. CASE CheckHandlers
  BY <1>6 DEF CheckHandlers
<1>7. CASE FreeWinpty
  BY <1>7 DEF FreeWinpty
<1>8. CASE SetShutdown
  BY <1>8 DEF SetShutdown
<1>9. CASE WakeInput
  BY <1>9 DEF WakeInput
<1>10. CASE Join
  BY <1>10 DEF Join
<1>11. CASE Exit
  BY <1>11 DEF Exit
<1> QED
  BY <1>1, <1>2, <1>3, <1>4, <1>5, <1>6, <1>7, <1>8, <1>9, <1>10, <1>11 DEF Main

LEMMA ThreadsType ==
  ASSUME TypeOK, InputThread \/ \E p \in Outputs : OutputThread(p)
  PROVE  TypeOK'
<1> USE AdapterAssumption
    DEF TypeOK, Handlers, HandlerGoes, mainVars, threadVars, wakeVars, ttyVars, outVars, agentVars
<1>1. CASE InputTop
  <2>1. pc' \in [Handlers -> {"unborn", "top", "checked", "select", "read", "write",
                             "completing", "waking", "ended"}]
    BY <1>1 DEF InputTop
  <2>2. inputWoken' \in BOOLEAN
    BY <1>1 DEF InputTop
  <2> QED
    BY <1>1, <2>1, <2>2 DEF InputTop
<1>2. CASE InputSelect
  BY <1>2 DEF InputSelect
<1>3. CASE InputRead
  BY <1>3 DEF InputRead
<1>4. CASE InputWrite
  BY <1>4 DEF InputWrite
<1>5. ASSUME NEW p \in Handlers, Complete(p) PROVE TypeOK'
  <2>1. CASE HandlerGoes(p, "completing", "waking") /\ woken' = woken
    BY <1>5, <2>1 DEF Complete
  <2>2. CASE HandlerGoes(p, "waking", "ended")
    BY <1>5, <2>2 DEF Complete
  <2> QED
    BY <1>5, <2>1, <2>2 DEF Complete
<1>6. ASSUME NEW p \in Outputs, OutputRead(p) PROVE TypeOK'
  BY <1>6 DEF OutputRead
<1>7. ASSUME NEW p \in Outputs, OutputWrite(p) PROVE TypeOK'
  BY <1>7 DEF OutputWrite
<1> QED
  BY <1>1, <1>2, <1>3, <1>4, <1>5, <1>6, <1>7 DEF InputThread, OutputThread

LEMMA OthersType ==
  ASSUME TypeOK, HandleWinch \/ AgentStep \/ Environment
  PROVE  TypeOK'
<1> USE DEF TypeOK, Die, mainVars, threadVars, wakeVars, ttyVars, outVars, agentVars
<1>1. CASE HandleWinch
  <2>1. woken' \in BOOLEAN /\ winch' \in BOOLEAN
    BY <1>1 DEF HandleWinch
  <2>2. UNCHANGED <<mainVars, threadVars, inputWoken, shouldShutdown, size, typed, hungUp,
                    outVars, agentVars>>
    BY <1>1 DEF HandleWinch
  <2> QED
    BY <2>1, <2>2
<1>2. CASE Resize
  BY <1>2 DEF Resize
<1>3. CASE Type
  BY <1>3 DEF Type
<1>4. CASE HangUp
  BY <1>4 DEF HangUp
<1>5. CASE ChildExits
  BY <1>5 DEF ChildExits
<1>6. CASE TakeInput
  BY <1>6 DEF TakeInput
<1>7. CASE AgentExits
  BY <1>7 DEF AgentExits
<1>8. CASE AgentCrashes
  BY <1>8 DEF AgentCrashes
<1>9. ASSUME NEW p \in Outputs, Send(p) PROVE TypeOK'
  BY <1>9 DEF Send
<1>10. ASSUME NEW p \in Outputs, ShutDownOutput(p) PROVE TypeOK'
  BY <1>10 DEF ShutDownOutput
<1>11. ASSUME NEW p \in Outputs, Draw(p) PROVE TypeOK'
  BY <1>11 DEF Draw
<1> QED
  BY <1>1, <1>2, <1>3, <1>4, <1>5, <1>6, <1>7, <1>8, <1>9, <1>10, <1>11 DEF AgentStep, Environment

-----------------------------------------------------------------------------
(* What each part of the system leaves alone                               *)

LEMMA MainFrame ==
  ASSUME Main
  PROVE  /\ UNCHANGED <<completed, size, winch, typed, hungUp, outVars, agent, child, conin>>
         /\ main' # main
         /\ UNCHANGED pc \/ StartHandlers
BY DEF Main, Start, StartHandlers, Wake, CheckSize, SetSize, CheckHandlers, FreeWinpty,
       SetShutdown, WakeInput, Join, Exit, MainGoes, threadVars, ttyVars, outVars, agentVars

LEMMA InputFrame ==
  ASSUME TypeOK, InputThread
  PROVE  /\ UNCHANGED <<mainVars, shouldShutdown, size, winch, hungUp, outVars, agent, child,
                        console, controlOpen>>
         /\ \A h \in Outputs : pc'[h] = pc[h]
         /\ completed' \subseteq completed \cup {"input"}
BY AdapterAssumption
   DEF TypeOK, Handlers, InputThread, InputTop, InputSelect, InputRead, InputWrite, Complete,
       HandlerGoes, wakeVars, ttyVars, outVars, agentVars

LEMMA OutputFrame ==
  ASSUME TypeOK, NEW p \in Outputs, OutputThread(p)
  PROVE  /\ UNCHANGED <<mainVars, shouldShutdown, ttyVars, drawn, sent, end, agentVars>>
         /\ \A h \in Handlers \ {p} : pc'[h] = pc[h]
         /\ \A q \in Outputs \ {p} : read'[q] = read[q] /\ shown'[q] = shown[q]
BY DEF TypeOK, Handlers, OutputThread, OutputRead, OutputWrite, Complete, HandlerGoes,
       wakeVars, outVars

LEMMA OthersFrame ==
  ASSUME HandleWinch \/ AgentStep \/ Environment
  PROVE  /\ UNCHANGED <<mainVars, threadVars, shouldShutdown, read, shown, controlOpen>>
         /\ hungUp => hungUp'
         /\ child = "exited" => child' = "exited"
         /\ agent # "running" => agent' = agent
BY DEF HandleWinch, AgentStep, Environment, Resize, Type, HangUp, ChildExits, TakeInput,
       AgentExits, AgentCrashes, Die, Send, ShutDownOutput, Draw, wakeVars, ttyVars, outVars,
       agentVars

-----------------------------------------------------------------------------
(* The parts of the invariant                                              *)

LEMMA OutputInOrderStep == ASSUME IInv, Next PROVE OutputInOrder'
<1> USE AdapterAssumption DEF IInv, TypeOK, OutputInOrder, Handlers
<1>1. CASE Main
  <2>1. CASE UNCHANGED pc
    BY <1>1, <2>1, MainFrame DEF outVars
  <2>2. CASE StartHandlers
    BY <2>2 DEF StartHandlers, MainGoes, ThreadsWithinMain, ttyVars, outVars
  <2> QED
    BY <1>1, <2>1, <2>2, MainFrame
<1>2. CASE InputThread
  BY <1>2, InputFrame DEF outVars
<1>3. ASSUME NEW p \in Outputs, OutputThread(p) PROVE OutputInOrder'
  <2>1. CASE OutputRead(p)
    BY <2>1 DEF OutputRead, HandlerGoes, ttyVars
  <2>2. CASE OutputWrite(p)
    BY <2>2 DEF OutputWrite, HandlerGoes, ttyVars
  <2>3. CASE Complete(p)
    BY <2>3 DEF Complete, HandlerGoes, ttyVars, outVars
  <2> QED
    BY <1>3, <2>1, <2>2, <2>3 DEF OutputThread
<1>4. CASE HandleWinch \/ AgentStep \/ Environment
  <2>1. \A p \in Outputs : sent[p] <= sent'[p] /\ sent'[p] <= drawn'[p]
    BY <1>4 DEF HandleWinch, AgentStep, Environment, Resize, Type, HangUp, ChildExits,
                TakeInput, AgentExits, AgentCrashes, Die, Send, ShutDownOutput, Draw, outVars
  <2>2. sent' \in [Outputs -> Nat]
    BY <1>4, OthersType
  <2> QED
    BY <1>4, <2>1, <2>2, OthersFrame DEF threadVars
<1> QED
  BY <1>1, <1>2, <1>3, <1>4 DEF Next

LEMMA FinishedCompleteStep == ASSUME IInv, Next PROVE FinishedComplete'
<1> USE DEF IInv, TypeOK, FinishedComplete
<1>1. CASE Main
  BY <1>1, MainFrame DEF outVars
<1>2. CASE InputThread
  BY <1>2, InputFrame DEF outVars
<1>3. ASSUME NEW p \in Outputs, OutputThread(p) PROVE FinishedComplete'
  BY <1>3, OutputFrame DEF agentVars
<1>4. CASE HandleWinch \/ (Environment /\ UNCHANGED <<drawn, sent, end, agent>>) \/ TakeInput
  BY <1>4, OthersFrame DEF HandleWinch, TakeInput, outVars, agentVars, AgentStep
<1>5. CASE AgentExits \/ AgentCrashes
  BY <1>5 DEF AgentExits, AgentCrashes, Die
<1>6. ASSUME NEW p \in Outputs, Send(p) \/ Draw(p) \/ ShutDownOutput(p) PROVE FinishedComplete'
  BY <1>6 DEF Send, Draw, ShutDownOutput, OutputInOrder, agentVars
<1>7. CASE Resize \/ Type \/ HangUp \/ ChildExits
  BY <1>7 DEF Resize, Type, HangUp, ChildExits, outVars, agentVars
<1> QED
  BY <1>1, <1>2, <1>3, <1>4, <1>5, <1>6, <1>7 DEF Next, AgentStep, Environment

LEMMA ThreadsEndAtEofStep == ASSUME IInv, Next PROVE ThreadsEndAtEof'
<1> USE AdapterAssumption DEF IInv, TypeOK, ThreadsEndAtEof, Ending, Handlers
<1>1. CASE Main
  <2>1. CASE UNCHANGED pc
    BY <1>1, <2>1, MainFrame DEF outVars
  <2>2. CASE StartHandlers
    BY <2>2 DEF StartHandlers
  <2> QED
    BY <1>1, <2>1, <2>2, MainFrame
<1>2. CASE InputThread
  BY <1>2, InputFrame DEF outVars
<1>3. ASSUME NEW p \in Outputs, OutputThread(p) PROVE ThreadsEndAtEof'
  <2>1. CASE OutputRead(p)
    BY <2>1 DEF OutputRead, HandlerGoes, ttyVars
  <2>2. CASE OutputWrite(p)
    BY <2>2 DEF OutputWrite, HandlerGoes, ttyVars
  <2>3. CASE Complete(p)
    BY <2>3 DEF Complete, HandlerGoes, ttyVars, outVars
  <2> QED
    BY <1>3, <2>1, <2>2, <2>3 DEF OutputThread
<1>4. CASE HandleWinch \/ AgentStep \/ Environment
  <2>1. \A p \in Outputs : end[p] # "open" => end'[p] # "open" /\ sent'[p] = sent[p]
    BY <1>4 DEF HandleWinch, AgentStep, Environment, Resize, Type, HangUp, ChildExits,
                TakeInput, AgentExits, AgentCrashes, Die, Send, ShutDownOutput, Draw, outVars,
                FinishedComplete
  <2> QED
    BY <1>4, <2>1, OthersFrame DEF threadVars
<1> QED
  BY <1>1, <1>2, <1>3, <1>4 DEF Next

LEMMA ThreadsWithinMainStep == ASSUME IInv, Next PROVE ThreadsWithinMain'
<1> USE AdapterAssumption DEF IInv, TypeOK, ThreadsWithinMain, Handlers
<1>1. CASE Main
  BY <1>1 DEF Main, Start, StartHandlers, Wake, CheckSize, SetSize, CheckHandlers, FreeWinpty,
              SetShutdown, WakeInput, Join, Exit, MainGoes, threadVars
<1>2. CASE InputThread
  BY <1>2, InputFrame
     DEF InputThread, InputTop, InputSelect, InputRead, InputWrite, Complete, HandlerGoes,
         mainVars
<1>3. ASSUME NEW p \in Outputs, OutputThread(p) PROVE ThreadsWithinMain'
  BY <1>3, OutputFrame
     DEF OutputThread, OutputRead, OutputWrite, Complete, HandlerGoes, mainVars
<1>4. CASE HandleWinch \/ AgentStep \/ Environment
  BY <1>4, OthersFrame DEF mainVars, threadVars
<1> QED
  BY <1>1, <1>2, <1>3, <1>4 DEF Next

LEMMA ExitCodeKnownStep == ASSUME IInv, Next PROVE ExitCodeKnown'
<1> USE DEF IInv, ExitCodeKnown
<1>1. CASE Main
  <2>1. CASE Exit
    BY <2>1 DEF Exit, MainGoes, InLoop, Loop, WhyComplete, FinishedComplete, ttyVars, agentVars
  <2>2. CASE UNCHANGED exitCode
    BY <1>1, <2>2, MainFrame
  <2> QED
    BY <1>1, <2>1, <2>2
       DEF Main, Start, StartHandlers, Wake, CheckSize, SetSize, CheckHandlers, FreeWinpty,
           SetShutdown, WakeInput, Join
<1>2. CASE InputThread
  BY <1>2, InputFrame DEF mainVars
<1>3. ASSUME NEW p \in Outputs, OutputThread(p) PROVE ExitCodeKnown'
  BY <1>3, OutputFrame DEF mainVars, ttyVars, agentVars
<1>4. CASE HandleWinch \/ AgentStep \/ Environment
  BY <1>4, OthersFrame DEF mainVars
<1> QED
  BY <1>1, <1>2, <1>3, <1>4 DEF Next

LEMMA WhyCompleteStep == ASSUME IInv, Next PROVE WhyComplete'
<1> USE AdapterAssumption DEF IInv, TypeOK, WhyComplete, InLoop, Loop, Handlers
<1>1. CASE Main
  <2>1. CASE CheckHandlers
    <3>1. completed # {} =>
            hungUp \/ agent = "crashed" \/ \E p \in Outputs : end[p] = "finished"
      BY <2>1 DEF CheckHandlers, ThreadsEndAtEof, FinishedComplete
    <3> QED
      BY <2>1, <3>1 DEF CheckHandlers, threadVars, wakeVars, ttyVars, outVars, agentVars
  <2>2. CASE StartHandlers
    BY <2>2 DEF StartHandlers, MainGoes, ThreadsWithinMain, Ending, wakeVars, ttyVars, outVars,
                agentVars
  <2>3. CASE Start \/ Wake \/ CheckSize \/ SetSize
    BY <2>3 DEF Start, Wake, CheckSize, SetSize, MainGoes, threadVars, wakeVars, ttyVars,
                outVars, agentVars
  <2>4. CASE FreeWinpty \/ SetShutdown \/ WakeInput \/ Join \/ Exit
    BY <2>4 DEF FreeWinpty, SetShutdown, WakeInput, Join, Exit, MainGoes, threadVars, wakeVars,
                ttyVars, outVars, agentVars
  <2> QED
    BY <1>1, <2>1, <2>2, <2>3, <2>4 DEF Main
<1>2. CASE InputThread
  <2>1. pc'["input"] \in Ending => hungUp \/ agent # "running" \/ shouldShutdown
    BY <1>2 DEF InputThread, InputTop, InputSelect, InputRead, InputWrite, Complete,
                HandlerGoes, Ending
  <2>2. \A h \in completed' : pc'[h] \in Ending
    BY <1>2, InputFrame
       DEF InputThread, InputTop, InputSelect, InputRead, InputWrite, Complete, HandlerGoes,
           Ending
  <2> QED
    BY <1>2, <2>1, <2>2, InputFrame DEF mainVars, outVars
<1>3. ASSUME NEW p \in Outputs, OutputThread(p) PROVE WhyComplete'
  <2>1. \A h \in completed' : pc'[h] \in Ending
    BY <1>3 DEF OutputThread, OutputRead, OutputWrite, Complete, HandlerGoes, Ending
  <2> QED
    BY <1>3, <2>1, OutputFrame DEF mainVars, ttyVars, agentVars
<1>4. CASE HandleWinch \/ AgentStep \/ Environment
  <2>1. agent' # agent => (agent' = "dead" /\ ~controlOpen) \/ agent' = "crashed"
    BY <1>4 DEF HandleWinch, AgentStep, Environment, Resize, Type, HangUp, ChildExits,
                TakeInput, AgentExits, AgentCrashes, Die, Send, ShutDownOutput, Draw, agentVars
  <2>2. \A p \in Outputs : end[p] = "finished" => end'[p] = "finished"
    BY <1>4 DEF HandleWinch, AgentStep, Environment, Resize, Type, HangUp, ChildExits,
                TakeInput, AgentExits, AgentCrashes, Die, Send, ShutDownOutput, Draw, outVars
  <2> QED
    BY <1>4, <2>1, <2>2, OthersFrame DEF mainVars, threadVars
<1> QED
  BY <1>1, <1>2, <1>3, <1>4 DEF Next

-----------------------------------------------------------------------------
(* The theorems                                                            *)

LEMMA NextInvariant == IInv /\ [Next]_vars => IInv'
<1> SUFFICES ASSUME IInv, [Next]_vars PROVE IInv'
  OBVIOUS
<1>1. CASE Next
  <2>1. TypeOK'
    BY <1>1, MainType, ThreadsType, OthersType DEF Next, IInv
  <2> QED
    BY <1>1, <2>1, OutputInOrderStep, FinishedCompleteStep, ThreadsEndAtEofStep,
       WhyCompleteStep, ThreadsWithinMainStep, ExitCodeKnownStep DEF IInv
<1>2. CASE UNCHANGED vars
  BY <1>2
     DEF vars, mainVars, threadVars, wakeVars, ttyVars, outVars, agentVars, IInv, TypeOK,
         OutputInOrder, FinishedComplete, ThreadsEndAtEof, WhyComplete, ThreadsWithinMain,
         ExitCodeKnown, InLoop
<1> QED
  BY <1>1, <1>2

\* The inductive invariant holds in every state of every behaviour.
THEOREM Invariance == Spec => []IInv
<1> QED
  BY InitInvariant, NextInvariant, PTL DEF Spec

\* Every variable of the adapter keeps its type.
THEOREM TypeCorrect == Spec => []TypeOK
<1>1. IInv => TypeOK
  BY DEF IInv
<1> QED
  BY <1>1, Invariance, PTL

\* main() returns STILL_ACTIVE only after a failure: with any number of output
\* pipes, the first that ends does so after the child has exited.
THEOREM ExitCodeIsKnown == Spec => []ExitCodeKnown
<1>1. IInv => ExitCodeKnown
  BY DEF IInv
<1> QED
  BY <1>1, Invariance, PTL

\* With a single output pipe, main() returns after the terminal was given all
\* of the output.  (With two it need not: the run adapter_conerr.)
THEOREM OnePipeIsCopied ==
  ASSUME NEW p, Outputs = {p}
  PROVE  Spec => []AllOutputCopied
<1>1. IInv => AllOutputCopied
  <2> SUFFICES ASSUME IInv, main = "done", ~hungUp, agent # "crashed"
               PROVE  shown[p] = drawn[p]
    BY DEF AllOutputCopied
  <2>1. pc[p] = "ended"
    BY DEF IInv, ThreadsWithinMain, Handlers
  <2>2. read[p] = sent[p] /\ read[p] = shown[p]
    BY <2>1 DEF IInv, ThreadsEndAtEof, OutputInOrder, Ending, TypeOK
  <2>3. sent[p] = drawn[p]
    BY DEF IInv, WhyComplete, InLoop, Loop, FinishedComplete
  <2> QED
    BY <2>2, <2>3
<1> QED
  BY <1>1, Invariance, PTL

=============================================================================
