------------------------------- MODULE Agent ---------------------------------
(***************************************************************************)
(* The winpty agent (agent/Agent.cc on agent/EventLoop.cc): one thread     *)
(* that serves its pipes in the order they were created, polls the console *)
(* every 25 ms, scrapes what changed into CONOUT and CONERR, and winds the *)
(* session down after the child exits.                                     *)
(*                                                                         *)
(* What a console program draws is a count of changes per screen buffer; a *)
(* scrape writes one "screen" item that brings the terminal up to date     *)
(* with the buffer.  The agent's steps are those at which another process  *)
(* can get between: one I/O call, one handler, one stage of the poll.      *)
(***************************************************************************)
EXTENDS NamedPipe

CONSTANTS
  PlainMode,     \* WINPTY_FLAG_PLAIN_OUTPUT
  ClientPipes,   \* the data pipes the client uses
  ClientRequests,   \* the RPC requests the client makes
  MaxScreen,     \* bound: changes drawn on a screen buffer
  MaxToggles,    \* bound: changes of the console's input mode
  MaxTyped,      \* bound: writes to CONIN
  MaxCalls       \* bound: RPC calls after winpty_open

ASSUME AgentAssumption ==
  /\ OutPipes \in {{"control", "conout"}, {"control", "conout", "conerr"}}
  /\ InPipes = {"control", "conin"}
  /\ ClientPipes \subseteq Pipes \ {"control"}
  /\ PlainMode \in BOOLEAN
  /\ {MaxScreen, MaxToggles, MaxTyped, MaxCalls} \subseteq Nat

DataOut == OutPipes \ {"control"}   \* m_conoutPipe, m_conerrPipe

VARIABLES
  pc,            \* where the agent's thread is
  progress,      \* what serviceIo will return for the pipe being served
  exiting,       \* EventLoop::m_exiting
  childHeld,     \* m_childProcess # nullptr
  autoShutdown, exitAfterShutdown, closingOutputPipes,
  shouldScrape, enableMouse,    \* locals of onPollTimeout, FALSE outside it
  mouseOn,       \* Terminal::m_mouseModeEnabled of the primary terminal
  incomplete,    \* ConsoleInput::m_byteQueue holds an unfinished escape
  dsrSent,       \* ConsoleInput::m_dsrSent
  scraped,       \* how much of each screen buffer has been scraped
  screen,        \* changes drawn on each screen buffer
  child,         \* the process CreateProcess made
  atExit,        \* what was on the screens when the child exited
  mouseWanted,   \* the console's mode asks for mouse input
  calling,       \* the RPC the client waits in
  spawnCalled,   \* the client has called winpty_spawn
  calls, typed, toggles         \* counts of what the bounds cap

loopVars == <<pc, progress, exiting>>
shutdownVars == <<childHeld, autoShutdown, exitAfterShutdown, closingOutputPipes>>
pollVars == <<shouldScrape, enableMouse, mouseOn, scraped>>
inputVars == <<incomplete, dsrSent>>
agentVars == <<loopVars, shutdownVars, pollVars, inputVars>>
consoleVars == <<screen, child, atExit, mouseWanted, toggles>>
clientVars == <<calling, spawnCalled, calls, typed>>
vars == <<pipeVars, agentVars, consoleVars, clientVars>>

-----------------------------------------------------------------------------
(* What travels on the pipes                                               *)

Screen(n) == [kind |-> "screen", n |-> n]
Mouse(on) == [kind |-> IF on THEN "mouseOn" ELSE "mouseOff", n |-> 0]
Dsr == [kind |-> "dsr", n |-> 0]
ReplyKinds == {"open", "spawned", "spawnFailed", "setSize", "processList"}
Reply(k) == [kind |-> k, n |-> 0]
Item == [kind : {"screen", "mouseOn", "mouseOff", "dsr"} \cup ReplyKinds, n : Nat]

Requests == [kind : {"spawn"}, flags : SUBSET {"autoShutdown", "exitAfterShutdown"}]
              \cup [kind : {"setSize", "processList"}, flags : {{}}]

ASSUME RequestAssumption == ClientRequests \subseteq Requests

\* Keys are whole keypresses; "escape" leaves ConsoleInput with an unfinished
\* escape sequence; "dsrReply" answers a Device Status Report.
Inputs == {"keys", "escape", "dsrReply"}

-----------------------------------------------------------------------------
(* The order of EventLoop::run                                             *)

Poll(stage) == <<"timer", stage>>
Top == <<"control", "connect">>
Gone == <<"gone", "gone">>

\* Mutant of After: the CONERR pipe is served whether or not there is one.
AfterWithNull(p) ==
  CASE p = "control" -> <<"conin", "connect">>
    [] p = "conin"   -> <<"conout", "connect">>
    [] p = "conout"  -> <<"conerr", "connect">>
    [] OTHER -> Poll("check")

\* The pipe served after p, in creation order, or the timer after the last.
After(p) ==
  CASE p = "control" -> <<"conin", "connect">>
    [] p = "conin"   -> <<"conout", "connect">>
    [] p = "conout" /\ "conerr" \in OutPipes -> <<"conerr", "connect">>
    [] OTHER -> Poll("check")

PCs == (Pipes \X {"connect", "read", "complete", "issue", "handle"})
         \cup {Poll("check"), Poll("scrape"), Poll("finish"), Gone}

\* The OutputWorker's first step, and the InputWorker's where there is one.
FirstWrite(p) == <<p, IF pending[p] > 0 THEN "complete" ELSE "issue">>
FirstWorker(p) == IF p \in InPipes THEN <<p, "read">> ELSE FirstWrite(p)

\* serviceIo returns: the handler is called if there was progress.
Served(p, result) == IF result THEN <<p, "handle">> ELSE After(p)

-----------------------------------------------------------------------------
(* Shutting the output down                                                *)

\* Mutant of MayClose: a pipe nobody connected to yet is closed too.
MayCloseUnconnected(p, s) == agentEnd[p] # "closed" /\ BytesToSend(p, s) = 0

\* When autoClosePipesForShutdown closes the data pipe p.
MayClose(p, s) == agentEnd[p] = "connected" /\ BytesToSend(p, s) = 0

\* Mutants of AutoClosePipesForShutdown: closed pipes alone are a reason to
\* exit; and only this call's closing is.
ExitWithoutShutdown(s) ==
  LET drained == {p \in DataOut : closingOutputPipes /\ MayClose(p, s)}
  IN  /\ CloseAll(drained)
      /\ exiting' = IF /\ exitAfterShutdown
                        /\ \A p \in DataOut : agentEnd'[p] = "closed"
                     THEN TRUE ELSE exiting
ExitOnClosing(s) ==
  LET drained == {p \in DataOut : closingOutputPipes /\ MayClose(p, s)}
  IN  /\ CloseAll(drained)
      /\ exiting' = IF /\ drained # {} /\ exitAfterShutdown
                        /\ \A p \in DataOut : agentEnd'[p] = "closed"
                     THEN TRUE ELSE exiting

\* autoClosePipesForShutdown, once s is what has been written.
AutoClosePipesForShutdown(s) ==
  LET drained == {p \in DataOut : closingOutputPipes /\ MayClose(p, s)}
  IN  /\ CloseAll(drained)
      /\ exiting' = IF /\ closingOutputPipes /\ exitAfterShutdown
                        /\ \A p \in DataOut : agentEnd'[p] = "closed"
                     THEN TRUE ELSE exiting

-----------------------------------------------------------------------------
(* NamedPipe::serviceIo, a worker at a time                                *)

\* A closed pipe, and one nobody has connected to yet, makes no progress.
SkipPipe(p) ==
  /\ pc = <<p, "connect">>
  /\ \/ agentEnd[p] = "closed"
     \/ agentEnd[p] = "connecting" /\ peerEnd[p] = "none"
  /\ pc' = After(p)
  /\ UNCHANGED <<pipeVars, progress>>

EnterPipe(p) ==
  /\ pc = <<p, "connect">>
  /\ \/ FinishConnect(p) /\ progress' = TRUE
     \/ agentEnd[p] = "connected" /\ UNCHANGED <<pipeVars, progress>>
  /\ pc' = FirstWorker(p)

\* Mutant of ReadPipe: data is queued, but only an error counts as progress.
ReadQuietly(p) ==
  LET result == progress \/ PeerGone(p)
  IN  /\ pc = <<p, "read">>
      /\ ServiceRead(p)
      /\ IF p \in OutPipes /\ ~PeerGone(p)
         THEN pc' = FirstWrite(p) ELSE pc' = Served(p, result)
      /\ progress' = result

\* InputWorker::service.
ReadPipe(p) ==
  LET result == progress \/ inWire[p] # <<>> \/ PeerGone(p)
  IN  /\ pc = <<p, "read">>
      /\ ServiceRead(p)
      /\ IF p \in OutPipes /\ ~PeerGone(p)
         THEN pc' = FirstWrite(p) ELSE pc' = Served(p, result)
      /\ progress' = result

\* OutputWorker::service, the write left pending by an earlier call.
CheckPending(p) ==
  /\ pc = <<p, "complete">>
  /\ \/ /\ CompleteWrite(p)
        /\ pc' = <<p, "issue">>
        /\ progress' = TRUE
     \/ /\ ~PeerGone(p) /\ ~WriteAccepted(p)
        /\ pc' = Served(p, progress)
        /\ UNCHANGED <<pipeVars, progress>>
     \/ /\ FailWrite(p)
        /\ pc' = <<p, "handle">>
        /\ progress' = TRUE

\* OutputWorker::service, the loop that issues writes until one is left
\* pending or the queue is empty.
IssueWrites(p) ==
  /\ pc = <<p, "issue">>
  /\ \/ /\ OutQueueSize(p, stream) = 0
        /\ pc' = Served(p, progress)
        /\ UNCHANGED <<pipeVars, progress>>
     \/ /\ IssueWrite(p)
        /\ \/ pending'[p] = 0 /\ progress' = TRUE /\ UNCHANGED pc
           \/ pending'[p] > 0 /\ pc' = Served(p, progress) /\ UNCHANGED progress
     \/ /\ FailWrite(p)
        /\ pc' = <<p, "handle">>
        /\ progress' = TRUE

\* The loop starts over only while m_exiting is unset.
ServePipe(p) ==
  /\ pc = Top => ~exiting
  /\ \/ SkipPipe(p) \/ EnterPipe(p)
     \/ p \in InPipes /\ ReadPipe(p)
     \/ p \in OutPipes /\ (CheckPending(p) \/ IssueWrites(p))
  /\ UNCHANGED <<exiting, shutdownVars, pollVars, inputVars, consoleVars, clientVars>>

-----------------------------------------------------------------------------
(* onPipeIo                                                                *)

Handling(p) == pc = <<p, "handle">>
HandlerReturns(p) == pc' = After(p) /\ progress' = FALSE

\* Mutant of LoseControlPipe: the loop is not told to exit.
LoseControlPipeKeepRunning ==
  /\ Handling("control")
  /\ agentEnd["control"] = "closed"
  /\ HandlerReturns("control")
  /\ UNCHANGED <<pipeVars, exiting, shutdownVars, pollVars, inputVars,
                 consoleVars, clientVars>>

\* pollControlPipe on a closed pipe.
LoseControlPipe ==
  /\ Handling("control")
  /\ agentEnd["control"] = "closed"
  /\ exiting' = TRUE
  /\ HandlerReturns("control")
  /\ UNCHANGED <<pipeVars, shutdownVars, pollVars, inputVars,
                 consoleVars, clientVars>>

\* Mutant of ReplyWith: the packet is left unanswered.
ReplyWithNothing(k) == stream' = stream

\* writePacket.
ReplyWith(k) == stream' = Written("control", Reply(k), stream)

TakePacket ==
  /\ Handling("control")
  /\ agentEnd["control"] # "closed"
  /\ inQueue["control"] # <<>>
  /\ inQueue' = [inQueue EXCEPT !["control"] = Tail(@)]
  /\ UNCHANGED <<agentEnd, peerEnd, wired, pending, got, inWire,
                 loopVars, inputVars, clientVars>>

\* handleStartProcessPacket.
HandleStartProcess ==
  /\ TakePacket
  /\ Head(inQueue["control"]).kind = "spawn"
  /\ \/ /\ ReplyWith("spawned")
        /\ childHeld' = TRUE
        /\ child' = "running"
        /\ autoShutdown' = ("autoShutdown" \in Head(inQueue["control"]).flags)
        /\ exitAfterShutdown' =
             ("exitAfterShutdown" \in Head(inQueue["control"]).flags)
     \/ /\ ReplyWith("spawnFailed")
        /\ UNCHANGED <<childHeld, child, autoShutdown, exitAfterShutdown>>
  /\ UNCHANGED <<closingOutputPipes, pollVars, screen, atExit, mouseWanted, toggles>>

\* What a scrape writes after s: one item for each buffer that has changes,
\* or that is drawn again because it was resized.
ScrapedInto(s, redrawn) ==
  [p \in OutPipes |->
     IF p \in DataOut /\ (screen[p] > scraped[p] \/ p \in redrawn)
     THEN Append(s[p], Screen(screen[p])) ELSE s[p]]

\* handleSetSizePacket.  Resizing scrapes both buffers, also when the poll
\* does not any more.
HandleSetSize ==
  /\ TakePacket
  /\ Head(inQueue["control"]).kind = "setSize"
  /\ \E redrawn \in {{}, DataOut} :
       stream' = Written("control", Reply("setSize"), ScrapedInto(stream, redrawn))
  /\ scraped' = screen
  /\ UNCHANGED <<shutdownVars, shouldScrape, enableMouse, mouseOn, consoleVars>>

\* handleGetConsoleProcessListPacket.
HandleGetConsoleProcessList ==
  /\ TakePacket
  /\ Head(inQueue["control"]).kind = "processList"
  /\ ReplyWith("processList")
  /\ UNCHANGED <<shutdownVars, pollVars, consoleVars>>

\* pollControlPipe has handled every packet.
EndPackets ==
  /\ Handling("control")
  /\ agentEnd["control"] # "closed"
  /\ inQueue["control"] = <<>>
  /\ HandlerReturns("control")
  /\ UNCHANGED <<pipeVars, exiting, shutdownVars, pollVars, inputVars,
                 consoleVars, clientVars>>

\* pollConinPipe: ConsoleInput::writeInput takes all there is.  An unfinished
\* escape at its end has a DSR sent after it, unless one is outstanding.
HandleConin ==
  LET input == inQueue["conin"]
      unfinished == IF input = <<>> THEN incomplete
                    ELSE input[Len(input)] = "escape"
      answered == \E i \in 1..Len(input) : input[i] = "dsrReply"
      send == input # <<>> /\ unfinished /\ ~(dsrSent /\ ~answered)
  IN  /\ Handling("conin")
      /\ inQueue' = [inQueue EXCEPT !["conin"] = <<>>]
      /\ incomplete' = unfinished
      /\ dsrSent' = (send \/ (dsrSent /\ ~answered))
      /\ stream' = IF send /\ ~PlainMode /\ agentEnd["conout"] # "closed"
                   THEN Written("conout", Dsr, stream) ELSE stream
      /\ HandlerReturns("conin")
      /\ UNCHANGED <<agentEnd, peerEnd, wired, pending, got, inWire, exiting,
                      shutdownVars, pollVars, consoleVars, clientVars>>

HandleDataOut(p) ==
  /\ Handling(p)
  /\ AutoClosePipesForShutdown(stream)
  /\ HandlerReturns(p)
  /\ UNCHANGED <<peerEnd, stream, got, inWire, inQueue, shutdownVars,
                 pollVars, inputVars, consoleVars, clientVars>>

OnPipeIo ==
  \/ \E p \in DataOut : HandleDataOut(p)
  \/ LoseControlPipe \/ EndPackets
  \/ HandleStartProcess \/ HandleSetSize \/ HandleGetConsoleProcessList
  \/ HandleConin

-----------------------------------------------------------------------------
(* onPollTimeout                                                           *)

\* Less than the poll interval has elapsed.
SkipPoll ==
  /\ pc = Poll("check")
  /\ pc' = Top
  /\ UNCHANGED <<pipeVars, progress, exiting, shutdownVars, pollVars, inputVars,
                 consoleVars, clientVars>>

\* Mutant of PollCheck: whether to scrape is decided after the exit check.
PollCheckLate ==
  /\ pc = Poll("check")
  /\ enableMouse' = mouseWanted
  /\ incomplete' \in {incomplete, FALSE}
  /\ IF autoShutdown /\ childHeld /\ child = "exited"
     THEN childHeld' = FALSE /\ closingOutputPipes' = TRUE
     ELSE UNCHANGED <<childHeld, closingOutputPipes>>
  /\ shouldScrape' = ~closingOutputPipes'
  /\ pc' = Poll("scrape")
  /\ UNCHANGED <<pipeVars, progress, exiting, autoShutdown, exitAfterShutdown,
                 mouseOn, scraped, dsrSent, consoleVars, clientVars>>

\* The input mode is read, an unfinished escape may have timed out, and the
\* child may have exited, all before anything is scraped.
PollCheck ==
  /\ pc = Poll("check")
  /\ enableMouse' = mouseWanted
  /\ incomplete' \in {incomplete, FALSE}
  /\ shouldScrape' = ~closingOutputPipes
  /\ IF autoShutdown /\ childHeld /\ child = "exited"
     THEN childHeld' = FALSE /\ closingOutputPipes' = TRUE
     ELSE UNCHANGED <<childHeld, closingOutputPipes>>
  /\ pc' = Poll("scrape")
  /\ UNCHANGED <<pipeVars, progress, exiting, autoShutdown, exitAfterShutdown,
                 mouseOn, scraped, dsrSent, consoleVars, clientVars>>

\* syncConsoleTitle and scrapeBuffers.  A new title is one more change of
\* the primary buffer.
PollScrape ==
  /\ pc = Poll("scrape")
  /\ IF shouldScrape
     THEN stream' = ScrapedInto(stream, {}) /\ scraped' = screen
     ELSE UNCHANGED <<stream, scraped>>
  /\ pc' = Poll("finish")
  /\ UNCHANGED <<agentEnd, peerEnd, wired, pending, got, inWire, inQueue, progress,
                 exiting, shutdownVars, shouldScrape, enableMouse, mouseOn,
                 inputVars, consoleVars, clientVars>>

\* Mutant of MouseModeNow: the mode is left on while shutting down.
MouseModeKept == enableMouse

\* The terminal's mouse mode this poll asks for.
MouseModeNow == enableMouse /\ ~closingOutputPipes

\* Mutant of PollFinish: the pipes are only closed when there is pipe I/O.
PollFinishLeavesPipes ==
  LET changed == ~PlainMode /\ mouseOn # MouseModeNow
  IN  /\ pc = Poll("finish")
      /\ mouseOn' = IF changed THEN MouseModeNow ELSE mouseOn
      /\ stream' = IF changed THEN Written("conout", Mouse(MouseModeNow), stream)
                   ELSE stream
      /\ shouldScrape' = FALSE /\ enableMouse' = FALSE
      /\ pc' = Top
      /\ UNCHANGED <<agentEnd, peerEnd, wired, pending, got, inWire, inQueue,
                     progress, exiting, shutdownVars, scraped, inputVars,
                     consoleVars, clientVars>>

\* Terminal::enableMouseMode and autoClosePipesForShutdown.
PollFinish ==
  LET changed == ~PlainMode /\ mouseOn # MouseModeNow
      s == IF changed THEN Written("conout", Mouse(MouseModeNow), stream) ELSE stream
  IN  /\ pc = Poll("finish")
      /\ mouseOn' = IF changed THEN MouseModeNow ELSE mouseOn
      /\ stream' = s
      /\ AutoClosePipesForShutdown(s)
      /\ shouldScrape' = FALSE /\ enableMouse' = FALSE
      /\ pc' = Top
      /\ UNCHANGED <<peerEnd, got, inWire, inQueue, progress, shutdownVars,
                     scraped, inputVars,
                     consoleVars, clientVars>>

OnPollTimeout == PollCheck \/ PollScrape \/ PollFinish

\* run() returns; ~Agent closes the console window, which ends the processes
\* attached to it and the agent, and with it the agent's pipe handles.
Destroy ==
  /\ pc = Top /\ exiting
  /\ pc' = Gone
  /\ CloseAll(Pipes)
  /\ child' = IF child = "running" THEN "killed" ELSE child
  /\ UNCHANGED <<peerEnd, stream, got, inWire, inQueue, progress, exiting,
                 shutdownVars, pollVars, inputVars, screen, atExit, mouseWanted,
                 toggles, clientVars>>

AgentNext ==
  \/ \E p \in Pipes : ServePipe(p)
  \/ OnPipeIo \/ SkipPoll \/ OnPollTimeout \/ Destroy

-----------------------------------------------------------------------------
(* The console's programs                                                  *)

\* Any process attached to the console draws.
Draw(p) ==
  /\ pc # Gone /\ child # "none"
  /\ screen[p] < MaxScreen
  /\ screen' = [screen EXCEPT ![p] = @ + 1]
  /\ UNCHANGED <<child, atExit, mouseWanted, toggles>>

ChildExits ==
  /\ child = "running"
  /\ child' = "exited"
  /\ atExit' = screen
  /\ UNCHANGED <<screen, mouseWanted, toggles>>

ToggleMouseInput ==
  /\ pc # Gone /\ child # "none"
  /\ toggles < MaxToggles
  /\ mouseWanted' = ~mouseWanted
  /\ toggles' = toggles + 1
  /\ UNCHANGED <<screen, child, atExit>>

ConsoleNext ==
  /\ (\E p \in DataOut : Draw(p)) \/ ChildExits \/ ToggleMouseInput
  /\ UNCHANGED <<pipeVars, agentVars, clientVars>>

-----------------------------------------------------------------------------
(* The client: libwinpty on the control pipe, a terminal on the others.    *)

\* The setup packet, read by winpty_open, names the data pipes.
Opened == got["control"] >= 1

Connect(p) == Opened /\ PeerConnect(p) /\ UNCHANGED clientVars

ReadData(p) ==
  (PeerRead(p) \/ PeerReadEof(p)) /\ UNCHANGED clientVars

CloseData(p) == PeerClose(p) /\ UNCHANGED clientVars

Type(k) ==
  /\ peerEnd["conin"] = "open" /\ agentEnd["conin"] # "closed"
  /\ typed < MaxTyped
  /\ typed' = typed + 1
  /\ inWire' = [inWire EXCEPT !["conin"] = Append(@, k)]
  /\ UNCHANGED <<agentEnd, peerEnd, stream, wired, pending, got, inQueue,
                 calling, spawnCalled, calls>>

\* An RPC call writes its request.  winpty_t's mutex allows one at a time,
\* and winpty_spawn can only be called once.
Call(r) ==
  /\ Opened /\ calling = "none"
  /\ peerEnd["control"] = "open" /\ agentEnd["control"] = "connected"
  /\ r.kind = "spawn" => ~spawnCalled
  /\ calls < MaxCalls
  /\ calls' = calls + 1
  /\ calling' = r.kind
  /\ spawnCalled' = (spawnCalled \/ r.kind = "spawn")
  /\ inWire' = [inWire EXCEPT !["control"] = Append(@, r)]
  /\ UNCHANGED <<agentEnd, peerEnd, stream, wired, pending, got, inQueue, typed>>

TakeReply ==
  /\ calling # "none"
  /\ PeerRead("control")
  /\ calling' = "none"
  /\ UNCHANGED <<spawnCalled, calls, typed>>

\* The read of a reply finds the pipe broken.
LoseConnection ==
  /\ calling # "none"
  /\ PeerReadEof("control")
  /\ calling' = "none"
  /\ UNCHANGED <<spawnCalled, calls, typed>>

\* winpty_free, or an RPC call that timed out.
HangUp ==
  /\ agentEnd["control"] = "connected"
  /\ PeerClose("control")
  /\ calling' = "none"
  /\ UNCHANGED <<spawnCalled, calls, typed>>

ClientNext ==
  /\ \/ \E p \in ClientPipes : Connect(p) \/ CloseData(p)
     \/ \E p \in ClientPipes \cap DataOut : ReadData(p)
     \/ \E k \in Inputs : Type(k)
     \/ \E r \in ClientRequests : Call(r)
     \/ TakeReply \/ LoseConnection \/ HangUp
  /\ UNCHANGED <<agentVars, consoleVars>>

-----------------------------------------------------------------------------
(* Specification                                                           *)

\* The state the constructor leaves: the control pipe connected and the
\* setup packet in its queue, the data pipes waiting for a client.
Init ==
  /\ agentEnd = [p \in Pipes |-> IF p = "control" THEN "connected" ELSE "connecting"]
  /\ peerEnd = [p \in Pipes |-> IF p = "control" THEN "open" ELSE "none"]
  /\ stream = [p \in OutPipes |-> IF p = "control" THEN <<Reply("open")>> ELSE <<>>]
  /\ wired = [p \in OutPipes |-> 0]
  /\ pending = [p \in OutPipes |-> 0]
  /\ got = [p \in OutPipes |-> 0]
  /\ inWire = [p \in InPipes |-> <<>>]
  /\ inQueue = [p \in InPipes |-> <<>>]
  /\ pc = Top /\ progress = FALSE /\ exiting = FALSE
  /\ childHeld = FALSE /\ autoShutdown = FALSE
  /\ exitAfterShutdown = FALSE /\ closingOutputPipes = FALSE
  /\ shouldScrape = FALSE /\ enableMouse = FALSE /\ mouseOn = FALSE
  /\ incomplete = FALSE /\ dsrSent = FALSE
  /\ scraped = [p \in DataOut |-> 0]
  /\ screen = [p \in DataOut |-> 0]
  /\ atExit = [p \in DataOut |-> 0]
  /\ child = "none"
  /\ mouseWanted \in BOOLEAN
  /\ calling = "open" /\ spawnCalled = FALSE
  /\ calls = 0 /\ typed = 0 /\ toggles = 0

Next == AgentNext \/ ConsoleNext \/ ClientNext

Spec == Init /\ [][Next]_vars

\* The agent's thread is never blocked for longer than the poll interval, so
\* the loop always goes on and, time passing, polls again and again.
AgentFairness == WF_vars(AgentNext) /\ SF_vars(PollCheck)

\* A client that connects to the output pipes and reads them to their end,
\* as the unix adapter and the tests do, and waits for its RPC calls.
ClientStep(A) == A /\ UNCHANGED <<agentVars, consoleVars>>
ClientFairness ==
  /\ \A p \in ClientPipes \cap DataOut :
                        /\ WF_vars(ClientStep(Connect(p)))
                        /\ WF_vars(ClientStep(ReadData(p)))
  /\ WF_vars(ClientStep(TakeReply \/ LoseConnection))

FairSpec == Spec /\ AgentFairness /\ ClientFairness

-----------------------------------------------------------------------------
(* Properties                                                              *)

QueueTypeOK ==
  /\ stream \in [OutPipes -> Seq(Item)]
  /\ DOMAIN inWire = InPipes /\ DOMAIN inQueue = InPipes
  /\ inWire["control"] \in Seq(Requests) /\ inQueue["control"] \in Seq(Requests)
  /\ inWire["conin"] \in Seq(Inputs) /\ inQueue["conin"] \in Seq(Inputs)

FlagTypeOK ==
  /\ progress \in BOOLEAN /\ exiting \in BOOLEAN
  /\ childHeld \in BOOLEAN /\ autoShutdown \in BOOLEAN
  /\ exitAfterShutdown \in BOOLEAN /\ closingOutputPipes \in BOOLEAN
  /\ shouldScrape \in BOOLEAN /\ enableMouse \in BOOLEAN /\ mouseOn \in BOOLEAN
  /\ incomplete \in BOOLEAN /\ dsrSent \in BOOLEAN
  /\ mouseWanted \in BOOLEAN /\ spawnCalled \in BOOLEAN

ScreenTypeOK ==
  /\ scraped \in [DataOut -> Nat]
  /\ screen \in [DataOut -> Nat]
  /\ atExit \in [DataOut -> Nat]

\* Every variable has its type.
TypeOK ==
  /\ PipeTypeOK /\ QueueTypeOK /\ FlagTypeOK /\ ScreenTypeOK
  /\ pc \in PCs
  /\ child \in {"none", "running", "exited", "killed"}
  /\ calling \in {"none", "open", "spawn", "setSize", "processList"}
  /\ calls \in Nat /\ typed \in Nat /\ toggles \in Nat

\* The client broke the connection while the agent was serving it.
HungUp == peerEnd["control"] = "closed"

\* The n first items of the pipe p bring its terminal up to change k.
ShownWithin(p, n, k) ==
  \/ k = 0
  \/ \E i \in 1..n : stream[p][i].kind = "screen" /\ stream[p][i].n >= k

\* A client that has read an output pipe to its end has everything that was
\* on the screen when the child exited, however the exit raced the polls, the
\* pipe's buffer and the client's connecting: "scrape for output *after* the
\* above exit-check to ensure that we collect the child process's final
\* output" and "if there's any data left to send, send it before closing".
NoOutputLost ==
  \A p \in DataOut :
    peerEnd[p] = "eof" /\ ~HungUp =>
      child = "exited" /\ ShownWithin(p, got[p], atExit[p])

\* A terminal that reads CONOUT to its end is not left in mouse mode: "we
\* must ensure that we disable mouse mode before closing the CONOUT pipe".
MouseOffAtEnd ==
  peerEnd["conout"] = "eof" /\ ~HungUp =>
    \A i \in 1..got["conout"] :
      stream["conout"][i].kind = "mouseOn" =>
        \E j \in i..got["conout"] : stream["conout"][j].kind = "mouseOff"

\* Until the client hangs up it finds every data pipe it has the name of,
\* also when the child ended before the client connected: "the libwinpty
\* client may try to connect to a non-existent pipe.  This case is important
\* for short-lived programs".
PipesStayConnectable ==
  \A p \in DataOut : peerEnd[p] = "none" /\ ~HungUp => agentEnd[p] = "connecting"

\* The agent takes a running child down only after the client hung up: an
\* exit by itself, after the shutdown, comes after the child's.
KillsOnlyWhenHungUp == child = "killed" => HungUp

\* What was read is handled at once: no request and no keypress stays behind
\* in a queue, where only the arrival of more data would get it handled.
NothingLeftQueued ==
  pc = Poll("check") =>
    /\ inQueue["conin"] = <<>>
    /\ agentEnd["control"] = "closed" \/ inQueue["control"] = <<>>

\* After the child of an auto-shutdown spawn exits, a client that reads comes
\* to the end of every output pipe.
OutputEnds ==
  \A p \in ClientPipes \cap DataOut :
    child = "exited" /\ autoShutdown ~>
      \/ peerEnd[p] \in {"eof", "closed"}
      \/ peerEnd[p] = "none" /\ agentEnd[p] = "closed"

\* With both flags, the agent goes away by itself after the child.
AgentExits ==
  child = "exited" /\ autoShutdown /\ exitAfterShutdown ~> pc = Gone

\* Once the client hangs up the agent exits and leaves no child running.
HangUpEndsSession == HungUp ~> pc = Gone /\ child # "running"

\* The agent is there for as long as it is needed and no longer, whichever of
\* the two ends it.
AgentGoesAway == AgentExits /\ HangUpEndsSession

\* Every RPC call returns: with its reply, or with a broken connection.
CallsReturn == calling # "none" ~> calling = "none"

\* What is typed reaches the agent, also when it is typed before the agent
\* has noticed the connection and when the client closes CONIN behind it.
InputTaken == inWire["conin"] # <<>> ~> inWire["conin"] = <<>> \/ pc = Gone

\* Refinement of TerminalSession: what the client's terminals show.
View(p) ==
  LET shown == {stream[p][i].n : i \in {j \in 1..got[p] : stream[p][j].kind = "screen"}}
  IN  IF shown = {} THEN 0 ELSE CHOOSE n \in shown : \A m \in shown : m <= n

Session == INSTANCE TerminalSession WITH
  Terminals <- DataOut,
  view <- [p \in DataOut |-> View(p)],
  ended <- [p \in DataOut |-> peerEnd[p] = "eof"],
  hungUp <- HungUp

\* The agent implements the terminal session a client is promised.
ImplementsSession == Session!Spec

-----------------------------------------------------------------------------
(* The inductive invariant from which the safety properties are proved     *)

PipeBounds ==
  \A p \in OutPipes :
    /\ got[p] <= wired[p] /\ wired[p] <= Len(stream[p])
    /\ pending[p] <= wired[p]
    /\ agentEnd[p] = "closed" => pending[p] = 0

\* A worker runs on a connected pipe only.
ServedConnected ==
  \A p \in Pipes :
    pc \in {<<p, "read">>, <<p, "complete">>, <<p, "issue">>} =>
      agentEnd[p] = "connected"

EofMeansRead ==
  \A p \in OutPipes :
    peerEnd[p] = "eof" => agentEnd[p] = "closed" /\ got[p] = wired[p]

ClosedWasConnected ==
  /\ agentEnd["control"] = "closed" => HungUp \/ pc = Gone
  /\ PipesStayConnectable

\* Without a hang-up the agent exits with its output shut down.
ExitReason ==
  (exiting \/ pc = Gone) /\ ~HungUp =>
    closingOutputPipes /\ \A p \in DataOut : agentEnd[p] = "closed"

SpawnsIn(s) == {i \in 1..Len(s) : s[i].kind = "spawn"}

\* There is one spawn request at most, and nothing was spawned before it.
SpawnOnce ==
  /\ ~spawnCalled => child = "none" /\ SpawnsIn(inWire["control"]) = {}
                                   /\ SpawnsIn(inQueue["control"]) = {}
  /\ SpawnsIn(inWire["control"]) = {} \/ SpawnsIn(inQueue["control"]) = {}
  /\ \A s \in {inWire["control"], inQueue["control"]} :
       \A i \in SpawnsIn(s) : child = "none" /\ \A j \in SpawnsIn(s) : i = j

ScreensShown ==
  \A p \in DataOut : /\ scraped[p] <= screen[p] /\ atExit[p] <= screen[p]
                     /\ ShownWithin(p, Len(stream[p]), scraped[p])

\* Shutting down starts after the child's exit, and what was on the screens
\* then is scraped by the end of that poll.
ClosingScraped ==
  closingOutputPipes =>
    /\ child = "exited"
    /\ \/ \A p \in DataOut : atExit[p] <= scraped[p]
       \/ pc = Poll("scrape") /\ shouldScrape

\* A pipe the client did not close is closed with everything handed over.
ClosedFlushed ==
  \A p \in DataOut :
    agentEnd[p] = "closed" /\ peerEnd[p] # "closed" /\ ~HungUp =>
      closingOutputPipes /\ ShownWithin(p, wired[p], atExit[p])

\* The conjunction that every step preserves.
IInv ==
  /\ TypeOK
  /\ PipeBounds /\ ServedConnected /\ EofMeansRead
  /\ ClosedWasConnected /\ ExitReason /\ SpawnOnce
  /\ ScreensShown /\ ClosingScraped /\ ClosedFlushed
  /\ KillsOnlyWhenHungUp

=============================================================================
