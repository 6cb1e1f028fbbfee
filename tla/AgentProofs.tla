----------------------------- MODULE AgentProofs ------------------------------
(***************************************************************************)
(* Proofs about Agent, for every size of the buffers and of the bounds:    *)
(* its invariant and what follows for the pipes and the child, what a pass *)
(* of the event loop leaves in the input queues, in which mode the agent   *)
(* leaves the terminal, and that it implements TerminalSession.            *)
(***************************************************************************)
EXTENDS Agent, WellFoundedInduction, TLAPS

LEMMA PipeNames ==
  /\ InPipes = {"control", "conin"}
  /\ DataOut \in {{"conout"}, {"conout", "conerr"}}
  /\ OutPipes = {"control"} \cup DataOut
  /\ Pipes = {"control", "conin"} \cup DataOut
BY AgentAssumption DEF DataOut, Pipes

-----------------------------------------------------------------------------
(* Type correctness                                                        *)

LEMMA InitType == Init => TypeOK
<1> SUFFICES ASSUME Init PROVE TypeOK
  OBVIOUS
<1> USE PipeNames DEF Init
<1>1. PipeTypeOK
  BY DEF PipeTypeOK
<1>2. QueueTypeOK
  <2>1. Reply("open") \in Item
    BY DEF Reply, Item, ReplyKinds
  <2>2. stream \in [OutPipes -> Seq(Item)]
    BY <2>1
  <2> QED
    BY <2>2 DEF QueueTypeOK
<1>3. FlagTypeOK
  BY DEF FlagTypeOK
<1>4. ScreenTypeOK
  BY DEF ScreenTypeOK
<1>5. pc \in PCs
  BY DEF PCs, Top
<1> QED
  BY <1>1, <1>2, <1>3, <1>4, <1>5 DEF TypeOK

LEMMA CloseAllType ==
  ASSUME PipeTypeOK, NEW S, CloseAll(S)
  PROVE  /\ agentEnd' \in [Pipes -> {"connecting", "connected", "closed"}]
         /\ wired' \in [OutPipes -> Nat]
         /\ pending' \in [OutPipes -> Nat]
BY DEF PipeTypeOK, CloseAll, Larger

LEMMA AfterType == ASSUME NEW p PROVE After(p) \in PCs
BY PipeNames DEF After, PCs, Poll

\* What ServePipe leaves alone.
LEMMA ServePipeFrame ==
  ASSUME FlagTypeOK, ScreenTypeOK, NEW p, ServePipe(p), progress' \in BOOLEAN
  PROVE  FlagTypeOK' /\ ScreenTypeOK'
BY DEF ServePipe, FlagTypeOK, ScreenTypeOK, shutdownVars, pollVars, inputVars,
       consoleVars, clientVars

LEMMA ServePipeType ==
  ASSUME TypeOK, NEW p \in Pipes, ServePipe(p)
  PROVE  TypeOK'
<1>1. PipeTypeOK' /\ QueueTypeOK' /\ progress' \in BOOLEAN /\ pc' \in PCs
  <2> USE PipeNames, AfterType DEF TypeOK
  <2>1. \A q \in Pipes : FirstWrite(q) \in PCs /\ <<q, "read">> \in PCs
                        /\ <<q, "issue">> \in PCs /\ <<q, "handle">> \in PCs
    BY DEF FirstWrite, PCs
  <2>2. \A b : Served(p, b) \in PCs
    BY <2>1 DEF Served
  <2>3. CASE SkipPipe(p)
    BY <2>3 DEF SkipPipe, FlagTypeOK, PipeTypeOK, QueueTypeOK, pipeVars
  <2>4. CASE EnterPipe(p)
    BY <2>1, <2>4 DEF EnterPipe, FinishConnect, FirstWorker, FlagTypeOK, PipeTypeOK,
                      QueueTypeOK, pipeVars
  <2>5. CASE p \in InPipes /\ ReadPipe(p)
    <3>1. PipeTypeOK'
      BY <2>5, CloseAllType DEF ReadPipe, ServiceRead, PipeTypeOK
    <3>2. QueueTypeOK'
      BY <2>5 DEF ReadPipe, ServiceRead, ReadArrived, QueueTypeOK
    <3>3. progress' \in BOOLEAN
      BY <2>5 DEF ReadPipe, FlagTypeOK
    <3> QED
      BY <2>1, <2>2, <2>5, <3>1, <3>2, <3>3 DEF ReadPipe
  <2>6. ASSUME p \in OutPipes, FailWrite(p)
        PROVE  PipeTypeOK' /\ QueueTypeOK'
    <3>1. PipeTypeOK'
      BY <2>6, CloseAllType DEF FailWrite, PipeTypeOK
    <3> QED
      BY <2>6, <3>1 DEF FailWrite, QueueTypeOK
  <2>7. ASSUME p \in OutPipes, IssueWrite(p)
        PROVE  PipeTypeOK' /\ QueueTypeOK'
    <3>1. Len(stream[p]) \in Nat
      BY <2>7 DEF QueueTypeOK
    <3>2. PipeTypeOK'
      BY SMTT(40), <2>7, <3>1, PipeAssumption DEF IssueWrite, OutQueueSize, Smaller, PipeTypeOK
    <3> QED
      BY <2>7, <3>2 DEF IssueWrite, QueueTypeOK
  <2>8. CASE p \in OutPipes /\ CheckPending(p)
    <3>1. PipeTypeOK' /\ QueueTypeOK'
      <4>1. CASE CompleteWrite(p)
        <5>1. PipeTypeOK'
          BY <2>8, <4>1 DEF CompleteWrite, PipeTypeOK
        <5> QED
          BY <4>1, <5>1 DEF CompleteWrite, QueueTypeOK
      <4>2. CASE UNCHANGED pipeVars
        BY <4>2 DEF PipeTypeOK, QueueTypeOK, pipeVars
      <4> QED
        BY <2>6, <2>8, <4>1, <4>2 DEF CheckPending
    <3> QED
      BY <2>1, <2>2, <2>8, <3>1 DEF CheckPending, FlagTypeOK
  <2>9. CASE p \in OutPipes /\ IssueWrites(p)
    <3>1. PipeTypeOK' /\ QueueTypeOK'
      BY <2>6, <2>7, <2>9 DEF IssueWrites, PipeTypeOK, QueueTypeOK, pipeVars
    <3> QED
      BY <2>1, <2>2, <2>9, <3>1 DEF IssueWrites, FlagTypeOK
  <2> QED
    BY <2>3, <2>4, <2>5, <2>8, <2>9 DEF ServePipe
<1>2. FlagTypeOK' /\ ScreenTypeOK'
  BY <1>1, ServePipeFrame DEF TypeOK
<1> QED
  BY <1>1, <1>2 DEF TypeOK, ServePipe, consoleVars, clientVars

LEMMA PipeFrame ==
  ASSUME PipeTypeOK, QueueTypeOK, UNCHANGED pipeVars
  PROVE  PipeTypeOK' /\ QueueTypeOK'
BY DEF PipeTypeOK, QueueTypeOK, pipeVars

\* What NamedPipe::write and a scrape leave in the streams.
LEMMA ItemTypes ==
  /\ \A k \in ReplyKinds : Reply(k) \in Item
  /\ \A n \in Nat : Screen(n) \in Item
  /\ \A b : Mouse(b) \in Item
  /\ Dsr \in Item
BY DEF Reply, Screen, Mouse, Dsr, Item

LEMMA WrittenType ==
  ASSUME NEW s \in [OutPipes -> Seq(Item)], NEW x \in Item, NEW p
  PROVE  Written(p, x, s) \in [OutPipes -> Seq(Item)]
<1>1. \A q \in OutPipes : Append(s[q], x) \in Seq(Item)
  OBVIOUS
<1> QED
  BY <1>1 DEF Written

LEMMA ScrapedIntoType ==
  ASSUME NEW s \in [OutPipes -> Seq(Item)], ScreenTypeOK, NEW redrawn
  PROVE  ScrapedInto(s, redrawn) \in [OutPipes -> Seq(Item)]
<1>1. \A q \in DataOut : Append(s[q], Screen(screen[q])) \in Seq(Item)
  BY PipeNames, ItemTypes DEF ScreenTypeOK
<1> QED
  BY <1>1 DEF ScrapedInto

LEMMA OnPipeIoType == TypeOK /\ OnPipeIo => TypeOK'
<1> SUFFICES ASSUME TypeOK, OnPipeIo PROVE TypeOK'
  OBVIOUS
<1> USE PipeNames, AfterType DEF TypeOK, HandlerReturns
<1>1. CASE LoseControlPipe
  <2>1. PipeTypeOK' /\ QueueTypeOK'
    BY <1>1, PipeFrame DEF LoseControlPipe
  <2>2. FlagTypeOK' /\ ScreenTypeOK'
    BY ZenonT(40), <1>1 DEF LoseControlPipe, FlagTypeOK, ScreenTypeOK, shutdownVars, pollVars,
        inputVars, consoleVars, clientVars
  <2> QED
    BY <1>1, <2>1, <2>2 DEF LoseControlPipe, consoleVars, clientVars
<1>2. CASE EndPackets
  <2>1. PipeTypeOK' /\ QueueTypeOK'
    BY <1>2, PipeFrame DEF EndPackets
  <2>2. FlagTypeOK' /\ ScreenTypeOK'
    BY ZenonT(40), <1>2 DEF EndPackets, FlagTypeOK, ScreenTypeOK, shutdownVars, pollVars,
        inputVars, consoleVars, clientVars
  <2> QED
    BY <1>2, <2>1, <2>2 DEF EndPackets, consoleVars, clientVars
<1>3. ASSUME TakePacket PROVE PipeTypeOK' /\ pc' \in PCs
  BY <1>3 DEF TakePacket, PipeTypeOK, loopVars
<1>4. ASSUME TakePacket, stream' \in [OutPipes -> Seq(Item)] PROVE QueueTypeOK'
  BY <1>4 DEF TakePacket, QueueTypeOK
<1>5. ASSUME NEW k \in ReplyKinds, ReplyWith(k)
      PROVE  stream' \in [OutPipes -> Seq(Item)]
  BY <1>5, ItemTypes, WrittenType DEF ReplyWith, QueueTypeOK
<1>6. CASE HandleStartProcess
  <2>1. QueueTypeOK'
    BY <1>4, <1>5, <1>6 DEF HandleStartProcess, ReplyKinds
  <2>2. FlagTypeOK'
    <3>1. childHeld' \in BOOLEAN
      BY <1>6 DEF HandleStartProcess, FlagTypeOK
    <3>2. autoShutdown' \in BOOLEAN
      <4>1. \/ autoShutdown' = ("autoShutdown" \in Head(inQueue["control"]).flags)
            \/ autoShutdown' = autoShutdown
        BY <1>6, Zenon DEF HandleStartProcess
      <4>2. ("autoShutdown" \in Head(inQueue["control"]).flags) \in BOOLEAN
        OBVIOUS
      <4>3. autoShutdown \in BOOLEAN
        BY DEF FlagTypeOK
      <4> QED
        BY ONLY <4>1, <4>2, <4>3, Zenon
    <3>3. exitAfterShutdown' \in BOOLEAN
      <4>1. \/ exitAfterShutdown' = ("exitAfterShutdown" \in Head(inQueue["control"]).flags)
            \/ exitAfterShutdown' = exitAfterShutdown
        BY <1>6, Zenon DEF HandleStartProcess
      <4>2. ("exitAfterShutdown" \in Head(inQueue["control"]).flags) \in BOOLEAN
        OBVIOUS
      <4>3. exitAfterShutdown \in BOOLEAN
        BY DEF FlagTypeOK
      <4> QED
        BY ONLY <4>1, <4>2, <4>3, Zenon
    <3> QED
      BY <1>6, <3>1, <3>2, <3>3 DEF HandleStartProcess, TakePacket, FlagTypeOK, loopVars, pollVars,
          inputVars, clientVars
  <2>3. ScreenTypeOK'
    BY <1>6 DEF HandleStartProcess, ScreenTypeOK, pollVars
  <2> QED
    BY <1>3, <1>6, <2>1, <2>2, <2>3 DEF HandleStartProcess, TakePacket, clientVars
<1>7. CASE HandleSetSize
  <2>1. stream' \in [OutPipes -> Seq(Item)]
    <3>1. Reply("setSize") \in Item
      BY ItemTypes DEF ReplyKinds
    <3>2. PICK redrawn \in {{}, DataOut} :
            stream' = Written("control", Reply("setSize"), ScrapedInto(stream, redrawn))
      BY <1>7 DEF HandleSetSize
    <3>3. ScrapedInto(stream, redrawn) \in [OutPipes -> Seq(Item)]
      BY ScrapedIntoType DEF QueueTypeOK
    <3> QED
      BY <3>1, <3>2, <3>3, WrittenType
  <2>2. FlagTypeOK'
    BY <1>7 DEF HandleSetSize, TakePacket, FlagTypeOK, loopVars, shutdownVars,
        inputVars, consoleVars, clientVars
  <2>3. ScreenTypeOK'
    BY <1>7 DEF HandleSetSize, ScreenTypeOK, consoleVars
  <2> QED
    BY <1>3, <1>4, <1>7, <2>1, <2>2, <2>3
    DEF HandleSetSize, TakePacket, consoleVars, clientVars
<1>8. CASE HandleGetConsoleProcessList
  <2>1. QueueTypeOK'
    BY <1>4, <1>5, <1>8 DEF HandleGetConsoleProcessList, ReplyKinds
  <2>2. FlagTypeOK' /\ ScreenTypeOK'
    BY <1>8 DEF HandleGetConsoleProcessList, TakePacket, FlagTypeOK, ScreenTypeOK,
        loopVars, shutdownVars, pollVars, inputVars, consoleVars, clientVars
  <2> QED
    BY <1>3, <1>8, <2>1, <2>2
    DEF HandleGetConsoleProcessList, TakePacket, consoleVars, clientVars
<1>9. CASE HandleConin
  <2>1. stream' \in [OutPipes -> Seq(Item)]
    BY <1>9, ItemTypes, WrittenType DEF HandleConin, QueueTypeOK
  <2>2. QueueTypeOK'
    BY <1>9, <2>1 DEF HandleConin, QueueTypeOK
  <2>3. FlagTypeOK'
    BY <1>9 DEF HandleConin, FlagTypeOK, shutdownVars, pollVars, consoleVars, clientVars
  <2>4. PipeTypeOK' /\ ScreenTypeOK'
    BY <1>9 DEF HandleConin, PipeTypeOK, ScreenTypeOK, pollVars, consoleVars
  <2> QED
    BY <1>9, <2>2, <2>3, <2>4 DEF HandleConin, consoleVars, clientVars
<1>10. ASSUME NEW p \in DataOut, HandleDataOut(p) PROVE TypeOK'
  <2>1. PipeTypeOK' /\ exiting' \in BOOLEAN
    BY <1>10, CloseAllType DEF HandleDataOut, AutoClosePipesForShutdown, PipeTypeOK,
        FlagTypeOK
  <2>2. QueueTypeOK' /\ ScreenTypeOK'
    BY <1>10 DEF HandleDataOut, QueueTypeOK, ScreenTypeOK, pollVars, consoleVars
  <2>3. FlagTypeOK'
    BY ZenonT(40), <1>10, <2>1 DEF HandleDataOut, FlagTypeOK, shutdownVars, pollVars, inputVars,
        consoleVars, clientVars
  <2> QED
    BY <1>10, <2>1, <2>2, <2>3 DEF HandleDataOut, consoleVars, clientVars
<1> QED
  BY <1>1, <1>2, <1>6, <1>7, <1>8, <1>9, <1>10 DEF OnPipeIo

LEMMA PollType ==
  TypeOK /\ (SkipPoll \/ OnPollTimeout \/ Destroy) => TypeOK'
<1> SUFFICES ASSUME TypeOK, SkipPoll \/ OnPollTimeout \/ Destroy PROVE TypeOK'
  OBVIOUS
<1> USE PipeNames DEF TypeOK
<1>1. Top \in PCs /\ Gone \in PCs /\ Poll("scrape") \in PCs /\ Poll("finish") \in PCs
  BY DEF PCs, Top
<1>2. CASE SkipPoll
  <2>1. PipeTypeOK' /\ QueueTypeOK'
    BY <1>2, PipeFrame DEF SkipPoll
  <2>2. FlagTypeOK' /\ ScreenTypeOK'
    BY <1>2 DEF SkipPoll, FlagTypeOK, ScreenTypeOK, shutdownVars, pollVars, inputVars,
        consoleVars, clientVars
  <2> QED
    BY <1>1, <1>2, <2>1, <2>2 DEF SkipPoll, consoleVars, clientVars
<1>3. CASE PollCheck
  <2>1. PipeTypeOK' /\ QueueTypeOK'
    BY <1>3, PipeFrame DEF PollCheck
  <2>2. FlagTypeOK'
    BY ZenonT(40), <1>3 DEF PollCheck, FlagTypeOK, consoleVars, clientVars
  <2>3. ScreenTypeOK'
    BY <1>3 DEF PollCheck, ScreenTypeOK, consoleVars
  <2> QED
    BY <1>1, <1>3, <2>1, <2>2, <2>3 DEF PollCheck, consoleVars, clientVars
<1>4. CASE PollScrape
  <2>1. PipeTypeOK'
    BY <1>4 DEF PollScrape, PipeTypeOK
  <2>2. QueueTypeOK'
    <3>1. ScrapedInto(stream, {}) \in [OutPipes -> Seq(Item)]
      BY ScrapedIntoType DEF QueueTypeOK
    <3> QED
      BY <1>4, <3>1 DEF PollScrape, QueueTypeOK
  <2>3. FlagTypeOK'
    BY <1>4 DEF PollScrape, FlagTypeOK, shutdownVars, inputVars, consoleVars, clientVars
  <2>4. ScreenTypeOK'
    BY <1>4 DEF PollScrape, ScreenTypeOK, consoleVars
  <2> QED
    BY <1>1, <1>4, <2>1, <2>2, <2>3, <2>4 DEF PollScrape, consoleVars, clientVars
<1>5. CASE PollFinish
  <2>1. stream' \in [OutPipes -> Seq(Item)]
    BY <1>5, ItemTypes, WrittenType DEF PollFinish, QueueTypeOK
  <2>2. PipeTypeOK' /\ exiting' \in BOOLEAN
    BY <1>5, CloseAllType DEF PollFinish, AutoClosePipesForShutdown, PipeTypeOK,
        FlagTypeOK
  <2>3. QueueTypeOK'
    <3>1. UNCHANGED <<inWire, inQueue>>
      BY <1>5 DEF PollFinish
    <3> QED
      BY <2>1, <3>1, Zenon DEF QueueTypeOK
  <2>4. MouseModeNow \in BOOLEAN
    BY DEF MouseModeNow, FlagTypeOK
  <2>5. FlagTypeOK'
    BY <1>5, <2>2, <2>4 DEF PollFinish, FlagTypeOK, shutdownVars, inputVars,
        consoleVars, clientVars
  <2>6. ScreenTypeOK'
    BY <1>5 DEF PollFinish, ScreenTypeOK, consoleVars
  <2> QED
    BY <1>1, <1>5, <2>2, <2>3, <2>5, <2>6 DEF PollFinish, consoleVars, clientVars
<1>6. CASE Destroy
  <2>1. PipeTypeOK'
    BY <1>6, CloseAllType DEF Destroy, PipeTypeOK
  <2>2. QueueTypeOK'
    BY <1>6 DEF Destroy, QueueTypeOK
  <2>3. FlagTypeOK' /\ ScreenTypeOK'
    BY <1>6 DEF Destroy, FlagTypeOK, ScreenTypeOK, shutdownVars, pollVars, inputVars,
        clientVars
  <2> QED
    BY <1>1, <1>6, <2>1, <2>2, <2>3 DEF Destroy, clientVars
<1> QED
  BY <1>2, <1>3, <1>4, <1>5, <1>6 DEF OnPollTimeout

LEMMA ConsoleType == TypeOK /\ ConsoleNext => TypeOK'
<1> SUFFICES ASSUME TypeOK, ConsoleNext PROVE TypeOK'
  OBVIOUS
<1> USE DEF TypeOK, ConsoleNext
<1>1. PipeTypeOK' /\ QueueTypeOK'
  BY PipeFrame
<1>2. FlagTypeOK'
  <2>1. mouseWanted' \in BOOLEAN
    BY DEF Draw, ChildExits, ToggleMouseInput, FlagTypeOK
  <2> QED
    BY <2>1 DEF FlagTypeOK, agentVars, loopVars, shutdownVars, pollVars, inputVars,
        clientVars
<1>3. ScreenTypeOK'
  BY DEF Draw, ChildExits, ToggleMouseInput, ScreenTypeOK, agentVars, pollVars
<1>4. child' \in {"none", "running", "exited", "killed"} /\ toggles' \in Nat
  BY DEF Draw, ChildExits, ToggleMouseInput
<1> QED
  BY <1>1, <1>2, <1>3, <1>4 DEF agentVars, loopVars, clientVars

LEMMA ClientType == TypeOK /\ ClientNext => TypeOK'
<1> SUFFICES ASSUME TypeOK, ClientNext PROVE TypeOK'
  OBVIOUS
<1> USE PipeNames DEF TypeOK
<1>1. ScreenTypeOK' /\ pc' \in PCs /\ child' \in {"none", "running", "exited", "killed"}
      /\ toggles' \in Nat
  BY DEF ClientNext, ScreenTypeOK, agentVars, loopVars, pollVars, consoleVars
<1>2. ASSUME spawnCalled' \in BOOLEAN PROVE FlagTypeOK'
  BY <1>2 DEF ClientNext, FlagTypeOK, agentVars, loopVars, shutdownVars, pollVars,
      inputVars, consoleVars
<1>3. ASSUME NEW p \in Pipes, PeerConnect(p) \/ PeerClose(p)
      PROVE  PipeTypeOK' /\ QueueTypeOK'
  <2>1. PipeTypeOK'
    BY <1>3 DEF PeerConnect, PeerClose, PipeTypeOK
  <2> QED
    BY <1>3, <2>1 DEF PeerConnect, PeerClose, QueueTypeOK
<1>4. ASSUME NEW p \in OutPipes, PeerRead(p) \/ PeerReadEof(p)
      PROVE  PipeTypeOK' /\ QueueTypeOK'
  <2>1. PipeTypeOK'
    BY <1>4 DEF PeerRead, PeerReadEof, PipeTypeOK
  <2> QED
    BY <1>4, <2>1 DEF PeerRead, PeerReadEof, QueueTypeOK
<1>5. ASSUME NEW p \in ClientPipes, Connect(p) \/ CloseData(p) PROVE TypeOK'
  <2>1. PipeTypeOK' /\ QueueTypeOK'
    BY <1>3, <1>5, AgentAssumption DEF Connect, CloseData
  <2>2. FlagTypeOK'
    BY <1>2, <1>5 DEF Connect, CloseData, FlagTypeOK, clientVars
  <2> QED
    BY <1>1, <1>5, <2>1, <2>2 DEF Connect, CloseData, clientVars
<1>6. ASSUME NEW p \in DataOut, ReadData(p) PROVE TypeOK'
  <2>1. PipeTypeOK' /\ QueueTypeOK'
    BY <1>4, <1>6 DEF ReadData
  <2>2. FlagTypeOK'
    BY <1>2, <1>6 DEF ReadData, FlagTypeOK, clientVars
  <2> QED
    BY <1>1, <1>6, <2>1, <2>2 DEF ReadData, clientVars
<1>7. ASSUME NEW k \in Inputs, Type(k) PROVE TypeOK'
  <2>1. PipeTypeOK'
    BY <1>7 DEF Type, PipeTypeOK
  <2>2. QueueTypeOK'
    BY <1>7 DEF Type, QueueTypeOK
  <2>3. FlagTypeOK'
    BY <1>2, <1>7 DEF Type, FlagTypeOK
  <2> QED
    BY <1>1, <1>7, <2>1, <2>2, <2>3 DEF Type
<1>8. ASSUME NEW r \in ClientRequests, Call(r) PROVE TypeOK'
  <2>1. r \in Requests /\ r.kind \in {"spawn", "setSize", "processList"}
    BY RequestAssumption DEF Requests
  <2>2. PipeTypeOK'
    BY <1>8 DEF Call, PipeTypeOK
  <2>3. QueueTypeOK'
    BY <1>8, <2>1 DEF Call, QueueTypeOK
  <2>4. FlagTypeOK'
    BY <1>2, <1>8 DEF Call, FlagTypeOK
  <2> QED
    BY <1>1, <1>8, <2>1, <2>2, <2>3, <2>4 DEF Call
<1>9. CASE TakeReply \/ LoseConnection \/ HangUp
  <2>1. PipeTypeOK' /\ QueueTypeOK'
    BY <1>3, <1>4, <1>9 DEF TakeReply, LoseConnection, HangUp
  <2>2. FlagTypeOK'
    BY <1>2, <1>9 DEF TakeReply, LoseConnection, HangUp, FlagTypeOK
  <2> QED
    BY <1>1, <1>9, <2>1, <2>2 DEF TakeReply, LoseConnection, HangUp
<1> QED
  BY <1>5, <1>6, <1>7, <1>8, <1>9 DEF ClientNext

LEMMA NextType == TypeOK /\ [Next]_vars => TypeOK'
<1> SUFFICES ASSUME TypeOK, [Next]_vars PROVE TypeOK'
  OBVIOUS
<1>1. CASE UNCHANGED vars
  <2>1. PipeTypeOK' /\ QueueTypeOK'
    BY <1>1, PipeFrame DEF vars, TypeOK
  <2> QED
    BY <1>1, <2>1 DEF TypeOK, FlagTypeOK, ScreenTypeOK, vars, agentVars, loopVars,
        shutdownVars, pollVars, inputVars, consoleVars, clientVars
<1> QED
  BY <1>1, ServePipeType, OnPipeIoType, PollType, ConsoleType, ClientType
  DEF Next, AgentNext

\* Every variable keeps its type, however long the queues get.
THEOREM TypeCorrect == Spec => []TypeOK
<1> QED
  BY InitType, NextType, PTL DEF Spec

-----------------------------------------------------------------------------
(* What a step can do to one pipe                                          *)

\* Why the agent's end of p is closed.
ClosedFor(p) ==
  \/ PeerGone(p)
  \/ p \in DataOut /\ closingOutputPipes /\ MayClose(p, stream') /\ pc # Poll("scrape")
  \/ exiting /\ pc' = Gone

AgentEndMove(p) ==
  \/ agentEnd'[p] = agentEnd[p]
  \/ agentEnd[p] = "connecting" /\ peerEnd[p] # "none" /\ agentEnd'[p] = "connected"
  \/ agentEnd'[p] = "closed" /\ ClosedFor(p)

PeerEndMove(p) ==
  \/ peerEnd'[p] = peerEnd[p]
  \/ /\ peerEnd[p] = "none" /\ peerEnd'[p] = "open"
     /\ agentEnd'[p] = agentEnd[p] /\ agentEnd[p] = "connecting"
  \/ peerEnd[p] = "open" /\ peerEnd'[p] = "closed"
  \/ /\ peerEnd[p] = "open" /\ peerEnd'[p] = "eof"
     /\ agentEnd[p] = "closed" /\ UNCHANGED <<agentEnd, wired, pending, got>>
     /\ p \in OutPipes => got[p] = wired[p]

WireMove(p) ==
  \/ /\ UNCHANGED <<wired[p], pending[p], got[p]>>
     /\ agentEnd'[p] \in {agentEnd[p], "connected"}
  \/ /\ agentEnd'[p] = "closed" /\ pending'[p] = 0 /\ got'[p] = got[p]
     /\ wired'[p] = Larger(got[p], wired[p] - pending[p])
  \/ /\ agentEnd[p] = "connected" /\ agentEnd'[p] = "connected"
     /\ got'[p] = got[p]
     /\ wired[p] <= wired'[p] /\ (wired'[p] = wired[p] \/ wired'[p] <= Len(stream[p]))
     /\ pending'[p] <= wired'[p]
  \/ /\ peerEnd[p] = "open" /\ agentEnd'[p] = agentEnd[p]
     /\ UNCHANGED <<wired[p], pending[p]>>
     /\ got'[p] >= got[p] /\ got'[p] <= wired[p]

PipeMove ==
  /\ \A p \in Pipes : AgentEndMove(p) /\ PeerEndMove(p)
  /\ \A p \in OutPipes : WireMove(p)

Extends(s, t) ==
  \A p \in OutPipes : /\ Len(s[p]) <= Len(t[p])
                      /\ \A i \in 1..Len(s[p]) : t[p][i] = s[p][i]

LEMMA NoPipeMove ==
  ASSUME PipeTypeOK, UNCHANGED <<agentEnd, peerEnd, wired, pending, got>>
  PROVE  PipeMove
BY DEF PipeMove, AgentEndMove, PeerEndMove, WireMove, PipeTypeOK

LEMMA CloseMove ==
  ASSUME PipeTypeOK, NEW S, CloseAll(S), UNCHANGED <<peerEnd, got>>,
         \A p \in Pipes : p \in S => ClosedFor(p)
  PROVE  PipeMove
<1>1. ASSUME NEW p \in Pipes PROVE AgentEndMove(p) /\ PeerEndMove(p)
  BY DEF CloseAll, PipeTypeOK, AgentEndMove, PeerEndMove
<1>2. ASSUME NEW p \in OutPipes PROVE WireMove(p)
  BY DEF CloseAll, PipeTypeOK, WireMove, Pipes
<1> QED
  BY <1>1, <1>2 DEF PipeMove

LEMMA ServePipeMove ==
  ASSUME TypeOK, ServedConnected, NEW p \in Pipes, ServePipe(p)
  PROVE  PipeMove /\ stream' = stream
<1> USE DEF TypeOK
<1>1. CASE SkipPipe(p)
  BY <1>1, NoPipeMove DEF SkipPipe, pipeVars
<1>2. CASE EnterPipe(p) /\ UNCHANGED pipeVars
  BY <1>2, NoPipeMove DEF pipeVars
<1>3. CASE EnterPipe(p) /\ FinishConnect(p)
  BY <1>3 DEF FinishConnect, PipeMove, AgentEndMove, PeerEndMove, WireMove, PipeTypeOK,
      Pipes
<1>4. CASE p \in InPipes /\ ReadPipe(p)
  <2>1. CASE PeerGone(p)
    BY <1>4, <2>1, CloseMove DEF ReadPipe, ServiceRead, ClosedFor
  <2>2. CASE ~PeerGone(p)
    BY <1>4, <2>2, NoPipeMove DEF ReadPipe, ServiceRead
  <2> QED
    BY <2>1, <2>2
<1>5. CASE p \in OutPipes /\ FailWrite(p)
  BY <1>5, CloseMove DEF FailWrite, ClosedFor
<1>6. CASE p \in OutPipes /\ CheckPending(p) /\ CompleteWrite(p)
  <2>1. agentEnd[p] = "connected"
    BY <1>6 DEF CheckPending, ServedConnected
  <2> QED
    BY <1>6, <2>1 DEF CompleteWrite, PipeMove, AgentEndMove, PeerEndMove, WireMove,
        PipeTypeOK, Pipes
<1>7. CASE p \in OutPipes /\ IssueWrites(p) /\ IssueWrite(p)
  <2>1. agentEnd[p] = "connected"
    BY <1>7 DEF IssueWrites, ServedConnected
  <2>2. Len(stream[p]) \in Nat
    BY <1>7 DEF QueueTypeOK
  <2>3. WireMove(p)
    BY <1>7, <2>1, <2>2, PipeAssumption
    DEF IssueWrite, WireMove, OutQueueSize, Smaller, PipeTypeOK
  <2>4. \A q \in OutPipes \ {p} : WireMove(q)
    BY <1>7 DEF IssueWrite, WireMove, PipeTypeOK
  <2> QED
    BY <1>7, <2>3, <2>4 DEF IssueWrite, PipeMove, AgentEndMove, PeerEndMove
<1>8. CASE p \in OutPipes /\ (CheckPending(p) \/ IssueWrites(p)) /\ UNCHANGED pipeVars
  BY <1>8, NoPipeMove DEF pipeVars
<1> QED
  BY <1>1, <1>2, <1>3, <1>4, <1>5, <1>6, <1>7, <1>8
  DEF ServePipe, EnterPipe, CheckPending, IssueWrites

LEMMA AgentMove == TypeOK /\ ServedConnected /\ AgentNext => PipeMove
<1> SUFFICES ASSUME TypeOK, ServedConnected, AgentNext PROVE PipeMove
  OBVIOUS
<1> USE DEF TypeOK
<1>1. CASE \E p \in Pipes : ServePipe(p)
  BY <1>1, ServePipeMove
<1>2. CASE LoseControlPipe \/ EndPackets \/ SkipPoll \/ PollCheck
  BY <1>2, NoPipeMove DEF LoseControlPipe, EndPackets, SkipPoll, PollCheck, pipeVars
<1>3. CASE HandleStartProcess \/ HandleSetSize \/ HandleGetConsoleProcessList
  BY <1>3, NoPipeMove
  DEF HandleStartProcess, HandleSetSize, HandleGetConsoleProcessList, TakePacket
<1>4. CASE HandleConin \/ PollScrape
  BY <1>4, NoPipeMove DEF HandleConin, PollScrape
<1>5. ASSUME AutoClosePipesForShutdown(stream'), pc # Poll("scrape"),
             UNCHANGED <<peerEnd, got>>
      PROVE  PipeMove
  <2> DEFINE drained == {p \in DataOut : closingOutputPipes /\ MayClose(p, stream')}
  <2>1. CloseAll(drained)
    BY <1>5 DEF AutoClosePipesForShutdown
  <2>2. \A p \in Pipes : p \in drained => ClosedFor(p)
    BY <1>5 DEF ClosedFor
  <2> HIDE DEF drained
  <2> QED
    BY <1>5, <2>1, <2>2, CloseMove
<1>6. ASSUME NEW p \in DataOut, HandleDataOut(p) PROVE PipeMove
  <2>1. stream' = stream /\ pc # Poll("scrape")
    BY <1>6, PipeNames DEF HandleDataOut, Handling, Poll
  <2> QED
    BY <1>5, <1>6, <2>1 DEF HandleDataOut
<1>7. CASE PollFinish
  <2>1. AutoClosePipesForShutdown(stream') /\ pc # Poll("scrape")
    BY <1>7 DEF PollFinish, Poll
  <2> QED
    BY <1>5, <1>7, <2>1 DEF PollFinish
<1>8. CASE Destroy
  BY <1>8, CloseMove DEF Destroy, ClosedFor
<1> QED
  BY <1>1, <1>2, <1>3, <1>4, <1>6, <1>7, <1>8 DEF AgentNext, OnPipeIo, OnPollTimeout

LEMMA ClientMove == TypeOK /\ ClientNext => PipeMove
<1> SUFFICES ASSUME TypeOK, ClientNext PROVE PipeMove
  OBVIOUS
<1> USE PipeNames DEF TypeOK
<1>1. ASSUME NEW p \in Pipes, PeerConnect(p) \/ PeerClose(p) PROVE PipeMove
  BY <1>1 DEF PeerConnect, PeerClose, PipeMove, AgentEndMove, PeerEndMove, WireMove,
      PipeTypeOK
<1>2. ASSUME NEW p \in OutPipes, PeerRead(p) PROVE PipeMove
  BY <1>2 DEF PeerRead, PipeMove, AgentEndMove, PeerEndMove, WireMove, PipeTypeOK
<1>3. ASSUME NEW p \in OutPipes, PeerReadEof(p) PROVE PipeMove
  BY <1>3 DEF PeerReadEof, PipeMove, AgentEndMove, PeerEndMove, WireMove, PipeTypeOK
<1>4. ASSUME NEW p \in ClientPipes, Connect(p) \/ CloseData(p) PROVE PipeMove
  BY <1>1, <1>4, AgentAssumption DEF Connect, CloseData
<1>5. ASSUME NEW p \in DataOut, ReadData(p) PROVE PipeMove
  BY <1>2, <1>3, <1>5 DEF ReadData
<1>6. CASE TakeReply \/ LoseConnection \/ HangUp
  BY <1>1, <1>2, <1>3, <1>6 DEF TakeReply, LoseConnection, HangUp
<1>7. CASE \E k \in Inputs : Type(k)
  BY <1>7, NoPipeMove DEF Type
<1>8. CASE \E r \in ClientRequests : Call(r)
  BY <1>8, NoPipeMove DEF Call
<1> QED
  BY <1>4, <1>5, <1>6, <1>7, <1>8 DEF ClientNext

LEMMA NextMove == TypeOK /\ ServedConnected /\ [Next]_vars => PipeMove
BY AgentMove, ClientMove, NoPipeMove DEF Next, ConsoleNext, vars, pipeVars, TypeOK

\* No step takes back what was written.
LEMMA StreamGrows == TypeOK /\ [Next]_vars => Extends(stream, stream')
<1> SUFFICES ASSUME TypeOK, [Next]_vars PROVE Extends(stream, stream')
  OBVIOUS
<1> USE DEF TypeOK, QueueTypeOK
<1>1. \A s : s = stream => Extends(stream, s)
  BY DEF Extends
<1>2. ASSUME NEW s \in [OutPipes -> Seq(Item)], Extends(stream, s), NEW x \in Item, NEW p
      PROVE  Extends(stream, Written(p, x, s))
  BY <1>2 DEF Extends, Written
<1>3. ASSUME NEW redrawn
      PROVE  Extends(stream, ScrapedInto(stream, redrawn))
  <2>1. ASSUME NEW p \in OutPipes, NEW x
        PROVE  /\ Len(stream[p]) <= Len(Append(stream[p], x))
               /\ \A i \in 1..Len(stream[p]) : Append(stream[p], x)[i] = stream[p][i]
    OBVIOUS
  <2> QED
    BY <2>1 DEF Extends, ScrapedInto
<1>4. CASE UNCHANGED stream
  BY <1>1, <1>4
<1>5. CASE HandleStartProcess \/ HandleGetConsoleProcessList
  BY <1>1, <1>2, <1>5, ItemTypes
  DEF HandleStartProcess, HandleGetConsoleProcessList, ReplyWith, ReplyKinds
<1>6. CASE HandleSetSize
  <2>1. PICK redrawn \in {{}, DataOut} :
          stream' = Written("control", Reply("setSize"), ScrapedInto(stream, redrawn))
    BY <1>6 DEF HandleSetSize
  <2>2. ScrapedInto(stream, redrawn) \in [OutPipes -> Seq(Item)]
    BY ScrapedIntoType
  <2>3. Reply("setSize") \in Item
    BY ItemTypes DEF ReplyKinds
  <2> QED
    BY <1>2, <1>3, <2>1, <2>2, <2>3
<1>7. CASE HandleConin
  BY <1>1, <1>2, <1>7, ItemTypes DEF HandleConin
<1>8. CASE PollScrape
  BY <1>1, <1>3, <1>8 DEF PollScrape
<1>9. CASE PollFinish
  BY <1>1, <1>2, <1>9, ItemTypes DEF PollFinish
<1>10. ASSUME NEW p \in Pipes, ServePipe(p) PROVE UNCHANGED stream
  BY <1>10
  DEF ServePipe, SkipPipe, EnterPipe, ReadPipe, CheckPending, IssueWrites, FinishConnect,
      ServiceRead, CompleteWrite, IssueWrite, FailWrite, pipeVars
<1>11. ASSUME \/ LoseControlPipe \/ EndPackets \/ \E p \in DataOut : HandleDataOut(p)
              \/ SkipPoll \/ PollCheck \/ Destroy
       PROVE  UNCHANGED stream
  BY <1>11 DEF LoseControlPipe, EndPackets, HandleDataOut, SkipPoll, PollCheck, Destroy,
      pipeVars
<1>12. ASSUME ClientNext PROVE UNCHANGED stream
  BY <1>12
  DEF ClientNext, Connect, CloseData, ReadData, Type, Call, TakeReply, LoseConnection,
      HangUp, PeerConnect, PeerClose, PeerRead, PeerReadEof
<1> QED
  BY <1>4, <1>5, <1>6, <1>7, <1>8, <1>9, <1>10, <1>11, <1>12
  DEF Next, AgentNext, OnPipeIo, OnPollTimeout, ConsoleNext, vars, pipeVars

-----------------------------------------------------------------------------
(* The parts of the inductive invariant                                    *)

LEMMA PipeBoundsStep == TypeOK /\ PipeBounds /\ PipeMove /\ Extends(stream, stream')
                          /\ TypeOK' => PipeBounds'
<1> SUFFICES ASSUME TypeOK, PipeBounds, PipeMove, Extends(stream, stream'), TypeOK',
                    NEW p \in OutPipes
             PROVE  /\ got'[p] <= wired'[p] /\ wired'[p] <= Len(stream'[p])
                    /\ pending'[p] <= wired'[p]
                    /\ agentEnd'[p] = "closed" => pending'[p] = 0
  BY DEF PipeBounds
<1>1. Len(stream[p]) \in Nat /\ Len(stream'[p]) \in Nat
      /\ Len(stream[p]) <= Len(stream'[p])
  BY DEF TypeOK, QueueTypeOK, Extends
<1>2. WireMove(p)
  BY DEF PipeMove
<1> QED
  BY SMTT(40), <1>1, <1>2 DEF PipeBounds, WireMove, Larger, TypeOK, PipeTypeOK

LEMMA EofMeansReadStep ==
  TypeOK /\ PipeBounds /\ EofMeansRead /\ PipeMove => EofMeansRead'
<1> SUFFICES ASSUME TypeOK, PipeBounds, EofMeansRead, PipeMove,
                    NEW p \in OutPipes, peerEnd'[p] = "eof"
             PROVE  agentEnd'[p] = "closed" /\ got'[p] = wired'[p]
  BY DEF EofMeansRead
<1>1. p \in Pipes /\ AgentEndMove(p) /\ PeerEndMove(p) /\ WireMove(p)
  BY DEF PipeMove, Pipes
<1>2. agentEnd[p] = "closed" /\ got[p] = wired[p] /\ pending[p] = 0
  BY <1>1 DEF PeerEndMove, EofMeansRead, PipeBounds
<1>3. agentEnd'[p] = "closed"
  BY <1>1, <1>2 DEF AgentEndMove
<1> QED
  BY <1>1, <1>2, <1>3 DEF PeerEndMove, WireMove, Larger, TypeOK, PipeTypeOK

\* Only the pipe that is served has a worker running.
LEMMA ServedConnectedStep ==
  TypeOK /\ ServedConnected /\ [Next]_vars => ServedConnected'
<1> SUFFICES ASSUME TypeOK, ServedConnected, [Next]_vars,
                    NEW p \in Pipes, pc' \in {<<p, "read">>, <<p, "complete">>, <<p, "issue">>}
             PROVE  agentEnd'[p] = "connected"
  BY DEF ServedConnected
<1> USE PipeNames DEF TypeOK
<1>1. \A q : After(q) \notin {<<p, "read">>, <<p, "complete">>, <<p, "issue">>}
  BY DEF After, Poll
<1>2. \A q, b : Served(q, b) \notin {<<p, "read">>, <<p, "complete">>, <<p, "issue">>}
  BY <1>1 DEF Served
<1>3. CASE pc' = pc /\ agentEnd' = agentEnd
  BY <1>3 DEF ServedConnected
<1>4. ASSUME NEW q \in Pipes, ServePipe(q) PROVE agentEnd'[p] = "connected"
  <2>1. CASE SkipPipe(q)
    BY <1>1, <2>1 DEF SkipPipe
  <2>2. CASE EnterPipe(q)
    <3>1. q = p
      BY <2>2 DEF EnterPipe, FirstWorker, FirstWrite
    <3> QED
      BY <2>2, <3>1 DEF EnterPipe, FinishConnect, PipeTypeOK, pipeVars
  <2>3. CASE q \in InPipes /\ ReadPipe(q)
    <3>1. q = p /\ ~PeerGone(q)
      BY <1>2, <2>3 DEF ReadPipe, FirstWrite
    <3> QED
      BY <2>3, <3>1 DEF ReadPipe, ServiceRead, ServedConnected
  <2>4. CASE q \in OutPipes /\ (CheckPending(q) \/ IssueWrites(q))
    <3>1. q = p /\ agentEnd' = agentEnd
      BY <1>2, <2>4
      DEF CheckPending, IssueWrites, CompleteWrite, IssueWrite, FailWrite, pipeVars
    <3> QED
      BY <2>4, <3>1 DEF CheckPending, IssueWrites, ServedConnected
  <2> QED
    BY <1>4, <2>1, <2>2, <2>3, <2>4 DEF ServePipe
<1>5. CASE OnPipeIo
  BY <1>1, <1>3, <1>5
  DEF OnPipeIo, LoseControlPipe, EndPackets, HandleStartProcess, HandleSetSize,
      HandleGetConsoleProcessList, TakePacket, HandleConin, HandleDataOut,
      HandlerReturns, loopVars
<1>6. CASE SkipPoll \/ OnPollTimeout \/ Destroy
  <2>1. pc' \in {Top, Gone, Poll("scrape"), Poll("finish")}
    BY <1>6 DEF SkipPoll, OnPollTimeout, PollCheck, PollScrape, PollFinish, Destroy
  <2> QED
    BY <2>1 DEF Top, Gone, Poll
<1>7. CASE ConsoleNext
  BY <1>3, <1>7 DEF ConsoleNext, pipeVars, agentVars, loopVars
<1>8. CASE ClientNext
  BY <1>3, <1>8
  DEF ClientNext, Connect, CloseData, ReadData, Type, Call, TakeReply, LoseConnection,
      HangUp, PeerConnect, PeerClose, PeerRead, PeerReadEof, agentVars, loopVars
<1>9. CASE UNCHANGED vars
  BY <1>3, <1>9 DEF vars, pipeVars, agentVars, loopVars
<1> QED
  BY <1>4, <1>5, <1>6, <1>7, <1>8, <1>9 DEF Next, AgentNext

-----------------------------------------------------------------------------
(* What a step can do to the loop, the shutdown and the child              *)

LoopMove ==
  /\ exiting => exiting'
  /\ pc = Gone => pc' = Gone
  /\ pc' = Gone => pc = Gone \/ exiting
  /\ exiting' => \/ exiting
                 \/ agentEnd["control"] = "closed" /\ pc # Gone
                 \/ /\ closingOutputPipes /\ closingOutputPipes'
                    /\ \A p \in DataOut : agentEnd'[p] = "closed"

ShutdownMove ==
  \/ UNCHANGED closingOutputPipes
  \/ /\ closingOutputPipes' /\ pc' = Poll("scrape") /\ (~closingOutputPipes => shouldScrape')
     /\ child = "exited" /\ UNCHANGED <<child, atExit, scraped>>

ChildMove ==
  \/ UNCHANGED <<child, atExit>>
  \/ /\ child = "running" /\ child' = "exited" /\ atExit' = screen
     /\ UNCHANGED screen
  \/ child = "running" /\ child' = "killed" /\ exiting /\ UNCHANGED atExit
  \/ HandleStartProcess /\ child' = "running" /\ UNCHANGED atExit

LEMMA NextLoop == TypeOK /\ [Next]_vars => LoopMove
<1> SUFFICES ASSUME TypeOK, [Next]_vars PROVE LoopMove
  OBVIOUS
<1> USE PipeNames DEF TypeOK
<1>1. ASSUME UNCHANGED <<pc, exiting>> PROVE LoopMove
  BY <1>1 DEF LoopMove
<1>2. ASSUME pc # Gone, pc' # Gone, UNCHANGED exiting PROVE LoopMove
  BY <1>2 DEF LoopMove
<1>3. \A q : After(q) # Gone /\ \A b : Served(q, b) # Gone
  BY DEF After, Served, Poll, Gone
<1>4. \A q \in Pipes : \A stage : <<q, stage>> # Gone /\ Poll(stage) # Gone
  BY DEF Poll, Gone
<1>5. ASSUME NEW p \in Pipes, ServePipe(p) PROVE LoopMove
  <2>1. UNCHANGED exiting
    BY <1>5 DEF ServePipe
  <2>2. pc # Gone /\ pc' # Gone
    BY <1>3, <1>4, <1>5
    DEF ServePipe, SkipPipe, EnterPipe, ReadPipe, CheckPending, IssueWrites,
        FirstWorker, FirstWrite
  <2> QED
    BY <1>2, <2>1, <2>2
<1>6. CASE LoseControlPipe
  <2>1. pc # Gone /\ pc' # Gone
    BY <1>3, <1>4, <1>6 DEF LoseControlPipe, Handling, HandlerReturns
  <2> QED
    BY <1>6, <2>1 DEF LoseControlPipe, LoopMove
<1>7. CASE HandleStartProcess \/ HandleSetSize \/ HandleGetConsoleProcessList
  BY <1>1, <1>7
  DEF HandleStartProcess, HandleSetSize, HandleGetConsoleProcessList, TakePacket, loopVars
<1>8. CASE EndPackets \/ HandleConin
  BY <1>2, <1>3, <1>4, <1>8 DEF EndPackets, HandleConin, Handling, HandlerReturns
<1>9. ASSUME AutoClosePipesForShutdown(stream'), UNCHANGED closingOutputPipes,
             pc # Gone, pc' # Gone
      PROVE  LoopMove
  <2>1. exiting' = IF /\ closingOutputPipes /\ exitAfterShutdown
                      /\ \A p \in DataOut : agentEnd'[p] = "closed"
                   THEN TRUE ELSE exiting
    BY <1>9 DEF AutoClosePipesForShutdown
  <2> QED
    BY <1>9, <2>1 DEF LoopMove
<1>10. ASSUME NEW p \in DataOut, HandleDataOut(p) PROVE LoopMove
  <2>1. stream' = stream /\ pc # Gone /\ pc' # Gone
    BY <1>3, <1>4, <1>10 DEF HandleDataOut, Handling, HandlerReturns
  <2> QED
    BY <1>9, <1>10, <2>1 DEF HandleDataOut, shutdownVars
<1>11. CASE SkipPoll \/ PollCheck \/ PollScrape
  BY <1>2, <1>4, <1>11 DEF SkipPoll, PollCheck, PollScrape, Top
<1>12. CASE PollFinish
  <2>1. AutoClosePipesForShutdown(stream') /\ pc # Gone /\ pc' # Gone
    BY <1>4, <1>12 DEF PollFinish, Top
  <2> QED
    BY <1>9, <1>12, <2>1 DEF PollFinish, shutdownVars
<1>13. CASE Destroy
  BY <1>4, <1>13 DEF Destroy, LoopMove, Top
<1>14. CASE ConsoleNext \/ ClientNext \/ UNCHANGED vars
  BY <1>1, <1>14 DEF ConsoleNext, ClientNext, vars, agentVars, loopVars
<1> QED
  BY <1>5, <1>6, <1>7, <1>8, <1>10, <1>11, <1>12, <1>13, <1>14
  DEF Next, AgentNext, OnPipeIo, OnPollTimeout

LEMMA NextShutdown == [Next]_vars => ShutdownMove
<1> SUFFICES ASSUME [Next]_vars PROVE ShutdownMove
  OBVIOUS
<1>1. ASSUME UNCHANGED closingOutputPipes PROVE ShutdownMove
  BY <1>1 DEF ShutdownMove
<1>2. CASE PollCheck
  BY <1>2 DEF PollCheck, ShutdownMove, consoleVars
<1>3. CASE \E p \in Pipes : ServePipe(p)
  BY <1>1, <1>3 DEF ServePipe, shutdownVars
<1>4. CASE OnPipeIo
  BY <1>1, <1>4
  DEF OnPipeIo, LoseControlPipe, EndPackets, HandleStartProcess, HandleSetSize,
      HandleGetConsoleProcessList, HandleConin, HandleDataOut, shutdownVars
<1>5. CASE SkipPoll \/ PollScrape \/ PollFinish \/ Destroy
  BY <1>1, <1>5 DEF SkipPoll, PollScrape, PollFinish, Destroy, shutdownVars
<1>6. CASE ConsoleNext \/ ClientNext \/ UNCHANGED vars
  BY <1>1, <1>6 DEF ConsoleNext, ClientNext, vars, agentVars, shutdownVars
<1> QED
  BY <1>2, <1>3, <1>4, <1>5, <1>6 DEF Next, AgentNext, OnPollTimeout

LEMMA NextChild == [Next]_vars => ChildMove
<1> SUFFICES ASSUME [Next]_vars PROVE ChildMove
  OBVIOUS
<1>1. ASSUME UNCHANGED <<child, atExit>> PROVE ChildMove
  BY <1>1 DEF ChildMove
<1>2. CASE HandleStartProcess
  BY <1>2 DEF HandleStartProcess, ChildMove
<1>3. CASE Destroy
  BY <1>3 DEF Destroy, ChildMove
<1>4. CASE ConsoleNext
  BY <1>4 DEF ConsoleNext, Draw, ChildExits, ToggleMouseInput, ChildMove
<1>5. CASE \E p \in Pipes : ServePipe(p)
  BY <1>1, <1>5 DEF ServePipe, consoleVars
<1>6. CASE LoseControlPipe \/ EndPackets \/ HandleSetSize
           \/ HandleGetConsoleProcessList \/ HandleConin
           \/ \E p \in DataOut : HandleDataOut(p)
  BY <1>1, <1>6
  DEF LoseControlPipe, EndPackets, HandleSetSize, HandleGetConsoleProcessList,
      HandleConin, HandleDataOut, consoleVars
<1>7. CASE SkipPoll \/ OnPollTimeout
  BY <1>1, <1>7 DEF SkipPoll, OnPollTimeout, PollCheck, PollScrape, PollFinish, consoleVars
<1>8. CASE ClientNext \/ UNCHANGED vars
  BY <1>1, <1>8 DEF ClientNext, vars, consoleVars
<1> QED
  BY <1>2, <1>3, <1>4, <1>5, <1>6, <1>7, <1>8 DEF Next, AgentNext, OnPipeIo

-----------------------------------------------------------------------------
(* Closing and exiting                                                     *)

LEMMA HungUpStays == PipeMove /\ HungUp => HungUp'
BY PipeNames DEF PipeMove, PeerEndMove, HungUp

LEMMA ClosedWasConnectedStep ==
  TypeOK /\ ClosedWasConnected /\ ExitReason /\ PipeMove /\ LoopMove
    => ClosedWasConnected'
<1> SUFFICES ASSUME TypeOK, ClosedWasConnected, ExitReason, PipeMove, LoopMove
             PROVE  ClosedWasConnected'
  OBVIOUS
<1> USE PipeNames
<1>1. ASSUME agentEnd'["control"] = "closed" PROVE HungUp' \/ pc' = Gone
  <2>1. AgentEndMove("control")
    BY DEF PipeMove
  <2>2. \/ agentEnd["control"] = "closed"
        \/ PeerGone("control")
        \/ pc' = Gone
    BY <1>1, <2>1, AgentAssumption DEF AgentEndMove, ClosedFor, DataOut
  <2> QED
    BY <2>2, HungUpStays DEF ClosedWasConnected, LoopMove, HungUp, PeerGone
<1>2. ASSUME NEW p \in DataOut, peerEnd'[p] = "none", ~HungUp'
      PROVE  agentEnd'[p] = "connecting"
  <2>1. AgentEndMove(p) /\ PeerEndMove(p)
    BY DEF PipeMove
  <2>2. peerEnd[p] = "none" /\ ~HungUp
    BY <1>2, <2>1, HungUpStays DEF PeerEndMove
  <2>3. agentEnd[p] = "connecting"
    BY <2>2 DEF ClosedWasConnected, PipesStayConnectable
  <2>4. ~ClosedFor(p)
    BY <2>2, <2>3 DEF ClosedFor, PeerGone, MayClose, ExitReason
  <2> QED
    BY <2>1, <2>2, <2>3, <2>4 DEF AgentEndMove
<1> QED
  BY <1>1, <1>2 DEF ClosedWasConnected, PipesStayConnectable

LEMMA ExitReasonStep ==
  ExitReason /\ ClosedWasConnected /\ PipeMove /\ LoopMove /\ ShutdownMove
    => ExitReason'
<1> SUFFICES ASSUME ExitReason, ClosedWasConnected, PipeMove, LoopMove, ShutdownMove,
                    exiting' \/ pc' = Gone, ~HungUp'
             PROVE  closingOutputPipes' /\ \A p \in DataOut : agentEnd'[p] = "closed"
  BY DEF ExitReason
<1>1. ~HungUp
  BY HungUpStays
<1>2. CASE exiting \/ pc = Gone
  <2>1. closingOutputPipes /\ \A p \in DataOut : agentEnd[p] = "closed"
    BY <1>1, <1>2 DEF ExitReason
  <2>2. \A p \in DataOut : agentEnd'[p] = "closed"
    BY <2>1, PipeNames DEF PipeMove, AgentEndMove
  <2> QED
    BY <2>1, <2>2 DEF ShutdownMove
<1>3. CASE ~(exiting \/ pc = Gone)
  BY <1>1, <1>3 DEF LoopMove, ClosedWasConnected
<1> QED
  BY <1>2, <1>3

LEMMA KillsStep ==
  KillsOnlyWhenHungUp /\ ExitReason /\ ClosingScraped /\ PipeMove /\ ChildMove
    => KillsOnlyWhenHungUp'
<1> SUFFICES ASSUME KillsOnlyWhenHungUp, ExitReason, ClosingScraped, PipeMove, ChildMove,
                    child' = "killed"
             PROVE  HungUp'
  BY DEF KillsOnlyWhenHungUp
<1>1. HungUp
  BY DEF ChildMove, KillsOnlyWhenHungUp, ExitReason, ClosingScraped
<1> QED
  BY <1>1, HungUpStays

-----------------------------------------------------------------------------
(* Scraping                                                                *)

ScrapeMove ==
  /\ \/ UNCHANGED scraped
     \/ /\ scraped' = screen
        /\ \A p \in DataOut : screen[p] > scraped[p] =>
             \E i \in 1..Len(stream'[p]) : stream'[p][i] = Screen(screen[p])
  /\ \A p \in DataOut : screen'[p] >= screen[p]
  /\ pc = Poll("scrape") /\ shouldScrape =>
       (UNCHANGED <<pc, shouldScrape>>) \/ scraped' = screen

LEMMA NextScrape == TypeOK /\ [Next]_vars => ScrapeMove
<1> SUFFICES ASSUME TypeOK, [Next]_vars PROVE ScrapeMove
  OBVIOUS
<1> USE PipeNames DEF TypeOK, ScreenTypeOK
<1>1. \A p \in DataOut : screen[p] >= screen[p]
  OBVIOUS
<1>2. ASSUME UNCHANGED <<scraped, screen>>, pc # Poll("scrape") PROVE ScrapeMove
  BY <1>1, <1>2 DEF ScrapeMove
<1>3. ASSUME UNCHANGED <<scraped, pc, shouldScrape>>,
             \A p \in DataOut : screen'[p] >= screen[p]
      PROVE  ScrapeMove
  BY <1>3 DEF ScrapeMove
<1>4. \A q \in Pipes : \A stage : <<q, stage>> # Poll("scrape")
  BY DEF Poll
<1>5. ASSUME NEW redrawn, NEW p \in DataOut, screen[p] > scraped[p]
       PROVE  \E i \in 1..Len(ScrapedInto(stream, redrawn)[p]) :
                ScrapedInto(stream, redrawn)[p][i] = Screen(screen[p])
  <2>1. p \in OutPipes /\ stream[p] \in Seq(Item) /\ Screen(screen[p]) \in Item
    BY ItemTypes DEF QueueTypeOK
  <2>2. ScrapedInto(stream, redrawn)[p] = Append(stream[p], Screen(screen[p]))
    BY <1>5, <2>1 DEF ScrapedInto
  <2>3. /\ Len(stream[p]) + 1 \in 1..Len(Append(stream[p], Screen(screen[p])))
        /\ Append(stream[p], Screen(screen[p]))[Len(stream[p]) + 1] = Screen(screen[p])
    BY <2>1
  <2> QED
    BY <2>2, <2>3
<1>6. ASSUME NEW p \in Pipes, ServePipe(p) PROVE ScrapeMove
  <2>1. pc # Poll("scrape")
    BY <1>4, <1>6 DEF ServePipe, SkipPipe, EnterPipe, ReadPipe, CheckPending, IssueWrites
  <2> QED
    BY <1>2, <1>6, <2>1 DEF ServePipe, pollVars, consoleVars
<1>7. CASE LoseControlPipe \/ EndPackets \/ HandleConin
           \/ \E p \in DataOut : HandleDataOut(p)
  <2>1. pc # Poll("scrape")
    BY <1>4, <1>7 DEF LoseControlPipe, EndPackets, HandleConin, HandleDataOut, Handling
  <2> QED
    BY <1>2, <1>7, <2>1 DEF LoseControlPipe, EndPackets, HandleConin, HandleDataOut,
        pollVars, consoleVars
<1>8. ASSUME TakePacket PROVE pc # Poll("scrape")
  BY <1>4, <1>8 DEF TakePacket, Handling
<1>9. CASE HandleStartProcess \/ HandleGetConsoleProcessList
  BY <1>2, <1>8, <1>9
  DEF HandleStartProcess, HandleGetConsoleProcessList, pollVars, consoleVars
<1>10. CASE HandleSetSize
  <2>1. PICK redrawn \in {{}, DataOut} :
          stream' = Written("control", Reply("setSize"), ScrapedInto(stream, redrawn))
    BY <1>10 DEF HandleSetSize
  <2>2. \A p \in DataOut : stream'[p] = ScrapedInto(stream, redrawn)[p]
    BY <2>1 DEF Written, ScrapedInto, DataOut
  <2> QED
    BY SMTT(40), <1>1, <1>8, <1>10, <1>5, <2>2 DEF HandleSetSize, ScrapeMove, consoleVars
<1>11. CASE SkipPoll \/ PollCheck \/ PollFinish \/ Destroy
  <2>1. pc \in {Poll("check"), Poll("finish"), Top}
    BY <1>11 DEF SkipPoll, PollCheck, PollFinish, Destroy
  <2>2. /\ Poll("check") # Poll("scrape") /\ Poll("finish") # Poll("scrape")
        /\ Top # Poll("scrape")
    BY DEF Poll, Top
  <2> QED
    BY <1>2, <1>11, <2>1, <2>2 DEF SkipPoll, PollCheck, PollFinish, Destroy, pollVars, consoleVars
<1>12. CASE PollScrape
  BY <1>1, <1>12, <1>5 DEF PollScrape, ScrapeMove, consoleVars
<1>13. CASE ConsoleNext
  <2>1. \A p \in DataOut : screen'[p] >= screen[p]
    BY <1>1, <1>13 DEF ConsoleNext, Draw, ChildExits, ToggleMouseInput
  <2> QED
    BY <1>3, <1>13, <2>1 DEF ConsoleNext, agentVars, loopVars, pollVars
<1>14. CASE ClientNext \/ UNCHANGED vars
  BY <1>1, <1>3, <1>14 DEF ClientNext, vars, agentVars, loopVars, pollVars, consoleVars
<1> QED
  BY <1>6, <1>7, <1>9, <1>10, <1>11, <1>12, <1>13, <1>14
  DEF Next, AgentNext, OnPipeIo, OnPollTimeout

\* What is shown stays shown.
LEMMA ShownStays ==
  ASSUME TypeOK, TypeOK', Extends(stream, stream'), NEW p \in DataOut, NEW n \in Nat,
         n <= Len(stream[p]), NEW k, ShownWithin(p, n, k)
  PROVE  \A m \in Nat : m >= n =>
           \/ k = 0
           \/ \E i \in 1..m : stream'[p][i].kind = "screen" /\ stream'[p][i].n >= k
<1>1. p \in OutPipes /\ Len(stream[p]) \in Nat
  BY PipeNames DEF TypeOK, QueueTypeOK
<1>2. \A i \in 1..n : stream'[p][i] = stream[p][i]
  BY <1>1 DEF Extends
<1> QED
  BY <1>2 DEF ShownWithin

LEMMA ShownLess ==
  ASSUME TypeOK, NEW p \in DataOut, NEW n \in Nat, n <= Len(stream[p]),
         NEW k \in Nat, NEW l \in Nat, l <= k, ShownWithin(p, n, k)
  PROVE  ShownWithin(p, n, l)
<1>1. p \in OutPipes /\ Len(stream[p]) \in Nat
  BY PipeNames DEF TypeOK, QueueTypeOK
<1>2. stream[p] \in Seq(Item)
  BY <1>1 DEF TypeOK, QueueTypeOK
<1>3. \A i \in 1..n : stream[p][i] \in Item
  BY <1>1, <1>2
<1>4. \A x \in Item : x.n \in Nat
  BY DEF Item
<1> QED
  BY <1>3, <1>4 DEF ShownWithin

LEMMA ScreensShownStep ==
  TypeOK /\ TypeOK' /\ ScreensShown /\ Extends(stream, stream') /\ ChildMove /\ ScrapeMove
    => ScreensShown'
<1> SUFFICES ASSUME TypeOK, TypeOK', ScreensShown, Extends(stream, stream'), ChildMove,
                    ScrapeMove, NEW p \in DataOut
             PROVE  /\ scraped'[p] <= screen'[p] /\ atExit'[p] <= screen'[p]
                    /\ \/ scraped'[p] = 0
                       \/ \E i \in 1..Len(stream'[p]) :
                            /\ stream'[p][i].kind = "screen"
                            /\ stream'[p][i].n >= scraped'[p]
  BY DEF ScreensShown, ShownWithin
<1>1. /\ {scraped[p], screen[p], atExit[p], scraped'[p], screen'[p], atExit'[p]} \subseteq Nat
      /\ scraped[p] <= screen[p] /\ atExit[p] <= screen[p] /\ screen[p] <= screen'[p]
  BY DEF TypeOK, ScreenTypeOK, ScreensShown, ScrapeMove
<1>2. scraped'[p] <= screen'[p]
  BY <1>1 DEF ScrapeMove
<1>3. atExit'[p] <= screen'[p]
  BY <1>1 DEF ChildMove, HandleStartProcess
<1>4. /\ p \in OutPipes /\ Len(stream[p]) \in Nat /\ Len(stream'[p]) \in Nat
      /\ Len(stream[p]) <= Len(stream'[p])
  BY PipeNames DEF TypeOK, QueueTypeOK, Extends
<1>5. CASE scraped'[p] = scraped[p]
  <2>1. ShownWithin(p, Len(stream[p]), scraped[p])
    BY DEF ScreensShown
  <2> QED
    BY <1>2, <1>3, <1>4, <1>5, <2>1, ShownStays
<1>6. CASE scraped'[p] # scraped[p]
  <2>1. PICK i \in 1..Len(stream'[p]) : stream'[p][i] = Screen(screen[p])
    BY <1>1, <1>6 DEF ScrapeMove
  <2>2. scraped'[p] = screen[p]
    BY <1>6 DEF ScrapeMove
  <2>3. stream'[p][i].kind = "screen" /\ stream'[p][i].n = screen[p]
    BY <2>1 DEF Screen
  <2> QED
    BY <1>1, <1>2, <1>3, <2>2, <2>3
<1> QED
  BY <1>5, <1>6

\* Nothing is spawned twice: a spawn request in the queue means no child yet.
LEMMA SpawnedOnce ==
  TypeOK /\ SpawnOnce /\ HandleStartProcess => child = "none"
<1> SUFFICES ASSUME TypeOK, SpawnOnce, HandleStartProcess PROVE child = "none"
  OBVIOUS
<1>1. inQueue["control"] \in Seq(Requests) /\ inQueue["control"] # <<>>
      /\ Head(inQueue["control"]).kind = "spawn"
  BY DEF TypeOK, QueueTypeOK, HandleStartProcess, TakePacket
<1>2. 1 \in 1..Len(inQueue["control"]) /\ inQueue["control"][1].kind = "spawn"
  BY <1>1
<1> QED
  BY <1>2 DEF SpawnOnce, SpawnsIn

LEMMA ClosingScrapedStep ==
  ASSUME TypeOK, TypeOK', ClosingScraped, ScreensShown, SpawnOnce,
         ShutdownMove, ChildMove, ScrapeMove
  PROVE  ClosingScraped'
<1> SUFFICES ASSUME closingOutputPipes'
             PROVE  /\ child' = "exited"
                    /\ \/ \A p \in DataOut : atExit'[p] <= scraped'[p]
                       \/ pc' = Poll("scrape") /\ shouldScrape'
  BY DEF ClosingScraped
<1>1. CASE ~closingOutputPipes
  BY <1>1 DEF ShutdownMove
<1>2. CASE closingOutputPipes
  <2>1. child = "exited"
    BY <1>2 DEF ClosingScraped
  <2>2. child' = "exited" /\ atExit' = atExit
    BY <2>1, SpawnedOnce DEF ChildMove
  <2>3. CASE \A p \in DataOut : atExit[p] <= scraped[p]
    <3>1. ASSUME NEW p \in DataOut PROVE atExit'[p] <= scraped'[p]
      BY <2>2, <2>3 DEF ScrapeMove, ScreensShown
    <3> QED
      BY <2>2, <3>1
  <2>4. CASE pc = Poll("scrape") /\ shouldScrape
    <3>1. CASE UNCHANGED <<pc, shouldScrape>>
      BY <2>2, <2>4, <3>1
    <3>2. CASE scraped' = screen
      BY <2>2, <3>2 DEF ScreensShown
    <3> QED
      BY <2>4, <3>1, <3>2 DEF ScrapeMove
  <2> QED
    BY <1>2, <2>3, <2>4 DEF ClosingScraped
<1> QED
  BY <1>1, <1>2

\* A data pipe is only closed when all that was on the screen at the exit has
\* been scraped, and all that was scraped handed over.
LEMMA ClosedFlushedStep ==
  ASSUME TypeOK, TypeOK', ClosedFlushed, ClosingScraped, ScreensShown, SpawnOnce,
         PipeBounds, ExitReason, Extends(stream, stream'),
         PipeMove, ShutdownMove, ChildMove
  PROVE  ClosedFlushed'
<1> SUFFICES ASSUME NEW p \in DataOut,
                    agentEnd'[p] = "closed", peerEnd'[p] # "closed", ~HungUp'
             PROVE  /\ closingOutputPipes'
                    /\ \/ atExit'[p] = 0
                       \/ \E i \in 1..wired'[p] : /\ stream'[p][i].kind = "screen"
                                                   /\ stream'[p][i].n >= atExit'[p]
  BY DEF ClosedFlushed, ShownWithin
<1> DEFINE flushed == closingOutputPipes /\ ShownWithin(p, wired[p], atExit[p])
<1>1. ~HungUp /\ peerEnd[p] # "closed"
  BY HungUpStays, PipeNames DEF PipeMove, PeerEndMove
<1>2. /\ AgentEndMove(p) /\ WireMove(p) /\ p \in OutPipes
      /\ Len(stream[p]) \in Nat /\ Len(stream'[p]) \in Nat
      /\ Len(stream[p]) <= Len(stream'[p])
  BY PipeNames DEF PipeMove, TypeOK, QueueTypeOK, Extends
<1>3. /\ AgentEndMove(p) /\ WireMove(p) /\ p \in OutPipes
      /\ Len(stream[p]) \in Nat /\ Len(stream'[p]) \in Nat
      /\ Len(stream[p]) <= Len(stream'[p])
      /\ wired[p] \in Nat /\ wired'[p] \in Nat /\ pending[p] \in Nat /\ got[p] \in Nat
      /\ got[p] <= wired[p] /\ wired[p] <= Len(stream[p])
  BY <1>2 DEF TypeOK, PipeTypeOK, PipeBounds
<1>4. ASSUME flushed, wired'[p] >= wired[p]
      PROVE  /\ closingOutputPipes'
             /\ \/ atExit'[p] = 0
                \/ \E i \in 1..wired'[p] : /\ stream'[p][i].kind = "screen"
                                            /\ stream'[p][i].n >= atExit'[p]
  <2>1. child = "exited"
    BY <1>4 DEF ClosingScraped
  <2>2. atExit' = atExit /\ closingOutputPipes'
    BY <1>4, <2>1, SpawnedOnce DEF ChildMove, ShutdownMove
  <2> QED
    BY <1>3, <1>4, <2>2, ShownStays
<1>5. CASE agentEnd[p] = "closed"
  <2>1. pending[p] = 0 /\ flushed
    BY <1>1, <1>3, <1>5 DEF PipeBounds, ClosedFlushed
  <2>2. wired'[p] >= wired[p]
    BY <1>3, <1>5, <2>1 DEF WireMove, Larger
  <2> QED
    BY <1>3, <1>4, <2>1, <2>2
<1>6. CASE agentEnd[p] # "closed"
  <2>1. /\ closingOutputPipes /\ pc # Poll("scrape")
        /\ agentEnd[p] = "connected" /\ BytesToSend(p, stream') = 0
    BY <1>1, <1>3, <1>6 DEF AgentEndMove, ClosedFor, PeerGone, ExitReason, MayClose
  <2>2. pending[p] = 0 /\ wired[p] = Len(stream[p])
    BY <1>3, <2>1 DEF BytesToSend, OutQueueSize
  <2>3. wired'[p] = wired[p]
    BY <1>3, <2>1, <2>2 DEF WireMove, Larger
  <2>4. atExit[p] <= scraped[p] /\ ShownWithin(p, wired[p], scraped[p])
    BY <2>1, <2>2 DEF ClosingScraped, ScreensShown
  <2>5. flushed
    BY <1>3, <2>1, <2>4, ShownLess DEF TypeOK, ScreenTypeOK
  <2> QED
    BY <1>3, <1>4, <2>3, <2>5
<1> QED
  BY <1>5, <1>6

-----------------------------------------------------------------------------
(* The spawn request                                                       *)

\* What a step can do to the requests that wait for the agent.
RequestMove ==
  \/ /\ UNCHANGED <<inWire["control"], inQueue["control"], spawnCalled>>
     /\ child = "none" => child' = "none"
  \/ /\ inQueue'["control"] = inQueue["control"] \o inWire["control"]
     /\ inWire'["control"] = <<>>
     /\ UNCHANGED <<spawnCalled, child>>
  \/ /\ inQueue["control"] # <<>>
     /\ inQueue'["control"] = Tail(inQueue["control"])
     /\ UNCHANGED <<inWire["control"], spawnCalled>>
     /\ child' = child \/ Head(inQueue["control"]).kind = "spawn"
  \/ \E r \in Requests :
       /\ inWire'["control"] = Append(inWire["control"], r)
       /\ UNCHANGED <<inQueue["control"], child>>
       /\ IF r.kind = "spawn" THEN ~spawnCalled /\ spawnCalled'
                              ELSE UNCHANGED spawnCalled

LEMMA NextRequest == TypeOK /\ [Next]_vars => RequestMove
<1> SUFFICES ASSUME TypeOK, [Next]_vars PROVE RequestMove
  OBVIOUS
<1> USE PipeNames DEF TypeOK
<1>1. ASSUME UNCHANGED <<inWire, inQueue, spawnCalled>>, child = "none" => child' = "none"
      PROVE  RequestMove
  BY <1>1 DEF RequestMove
<1>2. ASSUME NEW p \in Pipes, ServePipe(p) PROVE RequestMove
  <2>1. UNCHANGED <<spawnCalled, child>>
    BY <1>2 DEF ServePipe, clientVars, consoleVars
  <2>2. CASE p = "control" /\ ReadArrived(p)
    <3>1. /\ inQueue'["control"] = inQueue["control"] \o inWire["control"]
          /\ inWire'["control"] = <<>>
      BY <2>2 DEF ReadArrived, QueueTypeOK
    <3> QED
      BY <2>1, <3>1 DEF RequestMove
  <2>3. CASE p # "control" /\ ReadArrived(p)
    <3>1. UNCHANGED <<inQueue["control"], inWire["control"]>>
      BY <2>3 DEF ReadArrived, QueueTypeOK
    <3> QED
      BY <2>1, <3>1 DEF RequestMove
  <2>4. CASE UNCHANGED <<inQueue, inWire>>
    BY <1>1, <2>1, <2>4
  <2>5. ReadArrived(p) \/ UNCHANGED <<inQueue, inWire>>
    BY <1>2
    DEF ServePipe, SkipPipe, EnterPipe, FinishConnect, ReadPipe, ServiceRead,
        CheckPending, IssueWrites, CompleteWrite, IssueWrite, FailWrite, pipeVars
  <2> QED
    BY <2>2, <2>3, <2>4, <2>5
<1>3. ASSUME TakePacket, child' = child \/ Head(inQueue["control"]).kind = "spawn"
      PROVE  RequestMove
  BY <1>3 DEF TakePacket, RequestMove, QueueTypeOK, clientVars
<1>4. CASE HandleStartProcess \/ HandleSetSize \/ HandleGetConsoleProcessList
  BY <1>3, <1>4
  DEF HandleStartProcess, HandleSetSize, HandleGetConsoleProcessList, consoleVars
<1>5. CASE HandleConin
  BY <1>5 DEF HandleConin, RequestMove, QueueTypeOK, consoleVars, clientVars
<1>6. CASE LoseControlPipe \/ EndPackets \/ \E p \in DataOut : HandleDataOut(p)
  BY <1>1, <1>6 DEF LoseControlPipe, EndPackets, HandleDataOut, pipeVars, consoleVars,
      clientVars
<1>7. CASE SkipPoll \/ OnPollTimeout \/ Destroy
  BY <1>1, <1>7 DEF SkipPoll, OnPollTimeout, PollCheck, PollScrape, PollFinish, Destroy,
      pipeVars, consoleVars, clientVars
<1>8. CASE ConsoleNext \/ UNCHANGED vars
  BY <1>1, <1>8 DEF ConsoleNext, Draw, ChildExits, ToggleMouseInput, vars, pipeVars,
      clientVars, consoleVars
<1>9. ASSUME NEW r \in ClientRequests, Call(r), UNCHANGED child PROVE RequestMove
  <2>1. r \in Requests
    BY RequestAssumption
  <2>2. inWire'["control"] = Append(inWire["control"], r) /\ UNCHANGED inQueue
    BY <1>9 DEF Call, QueueTypeOK
  <2>3. IF r.kind = "spawn" THEN ~spawnCalled /\ spawnCalled' ELSE UNCHANGED spawnCalled
    BY <1>9 DEF Call, FlagTypeOK
  <2> QED
    BY <1>9, <2>1, <2>2, <2>3 DEF RequestMove
<1>10. ASSUME NEW k \in Inputs, Type(k), UNCHANGED child PROVE RequestMove
  BY <1>10 DEF Type, RequestMove, QueueTypeOK
<1>11. CASE ClientNext
  <2>1. UNCHANGED child
    BY <1>11 DEF ClientNext, consoleVars
  <2>2. \/ UNCHANGED <<inWire, inQueue, spawnCalled>>
        \/ \E k \in Inputs : Type(k)
        \/ \E r \in ClientRequests : Call(r)
    BY <1>11
    DEF ClientNext, Connect, CloseData, ReadData, TakeReply, LoseConnection, HangUp,
        PeerConnect, PeerClose, PeerRead, PeerReadEof, clientVars
  <2> QED
    BY <1>1, <1>9, <1>10, <2>1, <2>2
<1> QED
  BY <1>2, <1>4, <1>5, <1>6, <1>7, <1>8, <1>11 DEF Next, AgentNext, OnPipeIo

LEMMA SpawnsInConcat ==
  ASSUME NEW s \in Seq(Requests), NEW t \in Seq(Requests), NEW i \in SpawnsIn(s \o t)
  PROVE  /\ i \in Nat /\ Len(s) \in Nat
         /\ i \in SpawnsIn(s) \/ i - Len(s) \in SpawnsIn(t)
<1>1. Len(s) \in Nat /\ Len(t) \in Nat /\ Len(s \o t) = Len(s) + Len(t)
  OBVIOUS
<1>2. i \in 1..Len(s \o t) /\ (s \o t)[i].kind = "spawn"
  BY DEF SpawnsIn
<1>3. i \in 1..(Len(s) + Len(t))
  BY <1>1, <1>2
<1>4. i \in Nat
  BY <1>1, <1>3
<1>5. (s \o t)[i] = IF i <= Len(s) THEN s[i] ELSE t[i - Len(s)]
  BY <1>3
<1>6. CASE i <= Len(s)
  BY <1>1, <1>2, <1>3, <1>4, <1>5, <1>6 DEF SpawnsIn
<1>7. CASE i > Len(s)
  BY <1>1, <1>2, <1>3, <1>4, <1>5, <1>7 DEF SpawnsIn
<1> QED
  BY <1>1, <1>4, <1>6, <1>7

LEMMA SpawnOnceStep == TypeOK /\ SpawnOnce /\ RequestMove => SpawnOnce'
<1> SUFFICES ASSUME TypeOK, SpawnOnce, RequestMove PROVE SpawnOnce'
  OBVIOUS
<1> DEFINE wire == inWire["control"]
           queue == inQueue["control"]
<1>1. wire \in Seq(Requests) /\ queue \in Seq(Requests)
  BY DEF TypeOK, QueueTypeOK
<1>2. CASE /\ UNCHANGED <<wire, queue, spawnCalled>>
           /\ child = "none" => child' = "none"
  BY <1>2 DEF SpawnOnce, SpawnsIn
<1>3. CASE queue' = queue \o wire /\ wire' = <<>> /\ UNCHANGED <<spawnCalled, child>>
  <2>1. SpawnsIn(<<>>) = {}
    BY DEF SpawnsIn
  <2>2. ASSUME NEW i \in SpawnsIn(queue \o wire)
        PROVE  /\ i \in Nat /\ Len(queue) \in Nat
               /\ i \in SpawnsIn(queue) \/ i - Len(queue) \in SpawnsIn(wire)
    BY <1>1, SpawnsInConcat
  <2>3. \A i \in SpawnsIn(queue) \cup SpawnsIn(wire) : i \in Nat
    BY <1>1 DEF SpawnsIn
  <2>4. \A i, j \in SpawnsIn(queue \o wire) : child = "none" /\ i = j
    BY <2>2, <2>3 DEF SpawnOnce
  <2>5. ~spawnCalled => child = "none" /\ SpawnsIn(queue \o wire) = {}
    BY <2>2 DEF SpawnOnce
  <2> HIDE DEF wire, queue
  <2> QED
    BY <1>3, <2>1, <2>4, <2>5 DEF SpawnOnce, wire, queue
<1>4. CASE /\ queue # <<>> /\ queue' = Tail(queue)
           /\ UNCHANGED <<wire, spawnCalled>>
           /\ child' = child \/ Head(queue).kind = "spawn"
  <2>1. \A i \in SpawnsIn(Tail(queue)) : i + 1 \in SpawnsIn(queue) /\ i + 1 # 1
    BY <1>1, <1>4 DEF SpawnsIn
  <2>2. Head(queue).kind = "spawn" => 1 \in SpawnsIn(queue)
    BY <1>1, <1>4 DEF SpawnsIn
  <2>3. \A i \in SpawnsIn(Tail(queue)) : i \in Nat
    BY <1>1 DEF SpawnsIn
  <2>4. SpawnsIn(queue) = {} => SpawnsIn(Tail(queue)) = {}
    BY <2>1
  <2>5. \A i, j \in SpawnsIn(Tail(queue)) : i = j
    BY <2>1, <2>3 DEF SpawnOnce
  <2>6. SpawnsIn(Tail(queue)) # {} => Head(queue).kind # "spawn" /\ child' = child
    BY <1>4, <2>1, <2>2 DEF SpawnOnce
  <2>7. Head(queue).kind = "spawn" => SpawnsIn(wire) = {} /\ spawnCalled
    BY <2>2 DEF SpawnOnce
  <2>8. ~spawnCalled => child' = "none"
    BY <1>4, <2>7 DEF SpawnOnce
  <2>9. SpawnsIn(wire) # {} => child' = child
    BY <1>4, <2>7
  <2> QED
    BY <1>4, <2>4, <2>5, <2>6, <2>8, <2>9 DEF SpawnOnce
<1>5. ASSUME NEW r \in Requests,
             wire' = Append(wire, r), UNCHANGED <<queue, child>>,
             IF r.kind = "spawn" THEN ~spawnCalled /\ spawnCalled'
                                ELSE UNCHANGED spawnCalled
      PROVE  SpawnOnce'
  <2>1. SpawnsIn(Append(wire, r)) =
          SpawnsIn(wire) \cup (IF r.kind = "spawn" THEN {Len(wire) + 1} ELSE {})
    BY <1>1 DEF SpawnsIn
  <2> QED
    BY <1>5, <2>1 DEF SpawnOnce
<1> QED
  BY <1>2, <1>3, <1>4, <1>5 DEF RequestMove

-----------------------------------------------------------------------------
(* The safety properties                                                   *)

LEMMA InitInvariant == Init => IInv
<1> SUFFICES ASSUME Init PROVE IInv
  OBVIOUS
<1>1. TypeOK
  BY InitType
<1>2. PipeBounds /\ EofMeansRead /\ ServedConnected
  BY PipeNames DEF Init, PipeBounds, EofMeansRead, ServedConnected, Top
<1>3. ClosedWasConnected /\ ExitReason
  BY PipeNames DEF Init, ClosedWasConnected, PipesStayConnectable, ExitReason, DataOut, Top, Gone
<1>4. SpawnOnce
  BY PipeNames DEF Init, SpawnOnce, SpawnsIn
<1>5. ScreensShown
  BY PipeNames DEF Init, ScreensShown, ShownWithin
<1>6. ClosingScraped /\ ClosedFlushed /\ KillsOnlyWhenHungUp
  BY PipeNames DEF Init, ClosingScraped, ClosedFlushed, KillsOnlyWhenHungUp, DataOut
<1> QED
  BY <1>1, <1>2, <1>3, <1>4, <1>5, <1>6 DEF IInv

LEMMA NextInvariant == IInv /\ [Next]_vars => IInv'
<1> SUFFICES ASSUME IInv, [Next]_vars PROVE IInv'
  OBVIOUS
<1> USE DEF IInv
<1>1. TypeOK'
  BY NextType
<1>2. PipeMove /\ LoopMove /\ ShutdownMove /\ ChildMove /\ ScrapeMove /\ RequestMove
      /\ Extends(stream, stream')
  BY NextMove, NextLoop, NextShutdown, NextChild, NextScrape, NextRequest, StreamGrows
<1>3. PipeBounds' /\ EofMeansRead' /\ ServedConnected'
  BY <1>1, <1>2, PipeBoundsStep, EofMeansReadStep, ServedConnectedStep
<1>4. ClosedWasConnected' /\ ExitReason' /\ KillsOnlyWhenHungUp'
  BY <1>2, ClosedWasConnectedStep, ExitReasonStep, KillsStep
<1>5. SpawnOnce'
  BY <1>2, SpawnOnceStep
<1>6. ScreensShown' /\ ClosingScraped' /\ ClosedFlushed'
  BY <1>1, <1>2, ScreensShownStep, ClosingScrapedStep, ClosedFlushedStep
<1> QED
  BY <1>1, <1>3, <1>4, <1>5, <1>6

\* The inductive invariant holds in every state of every behaviour.
THEOREM Invariance == Spec => []IInv
<1> QED
  BY InitInvariant, NextInvariant, PTL DEF Spec

\* A client that has read an output pipe to its end has everything that was
\* on the screen when the child exited: every way there is to close the pipe
\* comes after the last scrape and after the last write has completed.
THEOREM OutputIsComplete == Spec => []NoOutputLost
<1>1. IInv => NoOutputLost
  <2> SUFFICES ASSUME IInv, NEW p \in DataOut, peerEnd[p] = "eof", ~HungUp
               PROVE  child = "exited" /\ ShownWithin(p, got[p], atExit[p])
    BY DEF NoOutputLost
  <2>1. p \in OutPipes
    BY PipeNames
  <2>2. agentEnd[p] = "closed" /\ got[p] = wired[p]
    BY <2>1 DEF IInv, EofMeansRead
  <2>3. closingOutputPipes /\ ShownWithin(p, wired[p], atExit[p])
    BY <2>2 DEF IInv, ClosedFlushed
  <2> QED
    BY <2>2, <2>3 DEF IInv, ClosingScraped
<1> QED
  BY <1>1, Invariance, PTL

\* Until it hangs up, a client that comes late still finds every data pipe,
\* however short-lived the child was.
THEOREM DataPipesAreFound == Spec => []PipesStayConnectable
<1>1. IInv => PipesStayConnectable
  BY DEF IInv, ClosedWasConnected
<1> QED
  BY <1>1, Invariance, PTL

\* The agent kills no child of a client that has not hung up.
THEOREM ChildIsSpared == Spec => []KillsOnlyWhenHungUp
<1>1. IInv => KillsOnlyWhenHungUp
  BY DEF IInv
<1> QED
  BY <1>1, Invariance, PTL

-----------------------------------------------------------------------------
(* The input queues                                                        *)

\* A queue holds something only on the way from the worker that reads to the
\* handler, which is called since that worker made progress.
Underway ==
  /\ inQueue["conin"] # <<>> => pc = <<"conin", "handle">>
  /\ inQueue["control"] # <<>> =>
       \/ agentEnd["control"] = "closed"
       \/ pc = <<"control", "handle">>
       \/ pc \in {<<"control", "complete">>, <<"control", "issue">>} /\ progress

LEMMA UnderwayServe ==
  ASSUME TypeOK, Underway, ServedConnected, PipeMove, NEW p \in Pipes, ServePipe(p)
  PROVE  Underway'
<1> USE PipeNames
<1>1. inQueue["conin"] \in Seq(Inputs) /\ inQueue["control"] \in Seq(Requests)
      /\ inWire["conin"] \in Seq(Inputs) /\ inWire["control"] \in Seq(Requests)
      /\ DOMAIN inQueue = InPipes
  BY DEF TypeOK, QueueTypeOK
<1>2. agentEnd["control"] = "closed" => agentEnd'["control"] = "closed"
  BY DEF PipeMove, AgentEndMove
<1>3. pc[1] = p
  BY DEF ServePipe, SkipPipe, EnterPipe, ReadPipe, CheckPending, IssueWrites
<1>4. CASE inQueue' = inQueue /\ p \notin {"conin", "control"}
  BY <1>2, <1>3, <1>4 DEF Underway
<1>5. CASE SkipPipe(p) \/ EnterPipe(p)
  <2>1. inQueue' = inQueue /\ pc = <<p, "connect">>
    BY <1>5 DEF SkipPipe, EnterPipe, FinishConnect, pipeVars
  <2> QED
    BY <1>2, <2>1 DEF Underway
<1>6. CASE p \in InPipes /\ ReadPipe(p)
  <2> DEFINE result == progress \/ inWire[p] # <<>> \/ PeerGone(p)
  <2>1. /\ pc = <<p, "read">>
        /\ inQueue' = [inQueue EXCEPT ![p] = @ \o inWire[p]]
        /\ progress' = result
    BY <1>6 DEF ReadPipe, ServiceRead, ReadArrived
  <2>2. inQueue["conin"] = <<>>
    BY <2>1 DEF Underway
  <2>3. CASE p = "conin"
    <3>1. pc' = Served(p, result)
      BY <1>6, <2>3, AgentAssumption DEF ReadPipe
    <3>2. inQueue'["conin"] = inWire["conin"] /\ inQueue'["control"] = inQueue["control"]
      BY <1>1, <2>1, <2>2, <2>3
    <3>3. inQueue'["conin"] # <<>> => pc' = <<"conin", "handle">>
      BY <2>3, <3>1, <3>2 DEF Served
    <3>4. inQueue["control"] # <<>> => agentEnd["control"] = "closed"
      BY <2>1, <2>3 DEF Underway
    <3> QED
      BY <1>2, <3>2, <3>3, <3>4 DEF Underway
  <2>4. CASE p = "control"
    <3>1. agentEnd["control"] = "connected"
      BY <1>6, <2>1, <2>4 DEF ServedConnected
    <3>2. inQueue["control"] = <<>>
      BY <2>1, <2>4, <3>1 DEF Underway
    <3>3. inQueue'["control"] = inWire["control"] /\ inQueue'["conin"] = inQueue["conin"]
      BY <1>1, <2>1, <2>4, <3>2
    <3>4. CASE PeerGone("control")
      <4>1. pc' = <<"control", "handle">>
        BY <1>6, <2>4, <3>4 DEF ReadPipe, Served
      <4> QED
        BY <2>2, <3>3, <4>1 DEF Underway
    <3>5. CASE ~PeerGone("control")
      <4>1. pc' = FirstWrite("control")
        BY <1>6, <2>4, <3>5 DEF ReadPipe
      <4>2. inQueue'["control"] # <<>> => progress'
        BY <2>1, <2>4, <3>3
      <4> QED
        BY <2>2, <3>3, <4>1, <4>2 DEF Underway, FirstWrite
    <3> QED
      BY <3>4, <3>5
  <2> QED
    BY <1>6, <2>3, <2>4
<1>7. CASE p = "control" /\ (CheckPending(p) \/ IssueWrites(p))
  <2>1. inQueue' = inQueue /\ pc \in {<<"control", "complete">>, <<"control", "issue">>}
    BY <1>7 DEF CheckPending, IssueWrites, CompleteWrite, IssueWrite, FailWrite, pipeVars
  <2>2. inQueue["conin"] = <<>>
    BY <2>1 DEF Underway
  <2>3. inQueue["control"] # <<>> => progress
    <3>1. agentEnd["control"] = "connected"
      BY <2>1 DEF ServedConnected
    <3> QED
      BY <2>1, <3>1 DEF Underway
  <2>4. progress => /\ progress'
                    /\ pc' \in {<<"control", "handle">>, <<"control", "issue">>}
    <3>1. Served("control", TRUE) = <<"control", "handle">>
      BY DEF Served
    <3>2. progress \in BOOLEAN
      BY DEF TypeOK, FlagTypeOK
    <3>3. CASE CheckPending(p)
      BY <1>7, <3>1, <3>2, <3>3 DEF CheckPending
    <3>4. CASE IssueWrites(p)
      BY <1>7, <3>1, <3>2, <3>4 DEF IssueWrites
    <3> QED
      BY <1>7, <3>3, <3>4
  <2> QED
    BY <2>1, <2>2, <2>3, <2>4 DEF Underway
<1>8. CASE p # "control" /\ p \in OutPipes /\ (CheckPending(p) \/ IssueWrites(p))
  <2>1. inQueue' = inQueue /\ p \notin {"conin", "control"}
    BY <1>8, AgentAssumption
       DEF CheckPending, IssueWrites, CompleteWrite, IssueWrite, FailWrite, pipeVars
  <2> QED
    BY <1>4, <2>1
<1> QED
  BY <1>5, <1>6, <1>7, <1>8 DEF ServePipe

LEMMA UnderwayStep ==
  ASSUME TypeOK, Underway, ServedConnected, PipeMove, [Next]_vars
  PROVE  Underway'
<1> USE PipeNames
<1>1. agentEnd["control"] = "closed" => agentEnd'["control"] = "closed"
  BY DEF PipeMove, AgentEndMove
<1>2. ASSUME NEW p \in Pipes, ServePipe(p) PROVE Underway'
  BY <1>2, UnderwayServe
<1>3. ASSUME UNCHANGED <<inQueue, pc, progress>> PROVE Underway'
  BY <1>1, <1>3 DEF Underway
<1>4. ASSUME UNCHANGED inQueue, inQueue["conin"] = <<>>,
             inQueue["control"] # <<>> => agentEnd["control"] = "closed"
      PROVE  Underway'
  BY <1>1, <1>4 DEF Underway
<1>5. CASE LoseControlPipe
  BY <1>4, <1>5 DEF LoseControlPipe, Handling, Underway, pipeVars
<1>6. CASE EndPackets
  BY <1>4, <1>6 DEF EndPackets, Handling, Underway, pipeVars
<1>7. CASE HandleStartProcess \/ HandleSetSize \/ HandleGetConsoleProcessList
  <2>1. TakePacket
    BY <1>7 DEF HandleStartProcess, HandleSetSize, HandleGetConsoleProcessList
  <2>2. pc = <<"control", "handle">> /\ pc' = pc
    BY <2>1 DEF TakePacket, Handling, loopVars
  <2>3. inQueue'["conin"] = inQueue["conin"]
    BY <2>1 DEF TakePacket, TypeOK, QueueTypeOK
  <2> QED
    BY <2>2, <2>3 DEF Underway
<1>8. CASE HandleConin
  <2>1. pc = <<"conin", "handle">> /\ inQueue'["conin"] = <<>>
        /\ inQueue'["control"] = inQueue["control"]
    BY <1>8 DEF HandleConin, Handling, TypeOK, QueueTypeOK
  <2>2. inQueue["control"] # <<>> => agentEnd["control"] = "closed"
    BY <2>1 DEF Underway
  <2> QED
    BY <1>1, <2>1, <2>2 DEF Underway
<1>9. CASE \E p \in DataOut : HandleDataOut(p)
  BY <1>4, <1>9 DEF HandleDataOut, Handling, Underway
<1>10. CASE SkipPoll \/ OnPollTimeout \/ Destroy
  <2>1. pc \in {Poll("check"), Poll("scrape"), Poll("finish"), Top}
    BY <1>10 DEF SkipPoll, OnPollTimeout, PollCheck, PollScrape, PollFinish, Destroy
  <2>2. inQueue' = inQueue
    BY <1>10
       DEF SkipPoll, OnPollTimeout, PollCheck, PollScrape, PollFinish, Destroy, pipeVars
  <2> QED
    BY <1>4, <2>1, <2>2 DEF Underway, Top, Poll
<1>11. CASE ConsoleNext \/ UNCHANGED vars
  BY <1>3, <1>11 DEF ConsoleNext, vars, pipeVars, agentVars, loopVars
<1>12. CASE ClientNext
  <2>1. UNCHANGED <<pc, progress>>
    BY <1>12 DEF ClientNext, agentVars, loopVars
  <2>2. UNCHANGED inQueue
    BY <1>12
    DEF ClientNext, Connect, CloseData, ReadData, Type, Call, TakeReply, LoseConnection,
        HangUp, PeerConnect, PeerClose, PeerRead, PeerReadEof
  <2> QED
    BY <1>3, <2>1, <2>2
<1> QED
  BY <1>2, <1>5, <1>6, <1>7, <1>8, <1>9, <1>10, <1>11, <1>12 DEF Next, AgentNext, OnPipeIo

\* A pass of the loop handles all it has read: no request and no keypress stays
\* in a queue until more arrives.
THEOREM NothingIsLeftQueued == Spec => []NothingLeftQueued
<1>1. Init => Underway
  BY PipeNames DEF Init, Underway
<1>2. IInv /\ Underway /\ [Next]_vars => Underway'
  BY UnderwayStep, NextMove DEF IInv
<1>3. Underway => NothingLeftQueued
  BY DEF Underway, NothingLeftQueued, Poll
<1> QED
  BY <1>1, <1>2, <1>3, Invariance, PTL DEF Spec

-----------------------------------------------------------------------------
(* Mouse mode                                                              *)

\* Within the n first items of CONOUT every "mouseOn" has a "mouseOff" after it.
OffWithin(s, n) ==
  \A i \in 1..n : s["conout"][i].kind = "mouseOn" =>
    \E j \in i..n : s["conout"][j].kind = "mouseOff"

\* What is recorded of the terminal's mode is what was written to it; the poll that
\* starts the shutdown turns the mode off; and CONOUT is closed with that handed over.
MouseKnown ==
  /\ PlainMode => ~mouseOn
  /\ ~mouseOn => OffWithin(stream, Len(stream["conout"]))
  /\ closingOutputPipes /\ mouseOn => pc \in {Poll("scrape"), Poll("finish")}
  /\ agentEnd["conout"] = "closed" /\ peerEnd["conout"] # "closed" /\ ~HungUp =>
       OffWithin(stream, wired["conout"])

\* What a step can do to the mode, and to CONOUT when it does not change the mode.
MouseMove ==
  \/ /\ UNCHANGED mouseOn
     /\ pc = Poll("scrape") => pc' \in {pc, Poll("finish")}
     /\ pc = Poll("finish") => UNCHANGED <<pc, agentEnd>>
     /\ \/ stream'["conout"] = stream["conout"]
        \/ \E x \in Item : /\ x.kind # "mouseOn"
                           /\ stream'["conout"] = Append(stream["conout"], x)
  \/ PollFinish

LEMMA NextMouse == TypeOK /\ [Next]_vars => MouseMove
<1> SUFFICES ASSUME TypeOK, [Next]_vars PROVE MouseMove
  OBVIOUS
<1> USE PipeNames
<1>0. /\ Poll("check") # Poll("finish") /\ Poll("check") # Poll("scrape")
      /\ Poll("scrape") # Poll("finish")
      /\ Top \notin {Poll("scrape"), Poll("finish")}
      /\ \A p \in Pipes : \A stage : <<p, stage>> \notin {Poll("scrape"), Poll("finish")}
  BY DEF Poll, Top
<1>1. ASSUME UNCHANGED <<mouseOn, stream>>, pc \notin {Poll("scrape"), Poll("finish")}
      PROVE  MouseMove
  BY <1>1 DEF MouseMove
<1>2. ASSUME UNCHANGED <<mouseOn, stream, pc, agentEnd>> PROVE MouseMove
  BY <1>2 DEF MouseMove
<1>3. ASSUME NEW p \in Pipes, ServePipe(p) PROVE MouseMove
  <2>1. UNCHANGED <<mouseOn, stream>>
    BY <1>3
    DEF ServePipe, SkipPipe, EnterPipe, ReadPipe, CheckPending, IssueWrites, FinishConnect,
        ServiceRead, CompleteWrite, IssueWrite, FailWrite, pipeVars, pollVars
  <2>2. \E stage : pc = <<p, stage>>
    BY <1>3 DEF ServePipe, SkipPipe, EnterPipe, ReadPipe, CheckPending, IssueWrites
  <2> QED
    BY <1>0, <1>1, <2>1, <2>2
<1>4. CASE LoseControlPipe \/ EndPackets \/ \E p \in DataOut : HandleDataOut(p)
  <2>1. UNCHANGED <<mouseOn, stream>>
    BY <1>4 DEF LoseControlPipe, EndPackets, HandleDataOut, pipeVars, pollVars
  <2>2. \E p \in Pipes : pc = <<p, "handle">>
    BY <1>4 DEF LoseControlPipe, EndPackets, HandleDataOut, Handling
  <2> QED
    BY <1>0, <1>1, <2>1, <2>2
<1>5. CASE HandleStartProcess \/ HandleGetConsoleProcessList
  <2>1. UNCHANGED mouseOn /\ stream'["conout"] = stream["conout"]
    BY <1>5
    DEF HandleStartProcess, HandleGetConsoleProcessList, ReplyWith, Written, pollVars,
        TypeOK, QueueTypeOK
  <2>2. pc = <<"control", "handle">>
    BY <1>5 DEF HandleStartProcess, HandleGetConsoleProcessList, TakePacket, Handling
  <2>3. pc \notin {Poll("scrape"), Poll("finish")}
    BY <1>0, <2>2
  <2> QED
    BY <2>1, <2>3 DEF MouseMove
<1>6. ASSUME NEW redrawn, NEW s, s["conout"] = ScrapedInto(stream, redrawn)["conout"]
      PROVE  \/ s["conout"] = stream["conout"]
             \/ \E x \in Item : /\ x.kind # "mouseOn"
                               /\ s["conout"] = Append(stream["conout"], x)
  <2>1. Screen(screen["conout"]) \in Item /\ Screen(screen["conout"]).kind # "mouseOn"
    BY ItemTypes DEF TypeOK, ScreenTypeOK, Screen
  <2>2. \/ s["conout"] = stream["conout"]
        \/ s["conout"] = Append(stream["conout"], Screen(screen["conout"]))
    BY <1>6 DEF ScrapedInto
  <2> QED
    BY <2>1, <2>2
<1>7. CASE HandleSetSize
  <2>1. PICK redrawn \in {{}, DataOut} :
          stream' = Written("control", Reply("setSize"), ScrapedInto(stream, redrawn))
    BY <1>7 DEF HandleSetSize
  <2>2. stream'["conout"] = ScrapedInto(stream, redrawn)["conout"]
    BY <2>1 DEF Written, ScrapedInto
  <2>3. pc = <<"control", "handle">> /\ UNCHANGED mouseOn
    BY <1>7 DEF HandleSetSize, TakePacket, Handling
  <2>4. pc \notin {Poll("scrape"), Poll("finish")}
    BY <1>0, <2>3
  <2> QED
    BY <1>6, <2>2, <2>3, <2>4 DEF MouseMove
<1>8. CASE HandleConin
  <2>1. pc = <<"conin", "handle">> /\ UNCHANGED mouseOn
    BY <1>8 DEF HandleConin, Handling, pollVars
  <2>2. pc \notin {Poll("scrape"), Poll("finish")}
    BY <1>0, <2>1
  <2>3. Dsr \in Item /\ Dsr.kind # "mouseOn"
    BY ItemTypes DEF Dsr
  <2>4. \/ stream'["conout"] = stream["conout"]
        \/ stream'["conout"] = Append(stream["conout"], Dsr)
    BY <1>8 DEF HandleConin, Written, TypeOK, QueueTypeOK
  <2> QED
    BY <2>1, <2>2, <2>3, <2>4 DEF MouseMove
<1>9. CASE SkipPoll \/ PollCheck \/ Destroy
  <2>1. UNCHANGED <<mouseOn, stream>> /\ pc \in {Poll("check"), Top}
    BY <1>9 DEF SkipPoll, PollCheck, Destroy, pipeVars, pollVars
  <2> QED
    BY <1>0, <1>1, <2>1
<1>10. CASE PollScrape
  <2>1. /\ UNCHANGED mouseOn /\ pc = Poll("scrape") /\ pc' = Poll("finish")
        /\ stream' = ScrapedInto(stream, {}) \/ stream' = stream
    BY <1>10 DEF PollScrape
  <2> QED
    BY <1>0, <1>6, <2>1 DEF MouseMove
<1>11. CASE PollFinish
  BY <1>11 DEF MouseMove
<1>12. CASE ConsoleNext \/ UNCHANGED vars
  BY <1>2, <1>12 DEF ConsoleNext, vars, pipeVars, agentVars, loopVars, pollVars
<1>13. CASE ClientNext
  <2>1. UNCHANGED <<pc, mouseOn>>
    BY <1>13 DEF ClientNext, agentVars, loopVars, pollVars
  <2>2. UNCHANGED <<stream, agentEnd>>
    BY <1>13
    DEF ClientNext, Connect, CloseData, ReadData, Type, Call, TakeReply, LoseConnection,
        HangUp, PeerConnect, PeerClose, PeerRead, PeerReadEof
  <2> QED
    BY <1>2, <2>1, <2>2
<1> QED
  BY <1>3, <1>4, <1>5, <1>7, <1>8, <1>9, <1>10, <1>11, <1>12, <1>13
  DEF Next, AgentNext, OnPipeIo, OnPollTimeout

\* An item that does not turn the mode on leaves what was off so; one that turns it
\* off makes it so.
LEMMA OffAppend ==
  ASSUME NEW s, NEW t, s["conout"] \in Seq(Item), NEW x \in Item,
         t["conout"] = Append(s["conout"], x),
         \/ x.kind = "mouseOff"
         \/ x.kind # "mouseOn" /\ OffWithin(s, Len(s["conout"]))
  PROVE  OffWithin(t, Len(t["conout"]))
<1> DEFINE n == Len(s["conout"])
<1>1. /\ n \in Nat /\ Len(t["conout"]) = n + 1 /\ t["conout"][n + 1] = x
      /\ \A i \in 1..n : t["conout"][i] = s["conout"][i]
  OBVIOUS
<1> SUFFICES ASSUME NEW i \in 1..(n + 1), t["conout"][i].kind = "mouseOn"
             PROVE  \E j \in i..(n + 1) : t["conout"][j].kind = "mouseOff"
  BY <1>1 DEF OffWithin
<1> HIDE DEF n
<1>2. CASE x.kind = "mouseOff"
  <2>1. n + 1 \in i..(n + 1)
    BY <1>1
  <2> QED
    BY <1>1, <1>2, <2>1
<1>3. CASE x.kind # "mouseOn" /\ OffWithin(s, n)
  <2>1. i \in 1..n
    BY <1>1, <1>3
  <2>2. PICK j \in i..n : s["conout"][j].kind = "mouseOff"
    BY <1>1, <1>3, <2>1 DEF OffWithin
  <2> QED
    BY <1>1, <2>1, <2>2
<1> QED
  BY <1>2, <1>3 DEF n

LEMMA OffStays ==
  ASSUME TypeOK, Extends(stream, stream'), NEW n \in Nat, n <= Len(stream["conout"]),
         OffWithin(stream, n)
  PROVE  OffWithin(stream', n)
<1>1. "conout" \in OutPipes /\ Len(stream["conout"]) \in Nat
  BY PipeNames DEF TypeOK, QueueTypeOK
<1>2. \A i \in 1..n : stream'["conout"][i] = stream["conout"][i]
  BY <1>1 DEF Extends
<1>3. \A i \in 1..n : \A j \in i..n : j \in 1..n
  OBVIOUS
<1> QED
  BY <1>2, <1>3 DEF OffWithin

LEMMA MouseKnownStep ==
  ASSUME IInv, IInv', MouseKnown, [Next]_vars
  PROVE  MouseKnown'
<1> USE PipeNames
<1>1. /\ TypeOK /\ TypeOK' /\ PipeBounds /\ ExitReason
      /\ stream["conout"] \in Seq(Item) /\ stream \in [OutPipes -> Seq(Item)]
      /\ "conout" \in OutPipes
  BY DEF IInv, TypeOK, QueueTypeOK
<1>2. MouseMove /\ PipeMove /\ ShutdownMove /\ Extends(stream, stream')
  BY <1>1, NextMouse, NextMove, NextShutdown, StreamGrows DEF IInv
<1>3. PollFinish => mouseOn' = (IF PlainMode THEN mouseOn ELSE MouseModeNow)
  BY <1>1 DEF PollFinish, MouseModeNow, TypeOK, FlagTypeOK
<1>4. PlainMode => ~mouseOn'
  BY <1>2, <1>3 DEF MouseMove, MouseKnown
<1>5. ASSUME ~mouseOn' PROVE OffWithin(stream', Len(stream'["conout"]))
  <2>1. CASE ~mouseOn /\ stream'["conout"] = stream["conout"]
    BY <2>1 DEF MouseKnown, OffWithin
  <2>2. ASSUME ~mouseOn, NEW x \in Item, x.kind # "mouseOn",
               stream'["conout"] = Append(stream["conout"], x)
        PROVE  OffWithin(stream', Len(stream'["conout"]))
    BY <1>1, <2>2, OffAppend DEF MouseKnown
  <2>3. CASE PollFinish
    <3>1. CASE ~PlainMode /\ mouseOn # MouseModeNow
      <4>1. ~MouseModeNow
        BY <1>3, <1>5, <2>3, <3>1
      <4>2. stream' = Written("conout", Mouse(MouseModeNow), stream)
        BY <2>3, <3>1 DEF PollFinish
      <4>3. stream'["conout"] = Append(stream["conout"], Mouse(MouseModeNow))
        BY <1>1, <4>2 DEF Written
      <4>4. Mouse(MouseModeNow) \in Item /\ Mouse(MouseModeNow).kind = "mouseOff"
        BY <4>1, ItemTypes DEF Mouse
      <4> QED
        BY <1>1, <4>3, <4>4, OffAppend
    <3>2. CASE ~(~PlainMode /\ mouseOn # MouseModeNow)
      <4>1. stream' = stream /\ mouseOn' = mouseOn
        BY <2>3, <3>2 DEF PollFinish
      <4> QED
        BY <1>5, <2>1, <4>1
    <3> QED
      BY <3>1, <3>2
  <2> QED
    BY <1>2, <1>5, <2>1, <2>2, <2>3 DEF MouseMove
<1>6. ASSUME closingOutputPipes', mouseOn'
      PROVE  pc' \in {Poll("scrape"), Poll("finish")}
  <2>1. CASE ~closingOutputPipes
    BY <1>2, <1>6, <2>1 DEF ShutdownMove
  <2>2. CASE closingOutputPipes
    <3>1. ~PollFinish
      BY <1>3, <1>4, <1>6, <2>2 DEF MouseModeNow
    <3> QED
      BY <1>2, <1>6, <2>2, <3>1 DEF MouseMove, MouseKnown
  <2> QED
    BY <2>1, <2>2
<1>7. ASSUME agentEnd'["conout"] = "closed", peerEnd'["conout"] # "closed", ~HungUp'
      PROVE  OffWithin(stream', wired'["conout"])
  <2>1. ~HungUp /\ peerEnd["conout"] # "closed"
    BY <1>2, <1>7, HungUpStays DEF PipeMove, PeerEndMove
  <2>2. /\ AgentEndMove("conout") /\ WireMove("conout")
        /\ Len(stream["conout"]) \in Nat /\ Len(stream'["conout"]) \in Nat
        /\ Len(stream["conout"]) <= Len(stream'["conout"])
    BY <1>1, <1>2 DEF PipeMove, TypeOK, QueueTypeOK, Extends
  <2>3. /\ wired["conout"] \in Nat /\ wired'["conout"] \in Nat
        /\ pending["conout"] \in Nat /\ got["conout"] \in Nat
        /\ got["conout"] <= wired["conout"] /\ wired["conout"] <= Len(stream["conout"])
    BY <1>1 DEF TypeOK, PipeTypeOK, PipeBounds
  <2>4. CASE agentEnd["conout"] = "closed"
    <3>1. pending["conout"] = 0 /\ OffWithin(stream, wired["conout"])
      BY <1>1, <2>1, <2>4 DEF PipeBounds, MouseKnown
    <3>2. wired'["conout"] = wired["conout"]
      BY <2>2, <2>3, <2>4, <3>1 DEF WireMove, Larger
    <3> QED
      BY <1>1, <1>2, <2>3, <3>1, <3>2, OffStays
  <2>5. CASE agentEnd["conout"] # "closed"
    <3>1. /\ closingOutputPipes /\ pc # Poll("scrape")
          /\ agentEnd["conout"] = "connected" /\ BytesToSend("conout", stream') = 0
      BY <1>1, <1>7, <2>1, <2>2, <2>5
      DEF AgentEndMove, ClosedFor, PeerGone, ExitReason, MayClose
    <3>2. pending["conout"] = 0 /\ wired["conout"] = Len(stream'["conout"])
      BY <2>2, <2>3, <3>1 DEF BytesToSend, OutQueueSize
    <3>3. wired'["conout"] = wired["conout"]
      BY <1>7, <2>2, <2>3, <3>1, <3>2 DEF WireMove, Larger
    <3>4. ~mouseOn'
      <4>1. CASE PollFinish
        BY <1>3, <1>4, <3>1, <4>1 DEF MouseModeNow
      <4>2. CASE ~PollFinish
        <5>1. UNCHANGED mouseOn /\ pc # Poll("finish")
          BY <1>2, <1>7, <2>5, <4>2 DEF MouseMove
        <5> QED
          BY <3>1, <5>1 DEF MouseKnown
      <4> QED
        BY <4>1, <4>2
    <3> QED
      BY <1>5, <3>2, <3>3, <3>4
  <2> QED
    BY <2>4, <2>5
<1> QED
  BY <1>4, <1>5, <1>6, <1>7 DEF MouseKnown

\* A terminal that reads CONOUT to its end is not left in mouse mode, whatever the
\* programs asked for and whenever the child exited.
THEOREM MouseIsOffAtEnd == Spec => []MouseOffAtEnd
<1>1. Init => MouseKnown
  BY PipeNames DEF Init, MouseKnown, OffWithin
<1>2. IInv /\ IInv' /\ MouseKnown /\ [Next]_vars => MouseKnown'
  BY MouseKnownStep
<1>3. IInv /\ MouseKnown => MouseOffAtEnd
  BY PipeNames DEF IInv, EofMeansRead, MouseKnown, MouseOffAtEnd, OffWithin
<1> QED
  BY <1>1, <1>2, <1>3, Invariance, PTL DEF Spec

-----------------------------------------------------------------------------
(* The largest number of a bounded set                                     *)

LEMMA Smallest ==
  ASSUME NEW T \in SUBSET Nat, T # {}
  PROVE  \E x \in T : \A y \in T : x <= y
<1>1. IsWellFoundedOn(OpToRel(<, Nat), Nat)
  BY NatLessThanWellFounded, Zenon
<1>2. PICK x \in T : \A y \in T : ~(<<y, x>> \in OpToRel(<, Nat))
  BY <1>1, WFMin, Zenon
<1>3. ASSUME NEW y \in T PROVE ~(y < x)
  <2>1. ~(<<y, x>> \in OpToRel(<, Nat))
    BY <1>2
  <2> QED
    BY <2>1 DEF OpToRel
<1> QED
  BY <1>3

LEMMA Largest ==
  ASSUME NEW T \in SUBSET Nat, T # {}, NEW b \in Nat, \A x \in T : x <= b
  PROVE  \E x \in T : \A y \in T : y <= x
<1> DEFINE D == {b - x : x \in T}
<1>1. D \in SUBSET Nat /\ D # {}
  <2>1. ASSUME NEW x \in T PROVE b - x \in Nat
    BY <2>1
  <2>2. PICK x \in T : TRUE
    OBVIOUS
  <2>3. b - x \in D
    OBVIOUS
  <2> QED
    BY <2>1, <2>3
<1>2. PICK d \in D : \A e \in D : d <= e
  BY <1>1, Smallest
<1>3. PICK x \in T : d = b - x
  OBVIOUS
<1>4. ASSUME NEW y \in T PROVE y <= x
  <2>1. d <= b - y
    BY <1>2
  <2> QED
    BY <1>3, <2>1
<1> QED
  BY <1>4

-----------------------------------------------------------------------------
(* What a terminal shows                                                   *)

\* View, of the n first items of q.
ViewOf(q, n) ==
  LET shown == {q[i].n : i \in {j \in 1..n : q[j].kind = "screen"}}
  IN  IF shown = {} THEN 0 ELSE CHOOSE k \in shown : \A m \in shown : m <= k

LEMMA ViewIs ==
  ASSUME NEW p
  PROVE  View(p) = ViewOf(stream[p], got[p]) /\ View(p)' = ViewOf(stream'[p], got'[p])
BY DEF View, ViewOf

LEMMA ViewOfIs ==
  ASSUME NEW q \in Seq(Item), NEW n \in 0..Len(q), NEW b \in Nat,
         \A i \in 1..n : q[i].kind = "screen" => q[i].n <= b
  PROVE  /\ ViewOf(q, n) \in 0..b
         /\ \A i \in 1..n : q[i].kind = "screen" => q[i].n <= ViewOf(q, n)
         /\ \/ ViewOf(q, n) = 0
            \/ \E i \in 1..n : q[i].kind = "screen" /\ q[i].n = ViewOf(q, n)
<1> DEFINE shown == {q[i].n : i \in {j \in 1..n : q[j].kind = "screen"}}
<1>1. \A i \in 1..n : q[i].n \in Nat
  <2>1. \A i \in 1..n : q[i] \in Item
    OBVIOUS
  <2> QED
    BY <2>1 DEF Item
<1>2. shown \in SUBSET Nat /\ \A m \in shown : m <= b
  BY <1>1
<1>3. \A i \in 1..n : q[i].kind = "screen" => q[i].n \in shown
  OBVIOUS
<1>4. \A m \in shown : \E i \in 1..n : q[i].kind = "screen" /\ q[i].n = m
  OBVIOUS
<1>5. ViewOf(q, n) = IF shown = {} THEN 0 ELSE CHOOSE k \in shown : \A m \in shown : m <= k
  BY DEF ViewOf
<1> HIDE DEF shown
<1>6. CASE shown = {}
  BY <1>3, <1>5, <1>6
<1>7. CASE shown # {}
  <2>1. \E k \in shown : \A m \in shown : m <= k
    BY <1>2, <1>7, Largest
  <2>2. ViewOf(q, n) \in shown /\ \A m \in shown : m <= ViewOf(q, n)
    BY <1>5, <1>7, <2>1
  <2>3. PICK v \in shown : v = ViewOf(q, n)
    BY <2>2
  <2>4. v \in 0..b
    BY <1>2
  <2> QED
    BY <1>3, <1>4, <2>2, <2>3, <2>4
<1> QED
  BY <1>6, <1>7

-----------------------------------------------------------------------------
(* No terminal is ahead of its screen                                      *)

ItemsDrawn ==
  \A p \in DataOut : \A i \in 1..Len(stream[p]) :
    stream[p][i].kind = "screen" => stream[p][i].n <= screen[p]

\* What a step can append to an output pipe.
AppendMove ==
  \A p \in DataOut :
    \/ stream'[p] = stream[p]
    \/ \E x \in Item : /\ stream'[p] = Append(stream[p], x)
                       /\ x.kind = "screen" => x = Screen(screen[p])

LEMMA NextAppend == TypeOK /\ [Next]_vars => AppendMove
<1> SUFFICES ASSUME TypeOK, [Next]_vars PROVE AppendMove
  OBVIOUS
<1> USE PipeNames
<1>1. CASE UNCHANGED stream
  BY <1>1 DEF AppendMove
<1>2. /\ stream \in [OutPipes -> Seq(Item)] /\ "control" \notin DataOut
      /\ \A p \in DataOut : Screen(screen[p]) \in Item
  BY ItemTypes DEF TypeOK, QueueTypeOK, ScreenTypeOK, DataOut
<1>3. ASSUME NEW x \in Item, x.kind # "screen", stream' = Written("conout", x, stream)
      PROVE  AppendMove
  BY <1>2, <1>3 DEF Written, AppendMove
<1>4. ASSUME NEW x, stream' = Written("control", x, stream) PROVE AppendMove
  BY <1>2, <1>4 DEF Written, AppendMove
<1>5. ASSUME NEW redrawn, \A p \in DataOut : stream'[p] = ScrapedInto(stream, redrawn)[p]
      PROVE  AppendMove
  BY <1>2, <1>5 DEF ScrapedInto, AppendMove
<1>6. CASE HandleStartProcess \/ HandleGetConsoleProcessList
  BY <1>4, <1>6 DEF HandleStartProcess, HandleGetConsoleProcessList, ReplyWith
<1>7. CASE HandleSetSize
  <2>1. PICK redrawn \in {{}, DataOut} :
          stream' = Written("control", Reply("setSize"), ScrapedInto(stream, redrawn))
    BY <1>7 DEF HandleSetSize
  <2>2. \A p \in DataOut : stream'[p] = ScrapedInto(stream, redrawn)[p]
    BY <1>2, <2>1 DEF Written, ScrapedInto
  <2> QED
    BY <1>5, <2>2
<1>8. CASE HandleConin
  <2>1. Dsr \in Item /\ Dsr.kind # "screen"
    BY ItemTypes DEF Dsr
  <2> QED
    BY <1>1, <1>3, <1>8, <2>1 DEF HandleConin
<1>9. CASE PollScrape
  BY <1>1, <1>5, <1>9 DEF PollScrape
<1>10. CASE PollFinish
  <2>1. \A b : Mouse(b) \in Item /\ Mouse(b).kind # "screen"
    BY ItemTypes DEF Mouse
  <2> QED
    BY <1>1, <1>3, <1>10, <2>1 DEF PollFinish
<1>11. ASSUME NEW p \in Pipes, ServePipe(p) PROVE UNCHANGED stream
  BY <1>11
  DEF ServePipe, SkipPipe, EnterPipe, ReadPipe, CheckPending, IssueWrites, FinishConnect,
      ServiceRead, CompleteWrite, IssueWrite, FailWrite, pipeVars
<1>12. ASSUME \/ LoseControlPipe \/ EndPackets \/ \E p \in DataOut : HandleDataOut(p)
              \/ SkipPoll \/ PollCheck \/ Destroy
       PROVE  UNCHANGED stream
  BY <1>12 DEF LoseControlPipe, EndPackets, HandleDataOut, SkipPoll, PollCheck, Destroy,
      pipeVars
<1>13. ASSUME ClientNext PROVE UNCHANGED stream
  BY <1>13
  DEF ClientNext, Connect, CloseData, ReadData, Type, Call, TakeReply, LoseConnection,
      HangUp, PeerConnect, PeerClose, PeerRead, PeerReadEof
<1> QED
  BY <1>1, <1>6, <1>7, <1>8, <1>9, <1>10, <1>11, <1>12, <1>13
  DEF Next, AgentNext, OnPipeIo, OnPollTimeout, ConsoleNext, vars, pipeVars

LEMMA ItemsDrawnStep ==
  TypeOK /\ TypeOK' /\ ItemsDrawn /\ AppendMove /\ ScrapeMove => ItemsDrawn'
<1> SUFFICES ASSUME TypeOK, TypeOK', ItemsDrawn, AppendMove, ScrapeMove,
                    NEW p \in DataOut, NEW i \in 1..Len(stream'[p]),
                    stream'[p][i].kind = "screen"
             PROVE  stream'[p][i].n <= screen'[p]
  BY DEF ItemsDrawn
<1>1. /\ stream[p] \in Seq(Item) /\ screen[p] \in Nat /\ screen'[p] \in Nat
      /\ screen'[p] >= screen[p]
  BY PipeNames DEF TypeOK, QueueTypeOK, ScreenTypeOK, ScrapeMove
<1>2. ASSUME NEW k \in 1..Len(stream[p]), stream[p][k].kind = "screen"
      PROVE  stream[p][k].n <= screen'[p]
  <2>1. stream[p][k].n \in Nat
    <3>1. stream[p][k] \in Item
      BY <1>1
    <3> QED
      BY <3>1 DEF Item
  <2> QED
    BY <1>1, <1>2, <2>1 DEF ItemsDrawn
<1>3. CASE stream'[p] = stream[p]
  BY <1>2, <1>3
<1>4. ASSUME NEW x \in Item, stream'[p] = Append(stream[p], x),
             x.kind = "screen" => x = Screen(screen[p])
      PROVE  stream'[p][i].n <= screen'[p]
  <2>1. CASE i \in 1..Len(stream[p])
    BY <1>1, <1>2, <1>4, <2>1
  <2>2. CASE i \notin 1..Len(stream[p])
    <3>1. stream'[p][i] = x
      BY <1>1, <1>4, <2>2
    <3>2. x.n = screen[p]
      BY <1>4, <3>1 DEF Screen
    <3> QED
      BY <1>1, <3>1, <3>2
  <2> QED
    BY <2>1, <2>2
<1> QED
  BY <1>3, <1>4 DEF AppendMove

-----------------------------------------------------------------------------
(* Every step of Agent is one of TerminalSession's, or none                *)

Shown == [p \in DataOut |-> View(p)]
Ended == [p \in DataOut |-> peerEnd[p] = "eof"]

LEMMA ViewKnown ==
  ASSUME TypeOK, PipeBounds, ItemsDrawn, NEW p \in DataOut
  PROVE  /\ View(p) \in 0..screen[p]
         /\ \A i \in 1..got[p] : stream[p][i].kind = "screen" => stream[p][i].n <= View(p)
<1>1. /\ p \in OutPipes /\ stream[p] \in Seq(Item) /\ screen[p] \in Nat
      /\ got[p] \in Nat /\ wired[p] \in Nat
  BY PipeNames DEF TypeOK, QueueTypeOK, ScreenTypeOK, PipeTypeOK
<1>2. got[p] \in 0..Len(stream[p])
  BY <1>1 DEF PipeBounds
<1>3. \A i \in 1..got[p] : stream[p][i].kind = "screen" => stream[p][i].n <= screen[p]
  BY <1>1, <1>2 DEF ItemsDrawn
<1>4. /\ ViewOf(stream[p], got[p]) \in 0..screen[p]
      /\ \A i \in 1..got[p] :
           stream[p][i].kind = "screen" => stream[p][i].n <= ViewOf(stream[p], got[p])
  BY <1>1, <1>2, <1>3, ViewOfIs, Zenon
<1> QED
  BY <1>4, ViewIs

\* A terminal's view follows what is read of its pipe.
LEMMA ViewMove ==
  ASSUME TypeOK, TypeOK', PipeBounds, PipeBounds', ItemsDrawn', Extends(stream, stream'),
         NEW p \in DataOut, got[p] <= got'[p]
  PROVE  /\ View(p) <= View(p)' /\ View(p)' \in 0..screen'[p]
         /\ got[p] = got'[p] => View(p) = View(p)'
<1>1. /\ p \in OutPipes /\ stream[p] \in Seq(Item) /\ stream'[p] \in Seq(Item)
      /\ screen'[p] \in Nat /\ got[p] \in Nat /\ got'[p] \in Nat
      /\ wired[p] \in Nat /\ wired'[p] \in Nat
  BY PipeNames DEF TypeOK, QueueTypeOK, ScreenTypeOK, PipeTypeOK
<1>2. got[p] \in 0..Len(stream[p]) /\ got'[p] \in 0..Len(stream'[p])
  BY <1>1 DEF PipeBounds
<1>3. \A i \in 1..got'[p] : stream'[p][i].kind = "screen" => stream'[p][i].n <= screen'[p]
  BY <1>1, <1>2 DEF ItemsDrawn
<1>4. \A i \in 1..got[p] : i \in 1..got'[p] /\ stream'[p][i] = stream[p][i]
  BY <1>1, <1>2 DEF Extends
<1>5. \A i \in 1..got[p] : stream[p][i].kind = "screen" => stream[p][i].n <= screen'[p]
  BY <1>3, <1>4
<1> DEFINE old == ViewOf(stream[p], got[p])
           new == ViewOf(stream'[p], got'[p])
<1>6. /\ old \in 0..screen'[p]
      /\ \A i \in 1..got[p] : stream[p][i].kind = "screen" => stream[p][i].n <= old
      /\ old = 0 \/ \E i \in 1..got[p] : stream[p][i].kind = "screen" /\ stream[p][i].n = old
  BY <1>1, <1>2, <1>5, ViewOfIs, Zenon
<1>7. /\ new \in 0..screen'[p]
      /\ \A i \in 1..got'[p] : stream'[p][i].kind = "screen" => stream'[p][i].n <= new
      /\ new = 0 \/ \E i \in 1..got'[p] : stream'[p][i].kind = "screen" /\ stream'[p][i].n = new
  BY <1>1, <1>2, <1>3, ViewOfIs, Zenon
<1> HIDE DEF old, new
<1>8. old <= new
  <2>1. CASE old = 0
    BY <1>1, <1>7, <2>1
  <2>2. ASSUME NEW i \in 1..got[p], stream[p][i].kind = "screen", stream[p][i].n = old
        PROVE  old <= new
    BY <1>4, <1>7, <2>2
  <2> QED
    BY <1>6, <2>1, <2>2
<1>9. got[p] = got'[p] => new <= old
  BY <1>1, <1>4, <1>6, <1>7
<1>10. View(p) = old /\ View(p)' = new
  BY ViewIs DEF old, new
<1> QED
  BY <1>1, <1>6, <1>7, <1>8, <1>9, <1>10

\* What is known of the states before and after a step.
Known == /\ IInv /\ IInv' /\ ItemsDrawn /\ ItemsDrawn'
         /\ Extends(stream, stream') /\ ChildMove

LEMMA SameShown ==
  ASSUME Known, \A p \in DataOut : got'[p] = got[p]
  PROVE  Shown' = Shown
<1>1. \A p \in DataOut : got[p] \in Nat
  BY PipeNames DEF Known, IInv, TypeOK, PipeTypeOK
<1>2. \A p \in DataOut : View(p)' = View(p)
  BY <1>1, ViewMove DEF Known, IInv
<1> QED
  BY <1>2 DEF Shown

\* The client's terminals see nothing of the step.
LEMMA UnseenSimulated ==
  ASSUME Known, \A p \in DataOut : got'[p] = got[p], UNCHANGED <<Ended, HungUp, screen>>
  PROVE  [Session!Next]_(Session!vars)
<1>1. Shown' = Shown
  BY SameShown
<1>2. CASE UNCHANGED <<child, atExit>>
  BY <1>1, <1>2 DEF Shown, Ended, Session!vars
<1>3. CASE child = "running" /\ child' = "exited" /\ atExit' = screen
  BY <1>1, <1>3 DEF Shown, Ended, Session!Next, Session!Exit
<1>4. CASE child = "running" /\ child' = "killed" /\ UNCHANGED atExit
  <2>1. HungUp
    BY <1>4 DEF Known, IInv, KillsOnlyWhenHungUp
  <2> QED
    BY <1>1, <1>4, <2>1 DEF Shown, Ended, Session!Next, Session!Kill
<1>5. CASE HandleStartProcess /\ child' = "running" /\ UNCHANGED atExit
  <2>1. child = "none"
    BY <1>5, SpawnedOnce DEF Known, IInv
  <2> QED
    BY <1>1, <1>5, <2>1 DEF Shown, Ended, Session!Next, Session!Start
<1> QED
  BY <1>2, <1>3, <1>4, <1>5 DEF Known, ChildMove

LEMMA AgentSimulated == Known /\ AgentNext => [Session!Next]_(Session!vars)
<1> SUFFICES ASSUME Known, AgentNext PROVE UNCHANGED <<got, peerEnd, screen>>
  BY UnseenSimulated DEF Ended, HungUp
<1>1. ASSUME NEW p \in Pipes, ServePipe(p) PROVE UNCHANGED <<got, peerEnd, screen>>
  BY <1>1
  DEF ServePipe, SkipPipe, EnterPipe, ReadPipe, CheckPending, IssueWrites, FinishConnect,
      ServiceRead, CompleteWrite, IssueWrite, FailWrite, pipeVars, consoleVars
<1>2. CASE OnPipeIo
  BY <1>2
  DEF OnPipeIo, LoseControlPipe, EndPackets, HandleStartProcess, HandleSetSize,
      HandleGetConsoleProcessList, HandleConin, HandleDataOut, TakePacket, pipeVars,
      consoleVars
<1>3. CASE SkipPoll \/ OnPollTimeout \/ Destroy
  BY <1>3
  DEF SkipPoll, OnPollTimeout, PollCheck, PollScrape, PollFinish, Destroy, pipeVars,
      consoleVars
<1> QED
  BY <1>1, <1>2, <1>3 DEF AgentNext

LEMMA ConsoleSimulated == Known /\ ConsoleNext => [Session!Next]_(Session!vars)
<1> SUFFICES ASSUME Known, ConsoleNext PROVE [Session!Next]_(Session!vars)
  OBVIOUS
<1>1. UNCHANGED <<got, peerEnd>>
  BY DEF ConsoleNext, pipeVars
<1>2. CASE UNCHANGED screen
  BY <1>1, <1>2, UnseenSimulated DEF Ended, HungUp
<1>3. ASSUME NEW p \in DataOut, Draw(p) PROVE Session!Next
  <2>1. Shown' = Shown
    BY <1>1, SameShown
  <2> QED
    BY <1>1, <1>3, <2>1 DEF Draw, Shown, HungUp, Session!Next, Session!Draw
<1> QED
  BY <1>2, <1>3 DEF ConsoleNext, ChildExits, ToggleMouseInput

\* Reading output is showing it.
LEMMA ReadSimulated ==
  ASSUME Known, NEW p \in DataOut, PeerRead(p), UNCHANGED consoleVars
  PROVE  Session!Next
<1>1. got \in [OutPipes -> Nat] /\ wired \in [OutPipes -> Nat] /\ p \in OutPipes
  BY PipeNames DEF Known, IInv, TypeOK, PipeTypeOK
<1>2. /\ got[p] <= got'[p] /\ \A q \in DataOut \ {p} : got'[q] = got[q]
      /\ UNCHANGED <<peerEnd, screen, child, atExit>> /\ peerEnd[p] # "eof"
  BY <1>1 DEF PeerRead, consoleVars
<1>3. View(p) <= View(p)' /\ \A q \in DataOut \ {p} : View(q)' = View(q)
  <2>1. \A q \in DataOut : got[q] \in Nat
    BY <1>1, PipeNames
  <2> QED
    BY <1>2, <2>1, ViewMove DEF Known, IInv
<1>4. View(p) \in 0..screen[p] /\ View(p)' \in 0..screen[p]
  <2>1. View(p) \in 0..screen[p]
    BY ViewKnown DEF Known, IInv
  <2>2. View(p)' \in 0..screen'[p]
    BY <1>1, <1>2, PipeNames, ViewMove DEF Known, IInv
  <2> QED
    BY <1>2, <2>1, <2>2
<1>5. screen[p] \in Nat
  BY DEF Known, IInv, TypeOK, ScreenTypeOK
<1>6. View(p)' \in View(p)..screen[p]
  BY <1>3, <1>4, <1>5
<1>7. Shown' = [Shown EXCEPT ![p] = View(p)']
  BY <1>3 DEF Shown
<1>8. Session!Show(p)
  BY <1>2, <1>6, <1>7 DEF Session!Show, Shown, HungUp
<1> QED
  BY <1>8 DEF Session!Next

\* The end of the pipe is the end of the session.
LEMMA EofSimulated ==
  ASSUME Known, NEW p \in DataOut, PeerReadEof(p), UNCHANGED consoleVars
  PROVE  Session!Next
<1>1. p \in OutPipes /\ p # "control" /\ peerEnd \in [Pipes -> {"none", "open", "eof", "closed"}]
  BY PipeNames DEF Known, IInv, TypeOK, PipeTypeOK
<1>2. /\ UNCHANGED <<got, screen, child, atExit, HungUp>> /\ peerEnd[p] = "open"
      /\ got[p] = wired[p] /\ agentEnd[p] = "closed"
  BY <1>1 DEF PeerReadEof, consoleVars, HungUp
<1>3. Shown' = Shown
  BY <1>2, SameShown
<1>4. ASSUME ~HungUp PROVE child = "exited" /\ View(p) >= atExit[p]
  <2>1. closingOutputPipes /\ ShownWithin(p, got[p], atExit[p])
    BY <1>2, <1>4 DEF Known, IInv, ClosedFlushed
  <2>2. child = "exited"
    BY <2>1 DEF Known, IInv, ClosingScraped
  <2>3. View(p) \in Nat /\ atExit[p] \in Nat /\ screen[p] \in Nat
        /\ \A i \in 1..got[p] : stream[p][i].kind = "screen" => stream[p][i].n <= View(p)
    BY ViewKnown DEF Known, IInv, TypeOK, ScreenTypeOK
  <2>4. CASE atExit[p] = 0
    BY <2>2, <2>3, <2>4
  <2>5. ASSUME NEW i \in 1..got[p], stream[p][i].kind = "screen", stream[p][i].n >= atExit[p]
        PROVE  View(p) >= atExit[p]
    <3>1. i \in 1..Len(stream[p]) /\ stream[p] \in Seq(Item)
      BY <1>1 DEF Known, IInv, PipeBounds, TypeOK, PipeTypeOK, QueueTypeOK
    <3>2. stream[p][i] \in Item
      BY <3>1
    <3>3. stream[p][i].n \in Nat
      BY <3>2 DEF Item
    <3> QED
      BY <2>3, <2>5, <3>3
  <2> QED
    BY <2>1, <2>2, <2>4, <2>5 DEF ShownWithin
<1>5. Ended' = [Ended EXCEPT ![p] = TRUE] /\ ~Ended[p]
  BY <1>1, <1>2, PipeNames DEF Ended, PeerReadEof
<1>6. Session!End(p)
  BY <1>2, <1>3, <1>4, <1>5 DEF Session!End, Shown, Ended
<1> QED
  BY <1>6 DEF Session!Next

LEMMA ClientSimulated == Known /\ ClientNext => [Session!Next]_(Session!vars)
<1> SUFFICES ASSUME Known, ClientNext PROVE [Session!Next]_(Session!vars)
  OBVIOUS
<1>1. /\ UNCHANGED <<screen, child, atExit>> /\ UNCHANGED consoleVars
      /\ got \in [OutPipes -> Nat]
      /\ peerEnd \in [Pipes -> {"none", "open", "eof", "closed"}]
      /\ DataOut \subseteq OutPipes \ {"control"} /\ OutPipes \subseteq Pipes
      /\ ClientPipes \subseteq Pipes \ {"control"} /\ "control" \in Pipes
  BY PipeNames, AgentAssumption DEF ClientNext, consoleVars, Known, IInv, TypeOK, PipeTypeOK
<1>2. ASSUME NEW p \in ClientPipes, PeerConnect(p) \/ PeerClose(p)
      PROVE  UNCHANGED <<got, Ended, HungUp>>
  BY <1>1, <1>2 DEF PeerConnect, PeerClose, Ended, HungUp
<1>3. CASE \E p \in ClientPipes : Connect(p) \/ CloseData(p)
  BY <1>1, <1>2, <1>3, UnseenSimulated DEF Connect, CloseData
<1>4. CASE \E p \in ClientPipes \cap DataOut : ReadData(p)
  BY <1>1, <1>4, ReadSimulated, EofSimulated DEF ReadData
<1>5. CASE (\E k \in Inputs : Type(k)) \/ (\E r \in ClientRequests : Call(r))
  BY <1>1, <1>5, UnseenSimulated DEF Type, Call, Ended, HungUp
<1>6. CASE TakeReply
  BY <1>1, <1>6, UnseenSimulated DEF TakeReply, PeerRead, Ended, HungUp
<1>7. CASE LoseConnection
  BY <1>1, <1>7, UnseenSimulated DEF LoseConnection, PeerReadEof, Ended, HungUp
<1>8. CASE HangUp
  <2>1. UNCHANGED <<got, Ended>> /\ ~HungUp /\ HungUp'
    BY <1>1, <1>8 DEF HangUp, PeerClose, Ended, HungUp
  <2>2. Shown' = Shown
    BY <2>1, SameShown
  <2>3. Session!HangUp
    BY <1>1, <2>1, <2>2 DEF Session!HangUp, Shown, Ended
  <2> QED
    BY <2>3 DEF Session!Next
<1> QED
  BY <1>3, <1>4, <1>5, <1>6, <1>7, <1>8 DEF ClientNext

LEMMA InitDrawn == Init => ItemsDrawn
BY PipeNames DEF Init, ItemsDrawn, DataOut

LEMMA NextDrawn == IInv /\ ItemsDrawn /\ [Next]_vars => ItemsDrawn'
<1>1. IInv /\ [Next]_vars => TypeOK /\ TypeOK'
  BY NextInvariant DEF IInv
<1> QED
  BY <1>1, NextAppend, NextScrape, ItemsDrawnStep

LEMMA InitSimulated == Init => Session!Init
<1> SUFFICES ASSUME Init PROVE Session!Init
  OBVIOUS
<1>1. \A p \in DataOut : got[p] = 0 /\ peerEnd[p] = "none"
  BY PipeNames, AgentAssumption DEF Init, DataOut
<1>2. \A p \in DataOut : View(p) = 0
  BY <1>1 DEF View
<1> QED
  BY <1>1, <1>2, PipeNames DEF Init, Session!Init, HungUp

LEMMA NextSimulated ==
  IInv /\ ItemsDrawn /\ [Next]_vars => [Session!Next]_(Session!vars)
<1> SUFFICES ASSUME IInv, ItemsDrawn, [Next]_vars PROVE [Session!Next]_(Session!vars)
  OBVIOUS
<1>1. Known
  BY NextInvariant, NextDrawn, NextChild, StreamGrows DEF Known, IInv
<1>2. CASE UNCHANGED vars
  <2>1. UNCHANGED <<got, peerEnd, screen>>
    BY <1>2 DEF vars, pipeVars, consoleVars
  <2> QED
    BY <1>1, <2>1, UnseenSimulated DEF Ended, HungUp
<1> QED
  BY <1>1, <1>2, AgentSimulated, ConsoleSimulated, ClientSimulated DEF Next

\* No terminal is given what has not been drawn.
THEOREM NoneAhead == Spec => [](IInv /\ ItemsDrawn)
<1>1. Init => IInv /\ ItemsDrawn
  BY InitInvariant, InitDrawn
<1>2. (IInv /\ ItemsDrawn) /\ [Next]_vars => (IInv /\ ItemsDrawn)'
  BY NextInvariant, NextDrawn
<1> QED
  BY <1>1, <1>2, PTL DEF Spec

\* The agent, with its pipes, its polls and its shutdown, implements the
\* terminal session a client is promised: a terminal follows its screen and
\* comes to its end with everything there was when the child exited, and only
\* a client that hung up has its child killed.
THEOREM SessionIsKept == Spec => ImplementsSession
<1>1. Spec => Session!Init /\ [][Session!Next]_(Session!vars)
  BY InitSimulated, NextSimulated, NoneAhead, PTL DEF Spec
<1> QED
  BY <1>1 DEF ImplementsSession, Session!Spec

=============================================================================
