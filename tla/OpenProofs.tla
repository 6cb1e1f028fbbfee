------------------------------ MODULE OpenProofs ------------------------------
(***************************************************************************)
(* Proofs about Open, for any number of threads, any environments and any  *)
(* number of agents that crash or hang.                                    *)
(***************************************************************************)
EXTENDS Open, TLAPS

Call == [pc : Busy \cup {"new", "open", "failed", "closed"}, role : Roles,
         desk : {"none", "direct", "agent"}, named : BOOLEAN,
         spawnDesktop : Stations \cup {"none"}, error : Errors]
Agents == Dead \cup {"none", "starting", "ready", "connected", "stuck", "stuckWithDesktop"}
Pipes == {"none", "listening", "connected", "closed"}
Winpty == [pipe : Pipes, told : BOOLEAN, background : BOOLEAN, agent : Agents]

Typed == /\ env \in Environments /\ station \in Stations /\ mishaps \in 0..MaxMishaps
         /\ opener \in [Openers -> Call] /\ session \in [Sessions -> Winpty]

LEMMA TypeParts == (TypeOK <=> Typed) /\ (TypeOK' <=> Typed')
BY DEF TypeOK, Typed, Call, Winpty, Pipes, Agents

LEMMA InitType == Init => TypeOK
<1> SUFFICES ASSUME Init PROVE TypeOK
  OBVIOUS
<1>1. NoOpen \in Call
  BY DEF NoOpen, Call, Roles, Stations, Errors
<1>2. NoSession \in Winpty
  BY DEF NoSession, Winpty, Pipes, Agents
<1>3. "interactive" \in Stations /\ 0 \in 0..MaxMishaps
  BY OpenAssumption DEF Stations
<1> QED
  BY <1>1, <1>2, <1>3, TypeParts DEF Init, Typed

LEMMA PlanType ==
  ASSUME NEW curproc \in BOOLEAN
  PROVE DesktopPlan(curproc) \in {"none", "direct", "agent"}
BY Zenon DEF DesktopPlan

\* What Fail does keeps the types.
LEMMA FailType ==
  ASSUME Typed, NEW o \in Openers, NEW code \in Errors, Fail(o, code),
         UNCHANGED <<env, mishaps>>
  PROVE Typed'
<1>1. opener' \in [Openers -> Call]
  BY DEF Fail, Call, Typed
<1>2. \A w \in Winpty : Deleted(w) \in Winpty
  BY DEF Deleted, Winpty, Pipes
<1>3. session' \in [Sessions -> Winpty]
  BY <1>2 DEF Fail, Typed
<1>4. station' \in Stations
  BY DEF Fail, Disposed, Stations, Typed
<1> QED
  BY <1>1, <1>3, <1>4 DEF Typed

LEMMA NextType == Typed /\ [Next]_vars => Typed'
<1> SUFFICES ASSUME Typed, [Next]_vars PROVE Typed'
  OBVIOUS
<1> USE DEF Typed
<1>0. \A w \in Winpty : Deleted(w) \in Winpty
  BY DEF Deleted, Winpty, Pipes
<1>1. ASSUME NEW o \in Openers, Open(o) PROVE Typed'
  <2>1. PICK curproc \in BOOLEAN, plan \in {"none", "direct", "agent"} :
        opener' = [opener EXCEPT ![o] = [@ EXCEPT
               !.pc = IF plan = "direct" THEN "station" ELSE "create", !.desk = plan,
               !.role = IF plan = "agent" THEN "desktop" ELSE "primary"]]
    BY <1>1, PlanType DEF Open
  <2> DEFINE next == IF plan = "direct" THEN "station" ELSE "create"
             role == IF plan = "agent" THEN "desktop" ELSE "primary"
  <2>2. next \in Busy /\ role \in Roles
    BY DEF Busy, Roles
  <2>3. opener' \in [Openers -> Call]
    <3> HIDE DEF next, role
    <3>1. opener' = [opener EXCEPT ![o] = [@ EXCEPT !.pc = next, !.desk = plan, !.role = role]]
      BY <2>1 DEF next, role
    <3> QED
      BY <2>2, <3>1 DEF Call
  <2> QED
    BY <1>1, <2>3 DEF Open
<1>2. ASSUME NEW o \in Openers, OpenStep(o) PROVE Typed'
  <2>0. opener[o] \in Call /\ opener[o].role \in Roles /\ <<o, opener[o].role>> \in Sessions
        /\ <<o, "desktop">> \in Sessions
    BY DEF Call, Sessions, Roles
  <2>1. CASE EnterStation(o)
    <3>1. opener' \in [Openers -> Call]
      <4>1. CASE opener' = [opener EXCEPT ![o].pc = "makeDesktop"]
        BY <4>1 DEF Call, Busy
      <4>2. CASE DoWithout(o)
        BY <4>2 DEF DoWithout, Call, Busy
      <4> QED
        BY <2>1, <4>1, <4>2 DEF EnterStation
    <3>2. station' \in Stations
      BY <2>1 DEF EnterStation, DoWithout, Stations
    <3> QED
      BY <2>1, <3>1, <3>2 DEF EnterStation
  <2>2. CASE MakeDesktop(o)
    <3>1. opener' \in [Openers -> Call]
      <4>1. CASE opener' = [opener EXCEPT ![o] = [@ EXCEPT !.pc = "create", !.named = TRUE]]
        BY <4>1 DEF Call, Busy
      <4>2. CASE DoWithout(o)
        BY <4>2 DEF DoWithout, Call, Busy
      <4> QED
        BY <2>2, <4>1, <4>2 DEF MakeDesktop
    <3>2. station' \in Stations
      BY <2>2 DEF MakeDesktop, DoWithout, Stations
    <3> QED
      BY <2>2, <3>1, <3>2 DEF MakeDesktop
  <2>3. CASE CreatePipe(o)
    <3>1. CASE Fail(o, "unspecified")
      BY <2>3, <3>1, FailType DEF CreatePipe, Errors
    <3>2. CASE /\ Goto(o, "start") /\ UNCHANGED station
                /\ session' = [session EXCEPT ![<<o, opener[o].role>>].pipe = "listening"]
      <4>1. opener' \in [Openers -> Call]
        BY <3>2 DEF Goto, Call, Busy
      <4>2. session' \in [Sessions -> Winpty]
        BY <2>0, <3>2 DEF Winpty, Pipes
      <4> QED
        BY <2>3, <3>2, <4>1, <4>2 DEF CreatePipe
    <3> QED
      BY <2>3, <3>1, <3>2 DEF CreatePipe
  <2>4. CASE StartAgentProcess(o)
    <3>1. CASE \E code \in {"missing", "creation"} : Fail(o, code)
      BY <2>4, <3>1, FailType DEF StartAgentProcess, Errors
    <3>2. CASE ~\E code \in {"missing", "creation"} : Fail(o, code)
      <4> DEFINE b == opener[o].role = "primary" /\ opener[o].named
      <4>1. session' = [session EXCEPT ![<<o, opener[o].role>>] = [@ EXCEPT
                          !.agent = "starting", !.background = b]] /\ Goto(o, "connect")
            /\ UNCHANGED <<env, station, mishaps>>
        BY <2>4, <3>2 DEF StartAgentProcess
      <4>2. b \in BOOLEAN
        OBVIOUS
      <4> HIDE DEF b
      <4>3. opener' \in [Openers -> Call]
        BY <4>1 DEF Goto, Call, Busy
      <4>4. session' \in [Sessions -> Winpty]
        BY <2>0, <4>1, <4>2 DEF Winpty, Agents
      <4> QED
        BY <4>1, <4>3, <4>4
    <3> QED
      BY <3>1, <3>2
  <2>5. CASE VerifyClient(o)
    BY <2>5, FailType DEF VerifyClient, Goto, Call, Busy, Errors
  <2>6. CASE Connect(o)
    BY <2>6, FailType DEF Connect, Goto, Call, Busy, Errors
  <2>7. CASE FindDead(o)
    BY <2>7, FailType DEF FindDead, Errors
  <2>8. CASE Timeout(o)
    BY <2>8, FailType DEF Timeout, Errors
  <2>9. CASE ReadNames(o)
    <3>1. CASE Goto(o, "open")
      BY <2>9, <3>1 DEF ReadNames, Goto, Call
    <3>2. CASE opener' = [opener EXCEPT ![o] = [@ EXCEPT !.pc = "create", !.role = "primary", !.named = TRUE]]
      <4>1. opener' \in [Openers -> Call]
        BY <3>2 DEF Call, Busy, Roles
      <4> QED
        BY <2>9, <4>1 DEF ReadNames
    <3> QED
      BY <2>9, <3>1, <3>2 DEF ReadNames
  <2>10. CASE ResetDesktop(o)
    BY <1>0, <2>0, <2>10 DEF ResetDesktop, Disposed, Call, Busy, Stations
  <2>11. CASE SpawnName(o)
    <3>1. CASE Fail(o, "unspecified")
      BY <2>11, <3>1, FailType DEF SpawnName, Errors
    <3>2. CASE ~Fail(o, "unspecified")
      <4> DEFINE d == IF opener[o].named THEN station ELSE "none"
      <4>1. opener' = [opener EXCEPT ![o] = [@ EXCEPT !.pc = "read", !.spawnDesktop = d]]
            /\ UNCHANGED <<env, station, session, mishaps>>
        BY <2>11, <3>2 DEF SpawnName
      <4>2. d \in Stations \cup {"none"}
        OBVIOUS
      <4> HIDE DEF d
      <4> QED
        BY <4>1, <4>2 DEF Call, Busy
    <3> QED
      BY <3>1, <3>2
  <2> QED
    BY <1>2, <2>1, <2>2, <2>3, <2>4, <2>5, <2>6, <2>7, <2>8, <2>9, <2>10, <2>11 DEF OpenStep
<1>3. ASSUME NEW o \in Openers, Free(o) PROVE Typed'
  <2>1. <<o, "primary">> \in Sessions
    BY DEF Sessions, Roles
  <2> QED
    BY <1>0, <1>3, <2>1 DEF Free, Goto, Call
<1>4. ASSUME NEW s \in Sessions, AgentStep(s) PROVE Typed'
  <2>1. CASE StartAgent(s)
    BY <2>1 DEF StartAgent, Becomes, Winpty, Agents, Dead
  <2>2. CASE ConnectAgent(s)
    <3>1. session' \in [Sessions -> Winpty]
      <4>1. CASE session' = [session EXCEPT ![s] = [@ EXCEPT !.agent = "connected", !.pipe = "connected"]]
        BY <4>1 DEF Winpty, Agents, Pipes
      <4>2. CASE Becomes(s, "gone")
        BY <4>2 DEF Becomes, Winpty, Agents, Dead
      <4> QED
        BY <2>2, <4>1, <4>2 DEF ConnectAgent
    <3> QED
      BY <2>2, <3>1 DEF ConnectAgent
  <2>3. CASE Tell(s)
    BY <2>3 DEF Tell, Winpty
  <2>4. CASE LeaveAgent(s)
    BY <2>4 DEF LeaveAgent, Becomes, Winpty, Agents, Dead
  <2> QED
    BY <1>4, <2>1, <2>2, <2>3, <2>4 DEF AgentStep
<1>5. ASSUME NEW s \in Sessions, Mishap(s) PROVE Typed'
  <2>1. mishaps' \in 0..MaxMishaps
    BY <1>5, OpenAssumption DEF Mishap
  <2> QED
    BY <1>5, <2>1 DEF Mishap, Becomes, Winpty, Agents, Dead
<1>6. CASE UNCHANGED vars
  BY <1>6 DEF vars
<1> QED
  BY <1>1, <1>2, <1>3, <1>4, <1>5, <1>6 DEF Next

-----------------------------------------------------------------------------
(* The invariant                                                           *)

Desktop(o) == session[<<o, "desktop">>]
Primary(o) == session[<<o, "primary">>]

\* The desktop agent comes before the primary one, and each pipe before its agent.
Untouched(o) ==
  /\ opener[o].pc = "new" => opener[o].desk = "none"
  /\ opener[o].pc \in {"new", "station", "makeDesktop"} => Desktop(o) = NoSession
  /\ opener[o].pc \in {"new", "station", "makeDesktop", "create"} \/ opener[o].role = "desktop"
       => Primary(o) = NoSession
  /\ opener[o].pc = "create" /\ opener[o].role = "desktop" => Desktop(o) = NoSession
  /\ opener[o].pc = "start" /\ opener[o].role = "primary"
       => Primary(o).pipe = "listening" /\ Primary(o).agent = "none"
  /\ opener[o].pc = "start" /\ opener[o].role = "desktop"
       => Desktop(o).pipe = "listening" /\ Desktop(o).agent = "none"

\* Whose desktop it is, and when it has a name.
Stages(o) ==
  /\ opener[o].pc \in {"station", "makeDesktop"}
       => opener[o].desk = "direct" /\ opener[o].role = "primary"
  /\ opener[o].pc \in {"new", "station", "makeDesktop"} \/ opener[o].role = "desktop"
       => ~opener[o].named
  /\ opener[o].pc = "makeDesktop" => station = o
  /\ opener[o].pc \in {"reset", "spawnName", "open", "closed"} => opener[o].role = "primary"
  /\ opener[o].role = "desktop" /\ opener[o].pc \in {"verify", "read"}
       => Desktop(o).pipe = "connected"

\* From desktop.reset() on nothing of the desktop is held, and after an error or
\* winpty_free nothing at all.
LetGo(o) ==
  /\ \/ opener[o].pc \in {"spawnName", "open", "failed", "closed"}
     \/ opener[o].pc = "read" /\ opener[o].role = "primary"
     => opener[o].desk = "none" /\ Desktop(o).pipe \in {"none", "closed"}
  /\ opener[o].pc \in {"failed", "closed"} => Primary(o).pipe \in {"none", "closed"}

\* Until then there is a desktop to the name, or its agent has crashed.
DesktopKept(o) ==
  /\ opener[o].named /\ opener[o].pc \in {"create", "start", "connect", "verify", "reset"}
       => \/ opener[o].desk = "direct" /\ station = o
          \/ Desktop(o).pipe = "connected"
  /\ Desktop(o).pipe = "connected"
       => Desktop(o).agent \in {"connected", "crashed", "stuckWithDesktop"}

\* An agent connects when it has come up, and not before its open waits for it.
ComingUp(o) ==
  /\ Primary(o).pipe = "connected" => Primary(o).agent \notin {"none", "starting", "ready"}
  /\ Primary(o).agent = "starting" =>
       opener[o].pc = "failed" \/ (opener[o].pc = "connect" /\ opener[o].role = "primary")

\* The primary agent is on the desktop that has a name, and its child goes to the
\* caller's.
Names(o) ==
  /\ /\ opener[o].role = "primary"
     /\ opener[o].pc \in {"connect", "verify", "reset", "spawnName", "read", "open"}
     => (Primary(o).background <=> opener[o].named)
  /\ opener[o].role = "primary" /\ opener[o].pc \in {"read", "open"}
       => opener[o].spawnDesktop = (IF opener[o].named THEN "interactive" ELSE "none")

\* DesktopThere of one open.
There(o) ==
  Primary(o).agent = "lost" => opener[o].pc = "failed" \/ Desktop(o).agent = "crashed"

Good(o) ==
  Untouched(o) /\ Stages(o) /\ LetGo(o) /\ DesktopKept(o) /\ ComingUp(o) /\ Names(o) /\ There(o)

\* An open that changes the process's window station is alone.
DirectAlone ==
  \A o, p \in Openers :
    opener[o].pc \in Busy /\ opener[o].desk = "direct" /\ p # o => opener[p].pc \notin Busy

\* Only such an open has changed it.
StationHeld ==
  station # "interactive" => opener[station].pc \in Busy /\ opener[station].desk = "direct"

IInv == Typed /\ (\A o \in Openers : Good(o)) /\ DirectAlone /\ StationHeld

LEMMA InitInv == Init => IInv
<1> SUFFICES ASSUME Init PROVE IInv
  OBVIOUS
<1>1. Typed
  BY InitType, TypeParts
<1>2. ASSUME NEW o \in Openers PROVE Good(o)
  <2>1. opener[o] = NoOpen /\ Desktop(o) = NoSession /\ Primary(o) = NoSession
    BY DEF Init, Desktop, Primary, Sessions, Roles
  <2> QED
    BY <2>1 DEF Good, Untouched, Stages, LetGo, DesktopKept, ComingUp, Names, There,
                NoOpen, NoSession
<1>3. DirectAlone /\ StationHeld
  BY DEF Init, DirectAlone, StationHeld, NoOpen, Busy
<1> QED
  BY <1>1, <1>2, <1>3 DEF IInv

-----------------------------------------------------------------------------
(* What a step does to the opens that do not make it                       *)

Others(o) ==
  \A p \in Openers \ {o} :
    /\ opener'[p] = opener[p] /\ Desktop(p)' = Desktop(p) /\ Primary(p)' = Primary(p)
    /\ station = p => station' = p

StationMove(o) ==
  /\ station' \in {station, o, "interactive"}
  /\ station' = o => opener'[o].pc \in Busy /\ opener'[o].desk = "direct"

\* A step that begins no open.
Within(o) ==
  /\ opener'[o].pc \in Busy => opener[o].pc \in Busy
  /\ opener'[o].desk = "direct" => opener[o].desk = "direct"

LEMMA OthersKeep ==
  ASSUME NEW o \in Openers, NEW p \in Openers \ {o}, Others(o), Good(p)
  PROVE Good(p)'
<1>1. /\ opener'[p] = opener[p] /\ Desktop(p)' = Desktop(p) /\ Primary(p)' = Primary(p)
      /\ station = p => station' = p
  BY DEF Others
<1>2. Untouched(p)'
  BY <1>1 DEF Good, Untouched
<1>3. Stages(p)'
  BY <1>1 DEF Good, Stages
<1>4. LetGo(p)'
  BY <1>1 DEF Good, LetGo
<1>5. DesktopKept(p)'
  BY <1>1 DEF Good, DesktopKept
<1>6. ComingUp(p)'
  BY <1>1 DEF Good, ComingUp
<1>7. Names(p)'
  BY <1>1 DEF Good, Names
<1>8. There(p)'
  BY <1>1 DEF Good, There
<1> QED
  BY <1>2, <1>3, <1>4, <1>5, <1>6, <1>7, <1>8 DEF Good

LEMMA StationKept ==
  ASSUME IInv, NEW o \in Openers, StationMove(o), Others(o)
  PROVE StationHeld'
<1> SUFFICES ASSUME station' # "interactive"
             PROVE opener'[station'].pc \in Busy /\ opener'[station'].desk = "direct"
  BY DEF StationHeld
<1>1. CASE station' = o
  BY <1>1 DEF StationMove
<1>2. CASE station' # o
  <2>1. station' = station /\ station \in Openers \ {o}
    BY <1>2 DEF StationMove, IInv, Typed, Stations
  <2> QED
    BY <2>1 DEF Others, IInv, StationHeld
<1> QED
  BY <1>1, <1>2

LEMMA WithinKeeps ==
  ASSUME IInv, NEW o \in Openers, Others(o), StationMove(o), Within(o), Good(o)', Typed'
  PROVE IInv'
<1>1. \A p \in Openers : Good(p)'
  BY OthersKeep DEF IInv
<1>2. DirectAlone'
  BY DEF IInv, DirectAlone, Others, Within
<1> QED
  BY <1>1, <1>2, StationKept DEF IInv

-----------------------------------------------------------------------------
(* The steps of an open                                                    *)

LEMMA Indices ==
  ASSUME NEW o \in Openers
  PROVE <<o, "desktop">> \in Sessions /\ <<o, "primary">> \in Sessions
BY DEF Sessions, Roles

LEMMA DeletedPipe ==
  ASSUME NEW w \in Winpty
  PROVE /\ Deleted(w).pipe \in {"none", "closed"}
        /\ Deleted(w).agent = w.agent
        /\ w = NoSession => Deleted(w) = NoSession
<1>1. Deleted(w).pipe \in {"none", "closed"} /\ Deleted(w).agent = w.agent
  BY DEF Deleted, Winpty, Pipes
<1>2. ASSUME w = NoSession PROVE Deleted(w) = NoSession
  BY <1>2 DEF Deleted, NoSession
<1> QED
  BY <1>1, <1>2

LEMMA OtherSessions ==
  ASSUME NEW o \in Openers, NEW r \in Roles, NEW w, NEW p \in Openers \ {o}, Typed,
         session' = [session EXCEPT ![<<o, r>>] = w]
  PROVE Desktop(p)' = Desktop(p) /\ Primary(p)' = Primary(p)
BY Indices DEF Desktop, Primary, Typed

LEMMA FailKeeps ==
  ASSUME IInv, NEW o \in Openers, NEW code \in Errors, Fail(o, code), opener[o].pc \in Busy,
         UNCHANGED <<env, mishaps>>
  PROVE IInv'
<1> USE DEF IInv
<1>1. Typed'
  BY FailType
<1>2. /\ opener'[o].pc = "failed" /\ opener'[o].desk = "none"
      /\ opener'[o].role = opener[o].role /\ opener'[o].named = opener[o].named
      /\ \A p \in Openers \ {o} : opener'[p] = opener[p]
  BY DEF Fail, Typed, Call
<1>3. /\ Desktop(o)' = Deleted(Desktop(o)) /\ Primary(o)' = Deleted(Primary(o))
      /\ \A p \in Openers \ {o} : Desktop(p)' = Desktop(p) /\ Primary(p)' = Primary(p)
  BY Indices DEF Fail, Desktop, Primary
<1>4. Desktop(o) \in Winpty /\ Primary(o) \in Winpty
  BY Indices DEF Typed, Desktop, Primary
<1>5. /\ Desktop(o)'.pipe \in {"none", "closed"} /\ Primary(o)'.pipe \in {"none", "closed"}
      /\ Primary(o) = NoSession => Primary(o)' = NoSession
  BY <1>3, <1>4, DeletedPipe
<1>6. Others(o) /\ StationMove(o) /\ Within(o)
  <2>1. station' = IF station = o THEN "interactive" ELSE station
    BY DEF Fail, Disposed
  <2> QED
    BY <1>2, <1>3, <2>1, OpenAssumption DEF Others, StationMove, Within, Busy
<1>7. Good(o)'
  <2>1. Untouched(o)'
    BY <1>2, <1>5 DEF Good, Untouched
  <2>2. Stages(o)'
    BY <1>2 DEF Good, Stages
  <2>3. LetGo(o)' /\ DesktopKept(o)' /\ ComingUp(o)' /\ Names(o)' /\ There(o)'
    BY <1>2, <1>5 DEF LetGo, DesktopKept, ComingUp, Names, There
  <2> QED
    BY <2>1, <2>2, <2>3 DEF Good
<1> QED
  BY <1>1, <1>6, <1>7, WithinKeeps

\* A step that only goes on to another place.
LEMMA GotoOthers ==
  ASSUME Typed, NEW o \in Openers, NEW pc, Goto(o, pc), UNCHANGED <<station, session>>,
         opener[o].pc \in Busy \/ pc \notin Busy, station = o => pc \in Busy /\ opener[o].desk = "direct"
  PROVE /\ Others(o) /\ StationMove(o) /\ Within(o)
        /\ opener'[o].pc = pc /\ opener'[o].role = opener[o].role /\ opener'[o].desk = opener[o].desk
        /\ opener'[o].named = opener[o].named /\ opener'[o].spawnDesktop = opener[o].spawnDesktop
        /\ Desktop(o)' = Desktop(o) /\ Primary(o)' = Primary(o)
<1>1. /\ opener'[o].pc = pc /\ opener'[o].role = opener[o].role /\ opener'[o].desk = opener[o].desk
      /\ opener'[o].named = opener[o].named /\ opener'[o].spawnDesktop = opener[o].spawnDesktop
      /\ \A p \in Openers \ {o} : opener'[p] = opener[p]
  BY DEF Goto, Typed, Call
<1>2. Desktop(o)' = Desktop(o) /\ Primary(o)' = Primary(o)
  BY DEF Desktop, Primary
<1>3. \A p \in Openers : Desktop(p)' = Desktop(p) /\ Primary(p)' = Primary(p)
  BY DEF Desktop, Primary
<1> QED
  BY <1>1, <1>2, <1>3 DEF Others, StationMove, Within

\* A step that changes one session.
LEMMA OneSession ==
  ASSUME Typed, NEW o \in Openers, NEW r \in Roles, NEW w,
         session' = [session EXCEPT ![<<o, r>>] = w]
  PROVE /\ r = "desktop" => Desktop(o)' = w /\ Primary(o)' = Primary(o)
        /\ r = "primary" => Primary(o)' = w /\ Desktop(o)' = Desktop(o)
        /\ \A p \in Openers \ {o} : Desktop(p)' = Desktop(p) /\ Primary(p)' = Primary(p)
<1>1. \A p \in Openers \ {o} : Desktop(p)' = Desktop(p) /\ Primary(p)' = Primary(p)
  BY OtherSessions
<1>2. <<o, "desktop">> \in Sessions /\ <<o, "primary">> \in Sessions
  BY Indices
<1> QED
  BY <1>1, <1>2 DEF Desktop, Primary, Typed

\* An open on the process's own station has no other beside it.
LEMMA Alone ==
  ASSUME IInv, NEW o \in Openers, opener[o].pc \in Busy, opener[o].desk = "direct"
  PROVE station \in {o, "interactive"}
BY DEF IInv, StationHeld, DirectAlone, Typed, Stations

LEMMA DoWithoutKeeps ==
  ASSUME IInv, NEW o \in Openers, DoWithout(o), opener[o].pc \in {"station", "makeDesktop"},
         UNCHANGED session, Typed'
  PROVE IInv'
<1>1. /\ opener'[o].pc = "create" /\ opener'[o].desk = "none"
      /\ opener'[o].role = opener[o].role /\ opener'[o].named = opener[o].named
      /\ \A p \in Openers \ {o} : opener'[p] = opener[p]
  BY DEF DoWithout, IInv, Typed, Call
<1>2. \A p \in Openers : Desktop(p)' = Desktop(p) /\ Primary(p)' = Primary(p)
  BY DEF Desktop, Primary
<1>3. Good(o)
  BY DEF IInv
<1>4. station \in {o, "interactive"}
  BY <1>3, Alone DEF Good, Stages, Busy
<1>5. Others(o) /\ StationMove(o) /\ Within(o)
  BY <1>1, <1>2, <1>4, OpenAssumption DEF DoWithout, Others, StationMove, Within, Busy
<1>6. Desktop(o)' = NoSession /\ Primary(o)' = NoSession
  BY <1>2, <1>3 DEF Good, Untouched
<1>7. opener[o].role = "primary" /\ ~opener[o].named
  BY <1>3 DEF Good, Stages
<1>8. Good(o)'
  BY <1>1, <1>6, <1>7
     DEF Good, Untouched, Stages, LetGo, DesktopKept, ComingUp, Names, There, NoSession
<1> QED
  BY <1>5, <1>8, WithinKeeps

LEMMA EnterStationKeeps ==
  ASSUME IInv, NEW o \in Openers, EnterStation(o), Typed'
  PROVE IInv'
<1>1. CASE DoWithout(o)
  BY <1>1, DoWithoutKeeps DEF EnterStation
<1>2. CASE station' = o /\ opener' = [opener EXCEPT ![o].pc = "makeDesktop"]
  <2>1. /\ opener'[o].pc = "makeDesktop" /\ opener'[o].desk = opener[o].desk
        /\ opener'[o].role = opener[o].role /\ opener'[o].named = opener[o].named
        /\ \A p \in Openers \ {o} : opener'[p] = opener[p]
    BY <1>2 DEF IInv, Typed, Call
  <2>2. \A p \in Openers : Desktop(p)' = Desktop(p) /\ Primary(p)' = Primary(p)
    BY DEF EnterStation, Desktop, Primary
  <2>3. Good(o) /\ opener[o].pc = "station"
    BY DEF IInv, EnterStation
  <2>4. opener[o].desk = "direct" /\ opener[o].role = "primary" /\ ~opener[o].named
    BY <2>3 DEF Good, Stages
  <2>5. station \in {o, "interactive"}
    BY <2>3, <2>4, Alone DEF Busy
  <2>6. Others(o) /\ StationMove(o) /\ Within(o)
    BY <1>2, <2>1, <2>2, <2>3, <2>4, <2>5, OpenAssumption DEF Others, StationMove, Within, Busy
  <2>7. Desktop(o)' = NoSession /\ Primary(o)' = NoSession
    BY <2>2, <2>3 DEF Good, Untouched
  <2>8. Good(o)'
    BY <1>2, <2>1, <2>4, <2>7
       DEF Good, Untouched, Stages, LetGo, DesktopKept, ComingUp, Names, There, NoSession
  <2> QED
    BY <2>6, <2>8, WithinKeeps
<1> QED
  BY <1>1, <1>2 DEF EnterStation

LEMMA MakeDesktopKeeps ==
  ASSUME IInv, NEW o \in Openers, MakeDesktop(o), Typed'
  PROVE IInv'
<1>1. CASE DoWithout(o)
  BY <1>1, DoWithoutKeeps DEF MakeDesktop
<1>2. CASE opener' = [opener EXCEPT ![o] = [@ EXCEPT !.pc = "create", !.named = TRUE]]
           /\ UNCHANGED station
  <2>1. /\ opener'[o].pc = "create" /\ opener'[o].desk = opener[o].desk
        /\ opener'[o].role = opener[o].role
        /\ \A p \in Openers \ {o} : opener'[p] = opener[p]
    BY <1>2 DEF IInv, Typed, Call
  <2>2. \A p \in Openers : Desktop(p)' = Desktop(p) /\ Primary(p)' = Primary(p)
    BY DEF MakeDesktop, Desktop, Primary
  <2>3. Good(o) /\ opener[o].pc = "makeDesktop"
    BY DEF IInv, MakeDesktop
  <2>4. opener[o].desk = "direct" /\ opener[o].role = "primary" /\ station = o
    BY <2>3 DEF Good, Stages
  <2>5. Others(o) /\ StationMove(o) /\ Within(o)
    BY <1>2, <2>1, <2>2, <2>3, <2>4 DEF Others, StationMove, Within, Busy
  <2>6. Desktop(o)' = NoSession /\ Primary(o)' = NoSession
    BY <2>2, <2>3 DEF Good, Untouched
  <2>7. Good(o)'
    BY <1>2, <2>1, <2>4, <2>6
       DEF Good, Untouched, Stages, LetGo, DesktopKept, ComingUp, Names, There, NoSession
  <2> QED
    BY <2>5, <2>7, WithinKeeps
<1> QED
  BY <1>1, <1>2 DEF MakeDesktop

LEMMA CreatePipeKeeps ==
  ASSUME IInv, NEW o \in Openers, CreatePipe(o), Typed'
  PROVE IInv'
<1>0. opener[o].pc = "create" /\ opener[o].pc \in Busy /\ Good(o) /\ Typed
  BY DEF CreatePipe, Busy, IInv
<1>1. CASE Fail(o, "unspecified")
  BY <1>0, <1>1, FailKeeps DEF CreatePipe, Errors
<1>2. CASE /\ session' = [session EXCEPT ![<<o, opener[o].role>>].pipe = "listening"]
           /\ Goto(o, "start") /\ UNCHANGED station
  <2>1. /\ opener'[o].pc = "start" /\ opener'[o].desk = opener[o].desk
        /\ opener'[o].role = opener[o].role /\ opener'[o].named = opener[o].named
        /\ \A p \in Openers \ {o} : opener'[p] = opener[p]
    BY <1>0, <1>2 DEF Goto, Typed, Call
  <2>2. CASE opener[o].role = "desktop"
    <3>1. /\ Desktop(o)' = [NoSession EXCEPT !.pipe = "listening"] /\ Primary(o)' = Primary(o)
          /\ \A p \in Openers \ {o} : Desktop(p)' = Desktop(p) /\ Primary(p)' = Primary(p)
      <4>1. session' = [session EXCEPT ![<<o, "desktop">>] = [Desktop(o) EXCEPT !.pipe = "listening"]]
        BY <1>2, <2>2 DEF Desktop
      <4>2. Desktop(o) = NoSession
        BY <1>0, <2>2 DEF Good, Untouched
      <4> QED
        BY <1>0, <4>1, <4>2, OneSession DEF Roles
    <3>2. Others(o) /\ StationMove(o) /\ Within(o)
      BY <1>0, <1>2, <2>1, <3>1, OpenAssumption DEF Others, StationMove, Within, IInv, StationHeld, Busy
    <3>3. Good(o)'
      BY <1>0, <2>1, <2>2, <3>1
         DEF Good, Untouched, Stages, LetGo, DesktopKept, ComingUp, Names, There, NoSession
    <3> QED
      BY <3>2, <3>3, WithinKeeps
  <2>3. CASE opener[o].role = "primary"
    <3>1. /\ Primary(o)' = [NoSession EXCEPT !.pipe = "listening"] /\ Desktop(o)' = Desktop(o)
          /\ \A p \in Openers \ {o} : Desktop(p)' = Desktop(p) /\ Primary(p)' = Primary(p)
      <4>1. session' = [session EXCEPT ![<<o, "primary">>] = [Primary(o) EXCEPT !.pipe = "listening"]]
        BY <1>2, <2>3 DEF Primary
      <4>2. Primary(o) = NoSession
        BY <1>0, <2>3 DEF Good, Untouched
      <4> QED
        BY <1>0, <4>1, <4>2, OneSession DEF Roles
    <3>2. Others(o) /\ StationMove(o) /\ Within(o)
      BY <1>0, <1>2, <2>1, <3>1, OpenAssumption DEF Others, StationMove, Within, IInv, StationHeld, Busy
    <3>3. Good(o)'
      BY <1>0, <1>2, <2>1, <2>3, <3>1
         DEF Good, Untouched, Stages, LetGo, DesktopKept, ComingUp, Names, There, NoSession
    <3> QED
      BY <3>2, <3>3, WithinKeeps
  <2> QED
    BY <1>0, <2>2, <2>3 DEF Typed, Call, Roles
<1> QED
  BY <1>1, <1>2 DEF CreatePipe

LEMMA StartAgentProcessKeeps ==
  ASSUME IInv, NEW o \in Openers, StartAgentProcess(o), Typed'
  PROVE IInv'
<1>0. opener[o].pc = "start" /\ opener[o].pc \in Busy /\ Good(o) /\ Typed
  BY DEF StartAgentProcess, Busy, IInv
<1>1. CASE \E code \in {"missing", "creation"} : Fail(o, code)
  BY <1>0, <1>1, FailKeeps DEF StartAgentProcess, Errors
<1>2. CASE ~\E code \in {"missing", "creation"} : Fail(o, code)
  <2> DEFINE b == opener[o].role = "primary" /\ opener[o].named
             w == [session[<<o, opener[o].role>>] EXCEPT !.agent = "starting", !.background = b]
  <2>0. session' = [session EXCEPT ![<<o, opener[o].role>>] = w] /\ Goto(o, "connect")
        /\ UNCHANGED station
    BY <1>2 DEF StartAgentProcess
  <2>1. /\ opener'[o].pc = "connect" /\ opener'[o].desk = opener[o].desk
        /\ opener'[o].role = opener[o].role /\ opener'[o].named = opener[o].named
        /\ \A p \in Openers \ {o} : opener'[p] = opener[p]
    BY <1>0, <2>0 DEF Goto, Typed, Call
  <2>2. /\ opener[o].role = "desktop" => Desktop(o)' = w /\ Primary(o)' = Primary(o)
        /\ opener[o].role = "primary" => Primary(o)' = w /\ Desktop(o)' = Desktop(o)
        /\ \A p \in Openers \ {o} : Desktop(p)' = Desktop(p) /\ Primary(p)' = Primary(p)
    <3> HIDE DEF w
    <3>1. opener[o].role \in Roles
      BY <1>0 DEF Typed, Call
    <3> QED
      BY <1>0, <2>0, <3>1, OneSession
  <2>3. Others(o) /\ StationMove(o) /\ Within(o)
    BY <1>0, <2>0, <2>1, <2>2, OpenAssumption DEF Others, StationMove, Within, IInv, StationHeld, Busy
  <2>4. session[<<o, opener[o].role>>] \in Winpty
    BY <1>0, Indices DEF Typed, Call, Roles
  <2>5. w.agent = "starting" /\ (w.background <=> b) /\ w.pipe = session[<<o, opener[o].role>>].pipe
    <3> HIDE DEF b
    <3> QED
      BY <2>4 DEF Winpty
  <2>6. Good(o)'
    <3> HIDE DEF w
    <3>1. CASE opener[o].role = "desktop"
      <4>1. w.pipe = "listening"
        BY <1>0, <2>5, <3>1 DEF Good, Untouched, Desktop
      <4> QED
        BY <1>0, <2>1, <2>2, <2>5, <3>1, <4>1
           DEF Good, Untouched, Stages, LetGo, DesktopKept, ComingUp, Names, There, NoSession
    <3>2. CASE opener[o].role = "primary"
      <4>1. w.pipe = "listening"
        BY <1>0, <2>5, <3>2 DEF Good, Untouched, Primary
      <4> QED
        BY <1>0, <2>0, <2>1, <2>2, <2>5, <3>2, <4>1
           DEF Good, Untouched, Stages, LetGo, DesktopKept, ComingUp, Names, There
    <3> QED
      BY <1>0, <3>1, <3>2 DEF Typed, Call, Roles
  <2> QED
    BY <2>3, <2>6, WithinKeeps
<1> QED
  BY <1>1, <1>2

\* A busy open may go on: the window station stays held by whom it was.
LEMMA GoesOn ==
  ASSUME IInv, NEW o \in Openers, NEW pc \in Busy, Goto(o, pc), opener[o].pc \in Busy,
         UNCHANGED <<station, session>>
  PROVE /\ Others(o) /\ StationMove(o) /\ Within(o)
        /\ opener'[o].pc = pc /\ opener'[o].role = opener[o].role /\ opener'[o].desk = opener[o].desk
        /\ opener'[o].named = opener[o].named /\ opener'[o].spawnDesktop = opener[o].spawnDesktop
        /\ Desktop(o)' = Desktop(o) /\ Primary(o)' = Primary(o)
<1>1. station = o => opener[o].desk = "direct"
  BY OpenAssumption DEF IInv, StationHeld
<1> QED
  BY <1>1, GotoOthers DEF IInv

LEMMA ConnectKeeps ==
  ASSUME IInv, NEW o \in Openers, Connect(o), Typed'
  PROVE IInv'
<1>0. opener[o].pc = "connect" /\ opener[o].pc \in Busy /\ Good(o)
      /\ session[<<o, opener[o].role>>].pipe = "connected" /\ opener[o].role \in Roles
  BY DEF Connect, Busy, IInv, Typed, Call
<1>1. CASE Fail(o, "unspecified")
  BY <1>0, <1>1, FailKeeps DEF Connect, Errors
<1>2. CASE Goto(o, "verify") /\ UNCHANGED <<station, session>>
  <2>1. /\ Others(o) /\ StationMove(o) /\ Within(o)
        /\ opener'[o].pc = "verify" /\ opener'[o].role = opener[o].role
        /\ opener'[o].desk = opener[o].desk /\ opener'[o].named = opener[o].named
        /\ Desktop(o)' = Desktop(o) /\ Primary(o)' = Primary(o)
    BY <1>0, <1>2, GoesOn DEF Busy
  <2>2. opener[o].role = "desktop" => Desktop(o).pipe = "connected"
    BY <1>0 DEF Desktop
  <2>3. opener[o].role = "primary" => Primary(o).agent # "starting"
    BY <1>0 DEF Primary, Good, ComingUp
  <2>4. opener[o].role = "desktop" => Primary(o) = NoSession
    BY <1>0 DEF Good, Untouched
  <2>5. Untouched(o)' /\ Stages(o)' /\ LetGo(o)'
    BY <1>0, <2>1, <2>2 DEF Good, Untouched, Stages, LetGo
  <2>6. DesktopKept(o)'
    BY <1>0, <1>2, <2>1 DEF Good, DesktopKept
  <2>7. ComingUp(o)' /\ Names(o)' /\ There(o)'
    BY <1>0, <2>1, <2>3, <2>4 DEF Good, ComingUp, Names, There, NoSession, Roles
  <2> QED
    BY <2>1, <2>5, <2>6, <2>7, WithinKeeps DEF Good
<1> QED
  BY <1>1, <1>2 DEF Connect

LEMMA VerifyClientKeeps ==
  ASSUME IInv, NEW o \in Openers, VerifyClient(o), Typed'
  PROVE IInv'
<1>0. opener[o].pc = "verify" /\ opener[o].pc \in Busy /\ Good(o) /\ opener[o].role \in Roles
  BY DEF VerifyClient, Busy, IInv, Typed, Call
<1>1. CASE Fail(o, "unspecified")
  BY <1>0, <1>1, FailKeeps DEF VerifyClient, Errors
<1>2. CASE ~Fail(o, "unspecified")
  <2> DEFINE pc == IF opener[o].role = "desktop" THEN "read" ELSE "reset"
  <2>0. Goto(o, pc) /\ UNCHANGED <<station, session>>
    BY <1>2 DEF VerifyClient
  <2>1. pc \in Busy
    BY DEF Busy
  <2>2. /\ Others(o) /\ StationMove(o) /\ Within(o)
        /\ opener'[o].pc = pc /\ opener'[o].role = opener[o].role
        /\ opener'[o].desk = opener[o].desk /\ opener'[o].named = opener[o].named
        /\ Desktop(o)' = Desktop(o) /\ Primary(o)' = Primary(o)
    <3> HIDE DEF pc
    <3> QED
      BY <1>0, <2>0, <2>1, GoesOn
  <2>3. Untouched(o)' /\ Stages(o)' /\ LetGo(o)'
    BY <1>0, <2>2 DEF Good, Untouched, Stages, LetGo, Roles
  <2>4. DesktopKept(o)'
    BY <1>0, <2>0, <2>2 DEF Good, DesktopKept, Stages, Roles
  <2>5. ComingUp(o)' /\ Names(o)' /\ There(o)'
    BY <1>0, <2>2 DEF Good, ComingUp, Names, There, Roles
  <2> QED
    BY <2>2, <2>3, <2>4, <2>5, WithinKeeps DEF Good
<1> QED
  BY <1>1, <1>2

LEMMA GivesUpKeeps ==
  ASSUME IInv, NEW o \in Openers, FindDead(o) \/ Timeout(o)
  PROVE IInv'
<1>1. /\ opener[o].pc \in Busy /\ UNCHANGED <<env, mishaps>>
      /\ \E code \in Errors : Fail(o, code)
  BY DEF FindDead, Timeout, Busy, Errors
<1> QED
  BY <1>1, FailKeeps

LEMMA ReadNamesKeeps ==
  ASSUME IInv, NEW o \in Openers, ReadNames(o), Typed'
  PROVE IInv'
<1>0. /\ opener[o].pc = "read" /\ opener[o].pc \in Busy /\ Good(o) /\ opener[o].role \in Roles
      /\ UNCHANGED <<station, session>>
  BY DEF ReadNames, Busy, IInv, Typed, Call
<1>1. CASE opener[o].role = "desktop"
  <2>1. /\ opener'[o].pc = "create" /\ opener'[o].role = "primary" /\ opener'[o].named
        /\ opener'[o].desk = opener[o].desk
        /\ \A p \in Openers \ {o} : opener'[p] = opener[p]
    BY <1>1 DEF ReadNames, IInv, Typed, Call
  <2>2. \A p \in Openers : Desktop(p)' = Desktop(p) /\ Primary(p)' = Primary(p)
    BY <1>0 DEF Desktop, Primary
  <2>3. station = o => opener[o].desk = "direct"
    BY OpenAssumption DEF IInv, StationHeld
  <2>4. Others(o) /\ StationMove(o) /\ Within(o)
    BY <1>0, <2>1, <2>2, <2>3 DEF Others, StationMove, Within, Busy
  <2>5. Primary(o) = NoSession /\ Desktop(o).pipe = "connected"
    BY <1>0, <1>1 DEF Good, Untouched, Stages
  <2>6. Good(o)'
    BY <1>0, <2>1, <2>2, <2>5
       DEF Good, Untouched, Stages, LetGo, DesktopKept, ComingUp, Names, There, NoSession
  <2> QED
    BY <2>4, <2>6, WithinKeeps
<1>2. CASE opener[o].role = "primary"
  <2>1. Goto(o, "open")
    BY <1>2 DEF ReadNames
  <2>2. opener[o].desk = "none"
    BY <1>0, <1>2 DEF Good, LetGo
  <2>3. station # o
    BY <2>2, OpenAssumption DEF IInv, StationHeld
  <2>4. /\ Others(o) /\ StationMove(o) /\ Within(o)
        /\ opener'[o].pc = "open" /\ opener'[o].role = opener[o].role
        /\ opener'[o].desk = opener[o].desk /\ opener'[o].named = opener[o].named
        /\ opener'[o].spawnDesktop = opener[o].spawnDesktop
        /\ Desktop(o)' = Desktop(o) /\ Primary(o)' = Primary(o)
    BY <1>0, <2>1, <2>3, GotoOthers DEF IInv, Busy
  <2>5. Untouched(o)' /\ Stages(o)' /\ LetGo(o)' /\ DesktopKept(o)'
    BY <1>0, <1>2, <2>4 DEF Good, Untouched, Stages, LetGo, DesktopKept
  <2>6. ComingUp(o)' /\ Names(o)' /\ There(o)'
    BY <1>0, <1>2, <2>4 DEF Good, ComingUp, Names, There
  <2> QED
    BY <2>4, <2>5, <2>6, WithinKeeps DEF Good
<1> QED
  BY <1>0, <1>1, <1>2 DEF Roles

LEMMA ResetDesktopKeeps ==
  ASSUME IInv, NEW o \in Openers, ResetDesktop(o), Typed'
  PROVE IInv'
<1>0. opener[o].pc = "reset" /\ opener[o].pc \in Busy /\ Good(o) /\ Typed
  BY DEF ResetDesktop, Busy, IInv
<1>1. opener[o].role = "primary" /\ Primary(o).agent # "starting"
  BY <1>0 DEF Good, Stages, ComingUp
<1>2. /\ opener'[o].pc = "spawnName" /\ opener'[o].desk = "none"
      /\ opener'[o].role = opener[o].role /\ opener'[o].named = opener[o].named
      /\ \A p \in Openers \ {o} : opener'[p] = opener[p]
  BY <1>0 DEF ResetDesktop, Typed, Call
<1>3. /\ Desktop(o)' = Deleted(Desktop(o)) /\ Primary(o)' = Primary(o)
      /\ \A p \in Openers \ {o} : Desktop(p)' = Desktop(p) /\ Primary(p)' = Primary(p)
  <2>1. session' = [session EXCEPT ![<<o, "desktop">>] = Deleted(Desktop(o))]
    BY DEF ResetDesktop, Desktop
  <2> QED
    BY <1>0, <2>1, OneSession DEF Roles
<1>4. Desktop(o)'.pipe \in {"none", "closed"} /\ Desktop(o)'.agent = Desktop(o).agent
  BY <1>0, <1>3, Indices, DeletedPipe DEF Typed, Desktop
<1>5. Others(o) /\ StationMove(o) /\ Within(o)
  <2>1. station' = IF station = o THEN "interactive" ELSE station
    BY DEF ResetDesktop, Disposed
  <2> QED
    BY <1>0, <1>2, <1>3, <2>1, OpenAssumption DEF Others, StationMove, Within, Busy
<1>6. Good(o)'
  BY <1>0, <1>1, <1>2, <1>3, <1>4
     DEF Good, Untouched, Stages, LetGo, DesktopKept, ComingUp, Names, There
<1> QED
  BY <1>5, <1>6, WithinKeeps

LEMMA SpawnNameKeeps ==
  ASSUME IInv, NEW o \in Openers, SpawnName(o), Typed'
  PROVE IInv'
<1>0. opener[o].pc = "spawnName" /\ opener[o].pc \in Busy /\ Good(o) /\ Typed
  BY DEF SpawnName, Busy, IInv
<1>1. CASE Fail(o, "unspecified")
  BY <1>0, <1>1, FailKeeps DEF SpawnName, Errors
<1>2. CASE ~Fail(o, "unspecified")
  <2>1. opener[o].desk = "none" /\ opener[o].role = "primary" /\ Primary(o).agent # "starting"
    BY <1>0 DEF Good, LetGo, Stages, ComingUp
  <2>2. station = "interactive"
    BY <1>0, <2>1 DEF IInv, StationHeld, DirectAlone, Typed, Stations
  <2> DEFINE d == IF opener[o].named THEN station ELSE "none"
  <2>3. /\ opener' = [opener EXCEPT ![o] = [@ EXCEPT !.pc = "read", !.spawnDesktop = d]]
        /\ UNCHANGED <<station, session>>
    BY <1>2 DEF SpawnName
  <2>4. /\ opener'[o].pc = "read" /\ opener'[o].spawnDesktop = d
        /\ opener'[o].desk = opener[o].desk
        /\ opener'[o].role = opener[o].role /\ opener'[o].named = opener[o].named
        /\ \A p \in Openers \ {o} : opener'[p] = opener[p]
    <3> HIDE DEF d
    <3> QED
      BY <1>0, <2>3 DEF Typed, Call
  <2>5. \A p \in Openers : Desktop(p)' = Desktop(p) /\ Primary(p)' = Primary(p)
    BY <2>3 DEF Desktop, Primary
  <2>6. Others(o) /\ StationMove(o) /\ Within(o)
    BY <1>0, <2>2, <2>3, <2>4, <2>5, OpenAssumption DEF Others, StationMove, Within, Busy
  <2>7. Untouched(o)' /\ Stages(o)' /\ LetGo(o)' /\ DesktopKept(o)'
    BY <1>0, <2>1, <2>4, <2>5 DEF Good, Untouched, Stages, LetGo, DesktopKept
  <2>8. ComingUp(o)' /\ Names(o)' /\ There(o)'
    BY <1>0, <2>1, <2>2, <2>4, <2>5 DEF Good, ComingUp, Names, There
  <2> QED
    BY <2>6, <2>7, <2>8, WithinKeeps DEF Good
<1> QED
  BY <1>1, <1>2

LEMMA FreeKeeps ==
  ASSUME IInv, NEW o \in Openers, Free(o), Typed'
  PROVE IInv'
<1>0. opener[o].pc = "open" /\ Good(o) /\ Typed
  BY DEF Free, IInv
<1>1. opener[o].role = "primary" /\ opener[o].desk = "none" /\ Primary(o).agent # "starting"
  BY <1>0 DEF Good, Stages, LetGo, ComingUp
<1>2. /\ opener'[o].pc = "closed" /\ opener'[o].desk = opener[o].desk
      /\ opener'[o].role = opener[o].role /\ opener'[o].named = opener[o].named
      /\ \A p \in Openers \ {o} : opener'[p] = opener[p]
  BY <1>0 DEF Free, Goto, Typed, Call
<1>3. /\ Primary(o)' = Deleted(Primary(o)) /\ Desktop(o)' = Desktop(o)
      /\ \A p \in Openers \ {o} : Desktop(p)' = Desktop(p) /\ Primary(p)' = Primary(p)
  <2>1. session' = [session EXCEPT ![<<o, "primary">>] = Deleted(Primary(o))]
    BY DEF Free, Primary
  <2> QED
    BY <1>0, <2>1, OneSession DEF Roles
<1>4. Primary(o)'.pipe \in {"none", "closed"} /\ Primary(o)'.agent = Primary(o).agent
  BY <1>0, <1>3, Indices, DeletedPipe DEF Typed, Primary
<1>5. Others(o) /\ StationMove(o) /\ Within(o)
  <2>1. station # o
    BY <1>1, OpenAssumption DEF IInv, StationHeld
  <2> QED
    BY <1>1, <1>2, <1>3, <2>1 DEF Free, Others, StationMove, Within, Busy
<1>6. Good(o)'
  BY <1>0, <1>1, <1>2, <1>3, <1>4
     DEF Good, Untouched, Stages, LetGo, DesktopKept, ComingUp, Names, There
<1> QED
  BY <1>5, <1>6, WithinKeeps

LEMMA OpenKeeps ==
  ASSUME IInv, NEW o \in Openers, Open(o), Typed'
  PROVE IInv'
<1>0. opener[o].pc = "new" /\ Good(o) /\ Typed /\ UNCHANGED <<station, session>>
  BY DEF Open, IInv
<1>1. PICK plan \in {"none", "direct", "agent"} :
        /\ plan = "direct" => \A p \in Openers : opener[p].pc \notin Busy
        /\ opener' = [opener EXCEPT ![o] = [@ EXCEPT
               !.pc = IF plan = "direct" THEN "station" ELSE "create", !.desk = plan,
               !.role = IF plan = "agent" THEN "desktop" ELSE "primary"]]
  BY PlanType DEF Open
<1> DEFINE next == IF plan = "direct" THEN "station" ELSE "create"
           role == IF plan = "agent" THEN "desktop" ELSE "primary"
<1>2. /\ opener'[o].pc = next /\ opener'[o].desk = plan /\ opener'[o].role = role
      /\ opener'[o].named = opener[o].named
      /\ \A p \in Openers \ {o} : opener'[p] = opener[p]
  <2> HIDE DEF next, role
  <2>1. opener' = [opener EXCEPT ![o] = [@ EXCEPT !.pc = next, !.desk = plan, !.role = role]]
    BY <1>1 DEF next, role
  <2> QED
    BY <1>0, <2>1 DEF Typed, Call
<1>3. \A p \in Openers : Desktop(p)' = Desktop(p) /\ Primary(p)' = Primary(p)
  BY <1>0 DEF Desktop, Primary
<1>4. station = "interactive"
  BY DEF Open, IInv, StationHeld, Typed, Stations
<1>5. Others(o)
  BY <1>0, <1>2, <1>3 DEF Others
<1>6. \A p \in Openers \ {o} : Good(p)'
  BY <1>5, OthersKeep DEF IInv
<1>7. StationHeld'
  BY <1>0, <1>4 DEF StationHeld
<1>8. DirectAlone'
  <2> SUFFICES ASSUME NEW p \in Openers, NEW q \in Openers, q # p,
                      opener'[p].pc \in Busy, opener'[p].desk = "direct"
               PROVE opener'[q].pc \notin Busy
    BY DEF DirectAlone
  <2>1. CASE p = o
    BY <1>1, <1>2, <2>1
  <2>2. CASE p # o
    BY <1>2, <2>2 DEF Open
  <2> QED
    BY <2>1, <2>2
<1>9. Desktop(o) = NoSession /\ Primary(o) = NoSession /\ ~opener[o].named
  BY <1>0 DEF Good, Untouched, Stages
<1>10. Good(o)'
  BY <1>2, <1>3, <1>9
     DEF Good, Untouched, Stages, LetGo, DesktopKept, ComingUp, Names, There, NoSession
<1> QED
  BY <1>6, <1>7, <1>8, <1>10 DEF IInv

LEMMA OpenStepKeeps ==
  ASSUME IInv, NEW o \in Openers, OpenStep(o), Typed'
  PROVE IInv'
BY EnterStationKeeps, MakeDesktopKeeps, CreatePipeKeeps, StartAgentProcessKeeps, ConnectKeeps,
   VerifyClientKeeps, GivesUpKeeps, ReadNamesKeeps, ResetDesktopKeeps, SpawnNameKeeps
   DEF OpenStep

-----------------------------------------------------------------------------
(* The steps of an agent                                                   *)

\* A step of an agent of o, after which its session is as w, and the flag is as it was.
LEMMA AgentKeeps ==
  ASSUME IInv, NEW o \in Openers, NEW r \in Roles, NEW w,
         session' = [session EXCEPT ![<<o, r>>] = w], UNCHANGED <<station, opener>>,
         (r = "desktop" => Desktop(o)' = w /\ Primary(o)' = Primary(o))
         /\ (r = "primary" => Primary(o)' = w /\ Desktop(o)' = Desktop(o))
         => Good(o)',
         Typed'
  PROVE IInv'
<1>1. /\ r = "desktop" => Desktop(o)' = w /\ Primary(o)' = Primary(o)
      /\ r = "primary" => Primary(o)' = w /\ Desktop(o)' = Desktop(o)
      /\ \A p \in Openers \ {o} : Desktop(p)' = Desktop(p) /\ Primary(p)' = Primary(p)
  BY OneSession DEF IInv
<1>2. Others(o) /\ Within(o)
  BY <1>1 DEF Others, Within
<1>3. \A p \in Openers : Good(p)'
  BY <1>1, <1>2, OthersKeep DEF IInv
<1>4. DirectAlone' /\ StationHeld'
  BY DEF IInv, DirectAlone, StationHeld
<1> QED
  BY <1>3, <1>4 DEF IInv

\* A desktop agent's step leaves a good open good, if what it does to its pipe and
\* to itself is what the invariant allows.
LEMMA DesktopAgentGood ==
  ASSUME NEW o \in Openers, Good(o), Typed, station' = station, opener' = opener,
         Primary(o)' = Primary(o),
         Desktop(o).agent \in {"starting", "ready", "connected"},
         \/ Desktop(o)'.pipe = Desktop(o).pipe
         \/ Desktop(o).pipe = "listening" /\ Desktop(o)'.pipe = "connected",
         Desktop(o)'.pipe = "connected"
           => Desktop(o)'.agent \in {"connected", "crashed", "stuckWithDesktop"}
  PROVE Good(o)'
<1>1. Untouched(o)'
  BY DEF Good, Untouched, NoSession
<1>2. Stages(o)'
  BY DEF Good, Stages
<1>3. LetGo(o)'
  BY DEF Good, LetGo
<1>4. DesktopKept(o)'
  BY DEF Good, DesktopKept
<1>5. ComingUp(o)' /\ Names(o)'
  BY DEF Good, ComingUp, Names
<1>6. There(o)'
  BY DEF Good, There
<1> QED
  BY <1>1, <1>2, <1>3, <1>4, <1>5, <1>6 DEF Good

\* And a primary agent's.
LEMMA PrimaryAgentGood ==
  ASSUME NEW o \in Openers, Good(o), Typed, station' = station, opener' = opener,
         Desktop(o)' = Desktop(o),
         Primary(o).agent \in {"starting", "ready", "connected"},
         \/ Primary(o)'.pipe = Primary(o).pipe
         \/ Primary(o).pipe = "listening" /\ Primary(o)'.pipe = "connected",
         Primary(o)'.background = Primary(o).background,
         Primary(o)'.agent # "starting",
         Primary(o)'.pipe = "connected" => Primary(o)'.agent \notin {"none", "starting", "ready"},
         There(o)'
  PROVE Good(o)'
<1>1. Untouched(o)'
  BY DEF Good, Untouched, NoSession
<1>2. Stages(o)' /\ DesktopKept(o)'
  BY DEF Good, Stages, DesktopKept
<1>3. LetGo(o)'
  BY DEF Good, LetGo
<1>4. ComingUp(o)' /\ Names(o)'
  BY DEF Good, ComingUp, Names
<1> QED
  BY <1>1, <1>2, <1>3, <1>4 DEF Good

\* The desktop a primary agent was started on is there when it comes up.
LEMMA DesktopIsThere ==
  ASSUME NEW o \in Openers, Good(o), Primary(o).agent = "starting", Primary(o).background
  PROVE DesktopExists(o) \/ opener[o].pc = "failed" \/ Desktop(o).agent = "crashed"
<1>1. SUFFICES ASSUME opener[o].pc # "failed"
               PROVE DesktopExists(o) \/ Desktop(o).agent = "crashed"
  OBVIOUS
<1>2. opener[o].pc = "connect" /\ opener[o].role = "primary"
  BY <1>1 DEF Good, ComingUp
<1>3. opener[o].named
  BY <1>2 DEF Good, Names
<1>4. \/ opener[o].desk = "direct" /\ station = o
      \/ Desktop(o).agent \in {"connected", "crashed", "stuckWithDesktop"}
  BY <1>2, <1>3 DEF Good, DesktopKept
<1> QED
  BY <1>4 DEF DesktopExists, Desktop

LEMMA AgentStepKeeps ==
  ASSUME IInv, NEW s \in Sessions, AgentStep(s) \/ Mishap(s), Typed'
  PROVE IInv'
<1>1. PICK o \in Openers, r \in Roles : s = <<o, r>>
  BY DEF Sessions
<1>2. UNCHANGED <<station, opener>> /\ Good(o) /\ Typed /\ session[s] \in Winpty
  BY <1>1 DEF AgentStep, StartAgent, ConnectAgent, Tell, LeaveAgent, Mishap, IInv, Typed
<1>3. PICK w :
        /\ session' = [session EXCEPT ![s] = w]
        /\ session[s].agent \in {"starting", "ready", "connected"}
        /\ \/ w.pipe = session[s].pipe
           \/ session[s].pipe = "listening" /\ w.pipe = "connected"
        /\ w.background = session[s].background
        /\ w.agent # "starting"
        /\ w.pipe = "connected" /\ session[s].pipe # "connected" => w.agent = "connected"
        /\ w.pipe = "connected" /\ session[s].agent = "connected"
             => \/ w.agent \in {"connected", "crashed"}
                \/ w.agent = (IF DesktopExists(s[1]) /\ s[2] = "desktop"
                              THEN "stuckWithDesktop" ELSE "stuck")
        /\ w.agent = "lost" =>
             s[2] = "primary" /\ session[s].agent = "starting" /\ session[s].background
             /\ ~DesktopExists(s[1])
  <2>1. CASE StartAgent(s)
    <3>1. PICK a \in {"ready", "gone", "lost"} :
            /\ session' = [session EXCEPT ![s].agent = a]
            /\ a = "lost" => s[2] = "primary" /\ session[s].background /\ ~DesktopExists(s[1])
      BY <1>1, <2>1 DEF StartAgent, Becomes, Roles
    <3> DEFINE w == [session[s] EXCEPT !.agent = a]
    <3>2. w.agent = a /\ w.pipe = session[s].pipe /\ w.background = session[s].background
      BY <1>2 DEF Winpty
    <3>3. session' = [session EXCEPT ![s] = w] /\ session[s].agent = "starting"
      BY <2>1, <3>1 DEF StartAgent
    <3>4. w.pipe = "connected" => FALSE
      <4>1. ASSUME session[s].pipe = "connected" PROVE FALSE
        BY <1>1, <1>2, <3>3, <4>1 DEF Good, DesktopKept, ComingUp, Desktop, Primary, Roles
      <4> QED
        BY <3>2, <4>1
    <3> HIDE DEF w
    <3> QED
      BY <3>1, <3>2, <3>3, <3>4
  <2>2. CASE ConnectAgent(s)
    <3>1. CASE session[s].pipe = "listening"
      <4> DEFINE w == [session[s] EXCEPT !.agent = "connected", !.pipe = "connected"]
      <4>1. w.agent = "connected" /\ w.pipe = "connected" /\ w.background = session[s].background
        BY <1>2 DEF Winpty
      <4>2. session' = [session EXCEPT ![s] = w] /\ session[s].agent = "ready"
        BY <2>2, <3>1 DEF ConnectAgent
      <4> HIDE DEF w
      <4> QED
        BY <3>1, <4>1, <4>2
    <3>2. CASE session[s].pipe # "listening"
      <4> DEFINE w == [session[s] EXCEPT !.agent = "gone"]
      <4>1. w.agent = "gone" /\ w.pipe = session[s].pipe /\ w.background = session[s].background
        BY <1>2 DEF Winpty
      <4>2. session' = [session EXCEPT ![s] = w] /\ session[s].agent = "ready"
        BY <2>2, <3>2 DEF ConnectAgent, Becomes
      <4> HIDE DEF w
      <4> QED
        BY <4>1, <4>2
    <3> QED
      BY <3>1, <3>2
  <2>3. CASE Tell(s)
    <3> DEFINE w == [session[s] EXCEPT !.told = TRUE]
    <3>1. /\ w.agent = session[s].agent /\ w.pipe = session[s].pipe
          /\ w.background = session[s].background
      BY <1>2 DEF Winpty
    <3>2. session' = [session EXCEPT ![s] = w] /\ session[s].agent = "connected"
      BY <2>3 DEF Tell
    <3> HIDE DEF w
    <3> QED
      BY <3>1, <3>2
  <2>4. CASE LeaveAgent(s)
    <3> DEFINE w == [session[s] EXCEPT !.agent = "gone"]
    <3>1. w.agent = "gone" /\ w.pipe = session[s].pipe /\ w.background = session[s].background
      BY <1>2 DEF Winpty
    <3>2. /\ session' = [session EXCEPT ![s] = w]
          /\ session[s].agent = "connected" /\ session[s].pipe = "closed"
      BY <2>4 DEF LeaveAgent, Becomes
    <3> HIDE DEF w
    <3> QED
      BY <3>1, <3>2
  <2>5. CASE Mishap(s)
    <3> DEFINE stuck == IF DesktopExists(s[1]) /\ s[2] = "desktop" THEN "stuckWithDesktop" ELSE "stuck"
    <3>1. PICK a \in {"crashed", stuck} : session' = [session EXCEPT ![s].agent = a]
      BY <2>5 DEF Mishap, Becomes
    <3> DEFINE w == [session[s] EXCEPT !.agent = a]
    <3>2. w.agent = a /\ w.pipe = session[s].pipe /\ w.background = session[s].background
      BY <1>2 DEF Winpty
    <3>3. /\ session' = [session EXCEPT ![s] = w]
          /\ session[s].agent \in {"starting", "ready", "connected"}
      BY <2>5, <3>1 DEF Mishap
    <3> HIDE DEF w
    <3> QED
      BY <3>1, <3>2, <3>3
  <2> QED
    BY <2>1, <2>2, <2>3, <2>4, <2>5 DEF AgentStep
<1>4. CASE r = "desktop"
  <2>1. ASSUME Desktop(o)' = w, Primary(o)' = Primary(o) PROVE Good(o)'
    <3>1. Desktop(o) = session[s] /\ s[1] = o /\ s[2] = "desktop"
      BY <1>1, <1>4 DEF Desktop
    <3>2. w.pipe = "connected" => w.agent \in {"connected", "crashed", "stuckWithDesktop"}
      <4>1. CASE session[s].pipe # "connected"
        BY <1>3, <4>1
      <4>2. CASE session[s].pipe = "connected"
        <5>1. session[s].agent = "connected"
          BY <1>2, <1>3, <3>1, <4>2 DEF Good, DesktopKept
        <5>2. DesktopExists(o)
          BY <1>1, <1>4, <5>1 DEF DesktopExists
        <5> QED
          BY <1>3, <3>1, <5>1, <5>2
      <4> QED
        BY <4>1, <4>2
    <3>3. /\ Desktop(o).agent \in {"starting", "ready", "connected"}
          /\ \/ Desktop(o)'.pipe = Desktop(o).pipe
             \/ Desktop(o).pipe = "listening" /\ Desktop(o)'.pipe = "connected"
          /\ Desktop(o)'.pipe = "connected"
               => Desktop(o)'.agent \in {"connected", "crashed", "stuckWithDesktop"}
      BY <1>3, <2>1, <3>1, <3>2
    <3> QED
      BY <1>2, <2>1, <3>3, DesktopAgentGood
  <2> QED
    BY <1>1, <1>2, <1>3, <1>4, <2>1, AgentKeeps
<1>5. CASE r = "primary"
  <2>1. ASSUME Primary(o)' = w, Desktop(o)' = Desktop(o) PROVE Good(o)'
    <3>1. Primary(o) = session[s] /\ s[1] = o /\ s[2] = "primary"
      BY <1>1, <1>5 DEF Primary
    <3>2. w.pipe = "connected" => w.agent \notin {"none", "starting", "ready"}
      <4>1. CASE session[s].pipe # "connected"
        BY <1>3, <4>1
      <4>2. CASE session[s].pipe = "connected"
        <5>1. session[s].agent = "connected"
          BY <1>2, <1>3, <3>1, <4>2 DEF Good, ComingUp
        <5> QED
          BY <1>3, <5>1
      <4> QED
        BY <4>1, <4>2
    <3>3. There(o)'
      <4> SUFFICES ASSUME w.agent = "lost"
                   PROVE opener[o].pc = "failed" \/ Desktop(o).agent = "crashed"
        BY <1>2, <2>1 DEF There
      <4> QED
        BY <1>2, <1>3, <3>1, DesktopIsThere
    <3>4. /\ Primary(o).agent \in {"starting", "ready", "connected"}
          /\ \/ Primary(o)'.pipe = Primary(o).pipe
             \/ Primary(o).pipe = "listening" /\ Primary(o)'.pipe = "connected"
          /\ Primary(o)'.background = Primary(o).background
          /\ Primary(o)'.agent # "starting"
          /\ Primary(o)'.pipe = "connected"
               => Primary(o)'.agent \notin {"none", "starting", "ready"}
      BY <1>3, <2>1, <3>1, <3>2
    <3> QED
      BY <1>2, <2>1, <3>3, <3>4, PrimaryAgentGood
  <2> QED
    BY <1>1, <1>2, <1>3, <1>5, <2>1, AgentKeeps
<1> QED
  BY <1>4, <1>5 DEF Roles

LEMMA StutterKeeps == IInv /\ UNCHANGED vars => IInv'
<1> SUFFICES ASSUME IInv, UNCHANGED vars PROVE IInv'
  OBVIOUS
<1> USE DEF vars
<1>1. \A p \in Openers : Desktop(p)' = Desktop(p) /\ Primary(p)' = Primary(p)
  BY DEF Desktop, Primary
<1>2. ASSUME NEW p \in Openers PROVE Good(p)'
  BY <1>1 DEF IInv, Good, Untouched, Stages, LetGo, DesktopKept, ComingUp, Names, There
<1> QED
  BY <1>2 DEF IInv, Typed, DirectAlone, StationHeld

LEMMA NextInv == IInv /\ [Next]_vars => IInv'
<1> SUFFICES ASSUME IInv, [Next]_vars PROVE IInv'
  OBVIOUS
<1>1. Typed'
  BY NextType DEF IInv
<1> QED
  BY <1>1, OpenKeeps, OpenStepKeeps, FreeKeeps, AgentStepKeeps, StutterKeeps DEF Next

-----------------------------------------------------------------------------
(* Theorems                                                                *)

\* Every field of every call and session keeps its type.
THEOREM TypeCorrect == Spec => []TypeOK
<1>1. Init => TypeOK
  BY InitType
<1>2. TypeOK /\ [Next]_vars => TypeOK'
  BY NextType, TypeParts
<1> QED
  BY <1>1, <1>2, PTL DEF Spec

\* The invariant: each call's desktop, agents and pipes are at the stage the
\* call has reached, and an open that has changed the window station is alone.
THEOREM Invariance == Spec => []IInv
BY InitInv, NextInv, PTL DEF Spec

LEMMA InvHeld == IInv => NothingHeld
<1> SUFFICES ASSUME IInv PROVE NothingHeld
  OBVIOUS
<1>1. ASSUME NEW o \in Openers, opener[o].pc \in {"open", "failed", "closed"}
      PROVE /\ opener[o].desk = "none"
            /\ session[<<o, "desktop">>].pipe \in {"none", "closed"}
            /\ opener[o].pc # "open" => session[<<o, "primary">>].pipe \in {"none", "closed"}
  BY <1>1 DEF IInv, Good, LetGo, Desktop, Primary
<1> QED
  BY <1>1 DEF NothingHeld, IInv, StationHeld

LEMMA InvRight == IInv => DesktopsRight
<1> SUFFICES ASSUME IInv PROVE DesktopsRight
  OBVIOUS
<1>1. TypeOK
  BY TypeParts DEF IInv
<1>2. DesktopThere
  BY DEF IInv, Good, There, Desktop, Primary, DesktopThere
<1>3. SpawnsOnOwnDesktop
  <2> SUFFICES ASSUME NEW o \in Openers, opener[o].pc = "open"
               PROVE opener[o].spawnDesktop =
                       (IF Primary(o).background THEN "interactive" ELSE "none")
    BY DEF SpawnsOnOwnDesktop, Primary
  <2>1. Good(o) /\ opener[o].role = "primary"
    BY DEF IInv, Good, Stages
  <2> QED
    BY <2>1 DEF Good, Names
<1> QED
  BY <1>1, <1>2, <1>3 DEF DesktopsRight

\* However winpty_open ends, and whatever its agents did, the process is back on
\* its own window station, no desktop and no desktop agent is held, and after an
\* error or winpty_free no session.
THEOREM NothingLeftHeld == Spec => []NothingHeld
BY Invariance, InvHeld, PTL

\* An agent put on a background desktop finds it when it comes up, unless the
\* desktop's own agent crashed or the open had failed, and every session spawns
\* its child on the desktop of the caller.
THEOREM DesktopsAreRight == Spec => []DesktopsRight
BY Invariance, InvRight, PTL
=============================================================================
