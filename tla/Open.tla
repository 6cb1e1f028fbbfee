--------------------------------- MODULE Open ----------------------------------
(***************************************************************************)
(* winpty_open (libwinpty/winpty.cc): whether the agent's console is put   *)
(* on a background desktop, who makes that desktop (this process, which    *)
(* must change its window station, or an agent of its own), the processes  *)
(* started, their control pipes, what happens when one of them dies, hangs *)
(* or cannot be started, and when the desktop is let go.                   *)
(*                                                                         *)
(* Several threads may open at once.  An open that may change the window   *)
(* station of the process runs alone: WINPTY_FLAG_ALLOW_CURPROC_DESKTOP_-  *)
(* CREATION is documented as unsafe with other threads.                    *)
(***************************************************************************)
EXTENDS Naturals

CONSTANTS
  Openers,       \* threads that call winpty_open, each once
  Environments,  \* Windows versions and debugging variables it runs under
  MaxMishaps     \* bound: agents that crash or hang

DebugFlags == {"force_desktop", "force_desktop_spawn", "force_desktop_curproc", "no_desktop"}

ASSUME OpenAssumption ==
  /\ Environments \subseteq [show : BOOLEAN, windows7 : BOOLEAN, debug : SUBSET DebugFlags]
  /\ MaxMishaps \in Nat
  /\ "interactive" \notin Openers

VARIABLES
  env,      \* the environment
  station,  \* this process's window station: "interactive" or an opener's new one
  opener,   \* the call each opener makes
  session,  \* the winpty_t of its desktop agent and of its primary agent
  mishaps   \* count: crashes and hangs
vars == <<env, station, opener, session, mishaps>>

Roles == {"desktop", "primary"}
Sessions == Openers \X Roles
Stations == Openers \cup {"interactive"}
Errors == {"none", "missing", "creation", "died", "timeout", "lost", "unspecified"}
Busy == {"station", "makeDesktop", "create", "start", "connect", "verify", "read", "reset", "spawnName"}
Dead == {"crashed", "lost", "gone"}   \* lost: its desktop was not there

NoOpen == [pc |-> "new", role |-> "primary", desk |-> "none", named |-> FALSE,
           spawnDesktop |-> "none", error |-> "none"]
NoSession == [pipe |-> "none", agent |-> "none", told |-> FALSE, background |-> FALSE]

\* Whether opener o's background desktop exists: a process holds a handle to it.
DesktopExists(o) ==
  \/ station = o /\ opener[o].desk = "direct"
  \/ session[<<o, "desktop">>].agent \in {"ready", "connected", "stuckWithDesktop"}

-----------------------------------------------------------------------------
(* Deciding on a desktop                                                   *)

\* shouldCreateBackgroundDesktop, and the cfg's WINPTY_FLAG_ALLOW_CURPROC_DESKTOP_CREATION.
DesktopPlan(curproc) ==
  LET forced == env.debug \cap DebugFlags
      byVersion == ~env.show /\ ~env.windows7
      how == IF curproc THEN "direct" ELSE "agent"
  IN CASE forced = {"force_desktop"} -> how
       [] forced = {"force_desktop_spawn"} -> "agent"
       [] forced = {"force_desktop_curproc"} -> "direct"
       [] forced = {"no_desktop"} -> "none"
       [] OTHER -> IF byVersion THEN how ELSE "none"

\* winpty_open up to setupBackgroundDesktop's choice.
Open(o) ==
  /\ opener[o].pc = "new"
  /\ \A p \in Openers : opener[p].pc \in Busy => opener[p].desk # "direct"
  /\ \E curproc \in BOOLEAN :
       LET plan == DesktopPlan(curproc)
           next == IF plan = "direct" THEN "station" ELSE "create"
       IN /\ plan = "direct" => \A p \in Openers : opener[p].pc \notin Busy
          /\ opener' = [opener EXCEPT ![o] = [@ EXCEPT
               !.pc = next, !.desk = plan,
               !.role = IF plan = "agent" THEN "desktop" ELSE "primary"]]
  /\ UNCHANGED <<env, station, session, mishaps>>

-----------------------------------------------------------------------------
(* Making the desktop in this process: BackgroundDesktop                   *)

\* A failure disposes of what there is; setupBackgroundDesktop then goes on
\* without a background desktop.
DoWithout(o) ==
  /\ station' = "interactive"
  /\ opener' = [opener EXCEPT ![o] = [@ EXCEPT !.pc = "create", !.desk = "none"]]

\* CreateWindowStationW and SetProcessWindowStation.
EnterStation(o) ==
  /\ opener[o].pc = "station"
  /\ \/ station' = o /\ opener' = [opener EXCEPT ![o].pc = "makeDesktop"]
     \/ DoWithout(o)
  /\ UNCHANGED <<env, session, mishaps>>

\* CreateDesktopW and the desktop's name; the object is moved into an
\* AgentDesktopDirect, which leaves nothing for its own destructor to close.
MakeDesktop(o) ==
  /\ opener[o].pc = "makeDesktop"
  /\ \/ /\ opener' = [opener EXCEPT ![o] = [@ EXCEPT !.pc = "create", !.named = TRUE]]
        /\ UNCHANGED station
     \/ DoWithout(o)
  /\ UNCHANGED <<env, session, mishaps>>

-----------------------------------------------------------------------------
(* The sessions                                                            *)

\* Deleting a winpty_t closes its control pipe.
Deleted(s) == [s EXCEPT !.pipe = IF @ = "none" THEN "none" ELSE "closed"]

\* Mutant of Disposed: m_originalStation is cleared before it is used.
DisposedToNull(o) == IF station = o THEN "null" ELSE station

\* dispose() puts the station back if this open changed it.
Disposed(o) == IF station = o THEN "interactive" ELSE station

\* Mutant of Fail: BackgroundDesktop has no destructor.
FailUndisposed(o, code) ==
  /\ opener' = [opener EXCEPT ![o] = [@ EXCEPT !.pc = "failed", !.error = code]]
  /\ session' = [s \in Sessions |-> IF s[1] = o THEN Deleted(session[s]) ELSE session[s]]
  /\ UNCHANGED station

\* Mutant of Fail: the session being made is not owned yet.
FailLeavesSession(o, code) ==
  /\ opener' = [opener EXCEPT ![o] = [@ EXCEPT !.pc = "failed", !.error = code, !.desk = "none"]]
  /\ station' = Disposed(o)
  /\ UNCHANGED session

\* An exception: everything this call made is released, and the error reported.
Fail(o, code) ==
  /\ opener' = [opener EXCEPT ![o] = [@ EXCEPT !.pc = "failed", !.error = code, !.desk = "none"]]
  /\ session' = [s \in Sessions |-> IF s[1] = o THEN Deleted(session[s]) ELSE session[s]]
  /\ station' = Disposed(o)

Goto(o, pc) == opener' = [opener EXCEPT ![o].pc = pc]

\* createAgentSession's event and createControlPipe.
CreatePipe(o) ==
  /\ opener[o].pc = "create"
  /\ \/ /\ session' = [session EXCEPT ![<<o, opener[o].role>>].pipe = "listening"]
        /\ Goto(o, "start")
        /\ UNCHANGED station
     \/ Fail(o, "unspecified")
  /\ UNCHANGED <<env, mishaps>>

\* startAgentProcess: findAgentProgram and CreateProcessW; the primary agent is
\* put on the desktop by its name.
StartAgentProcess(o) ==
  /\ opener[o].pc = "start"
  /\ \/ /\ session' = [session EXCEPT ![<<o, opener[o].role>>] = [@ EXCEPT
             !.agent = "starting", !.background = opener[o].role = "primary" /\ opener[o].named]]
        /\ Goto(o, "connect")
        /\ UNCHANGED station
     \/ \E code \in {"missing", "creation"} : Fail(o, code)
  /\ UNCHANGED <<env, mishaps>>

\* Mutant of Connect: the desktop is let go before the agent has come up on it.
ConnectDetached(o) ==
  LET s == session[<<o, opener[o].role>>] IN
  /\ opener[o].pc = "connect"
  /\ IF opener[o].role = "desktop"
     THEN s.pipe = "connected" /\ Goto(o, "verify") /\ UNCHANGED <<station, session>>
     ELSE \/ /\ opener[o].desk # "none"
             /\ station' = Disposed(o)
             /\ opener' = [opener EXCEPT ![o].desk = "none"]
             /\ session' = [session EXCEPT ![<<o, "desktop">>] = Deleted(@)]
          \/ /\ opener[o].desk = "none" /\ s.pipe = "connected"
             /\ Goto(o, "verify") /\ UNCHANGED <<station, session>>
  /\ UNCHANGED <<env, mishaps>>

\* connectControlPipe once the agent has connected; ConnectNamedPipe fails if
\* it has gone again before.
Connect(o) ==
  LET s == session[<<o, opener[o].role>>] IN
  /\ opener[o].pc = "connect" /\ s.pipe = "connected"
  /\ \/ Goto(o, "verify") /\ UNCHANGED <<station, session>>
     \/ s.agent \in Dead /\ Fail(o, "unspecified")
  /\ UNCHANGED <<env, mishaps>>

\* verifyPipeClientPid: no other process knows the name, but the query may fail.
VerifyClient(o) ==
  /\ opener[o].pc = "verify"
  /\ \/ Goto(o, IF opener[o].role = "desktop" THEN "read" ELSE "reset") /\ UNCHANGED <<station, session>>
     \/ Fail(o, "unspecified")
  /\ UNCHANGED <<env, mishaps>>

\* handlePendingIo finds the agent dead.  Its pipe may break first.
FindDead(o) ==
  LET s == session[<<o, opener[o].role>>] IN
  /\ \/ opener[o].pc = "connect" /\ s.pipe = "listening"
     \/ opener[o].pc = "read" /\ ~s.told
  /\ s.agent \in Dead
  /\ \/ Fail(o, "died")
     \/ opener[o].pc = "read" /\ Fail(o, "lost")
  /\ UNCHANGED <<env, mishaps>>

\* Mutant of Timeout: the wait for a packet has no limit.
TimeoutOnConnect(o) ==
  LET s == session[<<o, opener[o].role>>] IN
  /\ opener[o].pc = "connect" /\ s.pipe = "listening"
  /\ s.agent \notin Dead
  /\ Fail(o, "timeout")
  /\ UNCHANGED <<env, mishaps>>

\* handlePendingIo waits longer than the agent timeout, or the wait itself fails.
Timeout(o) ==
  LET s == session[<<o, opener[o].role>>] IN
  /\ \/ opener[o].pc = "connect" /\ s.pipe = "listening"
     \/ opener[o].pc = "read" /\ ~s.told
  /\ \/ s.agent \notin Dead /\ Fail(o, "timeout")
     \/ Fail(o, "unspecified")
  /\ UNCHANGED <<env, mishaps>>

\* readPacket and the names in the packet, written by the desktop agent or the
\* primary one.  The desktop agent's name is never empty (winpty.cc:620 would
\* go on without a desktop): BackgroundDesktop's constructor throws before, which
\* ends the agent.
ReadNames(o) ==
  LET s == session[<<o, opener[o].role>>] IN
  /\ opener[o].pc = "read" /\ s.told
  /\ IF opener[o].role = "desktop"
     THEN opener' = [opener EXCEPT ![o] = [@ EXCEPT !.pc = "create", !.role = "primary", !.named = TRUE]]
     ELSE Goto(o, "open")
  /\ UNCHANGED <<env, station, session, mishaps>>

\* Mutant of ResetDesktop: the name is taken before the desktop is let go.
ResetDesktopLate(o) ==
  /\ opener[o].pc = "reset"
  /\ station' = Disposed(o)
  /\ opener' = [opener EXCEPT ![o] = [@ EXCEPT !.pc = "read", !.desk = "none",
                  !.spawnDesktop = IF opener[o].named THEN station ELSE "none"]]
  /\ session' = [session EXCEPT ![<<o, "desktop">>] = Deleted(@)]
  /\ UNCHANGED <<env, mishaps>>

\* desktop.reset().
ResetDesktop(o) ==
  /\ opener[o].pc = "reset"
  /\ station' = Disposed(o)
  /\ opener' = [opener EXCEPT ![o] = [@ EXCEPT !.pc = "spawnName", !.desk = "none"]]
  /\ session' = [session EXCEPT ![<<o, "desktop">>] = Deleted(@)]
  /\ UNCHANGED <<env, mishaps>>

\* getCurrentDesktopName, where the child will have to be put.
SpawnName(o) ==
  /\ opener[o].pc = "spawnName"
  /\ \/ /\ opener' = [opener EXCEPT ![o] = [@ EXCEPT !.pc = "read",
               !.spawnDesktop = IF opener[o].named THEN station ELSE "none"]]
        /\ UNCHANGED <<station, session>>
     \/ opener[o].named /\ Fail(o, "unspecified")
  /\ UNCHANGED <<env, mishaps>>

\* winpty_free.
Free(o) ==
  /\ opener[o].pc = "open"
  /\ Goto(o, "closed")
  /\ session' = [session EXCEPT ![<<o, "primary">>] = Deleted(@)]
  /\ UNCHANGED <<env, station, mishaps>>

-----------------------------------------------------------------------------
(* The agents                                                              *)

Becomes(s, agent) == session' = [session EXCEPT ![s].agent = agent]

\* The process comes up.  A desktop agent makes its desktop, or ends; a primary
\* agent needs the desktop it was started on.
StartAgent(s) ==
  /\ session[s].agent = "starting"
  /\ IF s[2] = "desktop"
     THEN Becomes(s, "ready") \/ Becomes(s, "gone")
     ELSE Becomes(s, IF session[s].background /\ ~DesktopExists(s[1]) THEN "lost" ELSE "ready")
  /\ UNCHANGED <<env, station, opener, mishaps>>

\* connectToServer asserts that the pipe is there.
ConnectAgent(s) ==
  /\ session[s].agent = "ready"
  /\ IF session[s].pipe = "listening"
     THEN session' = [session EXCEPT ![s] = [@ EXCEPT !.agent = "connected", !.pipe = "connected"]]
     ELSE Becomes(s, "gone")
  /\ UNCHANGED <<env, station, opener, mishaps>>

\* The first packet: the desktop's name, or the names of the data pipes.
Tell(s) ==
  /\ session[s].agent = "connected" /\ session[s].pipe = "connected" /\ ~session[s].told
  /\ session' = [session EXCEPT ![s].told = TRUE]
  /\ UNCHANGED <<env, station, opener, mishaps>>

\* onPipeIo, pollControlPipe: the control pipe is closed.
LeaveAgent(s) ==
  /\ session[s].agent = "connected" /\ session[s].pipe = "closed"
  /\ Becomes(s, "gone")
  /\ UNCHANGED <<env, station, opener, mishaps>>

\* A crash, or an agent that hangs for ever.  A packet sent before can be read
\* all the same.
Mishap(s) ==
  /\ session[s].agent \in {"starting", "ready", "connected"}
  /\ mishaps < MaxMishaps
  /\ mishaps' = mishaps + 1
  /\ \/ Becomes(s, "crashed")
     \/ Becomes(s, IF DesktopExists(s[1]) /\ s[2] = "desktop" THEN "stuckWithDesktop" ELSE "stuck")
  /\ UNCHANGED <<env, station, opener>>

-----------------------------------------------------------------------------

OpenStep(o) ==
  \/ EnterStation(o) \/ MakeDesktop(o) \/ CreatePipe(o) \/ StartAgentProcess(o) \/ VerifyClient(o) \/ Connect(o) \/ FindDead(o)
  \/ Timeout(o) \/ ReadNames(o) \/ ResetDesktop(o) \/ SpawnName(o)

AgentStep(s) == StartAgent(s) \/ ConnectAgent(s) \/ Tell(s) \/ LeaveAgent(s)

Init ==
  /\ env \in Environments
  /\ station = "interactive"
  /\ opener = [o \in Openers |-> NoOpen]
  /\ session = [s \in Sessions |-> NoSession]
  /\ mishaps = 0

Next ==
  \/ \E o \in Openers : Open(o) \/ OpenStep(o) \/ Free(o)
  \/ \E s \in Sessions : AgentStep(s) \/ Mishap(s)

Spec == Init /\ [][Next]_vars

\* A thread that opens goes on, and a process that runs and does not hang too.
FairSpec ==
  /\ Spec
  /\ \A o \in Openers : WF_vars(OpenStep(o))
  /\ \A s \in Sessions : WF_vars(AgentStep(s))

-----------------------------------------------------------------------------
(* Properties                                                              *)

TypeOK ==
  /\ env \in Environments /\ station \in Stations /\ mishaps \in 0..MaxMishaps
  /\ opener \in [Openers ->
       [pc : Busy \cup {"new", "open", "failed", "closed"}, role : Roles,
        desk : {"none", "direct", "agent"}, named : BOOLEAN,
        spawnDesktop : Stations \cup {"none"}, error : Errors]]
  /\ session \in [Sessions ->
       [pipe : {"none", "listening", "connected", "closed"}, told : BOOLEAN, background : BOOLEAN,
        agent : Dead \cup {"none", "starting", "ready", "connected", "stuck", "stuckWithDesktop"}]]

\* The background desktop is there until the agent that was started on it has
\* come up: it is missing only if its own agent crashed, or the open has failed
\* ("if we close these handles too soon, then the desktop and windowstation
\* will be destroyed before the agent can connect with them").
DesktopThere ==
  \A o \in Openers :
    session[<<o, "primary">>].agent = "lost" =>
      opener[o].pc = "failed" \/ session[<<o, "desktop">>].agent = "crashed"

\* However winpty_open ends, it leaves the process on its own window station,
\* holds no desktop and no desktop agent, and after an error no session at all.
NothingHeld ==
  /\ \A o \in Openers :
       opener[o].pc \in {"open", "failed", "closed"} =>
         /\ opener[o].desk = "none"
         /\ session[<<o, "desktop">>].pipe \in {"none", "closed"}
         /\ opener[o].pc # "open" => session[<<o, "primary">>].pipe \in {"none", "closed"}
  /\ station # "interactive" => opener[station].pc \in Busy /\ opener[station].desk = "direct"

\* A session whose agent is on a background desktop spawns its child on the
\* desktop the caller was on, and every other session on its agent's own.
SpawnsOnOwnDesktop ==
  \A o \in Openers :
    opener[o].pc = "open" =>
      opener[o].spawnDesktop =
        (IF session[<<o, "primary">>].background THEN "interactive" ELSE "none")

\* The agent's desktop is there when it comes up, and the child's is the caller's.
DesktopsRight == TypeOK /\ DesktopThere /\ SpawnsOnOwnDesktop

\* winpty_open returns, whatever its agents do: every wait has the time limit.
OpenEnds == \A o \in Openers : (opener[o].pc \in Busy) ~> (opener[o].pc \notin Busy)

\* No agent outlives what it was started for: those of a failed open, a desktop
\* agent after the open and the agent of a freed session end, at whatever point
\* of starting up they are, unless they hang.
Wanted(s) == opener[s[1]].pc \in Busy \/ (opener[s[1]].pc = "open" /\ s[2] = "primary")
Living(s) == session[s].agent \in {"starting", "ready", "connected"}
AgentsEnd == \A s \in Sessions : ~Wanted(s) ~> ~Living(s)

\* Neither a caller nor an agent is left hanging.
OpenSettles == OpenEnds /\ AgentsEnd
=============================================================================
