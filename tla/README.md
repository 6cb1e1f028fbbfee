# Verification of winpty, the program in this repository

The repository is a collection of machine-setup scripts and the full source of
one program, **winpty** (`src/etc/windows/winpty`), which gives a Unix-style
terminal a Windows console program to talk to. winpty is the part with
processes, threads and a protocol, and most of this project models it. Of the
scripts those that replace a user's dotfiles are modelled too: they are stopped
and run again, and have something to lose. Paths below are relative to
`src/etc/windows/winpty/src` unless they start with `src/`.

1. [The system](#the-system)  2. [The modules](#the-modules)
3. [The runs](#the-runs)  4. [Fairness](#fairness)
5. [The proofs](#the-proofs)  6. [What is not modelled](#what-is-not-modelled)
7. [The plan](#the-plan)  8. [Running it](#running-it)

## The system

```
  terminal            client process                        agent process          console
 +--------+  tty   +------------------+   CONIN (bytes)   +-------------------+   +---------+
 |  user  |<------>| unix-adapter     |------------------>| ConsoleInput      |-->| input   |
 +--------+        |  InputHandler    |   CONOUT [CONERR] | Terminal, Scraper |<--| screen  |
                   |  OutputHandler   |<------------------|                   |   | buffer  |
                   |  main loop       |   control (RPC)   | Agent + EventLoop |   |         |
                   |  libwinpty ------|<----------------->| NamedPipe         |-->| child   |
                   +------------------+                   +-------------------+   +---------+
```

| component | state it keeps | operations | interacts with | what is hard | what makes it correct |
|---|---|---|---|---|---|
| event loop (`agent/EventLoop.cc`) | the pipes in creation order, `m_exiting`, the time of the last poll | `run`, `createNamedPipe`, `shutdown` | calls `onPipeIo` and `onPollTimeout` of the agent | the order of pipes, handlers and timer in one pass; what a pass that made no progress leaves behind | everything read is handled in the same pass; the loop ends only when told to |
| named pipes (`agent/NamedPipe.cc`) | input and output queue, the pending overlapped operation of each worker, the handle | `openServerPipe`, `connectToServer`, `serviceIo`, `write`, `read`, `bytesToSend`, `closePipe` | the kernel's pipe; the owner's handlers | a write that is neither queued nor done; a close that cancels it; an error in the pass of the last data | bytes arrive in order, none twice, and none is lost by a close that waited for `bytesToSend() == 0` |
| agent (`agent/Agent.cc`) | the child's handle, the auto-shutdown flags, "closing output pipes" | setup packet; RPC handlers; `onPollTimeout`; `autoClosePipesForShutdown`; `~Agent` | all of the above, the scraper, the console input | the child's exit races the polls, the pipe buffers and the client that has not connected | no output lost, terminal left in order, the agent ends when and only when it should |
| console input (`agent/ConsoleInput.cc`, `InputMap.cc`, `DefaultInputMap.cc`) | bytes not yet decoded, when the last came, DSR outstanding, mouse buttons, double-click state | `writeInput`, `flushIncompleteEscapeCode`, `setMouseInputEnabled` | CONIN; sends DSR through CONOUT; writes console input records | escape sequences cut at any byte, the timeout that tells ESC from a sequence | every key delivered once and in order, a lone ESC after at most one timeout |
| scraper (`agent/Scraper.cc`) | the window it tracks, the sync marker, the lines it has sent | `scrapeBuffer`, `resizeWindow`, direct and scrolling scrape | the console buffer, the terminal | the buffer scrolls while it is read | the terminal is brought up to date with the window, scrolled-off lines in order |
| terminal (`agent/Terminal.cc`, `ConsoleLine.cc`) | remote line and column, cursor hidden, lines sent, colour, mouse mode | `reset`, `sendLine`, `showTerminalCursor`, `hideTerminalCursor`, `finishOutput`, `enableMouseMode` | CONOUT | its copy of the terminal's state drifts from the terminal's | the terminal shows what was sent, its cursor and modes as recorded |
| libwinpty (`libwinpty/winpty.cc`) | control pipe, I/O event, agent process, mutex, time limit | `winpty_open`, `winpty_spawn`, `winpty_set_size`, `winpty_get_console_process_list`, `winpty_free` | the agent by packets on the control pipe | a reply that comes after its call timed out; an agent that dies at any point | a call returns the answer to its own request or an error, and after an error of the pipe no call uses it again |
| unix adapter (`unix-adapter/*.cc`) | completion flags of the handlers, the wakeup pipe, the saved terminal mode and size | the main loop, `InputHandler`, `OutputHandler`, `WakeupFd`, SIGWINCH handler | libwinpty, the tty | threads that finish while the main loop is between `reset` and `select`; two output handlers ending at different times | no wakeup lost; all output copied; the terminal mode restored |
| packets (`shared/Buffer.cc`, `AgentMsg.h`) | a byte buffer and a read position | `put*`, `get*`, `assertEof` | control pipe | a packet cut at any byte | what is put is what is got; a short packet is an error, not a read past its end |
| background desktop (`shared/BackgroundDesktop.cc`, `agent/AgentCreateDesktop.cc`) | a window station, a desktop, the original station | constructor, `dispose`, move; the agent that makes one (`CreateDesktopLoop`) | `winpty_open` | failing half way with the process moved to the new station | the original station is always restored |
| dotfile scripts (`src/src/my/install_mydotfiles.sh`, `src/lib/create_symbolic_link.sh`, `src/lib/download_dotfiles.sh`, `src/cygwin_setups/cygwin_setup_all.sh`) | the home directory, the clone, the backups | clone, back up, remove, link | git, each other by what they leave | stopping half way and running again, another script's links, the same backup name twice | what the user wrote is never lost unless given up; a complete run links everything |
| machine setup scripts (`src/bin`, `src/cygwin_setups`, …) | — | package installation | — | — | — |

## The modules

| module | models | state ↔ code |
|---|---|---|
| `NamedPipe` | `agent/NamedPipe.cc` and the kernel's pipe behind it | `stream` is all that `write` was given; `wired`, `pending`, `got` are positions in it. `m_outQueue` is the part after `wired`, the pending `WriteFile` the last `pending` items before it. `agentEnd`/`peerEnd` are the two handles. |
| `Agent` | `agent/EventLoop.cc`, `agent/Agent.cc`, and of `ConsoleInput`, `Scraper`, `Terminal` what the session's shutdown depends on; the console's programs; the client | `pc` is the place of the agent's one thread: a worker of `serviceIo`, a handler, or a stage of `onPollTimeout`. The other variables have the names of the members. |
| `TerminalSession` | nothing of the code: what winpty promises a client | the abstract specification that `Agent` implements |
| `AgentProofs` | theorems about `Agent`: pipes, child, queues, mouse mode; that it implements `TerminalSession` | |
| `MCAgent` | the pipe sets and requests for TLC | |
| `LibWinpty` | the RPC calls of `libwinpty/winpty.cc` on a `winpty_t` that several threads share | `mutex` and `controlPipe` are the members; `pc` is where a thread is: waiting for the mutex, in `writePacket`, in `readPacket`, or with the whole packet. `requests` and `replies` are the two directions of the control pipe, `outbox` the agent's output queue for it. |
| `RpcSession` | nothing of the code: atomic calls | the abstract specification that `LibWinpty` implements |
| `LibWinptyProofs` | theorems about `LibWinpty` | |
| `MCLibWinpty` | the threads and kinds of call for TLC | |
| `UnixAdapter` | `unix-adapter/main.cc` from the reading of the size to the exit code, `InputHandler.cc`, `OutputHandler.cc`, `WakeupFd.cc`, `writeAll`; the terminal; the agent as the adapter sees it | `main` and `pc` are the places of the threads; `completed` the handlers whose `m_threadCompleted` is set; `woken` and `inputWoken` say that a byte is in the wakeup's pipe; `sz` is main's `winsize`. |
| `UnixAdapterProofs` | theorems about `UnixAdapter` | |
| `MCUnixAdapter` | the sets of output pipes for TLC | |
| `Scraper` | `agent/Scraper.cc` in scrolling mode, `largeConsoleRead`, `ConsoleLine`; the console's buffer and the programs that write to it; the terminal as a list of lines | `lines`, `top`, `cursor` are the console; `pc` is where `syncConsoleContentAndSize` is between two calls on it, `info` and `readBuffer` what it has read; the rest has the names of the members. |
| `ScraperProofs` | theorems about `Scraper` | |
| `MCScraper` | `Scraper` for TLC | |
| `InputMap` | `agent/InputMap.cc`: the tree of escape sequences, with the move of a node's children from list to table | a node is a record, with a field for each member of the union |
| `DefaultInputMap` | `agent/DefaultInputMap.cc`: the sequences of the known terminals and their expansion | a row is a record; similar rows are made by a set constructor |
| `UnicodeEncoding` | `agent/UnicodeEncoding.h`: UTF-8 and UTF-16 | numbers; shifts and masks are divisions and remainders |
| `ConsoleInput` | `agent/ConsoleInput.cc`, `ConsoleInputReencoding.cc`; the terminal that types and answers a DSR; the programs that change the console's input mode | `byteQueue`, `dsrSent`, `mouseButtonState` and `doubleClick` are the members; `wire` is CONIN, `events` what the console was given, `late` whether the 1000 ms have passed |
| `MCConsoleInput` | the users, modes and answers for TLC | |
| `ConsoleFont` | `agent/ConsoleFont.cc`: the choice of a font | tables of sizes; a set of names stands for the fonts installed |
| `ConsoleResize` | `Scraper::resizeImpl`, the choice between scrolling and direct mode, `Win32ConsoleBuffer` and `Win32Console`; the programs that write meanwhile | `con` is the console's buffer, window, font and cursor; `pc` the step of the resize; the rest has the names of `Scraper`'s members |
| `ConsoleResizeProofs` | theorems about `ConsoleResize` and `ConsoleFont` | |
| `MCConsoleResize` | kinds of console and sizes for TLC | |
| `ConsoleLine` | `agent/ConsoleLine.cc` | a line is a length and its cells |
| `Terminal` | `agent/Terminal.cc`: which bytes bring a line to a terminal of which only what was sent is known | a `Terminal` is a record of the members and of the operations written |
| `TerminalColor` | the colours of a cell as SGR parameters (`agent/Terminal.cc`) | an attribute is a pair of sets of flags |
| `RemoteTerminal` | the user's terminal, which performs the operations (external) | rows of cells, a cursor with a pending wrap, a current colour |
| `Screen` | `directScrapeOutput`, `scrollingScrapeOutput` at the level of cells; console, agent's `Terminal` and `RemoteTerminal` composed | `con` the console, `sc` the scraper's lines and its `Terminal`, `remote` the terminal |
| `ScreenInvariant` | the inductive invariants of `Screen`, part by part | |
| `ScreenProofs` | theorems about `Screen`, `Terminal` and `ConsoleLine` | |
| `MCScreen` | glyphs and modes for TLC | |
| `AdapterSetup` | `unix-adapter/main.cc` before and after the session: arguments, `findProgram`, the command line, the environment, the raw mode | functions on words, paths and streams |
| `Open` | `winpty_open`, `winpty_free`, `setupBackgroundDesktop`, `shared/BackgroundDesktop.cc`, `agent/main.cc` and `AgentCreateDesktop.cc`: threads that open, the agents they start, the pipes between | `opener[o].pc` is a place in `winpty_open`; `session[s]` a control pipe with its agent; `station` who holds the process's window station |
| `Buffer` | `shared/Buffer.cc` and the packets both sides write and read | a packet is a sequence of bytes, a byte a digit |
| `SharedStrings` | `shared/StringBuilder.h`, `GenRandom.cc`, `DebugClient.cc`; the environment block | a text is a sequence of characters |
| `OpenProofs` | theorems about `Open` | |
| `MCOpen` | environments for TLC | |
| `Dotfiles` | the four scripts above, stopped anywhere and repeated; the user who writes files | `home` what is at each name, `binDir` what is at `~/bin`, `backup` the copies by name and stamp, `run` the script running, its place and the names its `rm` failed on; each script has its own list of names |
| `DotfilesProofs` | theorems about `Dotfiles` | |
| `MCDotfiles` | names for TLC | |

**Steps.** The agent is one thread and everything else (the client, the child,
other console programs, the kernel) runs beside it, so a step of the agent is
what it does between two points at which another process can be noticed: one
I/O call, one handler, one stage of the poll. `Top → … → Poll("check")` is one
pass of `EventLoop::run`: control, CONIN, CONOUT, CONERR, then the timer.
Whether the 25 ms have passed is a choice (`SkipPoll` or `PollCheck`). The
three stages of the poll are split exactly where a race matters: the choice
whether to scrape, the exit check and the scrape in the order of
`Agent.cc:475-512`.

**Data.** What programs draw is a count of changes per screen buffer; a scrape
writes one "screen" item which stands for all bytes that bring the terminal up
to that count. Mouse mode, DSR and RPC replies are items of their own. Bytes
typed are "keys", an unfinished "escape", and a "dsrReply".

**The client** of the model does what the contract of `winpty.h` allows: it
connects when it likes, reads or does not, closes pipes, issues one call at a
time, calls `winpty_spawn` once, and may hang up at any time. Liveness
properties assume a client that reads (below); the safety properties do not.

`LibWinpty` is the other end of the control pipe in detail. There the agent is
reduced to its end of the pipe (it handles requests in order, answers when it
likes and may die at any point) and the client is what `Agent` leaves out:
threads, the mutex, a reply that arrives in pieces, the time limit, and the
closing of the pipe by `~RpcOperation`. A reply is two pieces, so that a
time-out may come between them; a piece names the call it answers, which the
code's packets do not: the number is what the properties look at and no action
does. A cancelled read or write may have happened all the same
(`PendingIo::~PendingIo`), which the two time-out actions leave open.

`UnixAdapter` is the program a user sees, and a client of both. A thread's step
is one call that another thread, the terminal or the agent can notice: the
assignment of a flag and the `set()` of the wakeup behind it are two steps, and
so are the `reset()` and the look at the flag. `sent` minus `read` is what is
in an output pipe, `read` minus `shown` what is in its thread's buffer. The
agent of `Agent` is reduced to: it writes what is drawn, closes a pipe once the
child has exited and everything is written (`NoOutputLost` is what justifies
this), exits when its control pipe is closed, and may crash. The size is a
number that goes up with each resize. SIGWINCH is ignored until it is
registered; an interrupted `read` or `select` of the input thread is one that
happens while the signal is pending.

`Scraper` goes inside what `Agent` takes as one step. A step is one call on the
console with what is computed up to the next: reading the position, looking for
the marker, reading the rectangle, the two checks, putting down a marker,
sending. Programs may do anything between two steps unless the console is
frozen, which on Windows before 10 it is throughout. A line is a number: 0 is
blank, a marker is negative. `scrolledCount` turns a row into the number of the
line for the terminal, and `shown` holds what was last sent for each number.
Some variables are the model's own: `fell` counts the lines scrolled out, so
that `fell + row` names a line for good and `written` records its text; `lost`
says that what was tracked is gone (a clear, or the marker scrolled out), until
the scraper notices and resets; `torn` says that a clear came during a scrape; `origin` and `base` tie the two numberings
together since the last reset. Columns, widths and colours are in `Screen`, the sizes of
window and buffer in `ConsoleResize`.

`ConsoleInput` has bytes as they are: decoding is what could be wrong. A user is
a sequence of tokens (keys, characters, mouse events), each with its bytes and
the keys they should arrive as in either input mode; a piece of the wire is one
byte or all there are, a DSR reply may come between any two tokens, a long wait
anywhere. A time-out in the middle of a key, or a change of mode, is one of
`MaxDisturbances`; it damages what is on its way and the properties start again
behind it.

`ConsoleResize` has no text, only what the geometry depends on: the rows of the
cursor and the marker and how far down lines are dirty. Its steps are those
between which the console is unfrozen or a call may fail. Three variables are the
model's own: `interfered` (a program has done something since the info was read),
`torn` (it moved the window up before the scrape was made with that info) and `crept`
(by how many rows resizes have moved the window up since the marker was put down). `Screen` has the text
and takes a scrape as one step; the buffer does not overflow in it. The three
modules split `Scraper.cc` along these lines, and each names the others.

`Open` reduces an agent to how far it is in starting up and how it ends. One
agent may crash or hang at any point (`MaxMishaps`), an agent's file may be
missing, a desktop or a station may be refused.

`InputMap`, `TerminalColor`, `Buffer`, `SharedStrings`, `AdapterSetup` and
`ConsoleFont` have no state. Their properties are statements over all small
inputs. They are checked in the initial states of the module they belong to:
`…AtStart` is `Init => …`.

## The runs

| run | configuration | what it asks |
|---|---|---|
| `agent_safety` | `AgentSafety.cfg` | One output pipe that buffers one item, two changes, one mouse-mode change, any spawn flags or one other call. `NoOutputLost`: a client that reads to the end has all that was on the screen at the exit; `MouseOffAtEnd`; `PipesStayConnectable`; `KillsOnlyWhenHungUp`; and `ImplementsSession`: the whole refines `TerminalSession`. |
| `agent_input` | `AgentInput.cfg` | Two pipes out, of which CONERR is read; typing, DSR replies and one request. `NothingLeftQueued`: a pass of the loop handles all it read. `InputTaken`: what is typed reaches the agent, also behind a close. |
| `agent_liveness` | `AgentLiveness.cfg` | Under `FairSpec`: `OutputEnds`; `AgentGoesAway` (by itself after the child if so asked, and always once the client hangs up, leaving no child); `CallsReturn`. |
| `lib_session` | `LibWinptySession.cfg` | Two threads, three calls of any kind, an agent that may hang or die. `AnswersOwnCall`; `ClosedOnlyForCause`; the refinement of `RpcSession` (`ImplementsSession`); `CallsReturn`. |
| `adapter` | `Adapter.cfg` | CONOUT only, one piece of output, two of input, two resizes; terminal and agent may fail at any point. `AllOutputCopied`; `ExitCodeKnown`; `SessionEnds`: the adapter ends when the child, the terminal or the agent has; `SizeFollows`: the console gets the last size, also when a resize comes while another is being set. `StartsAsAskedAtStart` over all command lines of three words: options end at the program; the program gets its words back from the command line as Windows takes it apart; `findProgram` takes the first file there is; the child has the debugging variables and no TERM; the terminals' modes are restored. |
| `scraper_scrolling` | `ScraperScrolling.cfg` | Windows before 10 and 10, one clear, one rewriting, at any point. `TrackingSound`: the scraper stays inside what it has read (`NoAssertionFails`), clears the terminal only if what was tracked is gone (`NoNeedlessReset`) and keeps its markers above the window (`MarkersAboveUnlessTorn`). `NoLineSkipped`: what has left the window is in the scrollback under its number. `OnlyFloodsLoseTrack`: unless the console is cleared, that takes `FloodSize` lines between two scrapes. `WindowSent`: a scrape that was not disturbed brings the whole window up to date. `TerminalCatchesUp`: in the end terminal and window agree. |
| `scraper_race` | `ScraperRace.cfg` | `MarkersStayAbove` is **violated** by a clear in the middle of a scrape: see Findings in `PROJECT.json`. |
| `console_input` | `ConsoleInput.cfg` | `KeysAsTyped`: every key arrives once, in order, as the one it is, whatever pieces its bytes come in and whatever DSR replies come between. `RecordsTrue`: a modifier's press and release surround its key (`ModifiersTrue`), mouse records agree with the buttons held (`ButtonsFollow`), a double click has two clicks (`DoubleClickJustified`), and an outstanding DSR has its answer on its way (`AnswerOnItsWay`). `QueueDrains`: nothing waits for ever for a byte that does not come. `TablesRightAtStart`: the tree is the tables, no two rows of which clash, and what is re-encoded for virtual terminal input reads as the same key. |
| `console_resize` | `ConsoleResize.cfg` | Five kinds of console. `WindowAndFontRight`: the new console is recognised and its window put back (`DetectionRight`), the size is reached (`SizeHonoured`), dirty lines stay visible, the marker stays above the window; fonts are wide enough, and more columns never mean a larger one. `CursorStaysVisible`. `ResizeSettles`: after direct mode the console gets its size back, and it is always let go again. |
| `terminal` | `Terminal.cfg` | `ScreenRight`: after a scrape the terminal has the console's characters and colours (`ShowsConsole`), what `Terminal` believes of the terminal is so (`BeliefTrue`), its cursor is where and as visible as the console's (`CursorShown`). `TextRightAtStart`: surrogates and double-width halves never tear a character, different colours look different. `PlainAppends`: a plain terminal is only appended to. |
| `open` | `Open.cfg` | Two threads, one mishap, eight environments. `NothingHeld`: however `winpty_open` ends, the process is on its own station and holds no desktop, no desktop agent and, after an error, no session. `DesktopsRight`: the agent's desktop still exists when it comes up, and its child is put on the caller's. `OpenSettles`: every open returns, no agent outlives its purpose. `ConversionsRightAtStart`: packets arrive as they were put and nothing else decodes, both sides agree on each packet's format; numbers, pipe names, environment blocks and debugging flags are what they stand for. |
| `dotfiles` | `Dotfiles.cfg` | Two runs of any of the four scripts, two edits of the user. `NothingLost`: what the user wrote is in place, in a backup or in a clone, unless written over or given up. `InstallComplete`: an installation that is not stopped links every name but the directories `rm -rf` could not remove, no `ln` is refused except by a file that could not be removed or by something else at `~/bin`, and the links lead somewhere unless `git clone` failed. |

**Bounds.** `IoSize = 1` makes every item a write of its own, and `Quota` of 0
or 1 leaves writes pending as often as possible: the cases of a large buffer
are those in which the client reads at once. `MaxScreen = 2` is needed for
output drawn both before and after the scrape that the exit races; one
`MaxToggles` turns mouse mode on, and the initial mode (a choice) makes the
other direction. `MaxCalls = 1` is the spawn, or another call on an agent with
no child. Two threads and three calls give a call that times out, one that waits
for the mutex meanwhile and one made afterwards; the proofs lift both bounds.
In the adapter two resizes are one that comes while another is handled; the
piece of output may be in the pipe, in the thread's buffer or with the terminal
when the session ends.
The scraper's buffer has the smallest size in which a marker is put down, renewed
and scrolled (`ScraperAssumption`, which the code's 3000, 16, 200 and at most 2000
rows satisfy); seven lines fill it, scroll the marker and flood it. `FloodSize` is
2545 lines for the code's numbers and a window of 25 rows. Because of the finding,
`NoLineSkipped`, `NoNeedlessReset`, `MarkersAboveUnlessTorn` and
`OnlyFloodsLoseTrack` are claimed until a clear comes in the middle of a scrape
(`torn`); on Windows before 10 none can. The proofs lift the bounds on the buffer, the
window, the marker and the programs.
The users of `console_input` type each kind of token (a plain key, a lone Esc, an
Esc before another key, sequences that are prefixes of others, three mouse
encodings, UTF-8 of several bytes) beside those that could swallow it. The user
waits while `MaxWire` bytes are on their way, so that the agent reads one byte, or
all there are, with a boundary of two tokens among them or not. The replies
typed are `ESC [ 1 ; 1 R`: one like `ESC [ 1 ; 5 R` (a cursor in row 1, columns 2
to 8) right behind a lone Esc is read as Alt and a modified F3. The code relies
on a DSR being sent only with complete keys before it (`Agent.cc:234-237`).
In `console_resize` the buffer of 14 rows, with a marker of 1 and a margin of 1,
keeps the order of the code's constants (`ResizeAssumption`); two resizes and two
writings of a program are those in the middle of a resize and between two;
`ConsoleResizeProofs` lifts every bound. Three cells and two
rows in `terminal` have a double-width character at each place, also cut by the
edge, a widened and a narrowed line and a scrolled one. In `open` a second thread
is there to meet the first on the station; one mishap is enough, since an error
ends an open; `OpenProofs` lifts both bounds. Two runs in `dotfiles` are every script after every other stopped
anywhere, in the same minute or a later one; its three names are
a dotfile of every list but `create_symbolic_link.sh`'s (`minttyrc`), one of every list but
`cygwin_setup_all.sh`'s (`vim`), and a bin file; both dotfiles may be directories.

Deadlock is not checked (`CHECK_DEADLOCK FALSE`) except in the scraper, which
polls for ever: a session that is over stops, and the bounds stop the environment.

Three limits met while modelling are part of the models and of no property. A reply
queued in the pass in which the agent exits is never written (`Agent.cc:531`,
`EventLoop.cc:41`). The adapter with `-Xconerr` leaves its loop when the first
handler has completed (`main.cc:699`) and may lose the rest of the other pipe:
`AllOutputCopied` is claimed for one output pipe. A process list longer than the
caller's buffer closes the session (`winpty.cc:953-959`); `ClosedOnlyForCause` and
`FormatsAgree` say so.

## Fairness

`AgentFairness` is weak fairness of the agent's thread, which never blocks for
longer than the poll interval (`EventLoop.cc:66`), and strong fairness of
`PollCheck`, since time passes while the loop goes round. `ClientFairness` is
that of a client which connects to its output pipes, reads them to the end and
waits for its calls, as the unix adapter's `OutputHandler` thread and
`tests/trivial_test.cc` do. Nothing makes the child exit, the user type or the
client hang up.

`LibWinpty`'s `FairSpec` is weak fairness of each thread's step: waits have a
time limit (`winpty.cc:238`), so a thread that is scheduled does not stay in
one. Nothing is assumed of the agent. The mutex is not assumed fair: a call
that never got it would be starved by an endless sequence of others, which the
finite number of calls leaves out.

`UnixAdapter`'s `FairSpec` is weak fairness of each thread, of the delivery of
the signal and of each duty of the agent that `Agent` shows it to fulfil.
`Adapter.cfg` checks the safety properties under it too: fairness forbids no
finite behaviour. A terminal that stops reading for ever is left out: the write would block, and
`pthread_join` with it. Nothing makes the child exit or the user type.

`Scraper`'s `FairSpec` is weak fairness of the scraper's thread. The programs
come to rest because the bounds stop them: `TerminalCatchesUp` speaks of what
happens then. `ConsoleResize`'s is the same of the thread in a resize or a poll;
`BackToSize` assumes in its formula that programs leave the buffer's height alone
from some point on.

`ConsoleInput`'s `FairSpec` has three parts: time passes (`LongWait`); the agent's
poll comes once it has (`Poll` is called from `onPollTimeout`, `Agent.cc:475-480`);
and bytes on the wire are read one by one at the least (`WriteInput(1)`). Nothing makes the
user type or the terminal answer a DSR: `QueueDrains` holds without an answer.

`Open`'s `FairSpec` is weak fairness of each opening thread, whose waits have the
time limit (`winpty.cc:232-257`), and of each agent's step unless it hangs, which
is a state of the agent and not a lack of fairness.

## The proofs

`AgentProofs` proves for every `IoSize`, `Quota`, every bound, with and without
CONERR and plain mode, from the assumptions named in `NamedPipe` and `Agent`:

* `TypeCorrect`: `Spec => []TypeOK`.
* `Invariance`: `Spec => []IInv`.
* `OutputIsComplete`, `DataPipesAreFound`, `ChildIsSpared`: the invariants
  `NoOutputLost`, `PipesStayConnectable` and `KillsOnlyWhenHungUp`.

None of the three is inductive. `NoOutputLost` speaks of a client at the end of
a pipe; the chain that leads there is spread over four steps of three actors
and `IInv` names each link: `EofMeansRead` (the end is seen only after
everything handed over was read), `ClosedFlushed` (the agent closes a pipe only
with everything handed over), `ClosingScraped` (shutting down means the child
has exited and that poll's scrape has been or is about to be made),
`ScreensShown` (what was scraped is in the stream), and below them
`PipeBounds`, `ServedConnected` (a worker runs on a connected pipe only),
`SpawnOnce` (there is one spawn request, so no child starts during the
shutdown) and `ExitReason`. The proof first shows what a step can do to one
pipe (`PipeMove`), to the loop (`LoopMove`), to the shutdown flags, the child,
the scraped counts and the request queues, each by a case split on the actions;
each part of `IInv` then follows from those moves and never looks at an action.

Three more theorems go on from `IInv`: `NothingIsLeftQueued`, by the
invariant `Underway` (what is in a queue has its handler running, or the worker
before it with progress made), and `MouseIsOffAtEnd` (`MouseOffAtEnd`), by
`MouseKnown`: the mode recorded is the one last written, the poll that starts the
shutdown turns it off, and CONOUT closes with that handed over.
The third is `SessionIsKept`, `Spec => ImplementsSession`. A terminal's
view is the largest change it was given, so the proof needs that no item is ahead
of its screen (`NoneAhead`), that more items never show less (`ViewMove`), and
`ClosedFlushed` for the terminal's end. Every other step is a stutter or the
child's (`UnseenSimulated`).

`LibWinptyProofs` proves for any set of threads and any number of calls:
`TypeCorrect`, `Invariance`, `RepliesAreNotMixed` (`AnswersOwnCall`),
`CallsFindACleanPipe` (`PipeCleanBeforeCall`) and `CallsAreAtomic`, the
refinement of `RpcSession`. The invariant's core is `InFlight`: with the pipe
open, everything in it belongs to the thread that holds the mutex, and the
packet of its answer is in one of five places between the agent's queue and
the thread's buffer; with the pipe closed, at most one request is left, the
one that may take effect late. `ReturnStep` shows once what every end of a call
preserves; the time-outs and errors are its instances. `PipeIsClosedForCause`
(`ClosedOnlyForCause`) needs one invariant more, `AnswersFit`: what is on its way to a
thread that reads is an answer to its kind of call, so that no length or content is
ever refused.

`UnixAdapterProofs` proves for any set of output pipes and every bound:
`TypeCorrect`, `Invariance` and `ExitCodeIsKnown` (`ExitCodeKnown`); and for a
single output pipe `OnePipeIsCopied` (`AllOutputCopied`), which is false for two.
Neither property is inductive. `WhyComplete` says why a handler has completed
while main is in its loop: a failure or a pipe the agent has finished; with
`FinishedComplete`, `ThreadsEndAtEof` and `OutputInOrder` it follows what was
drawn through pipe, thread and terminal; `ThreadsWithinMain` places the threads
in main's life. Each part has a lemma, which treats main, the input thread, the
output threads and everything else in turn.

`OpenProofs` proves for any threads, any environments and any number of agents that
crash or hang: `TypeCorrect`, `Invariance`, `NothingLeftHeld` (`NothingHeld`) and
`DesktopsAreRight` (`DesktopsRight`). The invariant says of each call what it has
made so far: `Untouched` (a session is made in its turn), `Stages` (whose desktop it
is, when it has a name), `DesktopKept` (from the name to `desktop.reset()` the
desktop exists or its own agent has crashed), `ComingUp` (an agent connects when it
has come up), `Names` and `LetGo`; and of all of them `DirectAlone` and
`StationHeld`: the open that has changed the window station is the only one at work.
That is what makes the name `getCurrentDesktopName` returns the caller's.
`OthersKeep` shows once that a step leaves the other calls as they were.

`DotfilesProofs` proves for any lists of names, any runs, texts and minutes:
`NothingIsLost` (`NothingLost`) and `InstallIsComplete` (`InstallComplete`). A step
can lose a text in two places, an `rm` and a `cp` onto an earlier backup.
`RemovedIsKept` says that what is removed is in the backup or was given up, and
`OldBackupsGivenUp` that the file a backup may still write over was given up when
the script started; the minute in the name makes that enough (`BackupsDated`), and
`DirsCopyIn` keeps a directory from meeting anything but a directory.
`Linked` says that the names up to the one the script is at are links or directories
its `rm -rf` failed on, and `BinIsThere` that what is in `bin` has a directory to be
in. The proof needs that no name is twice in a script's list and that there is a bin
file, which holds of the scripts' lists and is assumed in `DotfilesAssumption`.

`ScraperProofs` proves for any buffer, window, marker and margin that satisfy
`ScraperAssumption`, and programs that print, rewrite and clear any number of times
between any two steps: `TrackingIsSound` (`TrackingSound`), `NoLineIsSkipped`
(`NoLineSkipped`), `OnlyFloodsLose` (`OnlyFloodsLoseTrack`) and `WindowIsSent`
(`WindowSent`). The invariant has three layers. Always: the window fits
(`WindowFits`), what `Find` computed fits (`JobFits`, `TracksFit`), the marker's text
is in one place of `SYNC_MARKER_LEN` rows at or above `syncRow`
(`MarkerInOnePlace`, so that `findSyncMarker` can find it in one row only), and
`m_bufferData` has what the terminal was sent (`SentRecorded`, where the remainder by
`BUFFER_LINE_COUNT` takes no two of the lines still in use to one place). Until a clear
in the middle of a scrape: at the window and below the console has what was written
(`WrittenBelow`), and the marker is near enough to what is still to scrape
(`MarkerClose`, from which `FloodSize` comes). Until the marker is lost as well:
`MarkerNow`, the row it has scrolled to, has it (`TrackedInv`), and each line is in the
terminal (`SentAsWritten`), in the buffer (`StillToScrape`), or has been read with
nothing scrolled since (`ReadAsWritten`, `InStep`). `CheckMarker` is what gives
`InStep` to a scrape that was not frozen. The proof found that
`OnlyFloodsLoseTrack` needs `torn`: after a clear in the middle of a scrape the
marker is put at a row the window has left, the next scrape finds the window moved
up and resets, and whether to put down a new marker was decided from the old one, so
that there is none although the window may be far down; fewer lines than a flood
then lose track. TLC shows it in a buffer of seven lines.

`ConsoleResizeProofs` proves for any consoles, desktop, sizes and constants that satisfy
`ResizeAssumption`, any number of resizes, and programs that print, clear, go full
screen and back between any two steps: `WindowIsPlaced` (`WindowAndFontRight`),
`CursorIsVisible` (`CursorStaysVisible`) and `FontsAreChosenWell`, which rests on
`FontChosenWell`, the same for every number of columns and not only the 330 the tables
are tried with. `IInv` follows a resize: the info and the console agree until a program
interferes (`Unmoved`), a resize has the mode its info calls for (`Held`), the sizes it
works with are those of the font it has set (`JobRight`), and with them each call is
one the console accepts, so that `SizeHonoured` and `DirtyLinesVisible`, which speak of
the end, are kept by the last step. `ResizeBufferKeeps` shows that a buffer that
cannot have its size is wide enough all the same. The marker takes two parts:
`NotTorn` says where it is, `Kept` that `syncRow` knows it. A marker that has scrolled
to row 0 is followed by a new one in the next scrape, and never taken for none: that
needs the buffer to be as much larger than the window as `ResizeAssumption` says (in
the code, 3000 lines against 2000 and 632). The proof found `MarkerAboveWindow`
false as it had been stated, which TLC then showed with one program step more than the
run has: after a clear between the info and the scrape the marker is put down in or below
the window (`torn`), and in the new console each resize that makes the buffer wider may move
the window up by a row, so that after more resizes than the margin has rows it is
beside the marker (`crept`).

`ScreenProofs` proves for any sizes of window, buffer and terminal, any glyphs that
satisfy `GlyphAssumption`, plain or not, coloured or not, and any number of writes,
clears, changes of mode and resizes: `ScreenIsRight` (`ScreenRight`) and `PlainIsAppended`
(`PlainAppends`). The invariants are in `ScreenInvariant`. `ShowsConsole` speaks of
what a whole scrape leaves; what makes it so is that the lines the scraper does *not*
send are on the terminal already. `IInv` says so: of each line it keeps, the row where
the terminal has it shows what was last sent of it (`LinesShown`, which is `DirectShows`
or `ScrollShows`), a longer line that was sent earlier included, as far as
`ConsoleLine` may compare with it; the counts of lines agree with one another
(`Counted`); what `Terminal` believes is true (`Known`); and after a scrape the lines
remembered are the console's (`UpToDate`). The proof goes up the calls.
`CharactersChain`: `Characters` takes each cell once, in order. `DrawnHolds`: what
`Drawn` appends is kept or, for the blanks at the end, given up for one erasure, and a
terminal that performs it shows the line. `SendHolds`: `sendLine` scrolls as far as the
line is below the cursor, changes its row only, and leaves the terminal known.
`DirectFold` and `SweepHolds`: after each line of a scrape, those before it are
remembered and shown, in the second case though the terminal scrolls meanwhile.
`ScrapedHolds`: what a scrape leaves from whatever mode and window it was called in.
`DirectResized` and `ScrollResized`: the same of a resize, where a terminal that was cut
has lost cells the scraper remembers. That a plain terminal keeps what it has got
(`AppendingStays`) follows from what is sent to it, characters, colours and line feeds,
only while its cursor is not moved back, which a narrower window does. `PlainInv` has
what makes the next `sendLine` harmless then: in direct mode the line the cursor is in has
been sent up to blanks of one colour (`Ended`), so a cut line is appended to with colours
alone (`CutQuiet`), and the lines after it begin in new rows. Folds are recursive, so each is replaced by
its table (`FoldSteps`), and what holds of a table is proved by its smallest
counterexample (`Smallest`). The proof made two statements of the module sharper: a
line never dirty is blank in the console as well, and what a cell is compared with is
the character after `fixSpecialCharacters`. It assumes that no glyph is half of a surrogate pair,
which the console has two cells for and the terminal as many as it likes, and that a wide character is
no space.

What the proofs establish for every instance (the type invariants and `IInv` of the
eight components, and `PipeCleanBeforeCall`) is not asked of TLC again, except
where the run is the one a reader would look at for a counterexample. `Agent`
with CONERR is covered by the proofs, for every set of output pipes, and by
`agent_input`.

Model-checked only: `ConsoleInput` (`KeysAsTyped`, `RecordsTrue`, `TablesRightAtStart`), which walks a
recursive tree; the other `…AtStart` statements (`StartsAsAskedAtStart`, `ConversionsRightAtStart`,
`TextRightAtStart`), most of which are about recursive operators; and the liveness
properties, which are out of the prover's reach.

## What is not modelled

* Of the adapter: starts that fail, which exit before any thread exists, and the
  texts of its messages.
* Of console access: titles, handles, the calls that read and set a font, the
  undocumented ones included. What they do is Windows'.
* The agent's parsing of its own command line and `--show-input`, a debugging
  loop; looking for the agent's file (`AgentLocation.cc`) is a choice in `Open`.
* `WindowsSecurity.cc`, `WindowsVersion.cc`, the tracing half of
  `DebugClient.cc`: their effect is Windows' or a log.
* `misc/`, `ship/`, `debugserver/`, `tests/`: experiments, packaging, a log
  printer and a smoke test.
* The machine setup scripts, `src/bin/rmate`, `src/lib/berttokenizatin.py`,
  recorded settings: straight-line installations, third-party files, data.
* Failures of Windows calls that end the agent by an ASSERT.
* In `Open`, other processes that connect to a pipe, and an open that may change
  the process's window station beside another (`winpty_constants.h:66-76` forbids
  it).
* In `Screen`, a resize while programs write, and a buffer that overflows
  (`Scraper` has that one); in `ConsoleResize`, failures of calls with right
  arguments.
* In `Dotfiles`, two scripts at once, and a user who writes while one runs; the
  package managers succeed or fail.

Some hazards of the code are in no property: `m_outQueue` has no limit
(`NamedPipe.cc:298`); a second `winpty_spawn` ends the agent by an ASSERT
(`Agent.cc:353`; `winpty.h` forbids it); a terminal of 0 columns fails an
assertion (`main.cc:603`); the marker's text may occur in a program's output
(`Scraper.cc:652`, the code's own XXX); `tcsetattr` failing on a second terminal
leaves the first raw (`main.cc:132`); the second argument of
`install_mydotfiles.sh` is ignored (line 18).

Behaviour met while modelling that a reader of the code may want to know:

* `ESC [ 1 ; n R`, xterm's modified F3, is always taken for a DSR reply
  (`ConsoleInput.cc:406`), and `ESC [ M` for the start of a mouse record. In plain
  mode a lone Esc sets `m_dsrSent` though no DSR is sent.
* `Terminal::reset` forgets that the cursor is hidden (`Terminal.cc:314`); a
  terminal that wraps lines on narrowing moves its cursor unknown to the agent.
  `ShowsConsole` and `CursorShown` except both by name (`lostHide`, `lostColumn`).
* A program that clears the console between the info and the scrape has the marker
  written in or below the window, into lines it prints to later. Where the new console
  wraps lines anew, resizes that together move the window up by more than the margin of
  200 rows, with fewer than 216 lines printed meanwhile, bring it beside the marker.
* A font of which no 20 columns make 160 pixels leaves a size unhonoured
  (`resizeBufferRange` gives up).
* With a desktop agent that fails, `winpty_open` fails; where the process itself
  may not create a desktop, it falls back to its own.
* `uname` is matched against `cygwin*` and `darwin*` in lower case, so
  `install_mydotfiles.sh` stops on both systems; `ubuntu_setup_2.sh` passes
  `create_symbolic_link.sh` a word it refuses. A clone stopped half way counts as
  installed; a run in the minute of an earlier one writes over its backup. Where
  `rm -rf` leaves a directory, `ln -s` puts the link inside it and
  `install_mydotfiles.sh` still ends with 0.

## The plan

The modules in the order they were written, each of which is done:

1. `NamedPipe`, `Agent`, `TerminalSession`, `AgentProofs`.
2. `LibWinpty`, `RpcSession`, `LibWinptyProofs`.
3. `UnixAdapter`, `UnixAdapterProofs`; then `AdapterSetup`.
4. `Scraper`, `ScraperProofs`; then `ConsoleFont`, `ConsoleResize`, `ConsoleResizeProofs`; `Terminal`, `ConsoleLine`,
   `TerminalColor` and `RemoteTerminal`, composed in `Screen`; `ScreenInvariant`, `ScreenProofs`.
5. `InputMap`, `DefaultInputMap`, `UnicodeEncoding`, `ConsoleInput`.
6. `Open` with the background desktop, `OpenProofs`; `Buffer`, `SharedStrings`.
7. `Dotfiles`, `DotfilesProofs`.

Left: proofs about `ConsoleInput`; the composition of `Scraper` and
`ConsoleResize` into one module, which TLC cannot cover at useful bounds.

## Running it

`tlc -config AgentSafety.cfg MCAgent`, and likewise for the other
configurations (`PROJECT.json` names the module of each); `tlapm M.tla` for each
module whose name ends in `Proofs`. The longest run, `console_input`, takes three
minutes.
