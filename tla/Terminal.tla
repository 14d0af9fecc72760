------------------------------- MODULE Terminal -------------------------------
(***************************************************************************)
(* main from its arguments to its end, with what it does to the terminal   *)
(* on stdin: SetupStdin, RestoreStdin and HandleSignal, one system call or *)
(* assignment a step, and signals between any two.  std::signal is that of *)
(* the C library: a signal is blocked while its own handler runs, so the   *)
(* one HandleSignal raises is delivered when the handler returns.          *)
(***************************************************************************)
EXTENDS Integers, Sequences

CONSTANTS
  Builds,                \* values of CONFIG_SDB: is the debugger built in
  Environments,          \* IRQ_INTERVAL may be: "unset", "number", "garbage"
  Handled,               \* the signals SetupStdin handles, in its order
  Others                 \* other signals whose default is to kill

ASSUME ConfigAssumption ==
  /\ Builds \subseteq BOOLEAN
  /\ Environments \subseteq {"unset", "number", "garbage"}

HandledSignals == {Handled[i] : i \in DOMAIN Handled}
Signals == HandledSignals \cup Others

ASSUME SignalsAssumption ==
  /\ Handled \in Seq(HandledSignals)
  /\ Signals \cap {"running", "exit", "abort"} = {}

VARIABLES
  CONFIG_SDB,            \* how the program was built
  arguments, tty, environment,   \* what the process was started with
  main,                  \* where main is
  terminal,              \* original or raw
  TermiosSaved,
  atexit,                \* RestoreStdin is registered
  handler,               \* per signal: "default" or "HandleSignal"
  installed,             \* how many std::signal calls SetupStdin has made
  frames,                \* the handlers that are running, innermost last
  pending,               \* sent and not delivered
  delivered,
  status                 \* running, exit, abort or the signal that killed it

started == <<CONFIG_SDB, arguments, tty, environment>>
signalled == <<frames, pending, delivered>>
vars == <<started, main, terminal, TermiosSaved, atexit, handler, installed,
          signalled, status>>

Running == status = "running"

Init ==
  /\ CONFIG_SDB \in Builds
  /\ arguments \in BOOLEAN /\ tty \in BOOLEAN /\ environment \in Environments
  /\ main = "load"
  /\ terminal = "original" /\ TermiosSaved = FALSE /\ atexit = FALSE
  /\ handler = [s \in Signals |-> "default"] /\ installed = 0
  /\ frames = <<>> /\ pending = {} /\ delivered = {}
  /\ status = "running"

-----------------------------------------------------------------------------
(* main runs while no handler does. *)

At(here) == Running /\ frames = <<>> /\ main = here

\* A step of main that only moves on.
Goto(there) ==
  /\ main' = there
  /\ UNCHANGED <<started, terminal, TermiosSaved, atexit, handler, installed,
                 signalled, status>>

\* No arguments: the built-in image; otherwise the loader, which may fail.
Load ==
  /\ At("load")
  /\ \/ Goto(IF CONFIG_SDB THEN "debugger" ELSE "isatty")
     \/ arguments /\ Goto("exit")

\* SDB::MainLoop leaves the terminal to linenoise, which gives it back.
Debugger == At("debugger") /\ Goto("exit")

IsATty == At("isatty") /\ Goto(IF tty THEN "tcgetattr" ELSE "getenv")

GetAttributes ==
  /\ At("tcgetattr")
  /\ \/ Goto("getenv")
     \/ /\ main' = "atexit"
        /\ TermiosSaved' = TRUE
        /\ UNCHANGED <<started, terminal, atexit, handler, installed,
                       signalled, status>>

AtExit_ThenRaw ==
  /\ At("atexit")
  /\ main' = "signal"
  /\ atexit' = TRUE
  /\ terminal' = "raw"
  /\ UNCHANGED <<started, TermiosSaved, handler, installed, signalled, status>>
AtExit ==
  /\ At("atexit")
  /\ main' = "signal"
  /\ atexit' = TRUE
  /\ UNCHANGED <<started, terminal, TermiosSaved, handler, installed,
                 signalled, status>>

\* One of the calls of std::signal.
InstallHandler ==
  /\ At("signal")
  /\ installed < Len(Handled)
  /\ handler' = [handler EXCEPT ![Handled[installed + 1]] = "HandleSignal"]
  /\ installed' = installed + 1
  /\ UNCHANGED <<started, main, terminal, TermiosSaved, atexit, signalled, status>>

SetRaw ==
  /\ At("signal")
  /\ installed = Len(Handled)
  /\ main' = "getenv"
  /\ terminal' = "raw"
  /\ UNCHANGED <<started, TermiosSaved, atexit, handler, installed,
                 signalled, status>>

\* std::stoull throws on text that is no number, and nothing catches it:
\* the process aborts without its exit handlers.
ReadInterval ==
  /\ At("getenv")
  /\ IF environment = "garbage"
       THEN /\ status' = "abort"
            /\ UNCHANGED <<started, main, terminal, TermiosSaved, atexit,
                           handler, installed, signalled>>
       ELSE Goto("loop")

\* Whether the guest halts is its own affair.
GuestHalts == At("loop") /\ Goto("exit")

\* Return from main: exit() runs RestoreStdin if it was registered.
Exit == At("exit") /\ Goto(IF atexit THEN "check" ELSE "exited")

Exited ==
  /\ At("exited")
  /\ status' = "exit"
  /\ UNCHANGED <<started, main, terminal, TermiosSaved, atexit, handler,
                 installed, signalled>>

\* RestoreStdin, from a step to the next one; done is where it returns to.
RestoreStdin(here, there, done) ==
  \/ /\ here = "check"
     /\ there = IF TermiosSaved THEN "restore" ELSE done
     /\ UNCHANGED <<terminal, TermiosSaved>>
  \/ /\ here = "restore"
     /\ there = "clear"
     /\ terminal' = "original"
     /\ UNCHANGED TermiosSaved
  \/ /\ here = "clear"
     /\ there = done
     /\ TermiosSaved' = FALSE
     /\ UNCHANGED terminal

ExitRestores ==
  /\ Running /\ frames = <<>>
  /\ RestoreStdin(main, main', "exited")
  /\ UNCHANGED <<started, atexit, handler, installed, signalled, status>>

Main ==
  \/ Load \/ Debugger \/ IsATty \/ GetAttributes \/ AtExit \/ InstallHandler
  \/ SetRaw \/ ReadInterval \/ GuestHalts \/ Exit \/ ExitRestores \/ Exited

-----------------------------------------------------------------------------
(* Signals. *)

Top     == frames[Len(frames)]
Blocked == {frames[i].signal : i \in DOMAIN frames}

\* The terminal's driver, the shell or the kernel sends a signal; a second
\* one of the same kind merges with it.
Send(s) ==
  /\ Running
  /\ pending' = pending \cup {s}
  /\ UNCHANGED <<started, main, terminal, TermiosSaved, atexit, handler,
                 installed, frames, delivered, status>>

\* What delivery does: run the handler, or kill.  left are the handlers it
\* interrupts.
Take(s, left) ==
  /\ pending' = pending \ {s}
  /\ delivered' = delivered \cup {s}
  /\ IF handler[s] = "default"
       THEN status' = s /\ frames' = left
       ELSE /\ frames' = Append(left, [signal |-> s, at |-> "check"])
            /\ UNCHANGED status

Deliver(s) ==
  /\ Running
  /\ s \in pending \ Blocked
  /\ Take(s, frames)
  /\ UNCHANGED <<started, main, terminal, TermiosSaved, atexit, handler, installed>>

\* HandleSignal of the innermost handler.
InHandler(here) == Running /\ frames # <<>> /\ Top.at = here

MoveTo(there) == frames' = [frames EXCEPT ![Len(frames)].at = there]

HandlerRestores ==
  /\ Running /\ frames # <<>>
  /\ \E there \in {"restore", "clear", "default"} :
       RestoreStdin(Top.at, there, "default") /\ MoveTo(there)
  /\ UNCHANGED <<started, main, atexit, handler, installed, pending, delivered, status>>

ResetDefault_Forgotten ==
  /\ InHandler("default")
  /\ MoveTo("raise")
  /\ UNCHANGED <<started, main, terminal, TermiosSaved, atexit, handler,
                 installed, pending, delivered, status>>
ResetDefault ==
  /\ InHandler("default")
  /\ handler' = [handler EXCEPT ![Top.signal] = "default"]
  /\ MoveTo("raise")
  /\ UNCHANGED <<started, main, terminal, TermiosSaved, atexit, installed,
                 pending, delivered, status>>

Raise_Forgotten ==
  /\ InHandler("raise")
  /\ MoveTo("return")
  /\ UNCHANGED <<started, main, terminal, TermiosSaved, atexit, handler,
                 installed, pending, delivered, status>>
Raise ==
  /\ InHandler("raise")
  /\ pending' = pending \cup {Top.signal}
  /\ MoveTo("return")
  /\ UNCHANGED <<started, main, terminal, TermiosSaved, atexit, handler,
                 installed, delivered, status>>

\* The return unblocks the signal, and the kernel delivers it before it lets
\* the process go on.
Return ==
  /\ InHandler("return")
  /\ LET left == SubSeq(frames, 1, Len(frames) - 1)
     IN  IF Top.signal \in pending
           THEN Take(Top.signal, left)
           ELSE frames' = left /\ UNCHANGED <<pending, delivered, status>>
  /\ UNCHANGED <<started, main, terminal, TermiosSaved, atexit, handler, installed>>

HandleSignal == HandlerRestores \/ ResetDefault \/ Raise \/ Return

Next ==
  \/ Main
  \/ HandleSignal
  \/ \E s \in Signals : Send(s) \/ Deliver(s)

\* A handler that has been entered runs; nobody has to send a signal, and
\* the guest does not have to halt.
Spec == Init /\ [][Next]_vars /\ WF_vars(HandleSignal)

TypeOK ==
  /\ CONFIG_SDB \in Builds
  /\ arguments \in BOOLEAN /\ tty \in BOOLEAN /\ environment \in Environments
  /\ main \in {"load", "debugger", "isatty", "tcgetattr", "atexit", "signal",
               "getenv", "loop", "exit", "check", "restore", "clear", "exited"}
  /\ terminal \in {"original", "raw"} /\ TermiosSaved \in BOOLEAN
  /\ atexit \in BOOLEAN
  /\ handler \in [Signals -> {"default", "HandleSignal"}]
  /\ installed \in 0 .. Len(Handled)
  /\ frames \in Seq([signal : HandledSignals,
                     at : {"check", "restore", "clear", "default", "raise", "return"}])
  /\ pending \subseteq Signals /\ delivered \subseteq Signals
  /\ status \in {"running", "exit", "abort"} \cup Signals

-----------------------------------------------------------------------------
(***************************************************************************)
(* However the process ends - main returns, or signals arrive at any step  *)
(* of the set-up, of the guest's run, of a handler or of the exit - the    *)
(* user gets the terminal back as it was.                                  *)
(***************************************************************************)
TerminalIsRestored == ~Running => terminal = "original"

(***************************************************************************)
(* A handled signal still kills: the parent sees a process that died of a  *)
(* signal it was sent, not an exit and not another signal.                 *)
(***************************************************************************)
DiesOfItsSignal == ~Running /\ delivered # {} => status \in delivered

(***************************************************************************)
(* And it does kill, also when signals interrupt each other's handlers.    *)
(***************************************************************************)
SignalKills == delivered # {} ~> ~Running
=============================================================================
