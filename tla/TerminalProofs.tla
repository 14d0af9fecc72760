---------------------------- MODULE TerminalProofs ----------------------------
(***************************************************************************)
(* How the process ends, for any list of handled signals.  The argument is *)
(* about handlers that are still running: none of them ever returns to the *)
(* code it interrupted, since its signal is pending and deadly by then.    *)
(***************************************************************************)
EXTENDS Terminal, SequenceTheorems, TLAPS

Frame == [signal : HandledSignals,
          at : {"check", "restore", "clear", "default", "raise", "return"}]

-----------------------------------------------------------------------------
\* TypeOK is inductive.
LEMMA FrameFacts ==
  ASSUME TypeOK, frames # <<>>
  PROVE  /\ Len(frames) \in Nat \ {0}
         /\ frames \in Seq(Frame)
         /\ Top = frames[Len(frames)]
         /\ Top \in Frame
         /\ Top.signal \in Signals
<1>1. frames \in Seq(Frame)
  BY DEF TypeOK, Frame
<1>2. Len(frames) \in Nat \ {0}
  BY <1>1, EmptySeq
<1>3. Top \in Frame
  BY <1>1, <1>2 DEF Top
<1> QED
  BY <1>1, <1>2, <1>3 DEF Top, Frame, Signals

LEMMA Moved ==
  ASSUME TypeOK, frames # <<>>, NEW there, MoveTo(there),
         there \in {"check", "restore", "clear", "default", "raise", "return"}
  PROVE  /\ frames' \in Seq(Frame)
         /\ frames' # <<>>
         /\ Len(frames') = Len(frames)
         /\ \A i \in 1 .. Len(frames) :
              /\ frames'[i].signal = frames[i].signal
              /\ frames'[i].at = IF i = Len(frames) THEN there ELSE frames[i].at
<1> USE FrameFacts
<1>1. frames' = [frames EXCEPT ![Len(frames)] = [frames[Len(frames)] EXCEPT !.at = there]]
  BY DEF MoveTo
<1>2. [frames[Len(frames)] EXCEPT !.at = there] \in Frame
  BY DEF Frame
<1>3. frames' \in Seq(Frame) /\ Len(frames') = Len(frames)
  BY <1>1, <1>2
<1>4. \A i \in 1 .. Len(frames) : frames[i] \in Frame
  OBVIOUS
<1>5. \A i \in 1 .. Len(frames) :
        frames'[i] = IF i = Len(frames)
                       THEN [frames[Len(frames)] EXCEPT !.at = there] ELSE frames[i]
  BY <1>1
<1>6. \A i \in 1 .. Len(frames) :
        /\ frames'[i].signal = frames[i].signal
        /\ frames'[i].at = IF i = Len(frames) THEN there ELSE frames[i].at
  BY <1>4, <1>5 DEF Frame
<1> QED
  BY <1>3, <1>6, EmptySeq

LEMMA Entered ==
  ASSUME TypeOK, NEW s \in HandledSignals,
         frames' = Append(frames, [signal |-> s, at |-> "check"])
  PROVE  /\ frames' \in Seq(Frame)
         /\ frames' # <<>>
         /\ Len(frames') = Len(frames) + 1
         /\ \A i \in 1 .. Len(frames) : frames'[i] = frames[i]
         /\ frames'[Len(frames) + 1] = [signal |-> s, at |-> "check"]
<1>1. frames \in Seq(Frame) /\ [signal |-> s, at |-> "check"] \in Frame
  BY DEF TypeOK, Frame
<1> QED
  BY <1>1, EmptySeq

LEMMA MainTyped ==
  ASSUME TypeOK, Main
  PROVE  TypeOK'
<1> USE ConfigAssumption DEF TypeOK, started, signalled, At, Running
<1>1. CASE Load
  BY <1>1 DEF Load, Goto
<1>2. CASE Debugger
  BY <1>2 DEF Debugger, Goto
<1>3. CASE IsATty
  BY <1>3 DEF IsATty, Goto
<1>4. CASE GetAttributes
  BY <1>4 DEF GetAttributes, Goto
<1>5. CASE AtExit
  BY <1>5 DEF AtExit
<1>6. CASE InstallHandler
  <2>1. handler' \in [Signals -> {"default", "HandleSignal"}]
    BY <1>6 DEF InstallHandler
  <2>2. installed' \in 0 .. Len(Handled)
    BY <1>6, SignalsAssumption DEF InstallHandler
  <2> QED
    BY <1>6, <2>1, <2>2 DEF InstallHandler
<1>7. CASE SetRaw
  BY <1>7 DEF SetRaw
<1>8. CASE ReadInterval
  BY <1>8 DEF ReadInterval, Goto
<1>9. CASE GuestHalts
  BY <1>9 DEF GuestHalts, Goto
<1>10. CASE Exit
  BY <1>10 DEF Exit, Goto
<1>11. CASE ExitRestores
  BY <1>11 DEF ExitRestores, RestoreStdin
<1>12. CASE Exited
  BY <1>12 DEF Exited
<1> QED
  BY <1>1, <1>2, <1>3, <1>4, <1>5, <1>6, <1>7, <1>8, <1>9, <1>10, <1>11, <1>12 DEF Main

\* Taking a signal runs its handler, which is one SetupStdin installed, or
\* kills.
LEMMA TakeTyped ==
  ASSUME TypeOK, NEW s \in Signals, NEW left \in Seq(Frame), Take(s, left),
         handler[s] = "HandleSignal" => s \in HandledSignals
  PROVE  /\ pending' \subseteq Signals /\ delivered' \subseteq Signals
         /\ frames' \in Seq(Frame)
         /\ status' \in {"running", "exit", "abort"} \cup Signals
<1>1. CASE handler[s] = "default"
  BY <1>1 DEF Take, TypeOK
<1>2. CASE handler[s] # "default"
  <2>1. s \in HandledSignals
    BY <1>2 DEF TypeOK
  <2>2. [signal |-> s, at |-> "check"] \in Frame
    BY <2>1 DEF Frame
  <2>3. frames' = Append(left, [signal |-> s, at |-> "check"]) /\ status' = status
    BY <1>2 DEF Take
  <2>4. frames' \in Seq(Frame)
    BY <2>2, <2>3
  <2> QED
    BY <2>3, <2>4 DEF Take, TypeOK
<1> QED
  BY <1>1, <1>2

\* What std::signal has installed.
OnlyHandled == \A s \in Signals : handler[s] = "HandleSignal" => s \in HandledSignals

LEMMA SignalTyped ==
  ASSUME TypeOK, OnlyHandled, NEW s \in Signals, Send(s) \/ Deliver(s)
  PROVE  TypeOK'
<1>1. CASE Send(s)
  BY <1>1 DEF Send, TypeOK, started
<1>2. CASE Deliver(s)
  <2>1. frames \in Seq(Frame)
    BY DEF TypeOK, Frame
  <2>2. /\ pending' \subseteq Signals /\ delivered' \subseteq Signals
        /\ frames' \in Seq(Frame)
        /\ status' \in {"running", "exit", "abort"} \cup Signals
    BY <1>2, <2>1, TakeTyped DEF Deliver, OnlyHandled
  <2> QED
    BY <1>2, <2>2 DEF Deliver, TypeOK, Frame, started
<1> QED
  BY <1>1, <1>2

LEMMA HandlerTyped ==
  ASSUME TypeOK, OnlyHandled, HandleSignal
  PROVE  TypeOK'
<1>0. frames # <<>>
  BY DEF HandleSignal, HandlerRestores, ResetDefault, Raise, Return, InHandler
<1>1. CASE HandlerRestores
  <2>1. PICK there \in {"restore", "clear", "default"} :
          RestoreStdin(Top.at, there, "default") /\ MoveTo(there)
    BY <1>1 DEF HandlerRestores
  <2>2. frames' \in Seq(Frame)
    BY <1>0, <2>1, Moved
  <2>3. terminal' \in {"original", "raw"} /\ TermiosSaved' \in BOOLEAN
    BY <2>1 DEF RestoreStdin, TypeOK
  <2> QED
    BY <1>1, <2>2, <2>3 DEF HandlerRestores, TypeOK, Frame, started
<1>2. CASE ResetDefault
  <2>1. frames' \in Seq(Frame)
    BY <1>0, <1>2, Moved DEF ResetDefault
  <2>2. handler' \in [Signals -> {"default", "HandleSignal"}]
    BY <1>2 DEF ResetDefault, TypeOK
  <2> QED
    BY <1>2, <2>1, <2>2 DEF ResetDefault, TypeOK, Frame, started
<1>3. CASE Raise
  <2>1. frames' \in Seq(Frame)
    BY <1>0, <1>3, Moved DEF Raise
  <2>2. pending' \subseteq Signals
    BY <1>0, <1>3, FrameFacts DEF Raise, TypeOK
  <2> QED
    BY <1>3, <2>1, <2>2 DEF Raise, TypeOK, Frame, started
<1>4. CASE Return
  <2> DEFINE left == SubSeq(frames, 1, Len(frames) - 1)
  <2>1. left \in Seq(Frame)
    BY <1>0, FrameFacts
  <2>2. CASE Top.signal \in pending
    <3>1. Take(Top.signal, left)
      BY <1>4, <2>2 DEF Return
    <3>2. /\ pending' \subseteq Signals /\ delivered' \subseteq Signals
          /\ frames' \in Seq(Frame)
          /\ status' \in {"running", "exit", "abort"} \cup Signals
      <4> HIDE DEF left
      <4> QED
        BY <1>0, <2>1, <3>1, FrameFacts, TakeTyped DEF OnlyHandled
    <3> QED
      BY <1>4, <3>2 DEF Return, TypeOK, Frame, started
  <2>3. CASE Top.signal \notin pending
    BY <1>4, <2>1, <2>3 DEF Return, TypeOK, Frame, started
  <2> QED
    BY <2>2, <2>3
<1> QED
  BY <1>1, <1>2, <1>3, <1>4 DEF HandleSignal

-----------------------------------------------------------------------------
(***************************************************************************)
(* A handler past ResetDefault has disarmed its own signal, and past Raise *)
(* that signal is pending: the return kills.  So while no handler runs,    *)
(* none has ever been entered.                                             *)
(***************************************************************************)
NoReturn ==
  /\ OnlyHandled
  /\ Running => \A i \in DOMAIN frames :
       /\ frames[i].at \in {"raise", "return"} => handler[frames[i].signal] = "default"
       /\ frames[i].at = "return" => frames[i].signal \in pending
  /\ Running /\ frames = <<>> => delivered = {}
  /\ DiesOfItsSignal

LEMMA OnlyHandledKept ==
  ASSUME TypeOK, OnlyHandled, [Next]_vars
  PROVE  OnlyHandled'
<1>1. handler' = handler => OnlyHandled'
  BY DEF OnlyHandled
<1>2. CASE InstallHandler
  <2>1. Handled[installed + 1] \in HandledSignals
    BY <1>2, SignalsAssumption DEF InstallHandler, TypeOK, HandledSignals
  <2>2. \A s \in Signals : s # Handled[installed + 1] => handler'[s] = handler[s]
    BY <1>2 DEF InstallHandler, TypeOK
  <2> QED
    BY <2>1, <2>2 DEF OnlyHandled
<1>3. CASE ResetDefault
  <2>1. \A s \in Signals : handler'[s] = "HandleSignal" => handler[s] = "HandleSignal"
    BY <1>3 DEF ResetDefault, TypeOK
  <2> QED
    BY <2>1 DEF OnlyHandled
<1>4. handler' = handler \/ InstallHandler \/ ResetDefault
  BY DEF Next, Main, Load, Debugger, IsATty, GetAttributes, AtExit, SetRaw,
         ReadInterval, GuestHalts, Exit, ExitRestores, Exited, Goto,
         HandleSignal, HandlerRestores, Raise, Return, Send, Deliver, vars
<1> QED
  BY <1>1, <1>2, <1>3, <1>4

\* main moves only while no handler runs, and leaves the signals alone.
LEMMA MainNoReturn ==
  ASSUME TypeOK, NoReturn, OnlyHandled', Main
  PROVE  NoReturn'
<1>1. /\ Running /\ frames = <<>> /\ frames' = frames
      /\ delivered' = delivered /\ status' \in {status, "abort", "exit"}
  BY DEF Main, Load, Debugger, IsATty, GetAttributes, AtExit, InstallHandler,
         SetRaw, ReadInterval, GuestHalts, Exit, ExitRestores, Exited, Goto,
         At, signalled
<1>2. delivered' = {}
  BY <1>1 DEF NoReturn
<1> QED
  BY <1>1, <1>2 DEF NoReturn, DiesOfItsSignal

LEMMA TakeNoReturn ==
  ASSUME TypeOK, NoReturn, OnlyHandled', Running, NEW s \in Signals,
         s \notin Blocked, Take(s, frames), UNCHANGED handler
  PROVE  NoReturn'
<1>1. CASE handler[s] = "default"
  <2>1. status' = s /\ s \in delivered' /\ ~Running'
    BY <1>1, SignalsAssumption DEF Take, Running
  <2> QED
    BY <2>1 DEF NoReturn, DiesOfItsSignal
<1>2. CASE handler[s] # "default"
  <2>1. s \in HandledSignals
    BY <1>2 DEF NoReturn, OnlyHandled, TypeOK
  <2>2. /\ frames' = Append(frames, [signal |-> s, at |-> "check"])
        /\ status' = status /\ pending' = pending \ {s}
    BY <1>2 DEF Take
  <2>3. /\ frames' # <<>> /\ DOMAIN frames' = 1 .. Len(frames) + 1
        /\ \A i \in 1 .. Len(frames) : frames'[i] = frames[i]
        /\ frames'[Len(frames) + 1].at = "check"
    <3>1. frames' \in Seq(Frame) /\ Len(frames') = Len(frames) + 1
      BY <2>1, <2>2, Entered
    <3> QED
      BY <2>1, <2>2, <3>1, Entered
  <2>4. DOMAIN frames = 1 .. Len(frames) /\ Len(frames) \in Nat
    BY DEF TypeOK
  <2>5. \A i \in DOMAIN frames : frames[i].signal # s
    BY DEF Blocked
  <2>6. \A i \in DOMAIN frames' :
          /\ frames'[i].at \in {"raise", "return"} => handler'[frames'[i].signal] = "default"
          /\ frames'[i].at = "return" => frames'[i].signal \in pending'
    <3> SUFFICES ASSUME NEW i \in DOMAIN frames'
                 PROVE  /\ frames'[i].at \in {"raise", "return"} =>
                             handler'[frames'[i].signal] = "default"
                        /\ frames'[i].at = "return" => frames'[i].signal \in pending'
      OBVIOUS
    <3>1. CASE i = Len(frames) + 1
      BY <2>3, <3>1
    <3>2. CASE i # Len(frames) + 1
      <4>1. i \in DOMAIN frames /\ frames'[i] = frames[i]
        BY <2>3, <2>4, <3>2
      <4> QED
        BY <2>2, <2>5, <4>1 DEF NoReturn
    <3> QED
      BY <3>1, <3>2
  <2> QED
    BY <2>2, <2>3, <2>6 DEF NoReturn, DiesOfItsSignal, Running
<1> QED
  BY <1>1, <1>2

LEMMA SignalNoReturn ==
  ASSUME TypeOK, NoReturn, OnlyHandled', NEW s \in Signals, Send(s) \/ Deliver(s)
  PROVE  NoReturn'
<1>1. CASE Send(s)
  BY <1>1 DEF Send, NoReturn, DiesOfItsSignal, Running
<1>2. CASE Deliver(s)
  BY <1>2, TakeNoReturn DEF Deliver
<1> QED
  BY <1>1, <1>2
LEMMA HandlerNoReturn ==
  ASSUME TypeOK, NoReturn, OnlyHandled', HandleSignal
  PROVE  NoReturn'
<1>0. /\ Running /\ frames # <<>>
      /\ DOMAIN frames = 1 .. Len(frames) /\ Len(frames) \in Nat \ {0}
  <2>1. Running /\ frames # <<>>
    BY DEF HandleSignal, HandlerRestores, ResetDefault, Raise, Return, InHandler
  <2> QED
    BY <2>1, FrameFacts
\* A handler that moves on and stays there.
<1>1. ASSUME NEW there \in {"restore", "clear", "default", "raise", "return"},
             MoveTo(there), UNCHANGED <<delivered, status>>,
             \A s \in Signals : handler[s] = "default" => handler'[s] = "default",
             pending \subseteq pending',
             there \in {"raise", "return"} => handler'[Top.signal] = "default",
             there = "return" => Top.signal \in pending'
      PROVE  NoReturn'
  <2>1. /\ frames' # <<>> /\ DOMAIN frames' = DOMAIN frames
        /\ \A i \in DOMAIN frames :
             /\ frames'[i].signal = frames[i].signal
             /\ frames'[i].at = IF i = Len(frames) THEN there ELSE frames[i].at
    BY <1>0, <1>1, Moved
  <2>2. Top = frames[Len(frames)]
    BY DEF Top
  <2>3. \A i \in DOMAIN frames : frames[i].signal \in Signals
    <3>1. \A i \in 1 .. Len(frames) : frames[i] \in Frame
      BY <1>0, FrameFacts
    <3> QED
      BY <1>0, <3>1 DEF Frame, Signals
  <2>4. \A i \in DOMAIN frames' :
          /\ frames'[i].at \in {"raise", "return"} => handler'[frames'[i].signal] = "default"
          /\ frames'[i].at = "return" => frames'[i].signal \in pending'
    BY <1>0, <1>1, <2>1, <2>2, <2>3 DEF NoReturn
  <2> QED
    BY <1>0, <1>1, <2>1, <2>4 DEF NoReturn, DiesOfItsSignal, Running
<1>2. CASE HandlerRestores
  <2>1. PICK there \in {"restore", "clear", "default"} :
          RestoreStdin(Top.at, there, "default") /\ MoveTo(there)
    BY <1>2 DEF HandlerRestores
  <2> QED
    BY <1>1, <1>2, <2>1 DEF HandlerRestores
<1>3. CASE ResetDefault
  <2>1. /\ handler'[Top.signal] = "default"
        /\ \A s \in Signals : handler[s] = "default" => handler'[s] = "default"
    BY <1>0, <1>3, FrameFacts DEF ResetDefault, TypeOK
  <2> QED
    BY <1>1, <1>3, <2>1 DEF ResetDefault
<1>4. CASE Raise
  <2>1. handler'[Top.signal] = "default"
    BY <1>0, <1>4 DEF Raise, InHandler, NoReturn, Top
  <2> QED
    BY <1>1, <1>4, <2>1 DEF Raise
<1>5. CASE Return
  <2>1. Top.signal \in pending /\ handler[Top.signal] = "default" /\ Top.signal \in Signals
    BY <1>0, <1>5, FrameFacts DEF Return, InHandler, NoReturn, Top
  <2>2. status' = Top.signal /\ Top.signal \in delivered'
    BY <1>5, <2>1 DEF Return, Take
  <2>3. ~Running'
    BY <2>1, <2>2, SignalsAssumption DEF Running
  <2> QED
    BY <2>2, <2>3 DEF NoReturn, DiesOfItsSignal
<1> QED
  BY <1>2, <1>3, <1>4, <1>5 DEF HandleSignal

(***************************************************************************)
(* For any list of handled signals, any others, and any environment: a     *)
(* process that took a signal dies of one it took, whichever interrupted   *)
(* whose handler.                                                          *)
(***************************************************************************)
SignalInv == TypeOK /\ NoReturn

THEOREM SignalInvariant == Spec => []SignalInv
<1>1. Init => SignalInv
  <2>1. Init => TypeOK
    <3>1. 0 \in 0 .. Len(Handled)
      BY SignalsAssumption
    <3>2. <<>> \in Seq(Frame)
      OBVIOUS
    <3> QED
      BY <3>1, <3>2 DEF Init, TypeOK, Frame
  <2>2. Init => NoReturn
    BY DEF Init, NoReturn, OnlyHandled, DiesOfItsSignal, Running
  <2> QED
    BY <2>1, <2>2 DEF SignalInv
<1>2. SignalInv /\ [Next]_vars => SignalInv'
  <2> SUFFICES ASSUME SignalInv, [Next]_vars  PROVE SignalInv'
    OBVIOUS
  <2> USE DEF SignalInv
  <2>1. OnlyHandled'
    BY OnlyHandledKept DEF NoReturn
  <2>2. CASE Main
    BY <2>1, <2>2, MainTyped, MainNoReturn
  <2>3. CASE HandleSignal
    BY <2>1, <2>3, HandlerTyped, HandlerNoReturn DEF NoReturn
  <2>4. CASE \E s \in Signals : Send(s) \/ Deliver(s)
    BY <2>1, <2>4, SignalTyped, SignalNoReturn DEF NoReturn
  <2>5. CASE UNCHANGED vars
    BY <2>5 DEF vars, started, signalled, TypeOK, NoReturn, OnlyHandled, DiesOfItsSignal, Running
  <2> QED
    BY <2>2, <2>3, <2>4, <2>5 DEF Next
<1> QED
  BY <1>1, <1>2, PTL DEF Spec

THEOREM KilledByItsSignal == Spec => []DiesOfItsSignal
<1>1. SignalInv => DiesOfItsSignal
  BY DEF SignalInv, NoReturn
<1> QED
  BY <1>1, SignalInvariant, PTL
-----------------------------------------------------------------------------
(***************************************************************************)
(* While the terminal is raw and the process runs, everything that gives   *)
(* it back is in place; and a handler past its tcsetattr, or main past the *)
(* one of its exit, has given it back for good.                            *)
(***************************************************************************)
Guarded == TermiosSaved /\ atexit /\ \A s \in Signals : handler[s] = "HandleSignal"

RawIsGuarded == Running =>
  /\ terminal = "raw" => Guarded
  /\ \A i \in DOMAIN frames :
       frames[i].at \in {"clear", "default", "raise", "return"} => terminal = "original"
  /\ main \in {"clear", "exited"} => terminal = "original"

SettingUp == Running /\ frames = <<>> =>
  /\ main \in {"atexit", "signal"} => TermiosSaved
  /\ main = "signal" => atexit
  /\ main = "signal" => \A i \in 1 .. installed : handler[Handled[i]] = "HandleSignal"
  /\ main \in {"load", "debugger", "isatty", "tcgetattr", "atexit"} => installed = 0

RestoreInv == RawIsGuarded /\ SettingUp /\ TerminalIsRestored
LEMMA MainRestores ==
  ASSUME Others = {}, "garbage" \notin Environments,
         SignalInv, RestoreInv, Main
  PROVE  RestoreInv'
<1> USE DEF SignalInv, RestoreInv, At, Running, started, signalled
<1>0. Running /\ frames = <<>> /\ frames' = <<>> /\ DOMAIN frames' = {}
  <2>1. Running /\ frames = <<>> /\ frames' = <<>>
    BY DEF Main, Load, Debugger, IsATty, GetAttributes, AtExit, InstallHandler,
           SetRaw, ReadInterval, GuestHalts, Exit, ExitRestores, Exited, Goto
  <2> QED
    BY <2>1
<1>1. terminal \in {"original", "raw"} /\ TermiosSaved \in BOOLEAN /\ atexit \in BOOLEAN
  BY DEF TypeOK
<1>2. terminal = "raw" => Guarded
  BY <1>0 DEF RawIsGuarded
<1>3. main \in {"clear", "exited"} => terminal = "original"
  BY <1>0 DEF RawIsGuarded
<1>4. /\ main \in {"atexit", "signal"} => TermiosSaved
      /\ main = "signal" => atexit
      /\ main = "signal" => \A i \in 1 .. installed : handler[Handled[i]] = "HandleSignal"
      /\ main \in {"load", "debugger", "isatty", "tcgetattr", "atexit"} => installed = 0
  BY <1>0 DEF SettingUp
\* What is left to show, no handler being there.
<1>5. ASSUME terminal' = "raw" => Guarded',
             main' \in {"clear", "exited"} => terminal' = "original",
             main' \in {"atexit", "signal"} => TermiosSaved',
             main' = "signal" => atexit',
             main' = "signal" =>
               \A i \in 1 .. installed' : handler'[Handled[i]] = "HandleSignal",
             main' \in {"load", "debugger", "isatty", "tcgetattr", "atexit"} => installed' = 0,
             status' # "running" => terminal' = "original"
      PROVE  RestoreInv'
  BY <1>0, <1>5 DEF RawIsGuarded, SettingUp, TerminalIsRestored
<1>6. ASSUME NEW there, Goto(there), there # "clear", there # "atexit", there # "signal",
             there = "exited" => terminal = "original",
             there \in {"load", "debugger", "isatty", "tcgetattr"} => installed = 0
      PROVE  RestoreInv'
  BY <1>0, <1>2, <1>5, <1>6 DEF Goto, Guarded
<1>7. CASE Load
  BY <1>4, <1>6, <1>7 DEF Load
<1>8. CASE Debugger
  BY <1>6, <1>8 DEF Debugger
<1>9. CASE IsATty
  BY <1>4, <1>6, <1>9 DEF IsATty
<1>10. CASE GetAttributes
  BY <1>0, <1>2, <1>4, <1>5, <1>6, <1>10 DEF GetAttributes, Guarded
<1>11. CASE AtExit
  BY <1>0, <1>2, <1>4, <1>5, <1>11 DEF AtExit, Guarded
<1>12. CASE InstallHandler
  <2>1. handler \in [Signals -> {"default", "HandleSignal"}] /\ installed \in Nat
    BY SignalsAssumption DEF TypeOK
  <2>2. /\ \A s \in Signals : handler[s] = "HandleSignal" => handler'[s] = "HandleSignal"
        /\ handler'[Handled[installed + 1]] = "HandleSignal"
        /\ \A i \in 1 .. installed + 1 : Handled[i] \in Signals
    BY <1>12, <2>1, SignalsAssumption DEF InstallHandler, Signals, HandledSignals
  <2>3. \A i \in 1 .. installed' : handler'[Handled[i]] = "HandleSignal"
    BY <1>4, <1>12, <2>1, <2>2 DEF InstallHandler
  <2>4. terminal' = "raw" => Guarded'
    BY <1>2, <1>12, <2>2 DEF InstallHandler, Guarded
  <2> QED
    BY <1>0, <1>4, <1>5, <1>12, <2>3, <2>4 DEF InstallHandler
<1>13. CASE SetRaw
  <2>1. \A s \in Signals : handler[s] = "HandleSignal"
    BY <1>4, <1>13, SignalsAssumption DEF SetRaw, Signals, HandledSignals
  <2>2. Guarded'
    BY <1>4, <1>13, <2>1 DEF SetRaw, Guarded
  <2> QED
    BY <1>0, <1>5, <1>13, <2>2 DEF SetRaw
<1>14. CASE ReadInterval
  BY <1>6, <1>14 DEF ReadInterval, TypeOK
<1>15. CASE GuestHalts
  BY <1>6, <1>15 DEF GuestHalts
<1>16. CASE Exit
  BY <1>1, <1>2, <1>6, <1>16 DEF Exit, Guarded
<1>17. CASE ExitRestores
  <2>1. RestoreStdin(main, main', "exited")
    BY <1>17 DEF ExitRestores
  <2>2. handler' = handler /\ atexit' = atexit /\ installed' = installed /\ status' = status
    BY <1>17 DEF ExitRestores
  <2>3. terminal' = "raw" => Guarded'
    BY <1>1, <1>2, <1>3, <2>1, <2>2 DEF RestoreStdin, Guarded
  <2>4. main' \in {"restore", "clear", "exited"}
        /\ (main' \in {"clear", "exited"} => terminal' = "original")
    BY <1>1, <1>2, <1>3, <2>1 DEF RestoreStdin, Guarded
  <2> QED
    BY <1>0, <1>5, <2>2, <2>3, <2>4
<1>18. CASE Exited
  BY <1>0, <1>2, <1>3, <1>5, <1>18 DEF Exited, Guarded
<1> QED
  BY <1>7, <1>8, <1>9, <1>10, <1>11, <1>12, <1>13, <1>14, <1>15, <1>16, <1>17, <1>18 DEF Main
LEMMA SignalRestores ==
  ASSUME SignalInv, RestoreInv, NEW s \in Signals, Send(s) \/ Deliver(s)
  PROVE  RestoreInv'
<1> USE DEF SignalInv, RestoreInv
<1>1. CASE Send(s)
  BY <1>1 DEF Send, RawIsGuarded, SettingUp, TerminalIsRestored, Guarded, Running
<1>2. CASE Deliver(s) /\ handler[s] = "default"
  <2>1. ~Running' /\ terminal' = terminal
    BY <1>2, SignalsAssumption DEF Deliver, Take, Running
  <2>2. terminal = "original"
    BY <1>2 DEF Deliver, RawIsGuarded, Guarded, TypeOK
  <2> QED
    BY <2>1, <2>2 DEF RawIsGuarded, SettingUp, TerminalIsRestored
<1>3. CASE Deliver(s) /\ handler[s] # "default"
  <2>1. s \in HandledSignals
    BY <1>3 DEF NoReturn, OnlyHandled, TypeOK
  <2>2. /\ frames' = Append(frames, [signal |-> s, at |-> "check"])
        /\ UNCHANGED <<status, terminal, TermiosSaved, atexit, handler, main>>
        /\ Running
    BY <1>3 DEF Deliver, Take, started
  <2>3. /\ frames' # <<>> /\ Len(frames') = Len(frames) + 1
        /\ DOMAIN frames' = 1 .. Len(frames')
        /\ \A i \in 1 .. Len(frames) : frames'[i] = frames[i]
        /\ frames'[Len(frames) + 1].at = "check"
    BY <2>1, <2>2, Entered
  <2>4. DOMAIN frames = 1 .. Len(frames) /\ Len(frames) \in Nat
    BY DEF TypeOK
  <2>5. \A i \in DOMAIN frames' :
          frames'[i].at \in {"clear", "default", "raise", "return"} =>
            i \in DOMAIN frames /\ frames'[i] = frames[i]
    BY <2>3, <2>4
  <2>6. \A i \in DOMAIN frames' :
          frames'[i].at \in {"clear", "default", "raise", "return"} => terminal' = "original"
    BY <2>2, <2>5 DEF RawIsGuarded
  <2> QED
    BY <2>2, <2>3, <2>6 DEF RawIsGuarded, SettingUp, TerminalIsRestored, Guarded, Running
<1> QED
  BY <1>1, <1>2, <1>3

LEMMA HandlersRestore ==
  ASSUME SignalInv, RestoreInv, HandleSignal
  PROVE  RestoreInv'
<1> USE DEF SignalInv, RestoreInv
<1>0. /\ Running /\ frames # <<>>
      /\ DOMAIN frames = 1 .. Len(frames) /\ Len(frames) \in DOMAIN frames
      /\ Top = frames[Len(frames)]
  <2>1. Running /\ frames # <<>>
    BY DEF HandleSignal, HandlerRestores, ResetDefault, Raise, Return, InHandler
  <2> QED
    BY <2>1, FrameFacts
\* A handler that moves on: the others are where they were, and it may only
\* be past tcsetattr when the terminal is given back.
<1>1. ASSUME NEW there \in {"restore", "clear", "default", "raise", "return"},
             MoveTo(there), UNCHANGED <<status, atexit, main>>,
             terminal' \in {terminal, "original"},
             there # "restore" => terminal' = "original",
             terminal' = "raw" => UNCHANGED <<TermiosSaved, handler>>
      PROVE  RestoreInv'
  <2>1. /\ frames' # <<>> /\ DOMAIN frames' = DOMAIN frames
        /\ \A i \in DOMAIN frames :
             frames'[i].at = IF i = Len(frames) THEN there ELSE frames[i].at
    BY <1>0, <1>1, Moved
  <2>2. terminal = "original" => terminal' = "original"
    BY <1>1
  <2>3. \A i \in DOMAIN frames' :
          frames'[i].at \in {"clear", "default", "raise", "return"} => terminal' = "original"
    BY <1>0, <1>1, <2>1, <2>2 DEF RawIsGuarded
  <2>4. terminal' = "raw" => Guarded'
    BY <1>0, <1>1 DEF RawIsGuarded, Guarded
  <2>5. main' \in {"clear", "exited"} => terminal' = "original"
    BY <1>0, <1>1, <2>2 DEF RawIsGuarded
  <2> QED
    BY <1>0, <1>1, <2>1, <2>3, <2>4, <2>5 DEF RawIsGuarded, SettingUp, TerminalIsRestored, Running
<1>2. CASE HandlerRestores
  <2>1. PICK there \in {"restore", "clear", "default"} :
          RestoreStdin(Top.at, there, "default") /\ MoveTo(there)
    BY <1>2 DEF HandlerRestores
  <2>2. terminal \in {"original", "raw"}
    BY DEF TypeOK
  <2>3. (terminal = "raw" => TermiosSaved) /\ (Top.at = "clear" => terminal = "original")
    BY <1>0 DEF RawIsGuarded, Guarded
  <2>4. /\ terminal' \in {terminal, "original"}
        /\ there # "restore" => terminal' = "original"
        /\ terminal' = "raw" => TermiosSaved' = TermiosSaved
    BY <2>1, <2>2, <2>3 DEF RestoreStdin
  <2> QED
    BY <1>1, <1>2, <2>1, <2>4 DEF HandlerRestores
<1>3. CASE ResetDefault
  <2>1. terminal = "original"
    BY <1>0, <1>3 DEF ResetDefault, InHandler, RawIsGuarded
  <2> QED
    BY <1>1, <1>3, <2>1 DEF ResetDefault
<1>4. CASE Raise
  <2>1. terminal = "original"
    BY <1>0, <1>4 DEF Raise, InHandler, RawIsGuarded
  <2> QED
    BY <1>1, <1>4, <2>1 DEF Raise
<1>5. CASE Return
  <2>1. terminal = "original" /\ terminal' = terminal
    BY <1>0, <1>5 DEF Return, InHandler, RawIsGuarded
  <2>2. Top.signal \in pending /\ handler[Top.signal] = "default" /\ Top.signal \in Signals
    BY <1>0, <1>5, FrameFacts DEF Return, InHandler, NoReturn
  <2>3. ~Running'
    BY <1>5, <2>2, SignalsAssumption DEF Return, Take, Running
  <2> QED
    BY <2>1, <2>3 DEF RawIsGuarded, SettingUp, TerminalIsRestored
<1> QED
  BY <1>2, <1>3, <1>4, <1>5 DEF HandleSignal

(***************************************************************************)
(* If every deadly signal is one SetupStdin handles and IRQ_INTERVAL can   *)
(* be read, the terminal is given back however the process ends, for any   *)
(* list of handled signals.  Both conditions are needed: std::stoull       *)
(* throws past RestoreStdin, and SIGPIPE, say, is not handled.             *)
(***************************************************************************)
THEOREM TerminalGivenBack ==
  ASSUME Others = {}, "garbage" \notin Environments
  PROVE  Spec => []TerminalIsRestored
<1>1. Init => RestoreInv
  BY DEF Init, RestoreInv, RawIsGuarded, SettingUp, TerminalIsRestored, Running
<1>2. SignalInv /\ RestoreInv /\ [Next]_vars => RestoreInv'
  <2> SUFFICES ASSUME SignalInv, RestoreInv, [Next]_vars  PROVE RestoreInv'
    OBVIOUS
  <2>1. CASE Main
    BY <2>1, MainRestores
  <2>2. CASE HandleSignal
    BY <2>2, HandlersRestore
  <2>3. CASE \E s \in Signals : Send(s) \/ Deliver(s)
    BY <2>3, SignalRestores
  <2>4. CASE UNCHANGED vars
    BY <2>4 DEF vars, started, signalled, RestoreInv, RawIsGuarded, SettingUp,
                TerminalIsRestored, Guarded, Running
  <2> QED
    BY <2>1, <2>2, <2>3, <2>4 DEF Next
<1>3. RestoreInv => TerminalIsRestored
  BY DEF RestoreInv
<1> QED
  BY <1>1, <1>2, <1>3, SignalInvariant, PTL DEF Spec
=============================================================================
