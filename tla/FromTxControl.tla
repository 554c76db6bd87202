---------------------------- MODULE FromTxControl -----------------------------
(***************************************************************************)
(* The goroutines of blast-from-tx: the one that paces the batches, the    *)
(* keyboard handler of the manager, the one that waits for a signal, and   *)
(* the terminal's Run and keyboard loop, for both terminals of             *)
(* internal/ui.  What a batch does is module FromTxSlots.                  *)
(***************************************************************************)
EXTENDS Naturals

CONSTANTS
    Rates,        \* the rates that can be asked for
    FullBatch,    \* 1000 transactions
    Fails,        \* processing may fail before it blasts, or the slots be empty
    MaxKeys       \* bound: keys pressed

ASSUME ControlAssumption ==
    /\ Fails \in BOOLEAN
    /\ Rates \subseteq Nat \ {0} /\ Rates # {}
    /\ FullBatch \in Nat \ {0} /\ MaxKeys \in Nat

VARIABLES
    (* the manager *)
    paused, rate,
    stopCh,      \* whether it is closed
    (* the terminal *)
    simple,      \* it is SimpleTerminal, or TviewTerminal: --simple-ui
    uiPaused,    \* isPaused of SimpleTerminal
    uiStopCh,    \* whether stopCh of the terminal is closed
    pauseCh, rateCh, quitCh,   \* the message each channel holds, or 0
    appStopped,  \* tview's app.Stop was called
    pausing,     \* messages to pause that are about to be sent
    quitter,     \* the goroutine that tview's Q starts
    (* the goroutines *)
    blaster,     \* the one that processes the split and then blasts
    pace,        \* its locals: the rate and batch of this second, and what it sent
    run,         \* main, in terminal.Run
    keys,        \* keyboardLoop, or tview's event loop, which main runs
    handler,     \* handleKeyboard
    shutdown,    \* where each goroutine is in gracefulShutdown
    exit,        \* how the process ended, "no" while it runs
    printed,     \* the final statistics were printed
    (* history *)
    dropped,     \* messages to pause that found another one waiting
    late,        \* batches begun while paused, stopped, or at an old rate
    pressed      \* only bounds the model

manager  == <<paused, rate, stopCh>>
channels == <<pauseCh, rateCh, quitCh>>
display  == <<simple, uiPaused, uiStopCh, appStopped>>
sending  == <<pausing, quitter, dropped>>
pacing   == <<blaster, pace, late>>
ending   == <<shutdown, exit, printed>>
vars     == <<paused, rate, stopCh, simple, uiPaused, uiStopCh, appStopped, pauseCh, rateCh, quitCh,
              pausing, quitter, dropped, blaster, pace, late, run, keys, handler, shutdown, exit,
              printed, pressed>>

Closers == {"blaster", "handler", "signals"}

TypeOK ==
    /\ {simple, paused, stopCh, uiPaused, uiStopCh, appStopped, printed} \subseteq BOOLEAN
    /\ rate \in Rates /\ rateCh \in Rates \cup {0}
    /\ {pauseCh, quitCh} \subseteq 0 .. 1 /\ {pausing, dropped} \subseteq Nat
    /\ blaster \in {"process", "stop?", "pause?", "rate?", "stop", "rate", "pause", "submit", "gone"}
    /\ pace \in [rate : Rates, b : Nat, sent : Nat]
    /\ run \in {"wait", "stop", "returned"}
    /\ keys \in {"read", "stuck", "gone"} /\ quitter \in {"no", "send", "stop"}
    /\ handler \in {"select", "toggle", "show", "gone"}
    /\ shutdown \in [Closers -> {"no", "close", "stopui", "print", "exit"}]
    /\ exit \in {"no", "stats", "main", "panic"}
    /\ late \in [{"pause", "stop", "rate"} -> Nat]

Init ==
    /\ simple \in BOOLEAN
    /\ paused = FALSE /\ rate \in Rates /\ stopCh = FALSE
    /\ uiPaused = FALSE /\ uiStopCh = FALSE /\ appStopped = FALSE
    /\ pauseCh = 0 /\ rateCh = 0 /\ quitCh = 0
    /\ pausing = 0 /\ quitter = "no" /\ dropped = 0
    /\ blaster = "process" /\ pace = [rate |-> rate, b |-> 0, sent |-> 0]
    /\ run = "wait" /\ keys = "read" /\ handler = "select"
    /\ shutdown = [g \in Closers |-> "no"]
    /\ exit = "no" /\ printed = FALSE
    /\ late = [c \in {"pause", "stop", "rate"} |-> 0]
    /\ pressed = 0

Running == exit = "no"

-----------------------------------------------------------------------------
(* The terminal *)

\* ShowMessage returns: at once from SimpleTerminal, and from TviewTerminal when
\* the event loop has run the update it queues.
Answers == simple \/ (run = "wait" /\ keys = "read")

\* keyboardLoop does one key after the other; tview starts a goroutine for P
\* and Q and reads on.
Press ==
    /\ Running /\ keys = "read" /\ (simple => pausing = 0) /\ pressed < MaxKeys
    /\ pressed' = pressed + 1
    /\ UNCHANGED <<manager, simple, uiStopCh, appStopped, pauseCh, dropped, pacing, run, handler, ending>>

\* keyboardLoop ends after the key it was reading when the terminal stopped.
ReadsOn == IF simple /\ uiStopCh THEN "gone" ELSE keys

\* P: SimpleTerminal turns its own flag, and then sends.
PressPause ==
    /\ Press
    /\ uiPaused' = (simple /\ ~uiPaused) /\ pausing' = pausing + 1
    /\ UNCHANGED <<rateCh, quitCh, quitter, keys>>

\* A mistake: a second message waits as well.
SendPauseQueued ==
    /\ Running /\ pausing > 0 /\ pausing' = pausing - 1
    /\ pauseCh' = pauseCh + 1 /\ keys' = ReadsOn
    /\ UNCHANGED <<manager, display, rateCh, quitCh, dropped, quitter, pacing, run, handler, ending,
                   pressed>>

\* The message is dropped if one waits.
SendPause ==
    /\ Running /\ pausing > 0 /\ pausing' = pausing - 1
    /\ pauseCh' = 1 /\ dropped' = dropped + pauseCh
    /\ keys' = ReadsOn
    /\ UNCHANGED <<manager, display, rateCh, quitCh, quitter, pacing, run, handler, ending, pressed>>

\* R.  The "Set Rate" button of tview is handled in the event loop, and so is
\* its ShowMessage, which waits for that loop: no key is read again.
PressRate(r) ==
    /\ Press
    /\ rateCh' = IF rateCh = 0 THEN r ELSE rateCh
    /\ keys' = IF ~simple /\ rateCh = 0 THEN "stuck" ELSE ReadsOn
    /\ UNCHANGED <<uiPaused, quitCh, pausing, quitter>>

\* Q: keyboardLoop of SimpleTerminal sends and returns; tview starts a goroutine
\* that sends and stops the application (one at a time is enough here).
PressQuit ==
    /\ Press
    /\ IF simple THEN quitCh' = 1 /\ keys' = "gone" /\ UNCHANGED quitter
                 ELSE quitter = "no" /\ quitter' = "send" /\ UNCHANGED <<quitCh, keys>>
    /\ UNCHANGED <<uiPaused, rateCh, pausing>>

SendQuit ==
    /\ Running /\ quitter = "send" /\ quitter' = "stop"
    /\ quitCh' = 1
    /\ UNCHANGED <<manager, display, pauseCh, rateCh, pausing, dropped, pacing, run, keys, handler,
                   ending, pressed>>

StopApp ==
    /\ Running /\ quitter = "stop" /\ quitter' = "no"
    /\ appStopped' = TRUE
    /\ UNCHANGED <<manager, simple, uiPaused, uiStopCh, channels, pausing, dropped, pacing, run, keys,
                   handler, ending, pressed>>

\* SimpleTerminal.Run takes the message to quit, if it is first to do so;
\* TviewTerminal.Run returns when the event loop sees the application stopped.
RunQuits ==
    /\ Running /\ run = "wait"
    /\ IF simple THEN quitCh = 1 /\ quitCh' = 0 /\ run' = "stop" /\ UNCHANGED keys
                 ELSE /\ appStopped /\ keys = "read"
                      /\ run' = "returned" /\ keys' = "gone" /\ UNCHANGED quitCh
    /\ UNCHANGED <<manager, display, pauseCh, rateCh, sending, pacing, handler, ending, pressed>>

\* Closing a channel that is closed is a panic.
Panics(closed) == exit' = IF closed THEN "panic" ELSE exit

RunStops ==
    /\ Running /\ run = "stop"
    /\ uiStopCh' = TRUE /\ Panics(uiStopCh)
    /\ run' = "returned"
    /\ UNCHANGED <<manager, simple, uiPaused, appStopped, channels, sending, pacing, keys, handler,
                   shutdown, printed, pressed>>

\* main returns, and the process ends whatever its goroutines do.
MainReturns ==
    /\ Running /\ run = "returned"
    /\ exit' = "main"
    /\ UNCHANGED <<manager, display, channels, sending, pacing, run, keys, handler, shutdown, printed,
                   pressed>>

Terminal ==
    \/ PressPause \/ SendPause \/ PressQuit \/ SendQuit \/ StopApp
    \/ \E r \in Rates : PressRate(r)
    \/ RunQuits \/ RunStops \/ MainReturns

-----------------------------------------------------------------------------
(* handleKeyboard *)

Select == Running /\ handler = "select" /\ shutdown["handler"] = "no"

TakePause ==
    /\ Select /\ pauseCh = 1
    /\ pauseCh' = 0 /\ handler' = "toggle"
    /\ UNCHANGED <<manager, display, rateCh, quitCh, sending, pacing, run, keys, ending, pressed>>

\* A mistake: the second message pauses again.
PauseOnly ==
    /\ Running /\ handler = "toggle" /\ handler' = "show"
    /\ paused' = TRUE
    /\ late' = [late EXCEPT !["pause"] = 0]
    /\ UNCHANGED <<rate, stopCh, display, channels, sending, blaster, pace, run, keys, ending, pressed>>

TogglePause ==
    /\ Running /\ handler = "toggle" /\ handler' = "show"
    /\ paused' = ~paused
    /\ late' = [late EXCEPT !["pause"] = 0]
    /\ UNCHANGED <<rate, stopCh, display, channels, sending, blaster, pace, run, keys, ending, pressed>>

ChangeRate ==
    /\ Select /\ rateCh # 0
    /\ rateCh' = 0 /\ handler' = "show"
    /\ rate' = rateCh
    /\ late' = [late EXCEPT !["rate"] = 0]
    /\ UNCHANGED <<paused, stopCh, display, pauseCh, quitCh, sending, blaster, pace, run, keys, ending,
                   pressed>>

\* ShowMessage, at the end of togglePause and changeRate.
Shown ==
    /\ Running /\ handler = "show" /\ Answers
    /\ handler' = "select"
    /\ UNCHANGED <<manager, display, channels, sending, pacing, run, keys, ending, pressed>>

HandlerLeaves ==
    /\ Select /\ stopCh
    /\ handler' = "gone"
    /\ UNCHANGED <<manager, display, channels, sending, pacing, run, keys, ending, pressed>>

\* A mistake: the goroutine returns and leaves the rest to the terminal.
HandlerQuitsQuietly ==
    /\ Select /\ quitCh = 1
    /\ quitCh' = 0
    /\ handler' = "gone"
    /\ UNCHANGED <<manager, display, pauseCh, rateCh, sending, pacing, run, keys, ending, pressed>>

HandlerQuits ==
    /\ Select /\ quitCh = 1
    /\ quitCh' = 0
    /\ shutdown' = [shutdown EXCEPT !["handler"] = "close"]
    /\ UNCHANGED <<manager, display, pauseCh, rateCh, sending, pacing, run, keys, handler, exit, printed,
                   pressed>>

HandleKeyboard ==
    TakePause \/ TogglePause \/ ChangeRate \/ Shown \/ HandlerLeaves \/ HandlerQuits

Signal ==
    /\ Running /\ shutdown["signals"] = "no"
    /\ shutdown' = [shutdown EXCEPT !["signals"] = "close"]
    /\ UNCHANGED <<manager, display, channels, sending, pacing, run, keys, handler, exit, printed,
                   pressed>>

-----------------------------------------------------------------------------
(* gracefulShutdown *)

At(g, step) == Running /\ shutdown[g] = step

Goes(g, step) == /\ shutdown' = [shutdown EXCEPT ![g] = step]
                 /\ UNCHANGED <<paused, rate, simple, uiPaused, channels, sending, pacing, run, keys,
                                handler, pressed>>

CloseStopCh(g) ==
    /\ At(g, "close") /\ Goes(g, "stopui")
    /\ stopCh' = TRUE /\ Panics(stopCh)
    /\ UNCHANGED <<uiStopCh, appStopped, printed>>

StopTerminal(g) ==
    /\ At(g, "stopui") /\ Goes(g, "print")
    /\ uiStopCh' = TRUE /\ Panics(uiStopCh)
    /\ appStopped' = ~simple
    /\ UNCHANGED <<stopCh, printed>>

\* A mistake: the process is not ended.
PrintWithoutExit(g) ==
    /\ At(g, "print") /\ Goes(g, "no")
    /\ printed' = TRUE
    /\ UNCHANGED <<stopCh, uiStopCh, appStopped, exit>>

PrintFinalStats(g) ==
    /\ At(g, "print") /\ Goes(g, "exit")
    /\ printed' = TRUE
    /\ UNCHANGED <<stopCh, uiStopCh, appStopped, exit>>

Exit(g) ==
    /\ At(g, "exit") /\ Goes(g, "exit")
    /\ exit' = "stats"
    /\ UNCHANGED <<stopCh, uiStopCh, appStopped, printed>>

GracefulShutdown(g) == CloseStopCh(g) \/ StopTerminal(g) \/ PrintFinalStats(g) \/ Exit(g)

-----------------------------------------------------------------------------
(* startProcessing, startRateLimitedBlasting *)

Blasts(from, to) ==
    /\ Running /\ blaster = from /\ shutdown["blaster"] = "no"
    /\ blaster' = to
    /\ UNCHANGED <<manager, display, channels, sending, run, keys, handler, exit, printed, pressed>>

\* Something fails before the blasting, or no slot is left: it says so, and then
\* shuts down.
BlasterFails ==
    /\ Fails
    /\ Blasts("process", "gone") \/ Blasts("submit", "gone")
    /\ shutdown' = [shutdown EXCEPT !["blaster"] = IF Answers THEN "close" ELSE "no"]
    /\ UNCHANGED <<pace, late>>

\* Every step of the processing is reported.
Processed == Answers /\ Blasts("process", "stop?") /\ UNCHANGED <<pace, late, shutdown>>

Stays == UNCHANGED <<pace, late, shutdown>>

\* The loop over seconds, and in it the loop over the batches of a second:
\* each looks at the stop channel, the pause and the rate in turn.
SecondBegins ==
    \/ stopCh /\ Blasts("stop?", "gone") /\ Stays
    \/ ~stopCh /\ Blasts("stop?", "pause?") /\ Stays
    \/ paused /\ Blasts("pause?", "stop?") /\ Stays
    \/ ~paused /\ Blasts("pause?", "rate?") /\ Stays
    \/ /\ Blasts("rate?", "stop")
       /\ pace' = [rate |-> rate, b |-> 0, sent |-> 0]
       /\ UNCHANGED <<late, shutdown>>

\* Batches in a second at a rate, and how large the b-th of them is.
Batches(r) == (r + FullBatch - 1) \div FullBatch

\* A mistake: the last batch is full.
FullSize(r, b) == IF r <= FullBatch THEN r ELSE FullBatch

Size(r, b) ==
    IF r <= FullBatch THEN r
    ELSE IF b = Batches(r) - 1 /\ r % FullBatch # 0 THEN r % FullBatch
    ELSE FullBatch

Next1 == [pace EXCEPT !.b = @ + 1]

\* A mistake: the checks are made once a second.
BatchBeginsUnchecked ==
    \/ pace.b = Batches(pace.rate) /\ Blasts("stop", "stop?") /\ Stays
    \/ pace.b < Batches(pace.rate) /\ Blasts("stop", "submit") /\ Stays

BatchBegins ==
    \/ pace.b = Batches(pace.rate) /\ Blasts("stop", "stop?") /\ Stays
    \/ pace.b < Batches(pace.rate) /\ stopCh /\ Blasts("stop", "gone") /\ Stays
    \/ pace.b < Batches(pace.rate) /\ ~stopCh /\ Blasts("stop", "rate") /\ Stays
    \/ rate # pace.rate /\ Blasts("rate", "stop?") /\ Stays
    \/ rate = pace.rate /\ Blasts("rate", "pause") /\ Stays
    \/ paused /\ Blasts("pause", "stop") /\ pace' = Next1 /\ UNCHANGED <<late, shutdown>>
    \/ ~paused /\ Blasts("pause", "submit") /\ Stays

\* Batches begun out of time, as far as it can be seen from outside.
Late == [c \in DOMAIN late |->
            late[c] + (CASE c = "pause" -> IF paused THEN 1 ELSE 0
                         [] c = "stop"  -> IF stopCh THEN 1 ELSE 0
                         [] c = "rate"  -> IF rate # pace.rate THEN 1 ELSE 0)]

\* A batch that is large or slow is reported, and that may never return.
SubmitBatch ==
    /\ Blasts("submit", "stop") \/ (~Answers /\ Blasts("submit", "gone"))
    /\ pace' = [Next1 EXCEPT !.sent = @ + Size(pace.rate, pace.b)]
    /\ late' = Late
    /\ UNCHANGED shutdown

Blaster == BlasterFails \/ Processed \/ SecondBegins \/ BatchBegins \/ SubmitBatch

-----------------------------------------------------------------------------
Ended == ~Running /\ UNCHANGED vars

Next ==
    \/ Terminal
    \/ HandleKeyboard \/ Signal
    \/ \E g \in Closers : GracefulShutdown(g)
    \/ Blaster
    \/ Ended

Spec == Init /\ [][Next]_vars

\* Each goroutine is scheduled; whether keys are pressed or a signal comes is
\* open.
FairSpec ==
    /\ Spec
    /\ WF_vars(SendPause) /\ WF_vars(SendQuit \/ StopApp) /\ WF_vars(RunQuits \/ RunStops \/ MainReturns)
    /\ WF_vars(HandleKeyboard) /\ WF_vars(Blaster)
    /\ \A g \in Closers : WF_vars(GracefulShutdown(g))

-----------------------------------------------------------------------------
(* Properties *)

\* When Pause is taken, the stop channel closed or the rate changed, one more
\* batch may begin, the one that was past its checks; never a second one.
OneLateBatch == \A c \in DOMAIN late : late[c] <= 1

\* The messages to pause that the manager has not turned its flag for.
Taken   == IF handler = "toggle" THEN 1 ELSE 0
Lagging == pausing + pauseCh + Taken + dropped

\* The flags of SimpleTerminal and of the manager differ exactly when the
\* messages to pause that are on their way and those that were dropped are odd
\* in number: each flag turns with every message but those.
DisplayLags ==
    simple => (uiPaused # paused <=> Lagging % 2 = 1)

\* In a second no more is sent than the rate it began with, whichever way it is
\* cut into batches.
NoMoreThanRate == pace.sent <= pace.rate

\* Q ends the process, whoever of Run and handleKeyboard takes the message,
\* unless tview is stuck in "Set Rate".
QuitEnds == (quitCh = 1) ~> (~Running \/ keys = "stuck")

\* Whatever begins the shutdown ends the process, with tview stuck as well.
ShutdownEnds == \A g \in Closers : (shutdown[g] # "no") ~> ~Running

-----------------------------------------------------------------------------
(* What the documentation or a comment says and the code does not do: TLC    *)
(* refutes each of these in a small instance (README, "Disagreements").      *)

\* blast_from_tx.go:105, "Setup signal handling for graceful shutdown": the
\* shutdown does not end in a panic.
ShutdownIsGraceful == exit # "panic"

\* blast_from_tx.go:584, "Print final stats to stdout after UI closes".
StatsArePrinted == exit = "main" => printed

\* tview_terminal.go:296, "Ctrl+C - Force quit": the keys are read as long as the
\* process runs.
KeysAreRead == Running => keys # "stuck"

\* simple_terminal.go:94-98: the display says "Blasting paused" when it is.
DisplayIsTrue == simple /\ pauseCh = 0 => uiPaused = paused
=============================================================================
