------------------------ MODULE FromTxControl_proofs -------------------------
(* What holds of the goroutines of blast-from-tx for every rate, size of a   *)
(* full batch and number of keys pressed.                                    *)
EXTENDS FromTxControl, Integers, TLAPS

-----------------------------------------------------------------------------
(* How a second is cut into batches *)

\* A rate is so many full batches and a rest, smaller than one.
LEMMA Division ==
    ASSUME NEW r \in Nat, NEW f \in Nat \ {0}
    PROVE  /\ r \div f \in Nat /\ r % f \in Nat
           /\ r = f * (r \div f) + (r % f) /\ r % f < f
  <1>1. r \div f \in Nat
    OBVIOUS
  <1>2. r % f \in Nat /\ r % f < f
    OBVIOUS
  <1>3. r = f * (r \div f) + (r % f)
    OBVIOUS
  <1> QED
    BY <1>1, <1>2, <1>3

\* It takes a batch for each full one and one for the rest, if there is any.
LEMMA BatchesAre ==
    ASSUME NEW r \in Nat \ {0}
    PROVE  /\ Batches(r) \in Nat /\ Batches(r) > 0
           /\ Batches(r) = (r \div FullBatch) + (IF r % FullBatch = 0 THEN 0 ELSE 1)
  <1> DEFINE f == FullBatch
             q == r \div f
             m == r % f
             n == (r + f - 1) \div f
             k == (r + f - 1) % f
  <1>1. f \in Nat /\ f > 0
    BY ControlAssumption
  <1>2. q \in Nat /\ m \in Nat /\ r = f * q + m /\ m < f
    BY <1>1, Division
  <1>3. n \in Nat /\ k \in Nat /\ r + f - 1 = f * n + k /\ k < f
    <2>1. r + f - 1 \in Nat
      BY <1>1
    <2>2. QED
      BY <1>1, <2>1, Division
  <1> SUFFICES n > 0 /\ n = q + (IF m = 0 THEN 0 ELSE 1)
    BY <1>3 DEF Batches
  <1> HIDE DEF q, m, n, k, f
  <1>4. n > 0
    <2> SUFFICES ASSUME n = 0 PROVE FALSE
      BY <1>3
    <2>1. f * n = 0
      BY <1>1
    <2> QED
      BY <1>1, <1>3, <2>1
  <1>5. CASE m = 0
    <2>1. f * (n - q) = f * n - f * q
      BY <1>1, <1>2, <1>3
    <2>2. f * (n - q) = f - 1 - k
      BY <1>1, <1>2, <1>3, <1>5, <2>1
    <2>3. n - q = 0
      <3>1. ~(n - q >= 1)
        <4> SUFFICES ASSUME n - q >= 1 PROVE f * (n - q) >= f
          BY <1>1, <1>3, <2>2
        <4> QED
          BY <1>1, <1>2, <1>3
      <3>2. ~(n - q <= 0 - 1)
        <4> SUFFICES ASSUME n - q <= 0 - 1 PROVE f * (n - q) <= 0 - f
          BY <1>1, <1>3, <2>2
        <4> QED
          BY <1>1, <1>2, <1>3
      <3> QED
        BY <1>2, <1>3, <3>1, <3>2
    <2> QED
      BY <1>2, <1>3, <1>4, <1>5, <2>3
  <1>6. CASE m # 0
    <2>1. f * (n - q) = f * n - f * q
      BY <1>1, <1>2, <1>3
    <2>2. f * (n - q) = m + f - 1 - k
      BY <1>1, <1>2, <1>3, <2>1
    <2>3. n - q = 1
      <3>1. ~(n - q >= 2)
        <4> SUFFICES ASSUME n - q >= 2 PROVE f * (n - q) >= f + f
          BY <1>1, <1>2, <1>3, <2>2
        <4> QED
          BY <1>1, <1>2, <1>3
      <3>2. ~(n - q <= 0)
        <4> SUFFICES ASSUME n - q <= 0 PROVE f * (n - q) <= 0
          BY <1>1, <1>2, <1>3, <1>6, <2>2
        <4> QED
          BY <1>1, <1>2, <1>3
      <3> QED
        BY <1>2, <1>3, <3>1, <3>2
    <2> QED
      BY <1>2, <1>3, <1>4, <1>6, <2>3
  <1> QED
    BY <1>5, <1>6

\* A batch is no larger than a full one, and fits in what is left of the rate
\* when those before it were full.
LEMMA SizeFits ==
    ASSUME NEW r \in Nat \ {0}, NEW b \in Nat, b < Batches(r),
           NEW sent \in Nat, sent <= b * FullBatch
    PROVE  /\ Size(r, b) \in Nat /\ Size(r, b) <= FullBatch
           /\ sent + Size(r, b) <= r
  <1> DEFINE f == FullBatch
             q == r \div f
             m == r % f
             B == Batches(r)
  <1>1. f \in Nat /\ f > 0
    BY ControlAssumption
  <1>2. q \in Nat /\ m \in Nat /\ r = f * q + m /\ m < f
    BY <1>1, Division
  <1>3. B \in Nat /\ B = q + (IF m = 0 THEN 0 ELSE 1)
    BY BatchesAre
  <1>4. Size(r, b) = IF r <= f THEN r ELSE IF b = B - 1 /\ m # 0 THEN m ELSE f
    BY DEF Size
  <1>5. Size(r, b) \in Nat /\ Size(r, b) <= f
    BY <1>1, <1>2, <1>4
  <1> HIDE DEF q, m, B, f
  <1>6. b < B /\ sent <= b * f
    BY DEF B, f
  <1>7. CASE b < q
    <2>1. b * f + f <= f * q
      <3>1. f * (q - b) >= f
        BY <1>1, <1>2, <1>7
      <3>2. f * (q - b) = f * q - b * f
        BY <1>1, <1>2
      <3> QED
        BY <1>1, <1>2, <3>1, <3>2
    <2> QED
      BY <1>1, <1>2, <1>5, <1>6, <2>1 DEF f
  <1>8. CASE ~(b < q)
    <2>1. m # 0 /\ b = q /\ b = B - 1
      BY <1>2, <1>3, <1>6, <1>8
    <2>2. b * f + m = r
      BY <1>1, <1>2, <2>1
    <2>3. CASE r <= f
      <3>1. q = 0
        <4> SUFFICES ASSUME q >= 1 PROVE FALSE
          BY <1>2
        <4>1. f * q >= f
          BY <1>1, <1>2
        <4> QED
          BY <1>1, <1>2, <2>1, <2>3, <4>1
      <3>2. sent = 0
        <4>1. b * f = 0
          <5>1. b = 0
            BY <2>1, <3>1
          <5> QED
            BY <1>1, <5>1
        <4> QED
          BY <1>6, <4>1
      <3>3. Size(r, b) = r
        BY <1>4, <2>3
      <3> QED
        BY <1>5, <3>2, <3>3 DEF f
    <2>4. CASE ~(r <= f)
      <3>1. Size(r, b) = m
        BY <1>4, <2>1, <2>4
      <3> QED
        BY <1>1, <1>2, <1>5, <1>6, <2>2, <3>1 DEF f
    <2> QED
      BY <2>3, <2>4
  <1> QED
    BY <1>7, <1>8

-----------------------------------------------------------------------------
(* Types *)

\* The initial state has the types.
LEMMA TypeInit == Init => TypeOK
  <1> SUFFICES ASSUME Init PROVE TypeOK
    OBVIOUS
  <1>1. pace \in [rate : Rates, b : Nat, sent : Nat]
    BY DEF Init
  <1>2. late \in [{"pause", "stop", "rate"} -> Nat]
    BY DEF Init
  <1>3. shutdown \in [Closers -> {"no", "close", "stopui", "print", "exit"}]
    BY DEF Init
  <1>4. {simple, paused, stopCh, uiPaused, uiStopCh, appStopped, printed} \subseteq BOOLEAN
    BY DEF Init
  <1> QED
    BY <1>1, <1>2, <1>3, <1>4 DEF Init, TypeOK

\* A key, and what the terminal does of it, keeps the types.
LEMMA TypeTerminal ==
    ASSUME TypeOK, Terminal
    PROVE  TypeOK'
  <1>1. CASE PressPause
    <2>1. UNCHANGED <<simple, paused, stopCh, uiStopCh, appStopped, printed>> /\ uiPaused' \in BOOLEAN
      BY <1>1 DEF PressPause, Press, manager, ending
    <2>2. pausing' = pausing + 1 /\ UNCHANGED <<pauseCh, quitCh, dropped, rate, rateCh, keys, quitter>>
      BY <1>1 DEF PressPause, Press, manager
    <2>3. UNCHANGED <<blaster, pace, run, handler, shutdown, exit, late>>
      BY <1>1 DEF PressPause, Press, pacing, ending
    <2> QED
      BY <2>1, <2>2, <2>3 DEF TypeOK
  <1>2. CASE SendPause
    <2>1. UNCHANGED <<simple, paused, stopCh, uiPaused, uiStopCh, appStopped, printed>>
      BY <1>2 DEF SendPause, manager, display, ending
    <2>2. UNCHANGED <<rate, rateCh, quitCh, quitter, blaster, pace, run, handler, shutdown, exit, late>>
      BY <1>2 DEF SendPause, manager, pacing, ending
    <2>3. /\ pauseCh' = 1 /\ pausing' \in Nat /\ dropped' \in Nat
          /\ keys' \in {"read", "stuck", "gone"}
      BY <1>2 DEF SendPause, ReadsOn, TypeOK
    <2> QED
      BY <2>1, <2>2, <2>3 DEF TypeOK
  <1>3. CASE PressQuit
    BY <1>3 DEF PressQuit, Press, TypeOK, manager, pacing, ending
  <1>4. CASE SendQuit
    BY <1>4 DEF SendQuit, TypeOK, manager, display, pacing, ending
  <1>5. CASE StopApp
    BY <1>5 DEF StopApp, TypeOK, manager, channels, pacing, ending
  <1>6. ASSUME NEW r \in Rates, PressRate(r) PROVE TypeOK'
    BY <1>6 DEF PressRate, Press, ReadsOn, TypeOK, manager, pacing, ending
  <1>7. CASE RunQuits
    BY <1>7 DEF RunQuits, TypeOK, manager, display, sending, pacing, ending
  <1>8. CASE RunStops
    BY <1>8 DEF RunStops, Panics, TypeOK, manager, channels, sending, pacing
  <1>9. CASE MainReturns
    BY <1>9 DEF MainReturns, TypeOK, manager, display, channels, sending, pacing
  <1> QED
    BY <1>1, <1>2, <1>3, <1>4, <1>5, <1>6, <1>7, <1>8, <1>9 DEF Terminal

\* So does what handleKeyboard does, and a signal.
LEMMA TypeHandler ==
    ASSUME TypeOK, HandleKeyboard \/ Signal
    PROVE  TypeOK'
  <1>1. CASE TakePause
    BY <1>1 DEF TakePause, Select, TypeOK, manager, display, sending, pacing, ending
  <1>2. CASE TogglePause
    BY <1>2 DEF TogglePause, TypeOK, display, channels, sending, ending
  <1>3. CASE ChangeRate
    BY <1>3 DEF ChangeRate, Select, TypeOK, display, sending, ending
  <1>4. CASE Shown
    BY <1>4 DEF Shown, TypeOK, manager, display, channels, sending, pacing, ending
  <1>5. CASE HandlerLeaves
    BY <1>5 DEF HandlerLeaves, Select, TypeOK, manager, display, channels, sending, pacing, ending
  <1>6. CASE HandlerQuits
    BY <1>6 DEF HandlerQuits, Select, TypeOK, manager, display, sending, pacing, Closers
  <1>7. CASE Signal
    BY <1>7 DEF Signal, TypeOK, manager, display, channels, sending, pacing, Closers
  <1> QED
    BY <1>1, <1>2, <1>3, <1>4, <1>5, <1>6, <1>7 DEF HandleKeyboard

\* So does a step of the shutdown.
LEMMA TypeShutdown ==
    ASSUME TypeOK, NEW g \in Closers, GracefulShutdown(g)
    PROVE  TypeOK'
  <1>1. CASE CloseStopCh(g)
    BY <1>1 DEF CloseStopCh, At, Goes, Panics, TypeOK, channels, sending, pacing
  <1>2. CASE StopTerminal(g)
    BY <1>2 DEF StopTerminal, At, Goes, Panics, TypeOK, channels, sending, pacing
  <1>3. CASE PrintFinalStats(g)
    BY <1>3 DEF PrintFinalStats, At, Goes, TypeOK, channels, sending, pacing
  <1>4. CASE Exit(g)
    BY <1>4 DEF Exit, At, Goes, TypeOK, channels, sending, pacing
  <1> QED
    BY <1>1, <1>2, <1>3, <1>4 DEF GracefulShutdown

\* The batches begun out of time are counted in numbers.
LEMMA LateCounts ==
    ASSUME TypeOK
    PROVE  /\ Late \in [{"pause", "stop", "rate"} -> Nat]
           /\ Late["pause"] = late["pause"] + (IF paused THEN 1 ELSE 0)
           /\ Late["stop"] = late["stop"] + (IF stopCh THEN 1 ELSE 0)
           /\ Late["rate"] = late["rate"] + (IF rate # pace.rate THEN 1 ELSE 0)
  <1>1. DOMAIN late = {"pause", "stop", "rate"}
    BY DEF TypeOK
  <1>2. /\ Late["pause"] = late["pause"] + (IF paused THEN 1 ELSE 0)
        /\ Late["stop"] = late["stop"] + (IF stopCh THEN 1 ELSE 0)
        /\ Late["rate"] = late["rate"] + (IF rate # pace.rate THEN 1 ELSE 0)
    BY <1>1 DEF Late
  <1>3. /\ Late = [c \in {"pause", "stop", "rate"} |-> Late[c]]
        /\ \A c \in {"pause", "stop", "rate"} : Late[c] \in Nat
    BY <1>1, <1>2 DEF Late, TypeOK
  <1> QED
    BY <1>2, <1>3

\* The blaster goes from one place to another.
LEMMA TypeBlasts ==
    ASSUME TypeOK, NEW from, NEW to,
           to \in {"process", "stop?", "pause?", "rate?", "stop", "rate", "pause", "submit", "gone"},
           Blasts(from, to),
           pace' \in [rate : Rates, b : Nat, sent : Nat],
           late' \in [{"pause", "stop", "rate"} -> Nat],
           shutdown' \in [Closers -> {"no", "close", "stopui", "print", "exit"}]
    PROVE  TypeOK'
  <1>1. /\ UNCHANGED <<paused, rate, stopCh, uiPaused, uiStopCh, appStopped, pauseCh, rateCh, quitCh>>
        /\ UNCHANGED <<run, keys, handler, exit, printed, pausing, quitter, dropped, simple>>
        /\ blaster' = to
    BY DEF Blasts, manager, display, channels, sending
  <1>2. ({simple, paused, stopCh, uiPaused, uiStopCh, appStopped, printed} \subseteq BOOLEAN)'
    BY <1>1 DEF TypeOK
  <1>3. (/\ rate \in Rates /\ rateCh \in Rates \cup {0} /\ {pauseCh, quitCh} \subseteq 0 .. 1
         /\ {pausing, dropped} \subseteq Nat)'
    BY <1>1 DEF TypeOK
  <1>4. (/\ run \in {"wait", "stop", "returned"} /\ keys \in {"read", "stuck", "gone"}
         /\ quitter \in {"no", "send", "stop"} /\ handler \in {"select", "toggle", "show", "gone"}
         /\ exit \in {"no", "stats", "main", "panic"})'
    BY <1>1 DEF TypeOK
  <1>5. (pace \in [rate : Rates, b : Nat, sent : Nat])'
    OBVIOUS
  <1>6. (late \in [{"pause", "stop", "rate"} -> Nat])'
    OBVIOUS
  <1>7. (shutdown \in [Closers -> {"no", "close", "stopui", "print", "exit"}])'
    BY DEF Closers
  <1>8. (blaster \in {"process", "stop?", "pause?", "rate?", "stop", "rate", "pause", "submit", "gone"})'
    BY <1>1
  <1> QED
    BY <1>2, <1>3, <1>4, <1>5, <1>6, <1>7, <1>8 DEF TypeOK

\* A second's locals change only by a batch that is skipped or sent, which
\* keeps their types.
LEMMA TypePace ==
    ASSUME TypeOK
    PROVE  /\ Next1 \in [rate : Rates, b : Nat, sent : Nat]
           /\ Next1 = [rate |-> pace.rate, b |-> pace.b + 1, sent |-> pace.sent]
           /\ \A n \in Nat : [Next1 EXCEPT !.sent = @ + n] =
                  [rate |-> pace.rate, b |-> pace.b + 1, sent |-> pace.sent + n]
           /\ pace.rate \in Nat \ {0} /\ pace.rate \in Rates /\ pace.b \in Nat /\ pace.sent \in Nat
  <1>1. /\ pace.rate \in Nat \ {0} /\ pace.rate \in Rates
        /\ pace.b \in Nat /\ pace.sent \in Nat
    BY ControlAssumption DEF TypeOK
  <1>2. pace = [rate |-> pace.rate, b |-> pace.b, sent |-> pace.sent]
    BY DEF TypeOK
  <1>3. Next1 = [rate |-> pace.rate, b |-> pace.b + 1, sent |-> pace.sent]
    BY <1>2 DEF Next1
  <1>4. ASSUME NEW n \in Nat
        PROVE  [Next1 EXCEPT !.sent = @ + n] =
                  [rate |-> pace.rate, b |-> pace.b + 1, sent |-> pace.sent + n]
    BY <1>3
  <1> QED
    BY <1>1, <1>3, <1>4

-----------------------------------------------------------------------------
(* The blaster *)

\* A batch was begun out of time for each cause once at most, and after it the
\* blaster does not get past its checks again while the cause lasts: the causes
\* end with a key, or with the second whose rate it was.
LateInv ==
    /\ OneLateBatch
    /\ late["stop"] > 0 => stopCh /\ blaster \in {"stop", "stop?", "gone"}
    /\ late["pause"] > 0 => paused /\ blaster \notin {"process", "rate?", "submit"}
    /\ late["rate"] > 0 /\ blaster \in {"pause", "submit"} => pace.rate = rate

\* What was sent fits in full batches, and a batch that is begun is one of the
\* second.
PaceInv ==
    /\ pace.sent <= pace.b * FullBatch /\ NoMoreThanRate
    /\ blaster \in {"rate", "pause", "submit"} => pace.b < Batches(pace.rate)

ControlInv == TypeOK /\ LateInv /\ PaceInv

\* A step of the blaster that begins no second and counts no batch.
LEMMA PlainStep ==
    ASSUME ControlInv, NEW from, NEW to,
           Blasts(from, to), UNCHANGED <<pace, late>>,
           to \in {"stop?", "pause?", "rate?", "stop", "rate", "pause", "submit", "gone"},
           shutdown' \in [Closers -> {"no", "close", "stopui", "print", "exit"}],
           late["stop"] > 0 => to \in {"stop", "stop?", "gone"},
           late["pause"] > 0 => to \notin {"rate?", "submit"},
           late["rate"] > 0 /\ to \in {"pause", "submit"} => pace.rate = rate,
           to \in {"rate", "pause", "submit"} => pace.b < Batches(pace.rate)
    PROVE  ControlInv'
  <1>1. /\ UNCHANGED <<pace, late, rate, stopCh, paused>> /\ blaster' = to
    BY DEF Blasts, manager
  <1>2. TypeOK'
    BY <1>1, TypeBlasts DEF ControlInv, TypeOK
  <1>3. LateInv'
    BY <1>1 DEF ControlInv, LateInv, OneLateBatch
  <1>4. PaceInv'
    BY <1>1 DEF ControlInv, PaceInv, NoMoreThanRate, Batches
  <1> QED
    BY <1>2, <1>3, <1>4 DEF ControlInv

\* The blaster's way to the next second keeps the invariant.
LEMMA SecondStep ==
    ASSUME ControlInv, BlasterFails \/ Processed \/ SecondBegins
    PROVE  ControlInv'
  <1> USE DEF ControlInv
  <1>1. shutdown \in [Closers -> {"no", "close", "stopui", "print", "exit"}]
    BY DEF TypeOK
  <1>2. CASE BlasterFails
    <2>1. shutdown' \in [Closers -> {"no", "close", "stopui", "print", "exit"}]
      BY <1>1, <1>2 DEF BlasterFails, Closers
    <2> QED
      BY <1>2, <2>1, PlainStep DEF BlasterFails
  <1>3. CASE Processed
    <2>1. Blasts("process", "stop?") /\ UNCHANGED <<pace, late, shutdown>> /\ blaster = "process"
      BY <1>3 DEF Processed, Blasts
    <2> QED
      BY <1>1, <2>1, PlainStep
  <1>4. CASE stopCh /\ Blasts("stop?", "gone") /\ Stays
    BY <1>1, <1>4, PlainStep DEF Stays
  <1>5. CASE ~stopCh /\ Blasts("stop?", "pause?") /\ Stays
    <2>1. ~(late["stop"] > 0)
      BY <1>5 DEF LateInv
    <2> QED
      BY <1>1, <1>5, <2>1, PlainStep DEF Stays
  <1>6. CASE paused /\ Blasts("pause?", "stop?") /\ Stays
    BY <1>1, <1>6, PlainStep DEF Stays
  <1>7. CASE ~paused /\ Blasts("pause?", "rate?") /\ Stays
    <2>1. blaster = "pause?" /\ ~(late["stop"] > 0) /\ ~(late["pause"] > 0)
      BY <1>7 DEF LateInv, Blasts
    <2> QED
      BY <1>1, <1>7, <2>1, PlainStep DEF Stays
  <1>8. CASE /\ Blasts("rate?", "stop")
             /\ pace' = [rate |-> rate, b |-> 0, sent |-> 0]
             /\ UNCHANGED <<late, shutdown>>
    <2>1. /\ UNCHANGED <<late, rate, stopCh, paused>> /\ blaster' = "stop"
      BY <1>8 DEF Blasts, manager
    <2>2. pace' \in [rate : Rates, b : Nat, sent : Nat]
      BY <1>8 DEF TypeOK
    <2>3. TypeOK'
      BY <1>1, <1>8, <2>2, TypeBlasts DEF TypeOK
    <2>4. LateInv'
      <3>1. blaster = "rate?" /\ ~(late["stop"] > 0)
        BY <1>8 DEF LateInv, Blasts
      <3> QED
        BY <2>1, <3>1 DEF LateInv, OneLateBatch
    <2>5. PaceInv'
      <3>1. rate \in Nat /\ FullBatch \in Nat
        BY ControlAssumption DEF TypeOK
      <3> QED
        BY <1>8, <2>1, <3>1 DEF PaceInv, NoMoreThanRate
    <2> QED
      BY <2>3, <2>4, <2>5
  <1> QED
    BY <1>2, <1>3, <1>4, <1>5, <1>6, <1>7, <1>8 DEF SecondBegins

\* So do the checks before a batch, and the batch skipped in a pause.
LEMMA BatchStep ==
    ASSUME ControlInv, BatchBegins
    PROVE  ControlInv'
  <1> USE DEF ControlInv
  <1>1. shutdown \in [Closers -> {"no", "close", "stopui", "print", "exit"}]
    BY DEF TypeOK
  <1>2. CASE pace.b = Batches(pace.rate) /\ Blasts("stop", "stop?") /\ Stays
    BY <1>1, <1>2, PlainStep DEF Stays
  <1>3. CASE pace.b < Batches(pace.rate) /\ stopCh /\ Blasts("stop", "gone") /\ Stays
    BY <1>1, <1>3, PlainStep DEF Stays
  <1>4. CASE pace.b < Batches(pace.rate) /\ ~stopCh /\ Blasts("stop", "rate") /\ Stays
    <2>1. ~(late["stop"] > 0)
      BY <1>4 DEF LateInv
    <2> QED
      BY <1>1, <1>4, <2>1, PlainStep DEF Stays
  <1>5. CASE rate # pace.rate /\ Blasts("rate", "stop?") /\ Stays
    BY <1>1, <1>5, PlainStep DEF Stays
  <1>6. CASE rate = pace.rate /\ Blasts("rate", "pause") /\ Stays
    <2>1. blaster = "rate" /\ ~(late["stop"] > 0) /\ pace.b < Batches(pace.rate)
      BY <1>6 DEF LateInv, PaceInv, Blasts
    <2> QED
      BY <1>1, <1>6, <2>1, PlainStep DEF Stays
  <1>7. CASE paused /\ Blasts("pause", "stop") /\ pace' = Next1 /\ UNCHANGED <<late, shutdown>>
    <2>1. UNCHANGED <<late, rate, stopCh, paused>> /\ blaster = "pause" /\ blaster' = "stop"
      BY <1>7 DEF Blasts, manager
    <2>2. /\ pace' \in [rate : Rates, b : Nat, sent : Nat]
          /\ pace'.rate = pace.rate /\ pace'.sent = pace.sent /\ pace'.b = pace.b + 1
          /\ pace.rate \in Nat /\ pace.b \in Nat /\ pace.sent \in Nat
      BY <1>7, TypePace
    <2>3. TypeOK'
      BY <1>1, <1>7, <2>2, TypeBlasts DEF TypeOK
    <2>4. LateInv'
      BY <2>1 DEF LateInv, OneLateBatch
    <2>5. PaceInv'
      <3>1. FullBatch \in Nat
        BY ControlAssumption
      <3>2. (pace.b + 1) * FullBatch = pace.b * FullBatch + FullBatch
        BY <2>2, <3>1
      <3>3. pace.b * FullBatch \in Nat
        BY <2>2, <3>1
      <3> QED
        BY <2>1, <2>2, <3>1, <3>2, <3>3 DEF PaceInv, NoMoreThanRate
    <2> QED
      BY <2>3, <2>4, <2>5
  <1>8. CASE ~paused /\ Blasts("pause", "submit") /\ Stays
    <2>1. /\ blaster = "pause" /\ ~(late["stop"] > 0) /\ ~(late["pause"] > 0)
          /\ pace.b < Batches(pace.rate) /\ (late["rate"] > 0 => pace.rate = rate)
      BY <1>8 DEF LateInv, PaceInv, Blasts
    <2> QED
      BY <1>1, <1>8, <2>1, PlainStep DEF Stays
  <1> QED
    BY <1>2, <1>3, <1>4, <1>5, <1>6, <1>7, <1>8 DEF BatchBegins

\* So does a batch: it is the first one late for its causes, and what it sends
\* fits in what is left of the rate.
LEMMA SubmitStep ==
    ASSUME ControlInv, SubmitBatch
    PROVE  ControlInv'
  <1> USE DEF ControlInv
  <1> DEFINE size == Size(pace.rate, pace.b)
  <1>0. PICK to \in {"stop", "gone"} : Blasts("submit", to)
    BY DEF SubmitBatch
  <1>1. /\ UNCHANGED <<rate, stopCh, paused, shutdown>> /\ blaster = "submit" /\ blaster' = to
        /\ pace' = [Next1 EXCEPT !.sent = @ + size] /\ late' = Late
    BY <1>0 DEF SubmitBatch, Blasts, manager
  <1>2. /\ pace.rate \in Nat \ {0} /\ pace.rate \in Rates /\ pace.b \in Nat /\ pace.sent \in Nat
        /\ pace.sent <= pace.b * FullBatch /\ pace.b < Batches(pace.rate)
    BY <1>1, TypePace DEF PaceInv
  <1>3. size \in Nat /\ size <= FullBatch /\ pace.sent + size <= pace.rate
    BY <1>2, SizeFits
  <1> HIDE DEF size
  <1>4. pace' = [rate |-> pace.rate, b |-> pace.b + 1, sent |-> pace.sent + size]
    BY <1>1, <1>3, TypePace
  <1>5. TypeOK'
    <2>1. pace' \in [rate : Rates, b : Nat, sent : Nat]
      BY <1>2, <1>3, <1>4
    <2>2. shutdown' \in [Closers -> {"no", "close", "stopui", "print", "exit"}]
      BY <1>1 DEF TypeOK
    <2>3. late' \in [{"pause", "stop", "rate"} -> Nat]
      BY <1>1, LateCounts
    <2> QED
      BY <1>0, <2>1, <2>2, <2>3, TypeBlasts
  <1>6. LateInv'
    <2>1. /\ late["pause"] = 0 /\ late["stop"] = 0
          /\ late["rate"] = 0 \/ pace.rate = rate
          /\ late["rate"] \in 0 .. 1
      BY <1>1 DEF LateInv, OneLateBatch, TypeOK
    <2>2. /\ late'["pause"] = IF paused THEN 1 ELSE 0
          /\ late'["stop"] = IF stopCh THEN 1 ELSE 0
          /\ late'["rate"] \in 0 .. 1
          /\ DOMAIN late' = {"pause", "stop", "rate"}
      BY <1>1, <2>1, LateCounts
    <2> QED
      BY <1>1, <2>2 DEF LateInv, OneLateBatch
  <1>7. PaceInv'
    <2>1. FullBatch \in Nat
      BY ControlAssumption
    <2>2. (pace.b + 1) * FullBatch = pace.b * FullBatch + FullBatch /\ pace.b * FullBatch \in Nat
      BY <1>2, <2>1
    <2> QED
      BY <1>1, <1>2, <1>3, <1>4, <2>1, <2>2 DEF PaceInv, NoMoreThanRate
  <1> QED
    BY <1>5, <1>6, <1>7

-----------------------------------------------------------------------------
\* Outside the blaster only a key that is handled ends a cause, and with it the
\* count of the batches late for it; a cause that begins has none.
LEMMA OthersStep ==
    ASSUME ControlInv, TypeOK', UNCHANGED <<blaster, pace>>,
           \/ UNCHANGED <<paused, rate, stopCh, late>>
           \/ UNCHANGED <<paused, rate, late>> /\ stopCh' = TRUE
           \/ UNCHANGED <<rate, stopCh>> /\ late' = [late EXCEPT !["pause"] = 0]
           \/ UNCHANGED <<paused, stopCh>> /\ late' = [late EXCEPT !["rate"] = 0]
    PROVE  ControlInv'
  <1>1. /\ late \in [{"pause", "stop", "rate"} -> Nat]
        /\ late' \in [{"pause", "stop", "rate"} -> Nat]
    BY DEF ControlInv, TypeOK
  <1>2. PaceInv'
    BY DEF ControlInv, PaceInv, NoMoreThanRate, Batches
  <1>3. LateInv'
    <2>1. CASE UNCHANGED <<paused, rate, stopCh, late>>
      BY <2>1 DEF ControlInv, LateInv, OneLateBatch
    <2>2. CASE UNCHANGED <<paused, rate, late>> /\ stopCh' = TRUE
      BY <2>2 DEF ControlInv, LateInv, OneLateBatch
    <2>3. CASE UNCHANGED <<rate, stopCh>> /\ late' = [late EXCEPT !["pause"] = 0]
      <3>1. /\ late'["pause"] = 0 /\ late'["stop"] = late["stop"] /\ late'["rate"] = late["rate"]
            /\ DOMAIN late' = {"pause", "stop", "rate"} /\ DOMAIN late = {"pause", "stop", "rate"}
        BY <1>1, <2>3
      <3> QED
        BY <2>3, <3>1 DEF ControlInv, LateInv, OneLateBatch
    <2>4. CASE UNCHANGED <<paused, stopCh>> /\ late' = [late EXCEPT !["rate"] = 0]
      <3>1. /\ late'["rate"] = 0 /\ late'["stop"] = late["stop"] /\ late'["pause"] = late["pause"]
            /\ DOMAIN late' = {"pause", "stop", "rate"} /\ DOMAIN late = {"pause", "stop", "rate"}
        BY <1>1, <2>4
      <3> QED
        BY <2>4, <3>1 DEF ControlInv, LateInv, OneLateBatch
    <2> QED
      BY <2>1, <2>2, <2>3, <2>4
  <1> QED
    BY <1>2, <1>3 DEF ControlInv

\* The terminal leaves the blaster and what it looks at alone.
LEMMA TerminalStep ==
    ASSUME ControlInv, Terminal
    PROVE  ControlInv'
  <1>1. TypeOK'
    BY TypeTerminal DEF ControlInv
  <1>2. UNCHANGED <<blaster, pace, paused, rate, stopCh, late>>
    BY DEF Terminal, PressPause, SendPause, PressQuit, SendQuit, PressRate, Press, StopApp, RunQuits,
           RunStops, MainReturns, manager, pacing
  <1> QED
    BY <1>1, <1>2, OthersStep

\* handleKeyboard handles the key that turns the pause or the rate.
LEMMA HandlerStep ==
    ASSUME ControlInv, HandleKeyboard \/ Signal
    PROVE  ControlInv'
  <1>1. TypeOK'
    BY TypeHandler DEF ControlInv
  <1>2. CASE TogglePause
    BY <1>1, <1>2, OthersStep DEF TogglePause
  <1>3. CASE ChangeRate
    BY <1>1, <1>3, OthersStep DEF ChangeRate
  <1>4. CASE TakePause \/ Shown \/ HandlerLeaves \/ HandlerQuits \/ Signal
    <2>1. UNCHANGED <<blaster, pace, paused, rate, stopCh, late>>
      BY <1>4 DEF TakePause, Shown, HandlerLeaves, HandlerQuits, Signal, manager, pacing
    <2> QED
      BY <1>1, <2>1, OthersStep
  <1> QED
    BY <1>2, <1>3, <1>4 DEF HandleKeyboard

\* The shutdown may close the stop channel.
LEMMA ShutdownStep ==
    ASSUME ControlInv, NEW g \in Closers, GracefulShutdown(g)
    PROVE  ControlInv'
  <1>1. TypeOK'
    BY TypeShutdown DEF ControlInv
  <1>2. UNCHANGED <<blaster, pace, paused, rate, late>> /\ (UNCHANGED stopCh \/ stopCh' = TRUE)
    BY DEF GracefulShutdown, CloseStopCh, StopTerminal, PrintFinalStats, Exit, Goes, pacing
  <1> QED
    BY <1>1, <1>2, OthersStep

LEMMA ControlInit == Init => ControlInv
  <1> SUFFICES ASSUME Init PROVE ControlInv
    OBVIOUS
  <1>1. TypeOK
    BY TypeInit
  <1>2. LateInv
    BY DEF Init, LateInv, OneLateBatch
  <1>3. PaceInv
    <2>1. rate \in Nat /\ FullBatch \in Nat
      BY ControlAssumption DEF Init
    <2> QED
      BY <2>1 DEF Init, PaceInv, NoMoreThanRate
  <1> QED
    BY <1>1, <1>2, <1>3 DEF ControlInv

LEMMA ControlNext == ControlInv /\ [Next]_vars => ControlInv'
  <1> SUFFICES ASSUME ControlInv, [Next]_vars PROVE ControlInv'
    OBVIOUS
  <1>1. CASE UNCHANGED vars
    <2>1. TypeOK'
      <3>1. TypeOK
        BY DEF ControlInv
      <3> QED
        BY <1>1, <3>1 DEF TypeOK, vars
    <2>2. UNCHANGED <<blaster, pace, paused, rate, stopCh, late>>
      BY <1>1 DEF vars
    <2> QED
      BY <2>1, <2>2, OthersStep
  <1>2. CASE Terminal
    BY <1>2, TerminalStep
  <1>3. CASE HandleKeyboard \/ Signal
    BY <1>3, HandlerStep
  <1>4. CASE \E g \in Closers : GracefulShutdown(g)
    BY <1>4, ShutdownStep
  <1>5. CASE Blaster
    BY <1>5, SecondStep, BatchStep, SubmitStep DEF Blaster
  <1> QED
    BY <1>1, <1>2, <1>3, <1>4, <1>5 DEF Next, Ended

LEMMA ControlHolds == Spec => []ControlInv
  BY ControlInit, ControlNext, PTL DEF Spec

\* Every variable of the control keeps to its values, at every rate.
THEOREM TypeCorrect == Spec => []TypeOK
  BY ControlHolds, PTL DEF ControlInv

\* However the keys, the signal and the end of the blaster fall between the
\* checks of a batch and the batch: one batch late for each pause, stop and
\* change of the rate, never two (startRateLimitedBlasting).
THEOREM NoSecondLateBatch == Spec => []OneLateBatch
  <1>1. ControlInv => OneLateBatch
    BY DEF ControlInv, LateInv
  <1> QED
    BY <1>1, ControlHolds, PTL

\* For every rate and size of a full batch, and whichever batches a pause skips:
\* a second does not send more than its rate (startRateLimitedBlasting).
THEOREM RateIsKept == Spec => []NoMoreThanRate
  <1>1. ControlInv => NoMoreThanRate
    BY DEF ControlInv, PaceInv
  <1> QED
    BY <1>1, ControlHolds, PTL

-----------------------------------------------------------------------------
(* The display *)

\* One more is odd where it was even.
LEMMA Parity ==
    ASSUME NEW n \in Nat
    PROVE  (n + 1) % 2 = 1 <=> n % 2 # 1
  OBVIOUS

\* The first message there may be is sent, taken or dropped without a change of
\* the sum.
LEMMA DisplayStep ==
    ASSUME TypeOK, DisplayLags, [Next]_vars
    PROVE  DisplayLags'
  <1> SUFFICES ASSUME simple' PROVE (uiPaused # paused <=> Lagging % 2 = 1)'
    BY DEF DisplayLags
  <1>0. /\ {simple, uiPaused, paused} \subseteq BOOLEAN
        /\ pauseCh \in 0 .. 1 /\ pausing \in Nat /\ dropped \in Nat /\ Taken \in 0 .. 1
    BY DEF TypeOK, Taken
  <1>1. CASE PressPause
    <2>1. /\ simple /\ uiPaused' = ~uiPaused /\ pausing' = pausing + 1
          /\ UNCHANGED <<paused, pauseCh, dropped, handler>>
      BY <1>1 DEF PressPause, Press, manager
    <2>2. Lagging' = Lagging + 1 /\ Lagging \in Nat
      BY <1>0, <2>1 DEF Lagging, Taken
    <2>3. Lagging' % 2 = 1 <=> Lagging % 2 # 1
      BY <2>2, Parity
    <2> QED
      BY <1>0, <2>1, <2>3 DEF DisplayLags
  <1>2. CASE TogglePause
    <2>1. /\ simple /\ paused' = ~paused /\ handler = "toggle" /\ handler' = "show"
          /\ UNCHANGED <<uiPaused, pauseCh, pausing, dropped>>
      BY <1>2 DEF TogglePause, display, channels, sending
    <2>2. PICK n \in Nat : n = Lagging'
      BY <1>0, <2>1 DEF Lagging, Taken
    <2>3. Lagging = n + 1
      BY <1>0, <2>1, <2>2 DEF Lagging, Taken
    <2>4. Lagging % 2 = 1 <=> n % 2 # 1
      BY <2>3, Parity
    <2>5. Lagging' % 2 = 1 <=> n % 2 = 1
      BY <2>2
    <2>6. uiPaused # paused <=> Lagging % 2 = 1
      BY <2>1 DEF DisplayLags
    <2>7. uiPaused' # paused' <=> ~(uiPaused # paused)
      BY <1>0, <2>1
    <2> QED
      BY <2>4, <2>5, <2>6, <2>7
  <1>3. ASSUME UNCHANGED <<simple, uiPaused, paused>>, Lagging' = Lagging
        PROVE  (uiPaused # paused <=> Lagging % 2 = 1)'
    BY <1>3 DEF DisplayLags
  <1>4. CASE SendPause
    <2>1. /\ pausing > 0 /\ pausing' = pausing - 1 /\ pauseCh' = 1 /\ dropped' = dropped + pauseCh
          /\ UNCHANGED <<simple, uiPaused, paused, handler>>
      BY <1>4 DEF SendPause, manager, display
    <2>2. Lagging' = Lagging
      BY <1>0, <2>1 DEF Lagging, Taken
    <2> QED
      BY <1>3, <2>1, <2>2
  <1>5. CASE TakePause
    <2>1. /\ pauseCh = 1 /\ pauseCh' = 0 /\ handler = "select" /\ handler' = "toggle"
          /\ UNCHANGED <<simple, uiPaused, paused, pausing, dropped>>
      BY <1>5 DEF TakePause, Select, manager, display, sending
    <2>2. Lagging' = Lagging
      BY <1>0, <2>1 DEF Lagging, Taken
    <2> QED
      BY <1>3, <2>1, <2>2
  <1>6. ASSUME UNCHANGED <<simple, uiPaused, paused, pausing, pauseCh, dropped>>,
               Taken' = Taken
        PROVE  (uiPaused # paused <=> Lagging % 2 = 1)'
    <2>1. Lagging' = Lagging
      BY <1>6 DEF Lagging
    <2> QED
      BY <1>3, <1>6, <2>1
  <1>7. CASE PressQuit \/ SendQuit \/ (\E r \in Rates : PressRate(r)) \/ UNCHANGED vars
    <2>1. UNCHANGED <<simple, uiPaused, paused, pausing, pauseCh, dropped, handler>>
      BY <1>7 DEF PressQuit, SendQuit, PressRate, Press, manager, display, vars
    <2> QED
      BY <1>6, <2>1 DEF Taken
  <1>8. CASE StopApp \/ RunQuits \/ RunStops \/ MainReturns
    <2>1. UNCHANGED <<simple, uiPaused, paused, pausing, pauseCh, dropped, handler>>
      BY <1>8 DEF StopApp, RunQuits, RunStops, MainReturns, manager, display, channels, sending
    <2> QED
      BY <1>6, <2>1 DEF Taken
  <1>9. CASE ChangeRate \/ Shown \/ HandlerLeaves \/ HandlerQuits \/ Signal
    <2>1. UNCHANGED <<simple, uiPaused, paused, pausing, pauseCh, dropped>>
      BY <1>9 DEF ChangeRate, Shown, HandlerLeaves, HandlerQuits, Signal, manager, display, channels,
                 sending
    <2>2. Taken' = Taken
      BY <1>9 DEF ChangeRate, Shown, HandlerLeaves, HandlerQuits, Signal, Select, Taken
    <2> QED
      BY <1>6, <2>1, <2>2
  <1>10. ASSUME NEW g \in Closers, GracefulShutdown(g)
         PROVE  (uiPaused # paused <=> Lagging % 2 = 1)'
    <2>1. ASSUME NEW step, Goes(g, step)
          PROVE  UNCHANGED <<simple, uiPaused, paused, pausing, pauseCh, dropped, handler>>
      BY <2>1 DEF Goes, channels, sending
    <2>2. UNCHANGED <<simple, uiPaused, paused, pausing, pauseCh, dropped, handler>>
      BY <1>10, <2>1 DEF GracefulShutdown, CloseStopCh, StopTerminal, PrintFinalStats, Exit
    <2> QED
      BY <1>6, <2>2 DEF Taken
  <1>11. CASE Blaster
    <2>1. ASSUME NEW from, NEW to, Blasts(from, to)
          PROVE  UNCHANGED <<simple, uiPaused, paused, pausing, pauseCh, dropped, handler>>
      BY <2>1 DEF Blasts, manager, display, channels, sending
    <2>2. UNCHANGED <<simple, uiPaused, paused, pausing, pauseCh, dropped, handler>>
      BY <1>11, <2>1 DEF Blaster, BlasterFails, Processed, SecondBegins, BatchBegins, SubmitBatch
    <2> QED
      BY <1>6, <2>2 DEF Taken
  <1> QED
    BY <1>1, <1>2, <1>4, <1>5, <1>7, <1>8, <1>9, <1>10, <1>11
       DEF Next, Terminal, HandleKeyboard, Ended

\* With SimpleTerminal, and however many keys are pressed, what it shows and what
\* the manager does differ exactly when an odd number of messages to pause is on
\* its way or was dropped (keyboardLoop, handleKeyboard).
THEOREM DisplayFollows == Spec => []DisplayLags
  <1>1. Init => DisplayLags
    <2> SUFFICES ASSUME Init PROVE DisplayLags
      OBVIOUS
    <2>1. pausing = 0 /\ pauseCh = 0 /\ handler = "select" /\ dropped = 0
      BY DEF Init
    <2>2. ~(Lagging % 2 = 1)
      BY <2>1 DEF Lagging, Taken
    <2>3. ~(uiPaused # paused)
      BY DEF Init
    <2> QED
      BY <2>2, <2>3 DEF DisplayLags
  <1> QED
    BY <1>1, DisplayStep, TypeCorrect, PTL DEF Spec
=============================================================================
