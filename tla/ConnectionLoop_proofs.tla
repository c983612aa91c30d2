------------------------ MODULE ConnectionLoop_proofs ------------------------
(***************************************************************************)
(* send(true) is not delayed, and failures are backed off from, for every  *)
(* set of callers and every choice of the delays.                          *)
(***************************************************************************)
EXTENDS ConnectionLoop, TLAPS

TypeOK ==
  /\ loop \in {"pending", "debounce", "connection", "sleep", "closed"}
  /\ pending \in BOOLEAN /\ skip \in BOOLEAN /\ timer \in Nat
  /\ sending \in BOOLEAN /\ failed \in BOOLEAN /\ delay \in Nat /\ since \in Nat
  /\ closed \in BOOLEAN /\ visible \in BOOLEAN
  /\ calls \in [Calls -> {"none", "visible", "shown", "result"}]
  /\ owed \in BOOLEAN /\ urgent \in BOOLEAN /\ backoff \in Nat

\* What send(true) has resolved stays resolved until the request begins.
NowKept ==
  /\ skip = urgent
  /\ urgent /\ loop = "pending" => pending
  /\ loop = "closed" => closed

Bounded ==
  /\ backoff <= MaxDelay
  /\ delay = 0 \/ delay >= MinDelay

\* The loop sleeps between two requests.
Asleep == loop = "sleep" => ~sending /\ since + timer >= backoff

\* Before a request the delay that is going to be computed is long enough; from then on,
\* until it ends, the one that was computed is.
DelayCovers ==
  /\ ~sending /\ loop \notin {"sleep", "closed"} => backoff <= ClampedDelay
  /\ (sending \/ loop = "sleep") /\ failed => backoff <= delay

LoopInv == TypeOK /\ NowKept /\ Bounded /\ Asleep /\ DelayCovers

\* Of a step: a request begins at its distance.
Distant == ~sending /\ sending' /\ ~urgent => since >= backoff

LEMMA Delays ==
  Debounce \in Nat /\ MinDelay \in Nat /\ MaxDelay \in Nat /\ MinDelay <= MaxDelay
  BY ConnectionLoopAssumption DEF ConnectionLoopAssumption

LEMMA InitLoop == Init => LoopInv
<1> SUFFICES ASSUME Init PROVE LoopInv
  OBVIOUS
<1>1. TypeOK
  BY Delays DEF Init, TypeOK
<1>2. NowKept /\ Bounded /\ Asleep
  BY Delays DEF Init, NowKept, Bounded, Asleep
<1>3. DelayCovers
  BY Delays DEF Init, DelayCovers, ClampedDelay, NewDelay
<1> QED
  BY <1>1, <1>2, <1>3 DEF LoopInv

\* What the loop computes keeps the distance.
LEMMA DelayBounds ==
  ASSUME LoopInv
  PROVE  /\ NewDelay \in Nat /\ ClampedDelay \in Nat
         /\ NewDelay = 0 \/ NewDelay >= MinDelay
         /\ failed => ClampedDelay = NewDelay
  BY Delays DEF LoopInv, TypeOK, Bounded, ClampedDelay, NewDelay, Least

\* A step that leaves the loop, the request and the delays alone.
LEMMA Aside ==
  ASSUME LoopInv, TypeOK', NowKept',
         UNCHANGED <<loop, timer, sending, failed, delay, since, backoff>>
  PROVE  LoopInv' /\ Distant
  BY DEF LoopInv, Bounded, Asleep, DelayCovers, ClampedDelay, NewDelay, Distant

\* A step of the loop that starts no request.
LEMMA Moves ==
  ASSUME LoopInv, TypeOK', NowKept',
         loop \notin {"sleep", "closed"}, loop' \notin {"sleep", "closed"},
         UNCHANGED <<sending, failed, delay, since, backoff>>
  PROVE  LoopInv' /\ Distant
  BY DEF LoopInv, Bounded, Asleep, DelayCovers, ClampedDelay, NewDelay, Distant

\* A request begins, at a distance.
LEMMA Begins ==
  ASSUME LoopInv, StartRequest, pending' \in BOOLEAN, delay' \in Nat,
         delay' = 0 \/ delay' >= MinDelay, failed => backoff <= delay',
         ~urgent => since >= backoff,
         UNCHANGED <<failed, closed, visible, calls, backoff>>
  PROVE  LoopInv' /\ Distant
<1>1. TypeOK'
  BY DEF LoopInv, TypeOK, StartRequest
<1>2. NowKept' /\ Bounded' /\ Asleep' /\ DelayCovers'
  BY DEF LoopInv, TypeOK, Bounded, StartRequest, NowKept, Asleep, DelayCovers
<1> QED
  BY <1>1, <1>2 DEF LoopInv, Distant

\* Or the loop sleeps first.
LEMMA SleepOrSendKeeps ==
  ASSUME LoopInv, SleepOrSend, ~sending, loop \notin {"sleep", "closed"}, pending' \in BOOLEAN,
         UNCHANGED <<failed, closed, visible, calls, backoff>>
  PROVE  LoopInv' /\ Distant
<1>0. backoff <= ClampedDelay
  BY DEF LoopInv, DelayCovers
<1>1. CASE ClampedDelay > since
  <2>1. /\ loop' = "sleep" /\ timer' = ClampedDelay - since /\ delay' = NewDelay
        /\ UNCHANGED <<sending, since, skip, owed, urgent>>
    BY <1>1 DEF SleepOrSend
  <2>2. TypeOK'
    BY <1>1, <2>1, DelayBounds DEF LoopInv, TypeOK
  <2>3. NowKept' /\ Bounded'
    BY <2>1, DelayBounds DEF LoopInv, NowKept, Bounded
  <2>4. Asleep' /\ DelayCovers'
    BY <1>0, <1>1, <2>1, DelayBounds DEF LoopInv, TypeOK, Asleep, DelayCovers
  <2> QED
    BY <2>1, <2>2, <2>3, <2>4 DEF LoopInv, Distant
<1>2. CASE ~(ClampedDelay > since)
  <2>1. StartRequest /\ delay' = NewDelay
    BY <1>2 DEF SleepOrSend
  <2>2. since >= backoff
    BY <1>0, <1>2, DelayBounds DEF LoopInv, TypeOK
  <2> QED
    BY <1>0, <2>1, <2>2, DelayBounds, Begins
<1> QED
  BY <1>1, <1>2

LEMMA BreakKeeps ==
  ASSUME LoopInv, Break, closed, UNCHANGED <<failed, closed, visible, calls, backoff>>
  PROVE  LoopInv' /\ Distant
<1>1. TypeOK' /\ NowKept'
  BY DEF LoopInv, TypeOK, NowKept, Break
<1> QED
  BY <1>1 DEF LoopInv, Bounded, Asleep, DelayCovers, ClampedDelay, NewDelay, Distant, Break

LEMMA StartDebounceKeeps ==
  ASSUME LoopInv, StartDebounce, loop = "pending",
         UNCHANGED <<failed, closed, visible, calls, backoff>>
  PROVE  LoopInv' /\ Distant
<1>1. CASE closed
  BY <1>1, BreakKeeps DEF StartDebounce
<1>2. CASE ~closed
  <2>1. TypeOK' /\ NowKept'
    BY <1>2, Delays DEF LoopInv, TypeOK, NowKept, StartDebounce
  <2> QED
    BY <1>2, <2>1, Moves DEF StartDebounce
<1> QED
  BY <1>1, <1>2

LEMMA RequestEndsKeeps ==
  ASSUME LoopInv, NEW ok \in BOOLEAN, RequestEnds(ok)
  PROVE  LoopInv' /\ Distant
<1>1. calls' \in [Calls -> {"none", "visible", "shown", "result"}]
  BY DEF LoopInv, TypeOK, RequestEnds, Settled
<1>2. owed' \in BOOLEAN /\ pending' \in BOOLEAN /\ failed' \in BOOLEAN
  BY DEF LoopInv, TypeOK, RequestEnds, PendingAfter
<1>3. backoff' \in Nat
  BY Delays DEF LoopInv, TypeOK, RequestEnds, Least
<1>4. TypeOK'
  BY <1>1, <1>2, <1>3 DEF LoopInv, TypeOK, RequestEnds
<1>5. NowKept' /\ Asleep'
  BY DEF LoopInv, NowKept, Asleep, RequestEnds, PendingAfter
<1>6. Bounded'
  BY Delays DEF LoopInv, TypeOK, Bounded, RequestEnds, Least
<1>7. DelayCovers'
  BY Delays DEF LoopInv, TypeOK, Bounded, Asleep, DelayCovers, RequestEnds, ClampedDelay, NewDelay, Least
<1> QED
  BY <1>4, <1>5, <1>6, <1>7 DEF LoopInv, Distant, RequestEnds

LEMMA TickKeeps ==
  ASSUME LoopInv, Tick
  PROVE  LoopInv' /\ Distant
<1>1. TypeOK' /\ NowKept'
  BY Delays DEF LoopInv, TypeOK, NowKept, Tick, Least
<1>2. Bounded' /\ DelayCovers'
  BY DEF LoopInv, Bounded, DelayCovers, Tick, ClampedDelay, NewDelay
<1>3. Asleep'
  BY Delays DEF LoopInv, TypeOK, Bounded, Asleep, Tick, Least, Ready, SleepOver
<1> QED
  BY <1>1, <1>2, <1>3 DEF LoopInv, Distant, Tick

\* The invariant is inductive, and every step keeps the distance.
LEMMA LoopStep ==
  ASSUME LoopInv, [Next]_vars
  PROVE  LoopInv' /\ Distant
<1>1. ASSUME NEW s \in Calls, SendNow(s) \/ Send(s) \/ GoOn(s)
      PROVE  LoopInv' /\ Distant
  <2>1. calls' \in [Calls -> {"none", "visible", "shown", "result"}]
    BY <1>1 DEF LoopInv, TypeOK, SendNow, Send, GoOn
  <2>2. TypeOK'
    BY ZenonT(60), <1>1, <2>1 DEF LoopInv, TypeOK, SendNow, Send, GoOn, Ask, loopVars
  <2>3. NowKept'
    <3>1. CASE SendNow(s)
      BY <3>1 DEF LoopInv, NowKept, SendNow, Ask
    <3>2. CASE Send(s)
      BY <3>2 DEF LoopInv, NowKept, Send, loopVars
    <3>3. CASE GoOn(s)
      BY <3>3 DEF LoopInv, NowKept, GoOn, Ask
    <3> QED
      BY <1>1, <3>1, <3>2, <3>3
  <2>4. TypeOK' /\ NowKept'
    BY <2>2, <2>3
  <2> QED
    BY <1>1, <2>4, Aside DEF SendNow, Send, GoOn, loopVars
<1>2. CASE ChangeVisibility \/ Close
  <2>1. calls' \in [Calls -> {"none", "visible", "shown", "result"}]
    BY <1>2 DEF LoopInv, TypeOK, ChangeVisibility, Close, Settled
  <2>2. TypeOK'
    BY ZenonT(60), <1>2, <2>1 DEF LoopInv, TypeOK, ChangeVisibility, Close, loopVars
  <2>3. NowKept'
    BY <1>2 DEF LoopInv, TypeOK, NowKept, ChangeVisibility, Close, loopVars
  <2>4. TypeOK' /\ NowKept'
    BY <2>2, <2>3
  <2> QED
    BY <1>2, <2>4, Aside DEF ChangeVisibility, Close, loopVars
<1>3. CASE WakeUp \/ WatchdogFires
  BY <1>3, StartDebounceKeeps DEF WakeUp, WatchdogFires
<1>4. CASE Debounced
  <2>1. CASE closed
    BY <1>4, <2>1, BreakKeeps DEF Debounced
  <2>2. CASE ~closed /\ sending
    <3>1. TypeOK' /\ NowKept'
      BY <1>4, <2>2 DEF LoopInv, TypeOK, NowKept, Debounced, WaitForConnection
    <3> QED
      BY <1>4, <2>2, <3>1, Moves DEF Debounced, WaitForConnection
  <2>3. CASE ~closed /\ ~sending
    BY <1>4, <2>3, SleepOrSendKeeps DEF Debounced
  <2> QED
    BY <2>1, <2>2, <2>3
<1>5. CASE ConnectionAvailable
  <2>1. CASE closed
    BY <1>5, <2>1, BreakKeeps DEF ConnectionAvailable
  <2>2. CASE ~closed
    BY <1>5, <2>2, SleepOrSendKeeps DEF ConnectionAvailable, LoopInv, TypeOK
  <2> QED
    BY <2>1, <2>2
<1>6. CASE Slept
  <2>1. CASE closed
    BY <1>6, <2>1, BreakKeeps DEF Slept
  <2>2. CASE ~closed
    <3>1. ~urgent => since >= backoff
      BY <1>6 DEF Slept, SleepOver, LoopInv, TypeOK, NowKept, Asleep
    <3> QED
      BY <1>6, <2>2, <3>1, Begins DEF Slept, LoopInv, TypeOK, Bounded, DelayCovers
  <2> QED
    BY <2>1, <2>2
<1>7. ASSUME NEW ok \in BOOLEAN, RequestEnds(ok)
      PROVE  LoopInv' /\ Distant
  BY <1>7, RequestEndsKeeps
<1>8. CASE Tick
  BY <1>8, TickKeeps
<1>9. CASE UNCHANGED vars
  <2>1. TypeOK' /\ NowKept'
    BY <1>9 DEF LoopInv, TypeOK, NowKept, vars, loopVars
  <2> QED
    BY <1>9, <2>1, Aside DEF vars, loopVars
<1> QED
  BY <1>1, <1>2, <1>3, <1>4, <1>5, <1>6, <1>7, <1>8, <1>9 DEF Next, Run, Request

LEMMA LoopInvariant == Spec => []LoopInv
<1>1. LoopInv /\ [Next]_vars => LoopInv'
  BY LoopStep
<1> QED
  BY InitLoop, <1>1, PTL DEF Spec

\* A request asked for by send(true) begins before any time passes, unless there is one
\* under way.
THEOREM SendNowIsNow == Spec => []NowIsNow
<1>1. LoopInv => NowIsNow
  BY DEF LoopInv, TypeOK, NowKept, NowIsNow, Ready, Woken, SleepOver
<1> QED
  BY LoopInvariant, <1>1, PTL

\* The distance between requests doubles with every failure in a row.
THEOREM FailuresBackOff == Spec => BacksOff
<1>1. LoopInv /\ [Next]_vars => [~sending /\ sending' /\ ~urgent => since >= backoff]_vars
  BY LoopStep DEF Distant
<1> QED
  BY LoopInvariant, <1>1, PTL DEF Spec, BacksOff
=============================================================================
