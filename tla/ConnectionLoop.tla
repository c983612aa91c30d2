--------------------------- MODULE ConnectionLoop ---------------------------
(***************************************************************************)
(* The loop that sends Replicache's pushes, or its pulls.  It rests until  *)
(* something is to be sent, lets more of it come (debounce), waits for the *)
(* connection, keeps a distance to the previous request that grows with    *)
(* failures, and sends; then it rests again, whether or not the request    *)
(* has ended.  Both delegates have maxConnections = 1: the branches for    *)
(* several requests at a time are not reached.                             *)
(*                                                                         *)
(* Time is in ticks, and stands still while a callback is ready to run.    *)
(***************************************************************************)
EXTENDS Naturals

CONSTANTS
  Calls,       \* calls of send() that may be under way at a time
  Debounce,    \* debounceDelay
  MinDelay,    \* minDelayMs
  MaxDelay,    \* maxDelayMs
  Environment  \* what may happen, a subset of Behaviours

\* "watchdog"  the delegate has a watchdogTimer, which may be of any length
\* "hidden"    the document may be hidden, and then be visible again
\* "close"     the loop may be closed
Behaviours == {"watchdog", "hidden", "close"}

ASSUME ConnectionLoopAssumption ==
  /\ Debounce \in Nat /\ MinDelay \in Nat /\ MaxDelay \in Nat /\ MinDelay <= MaxDelay
  /\ Environment \subseteq Behaviours

VARIABLES
  loop,     \* what run() awaits
  pending,  \* #pendingResolver is resolved
  skip,     \* #skipSleepsResolver is resolved
  timer,    \* ticks that are left of the sleep that run() awaits
  sending,  \* a request is under way: counter = 1
  failed,   \* didLastSendRequestFail()
  delay,    \* delay, which run() keeps from one iteration to the next
  since,    \* ticks since lastSendTime; MaxDelay stands for more, and for never
  closed,   \* #closed
  visible,  \* the document is visible
  calls,    \* of send(): what each awaits
  \* history
  owed,     \* since the last request began, one was asked for, or one has failed
  urgent,   \* since then, send(true) was called
  backoff   \* the least distance to the previous request

loopVars == <<loop, pending, skip, timer, sending, failed, delay, since>>
vars == <<loopVars, closed, visible, calls, owed, urgent, backoff>>

Least(a, b) == IF a < b THEN a ELSE b

Init ==
  /\ loop = "pending" /\ pending = FALSE /\ skip = FALSE /\ timer = 0
  /\ sending = FALSE /\ failed = FALSE /\ delay = 0 /\ since = MaxDelay
  /\ closed = FALSE /\ visible = TRUE /\ calls = [s \in Calls |-> "none"]
  /\ owed = FALSE /\ urgent = FALSE /\ backoff = MinDelay

-----------------------------------------------------------------------------
(* send() and close() *)

Ask == pending' = TRUE /\ owed' = TRUE

\* send(true)
SendNow(s) ==
  /\ calls[s] = "none" /\ ~closed
  /\ calls' = [calls EXCEPT ![s] = "result"]
  /\ skip' = TRUE /\ urgent' = TRUE /\ Ask
  /\ UNCHANGED <<loop, timer, sending, failed, delay, since, closed, visible, backoff>>

\* send(false) goes on when the document is visible, or has been in between.
Send(s) ==
  /\ calls[s] = "none" /\ ~closed
  /\ calls' = [calls EXCEPT ![s] = IF visible THEN "shown" ELSE "visible"]
  /\ UNCHANGED <<loopVars, closed, visible, owed, urgent, backoff>>

\* After close() #sendResolver is resolved for those who come later, too.
GoOn(s) ==
  /\ calls[s] = "shown"
  /\ calls' = [calls EXCEPT ![s] = IF closed THEN "none" ELSE "result"]
  /\ Ask
  /\ UNCHANGED <<loop, skip, timer, sending, failed, delay, since, closed, visible, urgent, backoff>>

ChangeVisibility ==
  /\ "hidden" \in Environment
  /\ visible' = ~visible
  /\ calls' = IF visible THEN calls
              ELSE [s \in Calls |-> IF calls[s] = "visible" THEN "shown" ELSE calls[s]]
  /\ UNCHANGED <<loopVars, closed, owed, urgent, backoff>>

Settled == [s \in Calls |-> IF calls[s] = "result" THEN "none" ELSE calls[s]]

Close ==
  /\ "close" \in Environment /\ ~closed
  /\ closed' = TRUE
  /\ calls' = Settled
  /\ UNCHANGED <<loopVars, visible, owed, urgent, backoff>>

-----------------------------------------------------------------------------
(* run() *)

\* invokeSend() is called, and the loop comes round.
StartRequest ==
  /\ loop' = "pending" /\ timer' = 0
  /\ sending' = TRUE /\ since' = 0 /\ skip' = FALSE
  /\ owed' = FALSE /\ urgent' = FALSE

\* computeDelayAndUpdateDurations() is for the time after a failure; maxDelayMs is what
\* anything greater amounts to.  Mutant: the delay is always that of the first failure.
NewDelay_First == IF failed THEN MinDelay ELSE 0
NewDelay ==
  IF ~failed THEN 0 ELSE IF delay = 0 THEN MinDelay ELSE Least(2 * delay, MaxDelay)

ClampedDelay == IF NewDelay < MinDelay THEN MinDelay ELSE NewDelay

SleepOrSend ==
  /\ delay' = NewDelay
  /\ IF ClampedDelay > since
     THEN /\ loop' = "sleep" /\ timer' = ClampedDelay - since
          /\ UNCHANGED <<sending, since, skip, owed, urgent>>
     ELSE StartRequest

\* "if (this.#closed) break", after every await.
Break == loop' = "closed" /\ UNCHANGED <<pending, skip, timer, sending, delay, since, owed, urgent>>

\* Closing interrupts the watchdog's sleep.
Woken == pending \/ (closed /\ "watchdog" \in Environment)

\* Mutant: sleeps that are to be skipped are forgotten here.
StartDebounce_NoSkip ==
  IF closed THEN Break
  ELSE /\ loop' = "debounce" /\ timer' = Debounce /\ skip' = FALSE
       /\ UNCHANGED <<pending, sending, delay, since, owed, urgent>>
StartDebounce ==
  IF closed THEN Break
  ELSE /\ loop' = "debounce" /\ timer' = Debounce
       /\ UNCHANGED <<pending, skip, sending, delay, since, owed, urgent>>

WakeUp ==
  /\ loop = "pending" /\ Woken
  /\ StartDebounce
  /\ UNCHANGED <<failed, closed, visible, calls, backoff>>

WatchdogFires ==
  /\ loop = "pending" /\ "watchdog" \in Environment
  /\ StartDebounce
  /\ UNCHANGED <<failed, closed, visible, calls, backoff>>

SleepOver == timer = 0 \/ skip

WaitForConnection ==
  loop' = "connection" /\ UNCHANGED <<skip, timer, sending, delay, since, owed, urgent>>

\* What is asked for from here on has a request of its own.
Debounced ==
  /\ loop = "debounce" /\ SleepOver
  /\ IF closed THEN Break
     ELSE pending' = FALSE /\ IF sending THEN WaitForConnection ELSE SleepOrSend
  /\ UNCHANGED <<failed, closed, visible, calls, backoff>>

\* #waitUntilAvailableConnection(), which after close() does not return.
ConnectionAvailable ==
  /\ loop = "connection" /\ ~sending
  /\ IF closed THEN Break ELSE SleepOrSend /\ UNCHANGED pending
  /\ UNCHANGED <<failed, closed, visible, calls, backoff>>

Slept ==
  /\ loop = "sleep" /\ SleepOver
  /\ IF closed THEN Break ELSE StartRequest /\ UNCHANGED <<pending, delay>>
  /\ UNCHANGED <<failed, closed, visible, calls, backoff>>

\* Mutant: the resolver is replaced once the request is done.
PendingAfter_Replaced(ok) == ~ok
\* "Keep trying"
PendingAfter(ok) == pending \/ ~ok

\* invokeSend() returns or throws; nothing happens then if the loop is closed.
RequestEnds(ok) ==
  /\ sending /\ ~closed
  /\ sending' = FALSE /\ failed' = ~ok
  /\ calls' = Settled
  /\ pending' = PendingAfter(ok)
  /\ owed' = (owed \/ ~ok)
  /\ backoff' = IF ok \/ ~failed THEN MinDelay ELSE Least(2 * backoff, MaxDelay)
  /\ UNCHANGED <<loop, skip, timer, delay, since, closed, visible, urgent>>

-----------------------------------------------------------------------------
\* A callback is ready to run.
Ready ==
  \/ loop = "pending" /\ Woken
  \/ loop \in {"debounce", "sleep"} /\ SleepOver
  \/ loop = "connection" /\ ~sending
  \/ \E s \in Calls : calls[s] = "shown"

Tick ==
  /\ ~Ready
  /\ timer' = IF timer = 0 THEN 0 ELSE timer - 1
  /\ since' = Least(since + 1, MaxDelay)
  /\ UNCHANGED <<loop, pending, skip, sending, failed, delay, closed, visible, calls, owed, urgent, backoff>>

Run == WakeUp \/ Debounced \/ ConnectionAvailable \/ Slept
Request == \E ok \in BOOLEAN : RequestEnds(ok)

Next ==
  \/ Run \/ WatchdogFires \/ Request \/ Tick
  \/ \E s \in Calls : SendNow(s) \/ Send(s) \/ GoOn(s)
  \/ ChangeVisibility \/ Close

Spec == Init /\ [][Next]_vars

\* Callbacks run, time passes, and requests end.
Fairness ==
  WF_vars(Run) /\ WF_vars(Request) /\ WF_vars(Tick) /\ \A s \in Calls : WF_vars(GoOn(s))

FairSpec == Spec /\ Fairness

-----------------------------------------------------------------------------
(* Properties *)

\* "If true, push will happen immediately and ignore pushDelay, minDelayMs as well as the
\* exponential backoff": no time passes between send(true), wherever the loop is, and the
\* request, but for a request that is still under way.
NowIsNow == urgent /\ ~closed /\ ~sending => Ready

\* Otherwise requests keep the distance of MinDelay, which doubles with every failure in
\* a row, whatever was asked for in between.
BacksOff == [][~sending /\ sending' /\ ~urgent => since >= backoff]_vars

\* Whoever asks for a request while another one is prepared or under way gets one that
\* begins later, a failed request is tried again, and every send() gets a result, from
\* close() if need be.
SendsServed ==
  /\ owed ~> (~owed \/ closed)
  /\ \A s \in Calls : calls[s] = "result" ~> calls[s] # "result"
=============================================================================
