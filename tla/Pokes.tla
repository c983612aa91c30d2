------------------------------- MODULE Pokes -------------------------------
(***************************************************************************)
(* How one Zero tab keeps up with the view syncer: the connection's run    *)
(* loop, the connect resolver it awaits, the connection status, the        *)
(* PokeHandler that collects pokes, merges them once per frame and applies *)
(* them to Replicache under a lock, and the ClientHandler that sends them. *)
(*                                                                         *)
(* A version of the client group's view is a number, a cookie is a         *)
(* version, and the patch of version v is v itself: a snapshot at cookie c *)
(* is right when it holds the patches 1 .. c.                              *)
(***************************************************************************)
EXTENDS Naturals, Sequences, FiniteSets, SequencesExt

CONSTANTS
  MaxVersion,  \* versions the view syncer reaches
  MaxFaults,   \* faults of the environment, all kinds together
  MaxWaiters,  \* frames that wait for the poke lock
  Environment, \* the faults that may happen
  None

ASSUME BoundsAssumption ==
  /\ MaxVersion \in Nat \ {0} /\ MaxFaults \in Nat /\ MaxWaiters \in Nat \ {0}
  /\ Environment \subseteq {"drop", "rehome", "pushError", "timeout", "refresh", "cancel"}

\* A poke's cookies, the messages, and a socket with the ClientHandler at its end.
Poke == [base : Nat, to : Nat]
Message ==
  [kind : {"connected", "rehome", "pushError"}]
    \cup [kind : {"pokeStart"}, base : Nat, to : Nat]
    \cup [kind : {"pokeEnd"}, cancel : BOOLEAN]
Link == [down : Seq(Message), base : Nat, poke : Nat \cup {None}]

\* Pokes merged into one, until they are applied.
MergedPoke == [base : Nat, to : Nat, checked : BOOLEAN, patches : SUBSET Nat]

ASSUME NoneAssumption ==
  None \notin Nat /\ None \notin Poke /\ None \notin Link /\ None \notin MergedPoke

VARIABLES
  version,   \* of the client group's view on the server
  cookie,    \* of the tab's main snapshot
  view,      \* the patches that snapshot holds
  status,    \* ConnectionManager#state
  loop,      \* where the run loop is
  resolver,  \* #connectResolver: pending or resolved (a rejected one is replaced at once)
  stranded,  \* the run loop awaits a resolver that was replaced unsettled
  timer,     \* the connect timeout is armed
  asked,     \* #connectCookie
  wire,      \* the socket: the messages under way, and the ClientHandler
  greeting,  \* #handleConnectedMessage awaits its query: none, live, stale socket
  receiving, \* PokeHandler#receivingPoke
  buffer,    \* PokeHandler#pokeBuffer
  raf,       \* #pokePlaybackLoopRunning
  waiters,   \* frames waiting for #pokeLock
  applying,  \* the merged poke inside the lock
  faults     \* faults so far

pokeVars == <<receiving, buffer, raf, waiters, applying>>
loopVars == <<status, loop, resolver, stranded, timer, asked, greeting>>
viewVars == <<version, cookie, view>>
vars == <<version, cookie, view, status, loop, resolver, stranded, timer, asked,
          greeting, wire, receiving, buffer, raf, waiters, applying, faults>>

Fault(kind) == kind \in Environment /\ faults < MaxFaults /\ faults' = faults + 1

Init ==
  /\ version = 0 /\ cookie = 0 /\ view = {}
  /\ status = "connecting" /\ loop = "look" /\ resolver = "pending"
  /\ stranded = FALSE /\ timer = FALSE /\ asked = 0 /\ greeting = "none"
  /\ wire = None /\ receiving = None /\ buffer = <<>> /\ raf = FALSE
  /\ waiters = 0 /\ applying = None /\ faults = 0

------------------------------------------------------------------------------
(* Disconnecting. *)

\* ConnectionManager.connecting() leaves the disconnected state alone.
NextStatus(next) ==
  IF next = "connecting" /\ status = "disconnected" THEN "disconnected" ELSE next

\* PokeHandler.handleDisconnect and #clear.
BufferAfterDisconnect == <<>>

\* What #disconnect does in every case, but for the run loop: the socket is
\* dropped, the connect resolver replaced, the poke handler cleared.
DropSocket(next) ==
  /\ status' = NextStatus(next) /\ resolver' = "pending"
  /\ wire' = None /\ receiving' = None /\ buffer' = BufferAfterDisconnect
  /\ greeting' = IF greeting = "live" THEN "stale" ELSE greeting

\* The callers that reject the resolver first: the close event, an error
\* message and the connect timeout. A run loop that awaits it gets the
\* exception and sleeps.
RejectAndDisconnect(next) ==
  /\ DropSocket(next)
  /\ LET thrown == loop = "wait" /\ ~stranded
     IN /\ loop' = IF thrown THEN "sleep" ELSE loop
        /\ timer' = (timer /\ ~thrown)
  /\ UNCHANGED stranded

\* The callers that do not: a poke error, a push response with an error.
DisconnectOnly(next) ==
  /\ DropSocket(next)
  /\ stranded' = (stranded \/ loop = "wait")
  /\ UNCHANGED <<loop, timer>>

------------------------------------------------------------------------------
(* The run loop. *)

StartConnect ==
  /\ loop = "look" /\ status \in {"connecting", "disconnected"}
  /\ loop' = "cookie"
  /\ UNCHANGED <<viewVars, status, resolver, stranded, timer, asked, greeting, wire, pokeVars, faults>>

\* #connect reads the cookie of the main head and arms the timeout.
ReadCookie ==
  /\ loop = "cookie"
  /\ loop' = "socket" /\ asked' = cookie /\ timer' = TRUE
  /\ UNCHANGED <<viewVars, status, resolver, stranded, greeting, wire, pokeVars, faults>>

\* createSocket is done, and the connect resolver is awaited. When a stale
\* greeting has resolved it already, the loop comes round at once; unless the
\* status is connected it would connect again, which asserts that no attempt is
\* under way, and an unknown exception is a fatal one.
OpenSocket ==
  /\ loop = "socket"
  /\ wire' = [down |-> <<[kind |-> "connected"]>>, base |-> asked, poke |-> None]
  /\ IF resolver = "pending"
     THEN loop' = "wait" /\ UNCHANGED <<timer, status>>
     ELSE /\ loop' = "look" /\ timer' = FALSE
          /\ status' = IF status = "connected" THEN status ELSE "error"
  /\ UNCHANGED <<viewVars, resolver, stranded, asked, greeting, pokeVars, faults>>

WakeUp ==
  /\ loop = "sleep" /\ loop' = "look"
  /\ UNCHANGED <<viewVars, status, resolver, stranded, timer, asked, greeting, wire, pokeVars, faults>>

\* The loop pings a connection that has no socket: #ping's assertion fails.
PingWithoutSocket ==
  /\ loop = "look" /\ status = "connected" /\ wire = None
  /\ status' = "error"
  /\ UNCHANGED <<viewVars, loop, resolver, stranded, timer, asked, greeting, wire, pokeVars, faults>>

\* The application calls connection.connect(). While a socket is left it could
\* open a second one; only the call without one is modelled.
AppConnect ==
  /\ status = "error" /\ wire = None
  /\ status' = "connecting"
  /\ UNCHANGED <<viewVars, loop, resolver, stranded, timer, asked, greeting, wire, pokeVars, faults>>

\* The connect timeout; a run loop that is stranded never cleared it.
ConnectTimeout ==
  /\ timer /\ loop = "wait" /\ (stranded \/ Fault("timeout"))
  /\ stranded => faults' = faults
  /\ DropSocket("connecting")
  /\ timer' = FALSE
  /\ loop' = IF stranded THEN loop ELSE "sleep"
  /\ UNCHANGED <<viewVars, stranded, asked, raf, waiters, applying>>

\* ConnectionManager#checkTimeout: connecting for too long.
GiveUpConnecting ==
  /\ status = "connecting" /\ Fault("timeout")
  /\ status' = "disconnected"
  /\ UNCHANGED <<viewVars, loop, resolver, stranded, timer, asked, greeting, wire, pokeVars>>

------------------------------------------------------------------------------
(* Messages. *)

Received(kind) == wire # None /\ wire.down # <<>> /\ Head(wire.down).kind = kind
Consumed == [wire EXCEPT !.down = Tail(@)]
Consume == wire' = Consumed
Send(msg) == wire' = [wire EXCEPT !.down = Append(@, msg)]

\* The socket's close event.
SocketCloses ==
  /\ wire # None /\ Fault("drop")
  /\ RejectAndDisconnect("connecting")
  /\ UNCHANGED <<viewVars, asked, raf, waiters, applying>>

\* The server sends an error that is to be retried: another task owns the CVR.
ServerRehomes ==
  /\ wire # None /\ Fault("rehome")
  /\ Send([kind |-> "rehome"])
  /\ UNCHANGED <<viewVars, loopVars, pokeVars>>

\* The pusher answers that a push failed as a whole.
PushFails ==
  /\ wire # None /\ Fault("pushError")
  /\ Send([kind |-> "pushError"])
  /\ UNCHANGED <<viewVars, loopVars, pokeVars>>

HandleRehome ==
  /\ Received("rehome")
  /\ RejectAndDisconnect("connecting")
  /\ UNCHANGED <<viewVars, asked, raf, waiters, applying, faults>>

HandlePushError ==
  /\ Received("pushError")
  /\ DisconnectOnly("error")
  /\ UNCHANGED <<viewVars, asked, raf, waiters, applying, faults>>

\* #handleConnectedMessage, up to the query it awaits.
HandleConnected ==
  /\ Received("connected") /\ greeting = "none" /\ Consume
  /\ greeting' = "live"
  /\ UNCHANGED <<viewVars, status, loop, resolver, stranded, timer, asked, pokeVars, faults>>

\* The rest of it: it does not look whether its socket is still the one.
FinishGreeting ==
  /\ greeting # "none"
  /\ greeting' = "none" /\ status' = "connected" /\ resolver' = "resolved"
  /\ LET released == loop = "wait" /\ ~stranded
     IN /\ loop' = IF released THEN "look" ELSE loop
        /\ timer' = (timer /\ ~released)
  /\ UNCHANGED <<viewVars, stranded, asked, wire, pokeVars, faults>>

------------------------------------------------------------------------------
(* The view syncer and its ClientHandler. *)

ServerAdvances ==
  /\ version < MaxVersion
  /\ version' = version + 1
  /\ UNCHANGED <<cookie, view, loopVars, wire, pokeVars, faults>>

\* startPoke and the patches: from #baseVersion to the CVR's version.
StartPoke ==
  /\ wire # None /\ wire.poke = None /\ wire.base < version
  /\ wire' = [wire EXCEPT !.poke = version,
                !.down = Append(@, [kind |-> "pokeStart", base |-> wire.base, to |-> version])]
  /\ UNCHANGED <<viewVars, loopVars, pokeVars, faults>>

\* Mutant: #baseVersion is moved although the poke was canceled.
BaseAfterCancel_Moved == wire.poke

\* A canceled poke leaves #baseVersion alone.
BaseAfterCancel == wire.base

EndPoke ==
  /\ wire # None /\ wire.poke # None
  /\ wire' = [wire EXCEPT !.base = wire.poke, !.poke = None,
                !.down = Append(@, [kind |-> "pokeEnd", cancel |-> FALSE])]
  /\ UNCHANGED <<viewVars, loopVars, pokeVars, faults>>

CancelPoke ==
  /\ wire # None /\ wire.poke # None /\ Fault("cancel")
  /\ wire' = [wire EXCEPT !.base = BaseAfterCancel, !.poke = None,
                !.down = Append(@, [kind |-> "pokeEnd", cancel |-> TRUE])]
  /\ UNCHANGED <<viewVars, loopVars, pokeVars>>

------------------------------------------------------------------------------
(* The PokeHandler. *)

\* #handlePokeError clears the handler, and #onPokeError disconnects unless the
\* status is disconnected already; the link is then left as it is.
PokeError(link) ==
  IF status = "disconnected"
  THEN /\ receiving' = None /\ buffer' = <<>> /\ wire' = link
       /\ UNCHANGED <<status, loop, resolver, stranded, timer, greeting>>
  ELSE DisconnectOnly("error")

\* handlePokeStart and handlePokePart.
HandlePokeStart ==
  /\ Received("pokeStart")
  /\ IF receiving # None
     THEN PokeError(Consumed)
     ELSE /\ Consume
          /\ receiving' = [base |-> Head(wire.down).base, to |-> Head(wire.down).to]
          /\ UNCHANGED <<buffer, status, loop, resolver, stranded, timer, greeting>>
  /\ UNCHANGED <<viewVars, asked, raf, waiters, applying, faults>>

\* Mutant: a playback loop that has stopped is not started again.
Playback_Running == raf

\* A complete poke starts the playback loop, or finds it running.
Playback == TRUE

\* handlePokeEnd: a complete poke waits for the next frame.
HandlePokeEnd ==
  /\ Received("pokeEnd")
  /\ IF receiving = None
     THEN PokeError(Consumed) /\ UNCHANGED raf
     ELSE /\ Consume /\ receiving' = None
          /\ IF Head(wire.down).cancel
             THEN UNCHANGED <<buffer, raf>>
             ELSE buffer' = Append(buffer, receiving) /\ raf' = Playback
          /\ UNCHANGED <<status, loop, resolver, stranded, timer, greeting>>
  /\ UNCHANGED <<viewVars, asked, waiters, applying, faults>>

\* #rafCallback: the next frame is requested before this one is processed.
Frame ==
  /\ raf
  /\ IF buffer = <<>>
     THEN raf' = FALSE /\ UNCHANGED waiters
     ELSE waiters < MaxWaiters /\ waiters' = waiters + 1 /\ UNCHANGED raf
  /\ UNCHANGED <<viewVars, loopVars, wire, receiving, buffer, applying, faults>>

\* mergePokes finds a gap between two pokes of the buffer.
HasGap == \E i \in 1 .. Len(buffer) - 1 : buffer[i + 1].base > buffer[i].to

\* Mutant: the merged poke keeps the cookie of the first poke.
MergePokes_FirstCookie ==
  [base |-> buffer[1].base, to |-> buffer[1].to, checked |-> FALSE,
   patches |-> UNION {buffer[i].base + 1 .. buffer[i].to : i \in DOMAIN buffer}]

\* mergePokes: the base of the first, the cookie of the last, all patches.
MergePokes ==
  [base |-> buffer[1].base, to |-> Last(buffer).to, checked |-> FALSE,
   patches |-> UNION {buffer[i].base + 1 .. buffer[i].to : i \in DOMAIN buffer}]

\* #processPokesForFrame, inside the lock: the buffer is taken as it is now.
TakeBuffer ==
  /\ waiters > 0 /\ applying = None
  /\ waiters' = waiters - 1
  /\ CASE buffer = <<>> ->
            UNCHANGED <<receiving, buffer, applying, status, loop, resolver, stranded, timer, greeting, wire>>
       [] buffer # <<>> /\ HasGap -> PokeError(wire) /\ UNCHANGED applying
       [] buffer # <<>> /\ ~HasGap ->
            /\ applying' = MergePokes /\ buffer' = <<>>
            /\ UNCHANGED <<receiving, status, loop, resolver, stranded, timer, greeting, wire>>
  /\ UNCHANGED <<viewVars, asked, raf, faults>>

\* The base cookie must be the snapshot's, and stay so.
BaseMatches == applying.base = cookie

\* handlePullResponseV1: the snapshot has the cookie the poke starts from.
CheckPoke ==
  /\ applying # None /\ ~applying.checked /\ BaseMatches
  /\ applying' = [applying EXCEPT !.checked = TRUE]
  /\ UNCHANGED <<viewVars, loopVars, wire, receiving, buffer, raf, waiters, faults>>

\* maybeEndPull: main still has that snapshot; it becomes the poke's.
FinishPoke ==
  /\ applying # None /\ applying.checked /\ BaseMatches
  /\ cookie' = applying.to /\ view' = view \union applying.patches
  /\ applying' = None
  /\ UNCHANGED <<version, loopVars, wire, receiving, buffer, raf, waiters, faults>>

\* "unexpected base cookie for poke", or "Overlapping syncs".
RejectPoke ==
  /\ applying # None /\ ~BaseMatches
  /\ applying' = None /\ PokeError(wire)
  /\ UNCHANGED <<viewVars, asked, raf, waiters, faults>>

\* The tab refreshes to a snapshot another tab of the group persisted.
Refresh ==
  /\ cookie < version /\ Fault("refresh")
  /\ \E v \in cookie + 1 .. version : cookie' = v /\ view' = 1 .. v
  /\ UNCHANGED <<version, loopVars, wire, pokeVars>>

------------------------------------------------------------------------------
Next ==
  \/ StartConnect \/ ReadCookie \/ OpenSocket \/ WakeUp \/ PingWithoutSocket
  \/ AppConnect \/ ConnectTimeout \/ GiveUpConnecting
  \/ SocketCloses \/ ServerRehomes \/ PushFails
  \/ HandleRehome \/ HandlePushError \/ HandleConnected \/ FinishGreeting
  \/ ServerAdvances \/ StartPoke \/ EndPoke \/ CancelPoke
  \/ HandlePokeStart \/ HandlePokeEnd \/ Frame \/ TakeBuffer
  \/ CheckPoke \/ FinishPoke \/ RejectPoke \/ Refresh

Spec == Init /\ [][Next]_vars

\* The event loop runs what is ready, messages arrive, and the application
\* reconnects after an error; the faults are bounded by MaxFaults.
Fairness ==
  /\ WF_vars(StartConnect) /\ WF_vars(ReadCookie) /\ WF_vars(OpenSocket)
  /\ WF_vars(WakeUp) /\ WF_vars(PingWithoutSocket) /\ WF_vars(AppConnect)
  /\ WF_vars(HandleRehome) /\ WF_vars(HandlePushError)
  /\ WF_vars(HandleConnected) /\ WF_vars(FinishGreeting)
  /\ WF_vars(StartPoke) /\ WF_vars(EndPoke)
  /\ WF_vars(HandlePokeStart) /\ WF_vars(HandlePokeEnd)
  /\ WF_vars(Frame) /\ WF_vars(TakeBuffer)
  /\ WF_vars(CheckPoke) /\ WF_vars(FinishPoke) /\ WF_vars(RejectPoke)

FairSpec == Spec /\ Fairness

------------------------------------------------------------------------------
\* Whatever is lost, merged, canceled or overtaken by a refresh, the tab's
\* snapshot at a cookie holds exactly the patches up to that cookie.
ViewMatchesCookie == view = 1 .. cookie

\* The next poke the tab is to apply starts no later than the tab's cookie: a
\* poke that is lost takes its connection with it. The exception is a poke
\* error while the status is still disconnected, for #onPokeError then leaves
\* the new connection up although its pokes were cleared.
NextBase ==
  LET starts == {i \in 1 .. Len(wire.down) : wire.down[i].kind = "pokeStart"}
  IN  IF buffer # <<>> THEN buffer[1].base
      ELSE IF receiving # None THEN receiving.base
      ELSE IF starts # {} THEN wire.down[Min(starts)].base
      ELSE IF wire.poke # None THEN wire.poke
      ELSE wire.base
NothingMissed == wire # None /\ applying = None => NextBase <= cookie
MissedOnlyWhenDisconnected ==
  [][NothingMissed /\ ~NothingMissed' => status = "disconnected"]_vars

\* The tab catches up with the server for good, unless its run loop is
\* stranded or its connection has lost pokes and stays up.
CatchesUp == <>[](cookie = version \/ stranded \/ ~NothingMissed)
=============================================================================
