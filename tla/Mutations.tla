----------------------------- MODULE Mutations -----------------------------
(***************************************************************************)
(* The custom mutations of one Zero tab, from the call of the mutator to   *)
(* the promise the application awaits:                                     *)
(*                                                                         *)
(*   - the tab: Zero#pusher and the connection it sends on, the buffered   *)
(*     pokes, and the MutationTracker that settles the server promises;    *)
(*   - zero-cache: the connection's message handler, the PusherService of  *)
(*     the client group with its queue and its batches, and the pokes;     *)
(*   - the API server: one transaction per mutation, which checks and      *)
(*     increments the last mutation ID and stores the result of a mutation *)
(*     that failed.                                                        *)
(*                                                                         *)
(* Mutation IDs are 1, 2, ...; every upstream transaction advances the     *)
(* last mutation ID by one, so a version of the client's view of the       *)
(* server is the number of mutations applied, and a cookie is a version.   *)
(***************************************************************************)
EXTENDS Naturals, Sequences, FiniteSets, SequencesExt, FiniteSetsExt, Selection

CONSTANTS
  MaxMutations,   \* mutations the tab makes
  MaxFaults,      \* dropped connections, failed pushes, pushes of another tab
  MaxPushers,     \* PusherServices created for the client group
  Environment     \* which of the faults below may happen

ASSUME BoundsAssumption ==
  /\ MaxMutations \in Nat \ {0} /\ MaxPushers \in Nat \ {0} /\ MaxFaults \in Nat
  /\ Environment \subseteq {"drop", "pushFails", "peerPush", "peerRefresh", "reject"}

VARIABLES
  made,     \* the last mutation ID the tab assigned
  cookie,   \* the version of the tab's snapshot
  status,   \* of the tab's connection
  sent,     \* Zero#lastMutationIDSent (0: none)
  received, \* Zero#lastMutationIDReceived
  due,      \* the push connection loop has a push to invoke
  buffer,   \* PokeHandler#pokeBuffer
  tracker,  \* the MutationTracker
  link,     \* the socket, its two directions and its server side
  pushers,  \* the PusherServices, the last one being the current one
  applied,  \* upstream: the mutations applied, in commit order
  rows,     \* upstream: the IDs with a row in the mutations table
  faults    \* faults so far

clientVars == <<made, cookie, status, sent, received, due, buffer, tracker>>
vars == <<made, cookie, status, sent, received, due, buffer, tracker,
          link, pushers, applied, rows, faults>>

IDs == 1 .. MaxMutations
Outcome == {"ok", "error"}
NoLink == [up |-> <<>>, down |-> <<>>, base |-> 0, pusher |-> 0]
Linked == link.pusher # 0
LMID == Len(applied)

Outstanding == {m \in 1 .. made : tracker.outcome[m] = "none"}

------------------------------------------------------------------------------
(* The MutationTracker. *)

\* #resolveMutations: everything outstanding up to n gets the empty result.
Resolve(t, n) ==
  [t EXCEPT !.outcome = [m \in IDs |->
     IF m <= n /\ m <= made /\ t.outcome[m] = "none" THEN "ok" ELSE t.outcome[m]]]

\* #notifyAllMutationsAppliedListeners: the query manager runs the removals
\* it deferred, once no mutation above n was ever tracked.
ApplyListeners(t, n) == [t EXCEPT !.deferred = @ /\ n < t.largest]

\* lmidAdvanced.
LmidAdvanced(t, n) ==
  IF n = t.confirmed THEN t
  ELSE ApplyListeners(Resolve([t EXCEPT !.confirmed = n], n), n)

\* #processMutationResponses meets the results in the order of their keys, that
\* of the IDs below ten, and throws at one whose promise was settled before: what
\* follows it is not looked at.
SettledTwice(t, results) == {m \in results : t.outcome[m] # "none"}
TrackResults(t, results) ==
  [t EXCEPT !.outcome = [m \in IDs |->
     IF m \in results /\ \A b \in SettledTwice(t, results) : m < b
     THEN "error" ELSE t.outcome[m]]]

\* Mutant: the results are acknowledged up to what has been received.
AckedUpTo_Received(results) == received

\* The ID ackMutationResponses sends.
AckedUpTo(results) == Max(results)

\* The message it sends, if #send finds a connected socket.
Ack(t, results) ==
  IF results # {} /\ SettledTwice(t, results) = {} /\ status = "connected"
  THEN <<[kind |-> "ack", id |-> AckedUpTo(results)]>> ELSE <<>>

\* Mutant: the last mutation ID is handed to the tracker before the results.
ApplyToTracker_LmidFirst(t, results, n) == TrackResults(LmidAdvanced(t, n), results)

\* A poke reaches the tracker twice: its results through the watch that fires
\* while the poke is applied, its last mutation ID once it has been applied.
ApplyToTracker(t, results, n) == LmidAdvanced(TrackResults(t, results), n)

------------------------------------------------------------------------------
(* The pusher and the API server. *)

NewPusher == [queue |-> <<>>, batch |-> <<>>, stopped |-> FALSE]

\* combinePushes: one push per client that sent something, in order of its
\* first entry, with all its mutations.
CombinePushes(entries) ==
  LET clients == {entries[i].from : i \in DOMAIN entries}
      pushOf(c) == LET own == Picked(entries, {e \in Range(entries) : e.from = c})
                   IN [i \in DOMAIN own |-> own[i].id]
      first == entries[1].from
  IN <<pushOf(first)>> \o SetToSeq({pushOf(c) : c \in clients \ {first}})

\* The server closes the connection with the error it sends; what arrives
\* after that is ignored.
ServerClosed == \E i \in DOMAIN link.down : link.down[i].kind = "invalidPush"

\* What the connection's server side hears of a push of pusher p.
Answer(p, kind) ==
  IF link.pusher = p /\ ~ServerClosed
  THEN [link EXCEPT !.down = Append(@, [kind |-> kind])] ELSE link

\* What the socket still delivers when the connection ends: any prefix.
Deliver(ps, k) ==
  LET pushed == Picked(SubSeq(link.up, 1, k), {msg \in Range(link.up) : msg.kind = "push"})
      entries == [i \in DOMAIN pushed |-> [from |-> "tab", id |-> pushed[i].id]]
  IN [ps EXCEPT ![link.pusher].queue = @ \o entries]

------------------------------------------------------------------------------
Init ==
  /\ made = 0 /\ cookie = 0 /\ sent = 0 /\ received = 0 /\ due = FALSE
  /\ status = "offline" /\ buffer = <<>>
  /\ tracker = [outcome |-> [m \in IDs |-> "none"], confirmed |-> 0,
                largest |-> 0, deferred |-> FALSE]
  /\ link = NoLink /\ pushers = <<NewPusher>>
  /\ applied = <<>> /\ rows = {} /\ faults = 0

\* trackMutation, the mutator's local run, mutationIDAssigned, and the push
\* that the push connection loop is asked for.
Mutate ==
  /\ made < MaxMutations
  /\ made' = made + 1
  /\ tracker' = [tracker EXCEPT !.largest = Max({@, made + 1})]
  /\ due' = TRUE
  /\ UNCHANGED <<cookie, status, sent, received, buffer, link, pushers, applied, rows, faults>>

\* A mutator that throws after its ID was assigned: rejectMutation settles
\* its promise and the ID is used again, but #largestOutstandingMutationID
\* is left behind.
MutateRejected ==
  /\ "reject" \in Environment /\ faults < MaxFaults
  /\ faults' = faults + 1
  /\ tracker' = [tracker EXCEPT !.largest = Max({@, made + 1})]
  /\ UNCHANGED <<made, cookie, status, sent, received, due, buffer, link, pushers, applied, rows>>

\* QueryManager: a query given up while mutations are outstanding is removed
\* only when all of them have been applied.
RemoveQuery ==
  /\ Outstanding # {} /\ ~tracker.deferred
  /\ tracker' = [tracker EXCEPT !.deferred = TRUE]
  /\ UNCHANGED <<made, cookie, status, sent, received, due, buffer, link, pushers, applied, rows, faults>>

\* Mutant: what was sent on an earlier connection counts as sent.
SentBefore_Reconnect == sent

\* Zero resets #lastMutationIDSent when a connection ends and begins.
SentBefore == 0

\* #disconnect drops the socket and its listeners.
LinkAfterEnd == NoLink

\* The end of a connection: #disconnect on the tab, Connection.close on the
\* server, which may leave the PusherService without a reference.
EndConnection(next) ==
  /\ status' = next /\ sent' = SentBefore /\ buffer' = <<>> /\ link' = LinkAfterEnd
  /\ \E k \in 0 .. (IF ServerClosed THEN 0 ELSE Len(link.up)), stop \in BOOLEAN :
       /\ stop => Len(pushers) < MaxPushers
       /\ pushers' = [Deliver(pushers, k) EXCEPT ![link.pusher].stopped = @ \/ stop]

\* The network or either process ends the connection.
DropConnection ==
  /\ "drop" \in Environment /\ faults < MaxFaults /\ Linked
  /\ faults' = faults + 1
  /\ EndConnection("offline")
  /\ UNCHANGED <<made, cookie, received, due, tracker, applied, rows>>

\* A PushWorker that is idle takes what is queued within the same turn of the
\* event loop, which setting up another connection never does.
NoIdleWorker == \A p \in DOMAIN pushers : pushers[p].batch = <<>> => pushers[p].queue = <<>>

\* The run loop opens a socket: the cookie is the snapshot's, and the syncer
\* uses the group's PusherService, or a new one if that was stopped.
Connect ==
  /\ status = "offline" /\ NoIdleWorker
  /\ status' = "opening"
  /\ pushers' = IF Last(pushers).stopped THEN Append(pushers, NewPusher) ELSE pushers
  /\ link' = [up |-> <<>>, down |-> <<[kind |-> "connected"]>>,
              base |-> cookie, pusher |-> Len(pushers')]
  /\ UNCHANGED <<made, cookie, sent, received, due, buffer, tracker, applied, rows, faults>>

\* The run loop waits in the error state until the application calls
\* connection.connect().
AppReconnect ==
  /\ status = "error"
  /\ status' = "offline"
  /\ UNCHANGED <<made, cookie, sent, received, due, buffer, tracker, link, pushers, applied, rows, faults>>

Received(kind) == link.down # <<>> /\ Head(link.down).kind = kind
Consume == link' = [link EXCEPT !.down = Tail(@)]

\* #handleConnectedMessage up to the query it awaits.
HandleConnected ==
  /\ Received("connected") /\ Consume
  /\ status' = "greeted" /\ sent' = SentBefore
  /\ UNCHANGED <<made, cookie, received, due, buffer, tracker, pushers, applied, rows, faults>>

\* The rest of it, and #connect once its resolver is resolved: the tracker
\* hears the last mutation ID received so far and a push is invoked.
FinishConnect ==
  /\ status = "greeted"
  /\ status' = "connected" /\ due' = TRUE
  /\ tracker' = LmidAdvanced(tracker, received)
  /\ UNCHANGED <<made, cookie, sent, received, buffer, link, pushers, applied, rows, faults>>

\* Zero#pusher sends the mutations above the snapshot: those after
\* #lastMutationIDSent, or all if that one is not among them.
FirstToSend == IF sent \in cookie + 1 .. made THEN sent + 1 ELSE cookie + 1

\* replicache push() and Zero#pusher.
Push ==
  /\ due /\ status = "connected"
  /\ due' = FALSE
  /\ LET pushes == [i \in 1 .. made + 1 - FirstToSend |->
                     [kind |-> "push", id |-> FirstToSend + i - 1]]
     IN link' = [link EXCEPT !.up = @ \o pushes]
  /\ sent' = IF FirstToSend <= made THEN made ELSE sent
  /\ UNCHANGED <<made, cookie, status, received, buffer, tracker, pushers, applied, rows, faults>>

\* The connection's message handler: enqueuePush, or the deletion of the
\* results the tab has seen.
HandleMessage ==
  /\ link.up # <<>> /\ ~ServerClosed
  /\ LET msg == Head(link.up)
     IN /\ rows' = IF msg.kind = "ack" THEN {m \in rows : m > msg.id} ELSE rows
        /\ pushers' = IF msg.kind = "push" THEN Deliver(pushers, 1) ELSE pushers
  /\ link' = [link EXCEPT !.up = Tail(@)]
  /\ UNCHANGED <<clientVars, applied, faults>>

\* Another tab of the group, with its own connection, sends the mutations
\* above its snapshot: the same ones.
PeerPush ==
  /\ "peerPush" \in Environment /\ faults < MaxFaults
  /\ ~Last(pushers).stopped
  /\ faults' = faults + 1
  /\ \E m \in 1 .. LMID + 1 :
       /\ m <= made
       /\ pushers' = [pushers EXCEPT ![Len(pushers)].queue =
            @ \o [i \in 1 .. made - m + 1 |-> [from |-> "peer", id |-> m + i - 1]]]
  /\ UNCHANGED <<clientVars, link, applied, rows>>

\* PushWorker.run: dequeue, drain and combine.
TakePushes(p) ==
  /\ pushers[p].batch = <<>> /\ pushers[p].queue # <<>>
  /\ pushers' = [pushers EXCEPT ![p].queue = <<>>,
                                ![p].batch = CombinePushes(pushers[p].queue)]
  /\ UNCHANGED <<clientVars, link, applied, rows, faults>>

\* Mutant: a mutation that was already processed is processed again.
IsNext_OrBefore(m) == m <= LMID + 1

\* #checkAndIncrementLastMutationID accepts exactly the next mutation.
IsNext(m) == m = LMID + 1

\* The API server's transaction for the next mutation of the push: it commits
\* the mutation, or, after an application error, the error's result.
ApplyMutation(p) ==
  /\ pushers[p].batch # <<>> /\ pushers[p].batch[1] # <<>>
  /\ LET m == pushers[p].batch[1][1]
     IN /\ IsNext(m)
        /\ \E o \in Outcome :
             /\ applied' = Append(applied, [id |-> m, outcome |-> o])
             /\ rows' = IF o = "error" THEN rows \union {m} ELSE rows
  /\ pushers' = [pushers EXCEPT ![p].batch[1] = Tail(@)]
  /\ UNCHANGED <<clientVars, link, faults>>

\* MutationAlreadyProcessedError: the answer says so and processing goes on.
SkipMutation(p) ==
  /\ pushers[p].batch # <<>> /\ pushers[p].batch[1] # <<>>
  /\ ~IsNext(pushers[p].batch[1][1]) /\ pushers[p].batch[1][1] <= LMID
  /\ pushers' = [pushers EXCEPT ![p].batch[1] = Tail(@)]
  /\ UNCHANGED <<clientVars, link, applied, rows, faults>>

\* OutOfOrderMutation: the API server stops there, and #fanOutResponses fails
\* the connection of the mutation's client with InvalidPush.
RefuseMutation(p) ==
  /\ pushers[p].batch # <<>> /\ pushers[p].batch[1] # <<>>
  /\ pushers[p].batch[1][1] > LMID + 1
  /\ pushers' = [pushers EXCEPT ![p].batch = Tail(@)]
  /\ link' = Answer(p, "invalidPush")
  /\ UNCHANGED <<clientVars, applied, rows, faults>>

\* The push was answered; there is nothing to tell the tab of its results.
FinishPush(p) ==
  /\ pushers[p].batch # <<>> /\ pushers[p].batch[1] = <<>>
  /\ pushers' = [pushers EXCEPT ![p].batch = Tail(@)]
  /\ UNCHANGED <<clientVars, link, applied, rows, faults>>

\* The request fails, before, between or after the mutations it carries:
\* #processPush answers 'http' or 'zeroPusher' and goes on with the next one.
FailPush(p) ==
  /\ "pushFails" \in Environment /\ faults < MaxFaults
  /\ pushers[p].batch # <<>>
  /\ faults' = faults + 1
  /\ pushers' = [pushers EXCEPT ![p].batch = Tail(@)]
  /\ link' = Answer(p, "pushError")
  /\ UNCHANGED <<clientVars, applied, rows>>

\* The view syncer pokes the connection from its version to a later one.
Poke ==
  /\ Linked /\ ~ServerClosed /\ link.base < LMID
  /\ \E to \in link.base + 1 .. LMID :
       link' = [link EXCEPT !.base = to,
                  !.down = Append(@, [kind |-> "poke", base |-> link.base, to |-> to,
                                      results |-> rows \intersect (link.base + 1 .. to)])]
  /\ UNCHANGED <<clientVars, pushers, applied, rows, faults>>

\* #handlePokePart and #handlePokeEnd: the last mutation ID is noted at once,
\* the poke waits for the next frame.
HandlePoke ==
  /\ Received("poke") /\ Consume
  /\ received' = Head(link.down).to
  /\ buffer' = Append(buffer, Head(link.down))
  /\ UNCHANGED <<made, cookie, status, sent, due, tracker, pushers, applied, rows, faults>>

\* processPushResponse with an error, or the error message before the close.
HandleError ==
  /\ Received("pushError") \/ Received("invalidPush")
  /\ EndConnection("error")
  /\ UNCHANGED <<made, cookie, received, due, tracker, applied, rows, faults>>

Results(pokes) == UNION {pokes[i].results : i \in DOMAIN pokes}

\* #processPokesForFrame: the buffered pokes are merged and applied as one.
ApplyFrame ==
  /\ buffer # <<>> /\ buffer[1].base = cookie
  /\ SettledTwice(tracker, Results(buffer)) = {}
  /\ cookie' = Last(buffer).to
  /\ tracker' = ApplyToTracker(tracker, Results(buffer), cookie')
  /\ link' = [link EXCEPT !.up = @ \o Ack(tracker, Results(buffer))]
  /\ buffer' = <<>>
  /\ UNCHANGED <<made, status, sent, received, due, pushers, applied, rows, faults>>

\* The tracker throws at a result, and with it the poke, whose snapshot is there to stay:
\* the last mutation ID does not reach the tracker.
FailFrame ==
  /\ buffer # <<>> /\ buffer[1].base = cookie
  /\ SettledTwice(tracker, Results(buffer)) # {}
  /\ cookie' = Last(buffer).to
  /\ tracker' = TrackResults(tracker, Results(buffer))
  /\ EndConnection("error")
  /\ UNCHANGED <<made, received, due, applied, rows, faults>>

\* The snapshot moved under the pokes: "unexpected base cookie for poke".
RejectFrame ==
  /\ buffer # <<>> /\ buffer[1].base # cookie
  /\ EndConnection("error")
  /\ UNCHANGED <<made, cookie, received, due, tracker, applied, rows, faults>>

\* Another tab of the group persisted a later snapshot and this one refreshes
\* to it: the watch delivers the results, nobody calls lmidAdvanced.
PeerRefresh ==
  /\ "peerRefresh" \in Environment /\ faults < MaxFaults
  /\ faults' = faults + 1
  /\ \E v \in cookie + 1 .. LMID :
       LET results == rows \intersect (cookie + 1 .. v)
       IN /\ cookie' = v
          /\ tracker' = TrackResults(tracker, results)
          /\ link' = [link EXCEPT !.up = @ \o Ack(tracker, results)]
  /\ UNCHANGED <<made, status, sent, received, due, buffer, pushers, applied, rows>>

PusherStep(p) ==
  TakePushes(p) \/ ApplyMutation(p) \/ SkipMutation(p) \/ RefuseMutation(p) \/ FinishPush(p)

Next ==
  \/ Mutate \/ MutateRejected \/ RemoveQuery
  \/ DropConnection \/ Connect \/ AppReconnect \/ HandleConnected \/ FinishConnect
  \/ Push \/ HandleMessage \/ PeerPush
  \/ \E p \in DOMAIN pushers :
       \/ TakePushes(p) \/ ApplyMutation(p) \/ SkipMutation(p) \/ RefuseMutation(p)
       \/ FinishPush(p) \/ FailPush(p)
  \/ Poke \/ HandlePoke \/ HandleError \/ ApplyFrame \/ FailFrame \/ RejectFrame \/ PeerRefresh

Spec == Init /\ [][Next]_vars

\* The processes run, the network delivers, and the application calls
\* connect() when it is told of an error; faults are bounded by MaxFaults.
Fairness ==
  /\ WF_vars(Connect) /\ WF_vars(AppReconnect)
  /\ WF_vars(HandleConnected) /\ WF_vars(FinishConnect) /\ WF_vars(Push)
  /\ WF_vars(HandleMessage)
  /\ \A p \in 1 .. MaxPushers : WF_vars(p \in DOMAIN pushers /\ PusherStep(p))
  /\ WF_vars(Poke) /\ WF_vars(HandlePoke) /\ WF_vars(HandleError)
  /\ WF_vars(ApplyFrame) /\ WF_vars(FailFrame) /\ WF_vars(RejectFrame)

FairSpec == Spec /\ Fairness

------------------------------------------------------------------------------
\* However often a mutation is sent, by this tab, by another one or through a
\* PusherService that outlived its connection, upstream applies mutation 1,
\* then 2, ..., each once.
AppliedOnceInOrder == \A i \in DOMAIN applied : applied[i].id = i

\* A connected tab that believes it has pushed everything is right: each
\* mutation upstream has not applied is on its way, or so is the error that
\* makes the tab reconnect and send it again.
NoneForgotten ==
  status = "connected" /\ ~due =>
    \A m \in LMID + 1 .. made :
      \/ \E i \in DOMAIN link.up : link.up[i].kind = "push" /\ link.up[i].id = m
      \/ \E p \in DOMAIN pushers :
           \/ \E i \in DOMAIN pushers[p].queue : pushers[p].queue[i].id = m
           \/ \E i \in DOMAIN pushers[p].batch : m \in Range(pushers[p].batch[i])
      \/ \E i \in DOMAIN link.down : link.down[i].kind \in {"pushError", "invalidPush"}

\* A server promise that resolves with success belongs to a mutation that did
\* not fail ("the user receives typed errors").
OutcomeTruthful ==
  \A m \in IDs : tracker.outcome[m] = "ok" => m <= LMID /\ applied[m].outcome = "ok"

\* Upstream refused mutation m.
Failed(m) == m <= LMID /\ applied[m].outcome = "error"

\* A failed mutation's result stays in the mutations table until its promise
\* has been settled: acknowledging a result never deletes one not yet seen.  (Once
\* a promise was settled wrongly, the tracker throws at its result and does not see
\* those that come with it.)
ResultsKept ==
  OutcomeTruthful =>
    \A m \in IDs : Failed(m) /\ tracker.outcome[m] = "none" => m \in rows

\* One step only makes a failed mutation look like a success while the tracker
\* was right so far: onConnected, which resolves up to the last mutation ID
\* received although the poke that carried it has not been applied.
FalseSuccessOnlyOnConnect ==
  [][OutcomeTruthful /\ ~OutcomeTruthful'
     => status = "greeted" /\ status' = "connected"]_vars

\* Every mutation's promise is settled in the end, through dropped connections and failed
\* pushes, and the queries whose removal waits for that are removed.  Two things the
\* tracker is not told are excepted: the last mutation ID of a snapshot that came with a
\* refresh, and that the ID of a mutator that threw is used again or not at all.
Refreshed == cookie > tracker.confirmed
MutationsSettle ==
  /\ \A m \in IDs : (made >= m) ~> (tracker.outcome[m] # "none" \/ Refreshed)
  /\ tracker.deferred ~> (~tracker.deferred \/ Refreshed \/ tracker.largest > made)
=============================================================================
