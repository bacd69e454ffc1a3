# A TLA+ model of GoRing

GoRing is a WebSocket signaling server for WebRTC calls. Any number of servers run the same code and
keep all state in one Redis: which server a user is connected to, which call a user is in, and how far
each call has come. The hard part of the code is not any one handler but what happens when several of
them, on several servers, work on the same keys: each handler is a sequence of Redis commands, and
anything may happen between two of them.

This directory holds TLA+ modules of that behaviour, TLC configurations that check them on small
instances, and TLAPS proofs for every size. All paths below are relative to the repository; `call.go`
is `internal/signaling/call.go`, `pubsub.go` is next to it, `session.go` is
`internal/redis/session.go`, `handler.go` and `client.go` are in `internal/ws`.

## Inventory

| Component | State | Operations | Correct when |
|---|---|---|---|
| Call manager (`call.go`) | none of its own; local variables of the handlers | start, accept, reject, end, forward WebRTC, disconnect, reconnect, check | one outcome per call, both parties learn it, a hang-up ends the call |
| Session manager, calls (`session.go`) | `call:session:<id>` (hash, TTL 120 s), `call:user:<id>` (string, TTL 120 s) | create (WATCH, GET, GET, EXEC), state script, delete, clear, cleanup | a user is in one call, mappings name sessions that exist, no mapping is overwritten |
| Session manager, slot (`session.go`) | `ws:user:<id>` (string, TTL 30 s) | acquire (SET NX), get, force (SET), release (script), refresh (EXPIRE) | the slot names the server of the user's connection |
| Hub (`handler.go`) | `clients`, the `register` and `unregister` channels | upgrade, kick, register, unregister, dispatch, `SendToUser` | one connection per user, none untracked, closed ones leave |
| Client (`client.go`) | `send` queue of 256, `done` | send, close, read pump, write pump | a message is queued once or reported as not sent |
| PubSub (`pubsub.go`) | subscriptions, handlers | subscribe, unsubscribe, publish, receive | a server is subscribed while it has the user's client |
| Notifications (`internal/notification`) | none | incoming and cancel pushes to FCM, APNs | a cancel only after an incoming push |
| Protocol messages (`messages.go`) | none | message kinds, call states, JSON | |
| Auth, Redis client, main, example web client | | | not modelled or only as a crash, see the end |

The components interact by calls (hub → call manager → session manager → Redis), by a callback (the
call manager sends through the hub's `SendToUser`), by Redis pub/sub between servers, and above all by
the shared keys. Hard behaviours:

* two parties, or two connections of one party, act on one call at the same time;
* a handler decides by what it read some commands ago;
* a server stops between two commands of a handler, and nothing ever resumes it;
* keys expire under handlers that work with them;
* old and new connections of a user overlap, on the same or on different servers;
* messages and pushes are sent by separate goroutines, and their errors are only logged.

`PROJECT.json` lists each hazard at its line with the properties that cover it.

## Modules

| Module | Models |
|---|---|
| `CallRegistry` | abstract specification: what the session store promises to the call logic |
| `CallSessions` | all handlers of the call manager, concurrently, one Redis command per step |
| `MCCallSessions` | the same, with a symmetry set for TLC |
| `CallSessionsProofs` | type correctness of `CallSessions` |
| `CallSessionsSafety` | its inductive invariant and what follows |
| `CallSessionsOutcomes` | how a call ends and who learns of it: the invariants over the history, and what follows |
| `CallSessionsRefinement` | `CallSessions` implements `CallRegistry` |
| `Hub` | the connections of one user: upgrade, kick, loop of the hub, slot, subscriptions |
| `MCHub` | the same, with a symmetry set for TLC |
| `HubProofs` | the inductive invariant of `Hub` and what follows |
| `HubPromptProofs` | the single connection, if handshakes do not overlap and kicks are prompt |
| `Routing` | the path of a message: `SendToUser`, send channel, write pump, pub/sub; extends `Hub` |
| `Delivery`, `MCDelivery` | peers that send numbered messages over that path |
| `DeliveryProofs` | nothing is written to a connection twice, and what is written is in order |
| `Ringing`, `MCRinging` | composition: one ringing call to the user of `Hub` |
| `RingingProofs` | `Ringing` implements `Hub`; a connected user is told of a call and of its end |

`Routing` with `Delivery`, and `Ringing`, take each step of `Hub` and add what it does to messages or to
the call. Both implement `Hub`, which is proved, so that what is proved of connections holds in them.

### CallSessions

`state[s]` is the field `state` of the hash of session `s`, and for a session without a hash the reason:
not created yet (`unborn`), `deleted` or `expired`. `meta[s]` holds the other fields of the hash that
the handlers look at, `userCall[u]` the string at `call:user:u`. `job[p]` is what goroutine `p` is
doing: the handler, its next step, and its local variables. `seen` is the state in the handler's copy of
the session, `online` what `IsUserOnline` said, and `dirty` stands for the WATCH: it is set when
someone else changes a watched mapping, and EXEC refuses a dirty transaction. `log` is a history of the
messages and pushes sent, and of users who hung up or were disconnected; a run records all kinds or
none (`Recorded`).

A client can name a call in a request only after a message or a push named it to the client: to the callee
`call.ring` or an incoming push, to the caller `call.ringing`, which leaves when `StartCall` has returned
(`handler.go:542`). `Heard` is that guard of `AcceptCall`, `RejectCall`, `EndCall` and `ForwardWebRTC`. A
run without the history (`faults`, `busy`) cannot tell and lets users name any session: its behaviours
include those of the others. A disconnect or reconnect finds the call by the user's mapping and needs no
name.

One action is one Redis command, one EXEC, one script, or the sends between two commands. What a
handler does before its first command, and a read that starts it, are one step with it: nobody can see
the difference. The read-only `call.check` and every request that is refused at its first command
change nothing and are absent. A session identifier is a fresh UUID, so two handlers never create the
same session; a creation that fails gives its identifier back, since it was never stored.

With `MayFail`, a handler may stop after any step (`Abort`: a crash, a Redis error, a lost reply), the
state script of a hang-up may fail without stopping it, and any message or push may be lost. With
`MayExpire`, a hash may expire at any time and a mapping after the hash it names: both get their TTL in
one EXEC, the hash first.

### Hub

`Hub` follows one user. `slot` is `ws:user:u`, `conn[c]` the goroutine that upgrades connection `c` and
then runs its client, `clients[s]` the entry of the map of server `s`, `subscribed` the servers whose
`PubSub` listens to the user's channel, `pending[s]` the disconnect messages that `s` has received and
not handled, and `loop[s]` what the loop of `s` is doing. Handshake, kick and unregistration go one
Redis command at a time; registration holds the hub's lock throughout and is one step.

Redis commands of a handshake run with the context of the request, which is cancelled when the client
leaves. `MayAbandon = TRUE` lets that happen at any command of a handshake; the release after a failed
upgrade (`handler.go:334`) then may fail without any fault, and the slot stays until it expires. `MayFail`
includes that, failing commands elsewhere, crashes, and disconnect messages lost on a broken connection to
Redis. A kick that finds the slot free in the meantime returns without a pause (`handler.go:363-366`): the
handshake is at `take` then, and not at `force`.

Two constants state assumptions about time and use that the code makes without checking them.
`Overlap = FALSE`: the user does not start a handshake before the previous one is registered.
`Prompt = TRUE`: the pause of 100 ms after a kick (`handler.go:397`) is long enough for the kicked
client to be closed and its slot to be released. With both, and with neither faults nor abandoned
handshakes, the user has a single connection and its slot, which is proved. The run `lost_kick` shows two
connections without them, the run `stale_unregister` a connection without its slot. `Prompt` also leaves
out a disconnect message that arrives so late that it closes the connection it made room for.

### Routing and Delivery

A goroutine that calls `SendToUser` reads the map under the lock and uses the client after it, so
`sender[x]` holds a client that may be closed, replaced or unregistered by then. `queue[c]` is the send
channel; `Send` is a `select` over three cases, and the model keeps them apart: there is room, `done` is
closed, neither. When the first two hold, either may be taken. A refused message is published to
every server that is subscribed at that moment. `inbox[r]` and `hand[r]` are the channel and the local
variable of a goroutine that receives. Each server has one for its subscription, and one for each
subscription that was closed and whose goroutine still works off what had reached it; `Unsubscribe` waits
for none of them. `Leftovers` bounds how many there are at one server at a time. With `MayFail`, a
broken connection to Redis costs some subscribers a message, and a crash costs a server everything.

`received[c]` is a history of what was written to connection `c`; it ends with the connection. A
connection is not reused while a goroutine still holds its client (`Unreferenced`), because the Go object
is its own. In `Delivery`, peers send messages numbered in order, each peer one at a time as a read
pump does, from any server. `published` and `outlived` are histories that state the exceptions of
`InOrder`.

### Ringing

The user of `Hub` is the callee of one call. `call` is none yet, ringing, or over; `CallSessions` has what
happens to the record. A call is over when it was answered, given up, cleaned up by a disconnect of the
user, or expired (`SessionExpires`). The caller stays on one server and has two handlers:
`caller["start"]` is `StartCall`, and `caller["end"]` the `EndCall` or the `HandleDisconnect` that gives
the call up, in each of which the Redis command and the send are separate steps in the order `Order`.
The second may run while the first has yet to ring: a caller who disconnects, or who comes back on another
connection and learns of the call there, does not wait for `StartCall`. `online` is what `StartCall` was
told of the callee, which decides on the push.

On the user's side are the goroutines that `handleRegister` starts (`reconnect`), the loops that run
`HandleDisconnect` in the middle of an unregistration (`cleanup`), `call.check`, and the pushes asked for,
which arrive at any later time and in any order. A push that wakes the app is what makes it send
`call.check`. `taken` is the window in which the loop has received a client from its channel, which lets
`runClient` start, but has not put it in the map: the client is served and cannot be sent to.

`shown[c]` is what connection `c` was told: a `ring`; a `stray` ring, which came when the call was over,
belongs to another connection, or was answered in the window above; or that the call is `over`. Sends are
one step here and no queue is full. Each connection registers once, since the histories are about it.

## Runs

| Run | Instance | Shows |
|---|---|---|
| `faults` | 2 users, 2 sessions, 2 handlers, failures, expiry | types, `MappingHasSession`, `Exclusive`, the inductive invariant `IInv`, `NeverOverwritten`, refinement of the registry |
| `outcomes` | 2 users, 1 session, 3 handlers, expiry | `SettledOnce`, `BothLearn`, `HangupTakesEffect` under every race of three handlers |
| `busy` | 2 users, 1 session, 2 handlers, failures, expiry, fairness | `BusyEventuallyFree` |
| `delivery` | 2 connections, 2 servers, 1 peer with 2 messages, queues of 1, 1 leftover receiver, failures, crashes | types and queue bounds, `OncePerConnection`, `InOrder`, `NoUntrackedConnection` |
| `ringing` | 2 connections, 2 servers, `Prompt`, no `Overlap`, fairness | `RingExpected`, `RingReaches`, `OverLearned`, `WokenLearns`, `ClosedLeaves`, `OnlineWhenConnected`, `NewestSurvives`, `SubscribedWithClient`, `SlotBacked`, types |
| `stale_cleanup` | violation | `OwnMappingsOnly` |
| `cancel_push` | violation | `CancelOnlyAfterPush` |
| `long_call` | violation | `AcceptedCallPersists` |
| `stale_unregister` | violation | `StaleUnregisterKeepsSlot` |
| `lost_kick` | violation | `SingleConnection` |
| `closed_send` | violation | `ClosedRefuses` |
| `stale_disconnect` | violation | `ConnectedKeepsCall` |

What they show, where it needs saying:

* `OncePerConnection`: `SendToUser` tries a queue and then pub/sub, which may lead back to the same
  queue; still nothing arrives twice. `InOrder`: nor does a peer's message overtake an earlier one, unless
  the overtaken one went through pub/sub and the other did not, or the subscription of the overtaken one
  was closed and replaced under it. Both exceptions occur.
* `RingExpected`: a user who is connected while the call rings was told of it, or `StartCall` or the
  reconnect of the connection is about to tell, in whatever order the check whether the user is
  online, the creation of the session, the registration and the reconnect check come. `RingReaches`: so the
  user gets to see it, if it keeps ringing and the connection lasts. Both need `Prompt`: a ring that goes
  to the closed client of a slow kick is lost.
* `OverLearned`: who was told the call rings, by the call or by a reconnect or check of the same
  connection, was told that the caller gave up by the time the caller's handler is done. A stray ring is
  excepted; and a ring may still come after the news that the call is over, so an app has to remember
  that.
* `WokenLearns`: an app that a push woke, and whose `call.check` was answered, is not left with a call that
  the caller gave up: `call.ended` reached the connection that asked, or the answer came before that
  connection was in the map, and then a cancel push was asked for. The two pushes may
  arrive in either order; `call.check` makes that harmless.
* `SlotBacked` takes `MayAbandon = FALSE`, and `OnlineWhenConnected` and `NewestSurvives` also take `Prompt`
  and no `Overlap`: they say what those assumptions buy, and not that the code meets them.

Bounds. A race over one call needs the call's two parties and one handler more than the two that
conflict: a third shows what a late one does to a result that is settled. Two sessions suffice for
`faults`: expiry and failures make every pair of an old and a new call possible. Two connections on two
servers give every pair of an old and a new connection, on one server or on two, and with recycling
in `delivery` any number over time. Larger instances (three users and sessions, three
connections and servers) belong to the proofs, which hold for all sizes. A queue of one is full after one
message; a second message of the same peer overtakes it or does not. `MaxPending` bounds the disconnect
messages in flight to one server to 1 (a kick waits when they are full). `Leftovers` bounds the receivers of
closed subscriptions that are still at work to one for each server (a subscription is closed only when there
is room for another); with two, TLC finds the same in 1.6 million states, and the theorems hold for any
number. Deadlock is not
checked: a system without requests, or whose session identifiers are used up, rests.

Fairness. `busy` assumes that every handler takes its next step or stops, and that Redis expires keys;
no message need arrive, and no user need do anything. `ringing` assumes that every goroutine that can run
does: the caller's handler, the reconnect goroutines, replies, each loop; that a read on a closed
connection returns; and that a client waiting to be unregistered is served if the loop becomes free again
and again (strong fairness: Go serves senders of a channel in order, and `select` picks among ready
channels at random). Nobody need connect, finish a handshake, call, check, answer or hang up.

A definition marked "slip" is a plausible bug in the definition after it. Putting it in place of that
definition breaks the property that `PROJECT.json` pairs it with under `mutants`: no property
holds by the shape of the model.

### What the violations say

* `stale_cleanup`: two hang-ups of one call overlap, by its two parties, or by one of them over an old and a
  new connection. Both read the session; the first deletes it, a party starts a new call, and the
  unconditional DEL of the second (`session.go:358`) deletes the mapping of the new call. `ClearUserCall`
  (`session.go:336`) can do the same after a disconnect or reconnect read a mapping that is gone by
  then; the property is about `DeleteCallSession`, whose comment it quotes. That user can now be in two calls. This is why `Exclusive`, `LiveMapped` and
  `CallRegistry!Free` carry the exception "unless another call of the user is gone".
* `cancel_push`: the device data of `call.start` is stored also when the callee is online
  (`call.go:96`). The callee gets `call.ring` and no push, the caller `call.ringing`; the caller's hang-up then
  sends the callee a cancel push for a call that no push announced.
* `long_call`: the TTL of a call is set once; an accepted call vanishes after 120 s.
* `stale_unregister`: the slot names a server, not a connection; the late unregistration of a closed
  connection deletes the slot of its successor on the same server, which then counts as offline.
  It takes an unregistration slower than the pause of 100 ms (`StaleUnregisterAlways`).
* `lost_kick`: a second handshake, on another server, overtakes the first between its SET NX and its
  registration: nobody is subscribed yet, the disconnect message is lost, and both stay connected.
  It takes overlapping handshakes, or a kick slower than the pause (`OneConnection`).
* `closed_send`: when a client is closed and its queue has room, `Send` may queue the message and
  report success (`client.go:73`); `SendToUser` then does not publish it, and it is lost although the
  user may be connected to another server.
* `stale_disconnect`: an unregistration ends with `HandleDisconnect` for the user, not for the connection
  (`handler.go:194`), after its Redis commands. By then the user may be connected to another server and
  a call ringing there; it is ended, and the user is told nothing.

## Proofs

About `CallSessions`, for any sets of users, sessions and goroutines and any device data, with or without
failures and expiry. The assumptions are those of the module: `None` is no user and no session, and the
constants have their types.

* `TypeCorrect`: `Spec => []TypeOK`.
* `Invariance`: `Spec => []IInv`. `MappingHasSession` and `Exclusive` are not inductive: EXEC sets both
  mappings without looking at them again, so one has to know that a transaction that is not dirty
  still has both parties free (`WatchInv`), that nobody else is creating the same session, that a
  handler past its first command works on a session that was stored, and that the one that clears a
  mapping does it for a party of a session that is gone (`HandlerInv`). `LiveMapped` says how a live
  session can lose the mapping of a party. The proof has one lemma per kind of step: `Quiet` for those
  that write no mapping, `FreeSafe` for the three that remove mappings, `CreateExecSafe` for the one that
  sets them; `WatchAfterWrite` is the argument that a write either leaves a watcher's reads true or
  makes it dirty.
* `ExclusiveAlways`, `MappingAlways`: consequences of `IInv`.
* `Refinement`: `Spec => RegistrySpec`. EXEC is `Claim`, the state script `Answer`, `Refuse` or
  `Finish`, expiry of a hash and DEL are `Remove`, the removal of mappings of a call that is gone `Free`;
  everything else is a stutter.
* `NeverOverwrittenAlways`: from the refinement, since no step of the registry hands a user from one
  call to another.

`CallSessionsOutcomes` extends `IInv` to the history `log`. What it assumes of the constants is stated with
each theorem; `HangupAlways` and `BothLearnAlways` are about handlers that run to their end
(`~MayFail`), since one that stops halfway tells nobody and ends nothing.

* `SettledAlways` (`SettledOnce`), faults included. `OutcomeInv` calls a session accepted if its state says
  so, if a handler that moved it there is about to tell, or if somebody was told; rejected likewise. No
  session is both, and one that is either is past "ringing", which no session returns to. So the
  two scripts that compete for the move out of "ringing" cannot both win (`AnswerStepOutgoing`; the other
  steps are no part of an answer, `Neutral`).
* `DepartAlways`: `DepartInv`, faults included. A handler that goes on to read or delete a session is a
  rejection, a hang-up or a disconnect, works for a party of the session, and has recorded that this party
  left; a disconnect has its peer to tell only when the session is gone; without failures, a
  rejection or a hang-up has told the other party before it deletes. It rests on `Frame`: no step forgets
  an event, brings a session back, or changes the parties of one that is stored.
* `HangupAlways` (`HangupTakesEffect`), assuming `~MayFail`: the last command of a hang-up deletes the
  session, whatever the state script found.
* `BothLearnAlways` (`BothLearn`), assuming `~MayFail` and that the history records what the property speaks
  of: deleting is the only way out of a session that is told about, and by `DepartInv` the one who deletes
  has left and has told, or is about to.
* `PersistAlways` (`AcceptedCallPersists`), assuming `~MayExpire`: what the run `long_call` refutes is the
  fault of the TTL alone; failures and crashes do not take an accepted call from its parties.

About `Hub`, for any sets of connections and servers, any bound on the messages in flight, and with or
without overlap, prompt kicks and faults unless the theorem says otherwise:

* `HubInvariance`: `Spec => []HubInv`. To the types and the properties below it adds `LoopInv`: a
  client that is being unregistered belongs to the server whose loop works on it, waits there for the
  end of it, is in no map, and has no subscription left after the first step. The other loops and the
  handshakes leave all that alone. One lemma, `Quiet`, covers the steps that touch neither a map nor a
  subscription nor a loop, another, `LoopStepSafe`, those of one loop; `HandleRegisterSafe` stands alone.
* `HubTypeCorrect`, `TrackedAlways` (`NoUntrackedConnection`): consequences, faults included.
* `MapAlways`: `Spec => []MapInv`, faults included: who is in the map of a server is a client of that server,
  running or about to be unregistered. It rests on lemmas that say how far a step takes a connection:
  `ConnectMoves`, `RegisterMoves`, and `OnwardMoves` for all the steps that bring none to the hub. The proofs
  of the compositions use them as well.
* `SubscribedAlways` (`SubscribedWithClient`) assumes `~MayFail`: a failed SUBSCRIBE refutes it.
  `SlotBackedAlways` (`SlotBacked`) assumes `Undisturbed`, which is `~MayFail` and `~MayAbandon`: a release that
  fails, or is cancelled with its request, refutes it.

`HubPromptProofs` assumes `Orderly`: prompt kicks, no overlap, and `Undisturbed`.

* `PromptInvariance`: `Spec => []PromptInv`. A `Holder` is a connection that the slot stands for, from when
  its request takes the slot to when a loop releases it; a `Newcomer` one whose request is still handled.
  There is at most one of each, the holder is where the slot says, the newcomer is the newest
  connection, and `KickInv` says that the kick of the newcomer gets to the client it is for: it is on
  this server while the newcomer goes for it there, or a disconnect message is pending at its server; a
  newcomer that found the slot free in the meantime has nobody to kick (`TakeFree`, `NobodyHolds`).
  `Prompt` is needed where the newcomer takes the slot: the old holder is gone by then.
* `OnlineAlways` (`OnlineWhenConnected`), `NewestSurvivesAlways` (`NewestSurvives`), and `OneConnection` and
  `StaleUnregisterAlways`, which prove under these assumptions what two of the violations refute without
  them.

About the compositions, for any numbers of connections, servers, peers and messages:

* `DeliveryImplementsHub`, `RingingImplementsHub`: every step is one of `Hub` or a stutter. From them follow
  `DeliveryTracked`, `RingingSubscribed`, `RingingOnline`.
* `DeliveryInvariance`: `DeliverySpec => []DeliveryInv`. A message that is being sent is new and nowhere
  else (`FreshInv`); a message is at one receiver of a server at most, once, or at a connection to this
  server, once, but not at both (`ReceiverOnce`, `ConnectionOnce`). This rests on receivers passing
  messages on only to clients of their own server, and on a client object being unknown to everybody
  until it is registered (`ReferenceInv`). The steps of `Hub` only lose messages or hand them to another
  receiver of the server (`HubStepSafe`). Consequences: `OnceAlways` (`OncePerConnection`), faults and
  crashes included, and `DeliveryTypeCorrect`, by which no send channel exceeds its capacity.
* `InOrderAlways` (`InOrder`), faults and crashes included. With `DeliveryInv`, `OrderInv` is inductive: what
  waits anywhere was published and is not being sent any more (`PublishedInv`); a receiver has messages in
  the order in which they were sent, and the receivers of subscriptions that ended have older ones than
  that of the current one, all of them `outlived` (`LineInv`); and whatever came to a connection through
  pub/sub is older than what its server has yet to take from its subscription, while an inversion on the way
  to a connection is one of the two exceptions (`ArrivalInv`). Sending and publishing put a message behind
  everything of its peer because the peer sends one at a time (`HeldFacts`); a message comes to a
  connection in `Arrives`; every other step only shortens the lines (`OrderShrinks`), but for the end of
  a subscription, which hands its line to another receiver (`LeaveInOrder`). The proof needs that `None` is
  no message (`DeliveryNoneAssumption`), which holds of the records that messages are.
* `RingingTypeCorrect`: `RingingSpec => []RingingTypeOK`.
* `RingExpectedAlways` (`RingExpected`) and `OverLearnedAlways` (`OverLearned`), assuming `Orderly`. With the
  types, `PromptInv` and `MapInv`, `ToldInv` is inductive. Nobody in a map but the open connection holds
  the slot, so `SendToUser` reaches that connection from any server (`Reaches`). A connection knows of no
  ring before its registration starts its reconnect (`RegisteredInv`), the call is over before the caller's
  handler says so (`CallerInv`), and whoever read "ringing" before that is told of the end too: `OverKnown` is
  `OverLearned` for those who are about to be told of the ring as well. The steps that only move
  connections are one case (`HubGoesOn`).
* `WokenLearnsAlways` (`WokenLearns`), assuming `Orderly`: `WokenInv` adds to `ToldInv` that a
  connection that had its answer knows something of the call, and that a hang-up that is done asked for the
  cancel push. If what it knows is a ring, `OverKnown` has the end of it;
  otherwise it is a stray ring, or the end itself.
* `CleanedUpElsewhereAlways`, without assumptions: a cleanup that is about to end a call has no open
  connection of the user on its own server. What `stale_disconnect` refutes takes another server.

Every safety property and every action property that a passing run checks is a theorem, `RingExpected`,
`OverLearned`, `WokenLearns`, `OnlineWhenConnected` and `NewestSurvives` under `Orderly`, and `SlotBacked`
under `Undisturbed`, which their run assumes too. Only
model-checked is liveness (`BusyEventuallyFree`, `ClosedLeaves`, `RingReaches`): fairness and ENABLED are out
of the prover's reach.

## Not modelled

* The HTTP clients of FCM and APNs (`internal/notification`): a push that was asked for arrives at any
  time or never, which is what their timeouts and ignored errors amount to for the rest.
* The order of messages from the handlers of different users to one connection, such as `call.ringing`
  (`handler.go:542`) and the callee's `call.accepted`: the code promises none.
* Losses on the way in `Ringing`: its sends are one step. `Delivery` has the delays, for messages without
  a meaning.
* JSON, tokens, configuration, HTTP routes, logging, and error replies to malformed requests: no concurrent
  state.
* The example web client.

## Plan

1. `Ringing` with `Prompt = FALSE` and failing commands: which rings are lost, and that a check or
   reconnect finds the call if it still rings.
