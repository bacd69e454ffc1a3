--------------------------------- MODULE Hub ---------------------------------
(***************************************************************************)
(* The connections of one user to a cluster of servers: HandleUpgrade, the *)
(* hub's loop and runClient (internal/ws/handler.go), the slot ws:user:u   *)
(* (internal/redis/session.go) and the subscriptions to the user's channel *)
(* (internal/signaling/pubsub.go).  Users share nothing here but the loop  *)
(* of each hub, which serves one client at a time.                         *)
(*                                                                         *)
(* Connections are recycled: one that is over may stand for a later one.   *)
(*                                                                         *)
(* A definition marked "slip" is no part of the specification: it is the   *)
(* one after it as a plausible bug would have it, for trying whether the   *)
(* properties notice.                                                      *)
(***************************************************************************)
EXTENDS Naturals, FiniteSets

CONSTANTS
    Conns,      \* connections of the user, each an upgrade request and then a client
    Servers,    \* server IDs
    None,       \* no connection, no server
    MaxPending, \* bound on the disconnect messages on their way to one server
    Overlap,    \* the user may start a handshake while another one runs
    Prompt,     \* the pause after a kick outlasts the unregistration of whoever was kicked
    MayAbandon, \* a client may leave during its handshake, which cancels the commands that are left
    MayFail     \* Redis commands may fail, servers may crash

ASSUME HubNoneAssumption == None \notin Conns \cup Servers
ASSUME HubBoundAssumption == MaxPending \in Nat \ {0}
ASSUME HubFlagsAssumption == {Overlap, Prompt, MayAbandon, MayFail} \subseteq BOOLEAN

VARIABLES
    slot,       \* the string at ws:user:u: the server of the user's connection, or None
    conn,       \* conn[c]: server and progress of connection c, and whether it was closed
    clients,    \* clients[s]: the client of the user in the map of the hub of s, or None
    subscribed, \* servers whose PubSub is subscribed to the user's channel
    pending,    \* pending[s]: disconnect messages published, received by s, not yet handled
    loop,       \* loop[s]: the client the loop of s is unregistering, and what it does next
    newest      \* history: the connection that started its handshake last

vars == <<slot, conn, clients, subscribed, pending, loop, newest>>

Handshake == {"lookup", "local", "remote", "take", "force", "upgrade"}
Progress == {"none", "register", "running", "leaving", "unregister"} \cup Handshake

NoConn == [server |-> None, pc |-> "none", open |-> FALSE]
Waiting == [conn |-> None, pc |-> "wait"]

Init ==
    /\ slot = None
    /\ conn = [c \in Conns |-> NoConn]
    /\ clients = [s \in Servers |-> None]
    /\ subscribed = {}
    /\ pending = [s \in Servers |-> 0]
    /\ loop = [s \in Servers |-> Waiting]
    /\ newest = None

-----------------------------------------------------------------------------
On(c, pc) == conn[c].pc = pc
MoveTo(c, pc) == conn' = [conn EXCEPT ![c].pc = pc]
OverForgotten(c) == MoveTo(c, "none")                                                   \* slip
Over(c) == conn' = [conn EXCEPT ![c] = NoConn]

(* Close: done is closed, once.  Closed(d) is what closing client d, if any, makes of conn. *)
Closed(d) == IF d = None THEN conn ELSE [conn EXCEPT ![d].open = FALSE]

-----------------------------------------------------------------------------
(* HandleUpgrade, on the goroutine of the request. *)

(* AcquireWebSocket: SET NX.  The user may be asked to run one handshake at a time. *)
Connect(c, s) ==
    /\ On(c, "none")
    /\ Overlap \/ \A d \in Conns : conn[d].pc \notin Handshake \cup {"register"}
    /\ conn' = [conn EXCEPT ![c] = [server |-> s, open |-> TRUE,
                                    pc |-> IF slot = None THEN "upgrade" ELSE "lookup"]]
    /\ slot' = IF slot = None THEN s ELSE slot
    /\ newest' = c
    /\ UNCHANGED <<clients, subscribed, pending, loop>>

KickLookupLocalOnly(c) ==                                                               \* slip
    /\ On(c, "lookup")
    /\ MoveTo(c, IF slot = None THEN "take" ELSE "local")
    /\ UNCHANGED <<slot, clients, subscribed, pending, loop, newest>>

(* kickExistingConnection, GetWebSocketServer: whose connection is to be closed.  If the slot is free
   by now there is nothing to kick, and no pause. *)
KickLookup(c) ==
    /\ On(c, "lookup")
    /\ MoveTo(c, IF slot = None THEN "take" ELSE IF slot = conn[c].server THEN "local" ELSE "remote")
    /\ UNCHANGED <<slot, clients, subscribed, pending, loop, newest>>

(* The connection is on this server: whatever client the map holds by now is closed. *)
KickLocal(c) ==
    /\ On(c, "local")
    /\ conn' = [Closed(clients[conn[c].server]) EXCEPT ![c].pc = "force"]
    /\ UNCHANGED <<slot, clients, subscribed, pending, loop, newest>>

(* It is on another: a disconnect message goes to every server that is subscribed by now, unless a
   broken connection to Redis loses it. *)
KickRemote(c) ==
    /\ On(c, "remote")
    /\ \E S \in {subscribed} \cup (IF MayFail THEN SUBSET subscribed ELSE {}) :
        /\ \A s \in S : pending[s] < MaxPending
        /\ pending' = [s \in Servers |-> IF s \in S THEN pending[s] + 1 ELSE pending[s]]
    /\ MoveTo(c, "force")
    /\ UNCHANGED <<slot, clients, subscribed, loop, newest>>

(* Every kicked client was closed and unregistered. *)
KicksDone ==
    /\ \A s \in Servers : pending[s] = 0 /\ loop[s].pc \in {"wait", "disconnect"}
    /\ \A d \in Conns : conn[d].pc \in {"running", "leaving"} => conn[d].open

ForceAcquireAtOnce(c) ==                                                                \* slip
    /\ On(c, "take") \/ On(c, "force")
    /\ slot' = conn[c].server
    /\ MoveTo(c, "upgrade")
    /\ UNCHANGED <<clients, subscribed, pending, loop, newest>>

(* ForceAcquireWebSocket, SET: at once if nobody was kicked, else after the pause. *)
ForceAcquire(c) ==
    /\ \/ On(c, "take")
       \/ On(c, "force") /\ (Prompt => KicksDone)
    /\ slot' = conn[c].server
    /\ MoveTo(c, "upgrade")
    /\ UNCHANGED <<clients, subscribed, pending, loop, newest>>

(* The Lua script of ReleaseWebSocket: the slot goes if it names this server. *)
ReleaseWebSocket(s) == slot' = IF slot = s THEN None ELSE slot

(* The HTTP connection is upgraded and waits for the hub, or it is not and the slot is released, with
   the context of the request, which the client has cancelled if it left. *)
Upgrade(c) ==
    /\ On(c, "upgrade")
    /\ MoveTo(c, "register")
    /\ UNCHANGED <<slot, clients, subscribed, pending, loop, newest>>

UpgradeFailsKeepingSlot(c) ==                                                           \* slip
    /\ On(c, "upgrade")
    /\ Over(c)
    /\ UNCHANGED <<slot, clients, subscribed, pending, loop, newest>>

UpgradeFails(c) ==
    /\ On(c, "upgrade")
    /\ ReleaseWebSocket(conn[c].server) \/ ((MayAbandon \/ MayFail) /\ UNCHANGED slot)
    /\ Over(c)
    /\ UNCHANGED <<clients, subscribed, pending, loop, newest>>

(* A Redis command of the handshake fails, possibly because the client left: the request is refused. *)
RequestFails(c) ==
    /\ MayAbandon \/ MayFail
    /\ conn[c].pc \in Handshake \ {"upgrade"}
    /\ Over(c)
    /\ UNCHANGED <<slot, clients, subscribed, pending, loop, newest>>

-----------------------------------------------------------------------------
(* runClient: the read pump ends because its client was closed, or closes it because the peer left. *)
ReadPumpEnds(c) ==
    /\ On(c, "running")
    /\ conn' = [conn EXCEPT ![c].pc = "leaving", ![c].open = FALSE]
    /\ UNCHANGED <<slot, clients, subscribed, pending, loop, newest>>

-----------------------------------------------------------------------------
(* The hub's loop. *)

HandleRegisterBeside(s, c) ==                                                           \* slip
    /\ loop[s] = Waiting
    /\ On(c, "register") /\ conn[c].server = s
    /\ MoveTo(c, "running")
    /\ clients' = [clients EXCEPT ![s] = c]
    /\ subscribed' = subscribed \cup {s}
    /\ UNCHANGED <<slot, pending, loop, newest>>

(* handleRegister: a client that is replaced is closed; the hub subscribes unless it is subscribed. *)
HandleRegister(s, c) ==
    /\ loop[s] = Waiting
    /\ On(c, "register") /\ conn[c].server = s
    /\ conn' = [Closed(clients[s]) EXCEPT ![c].pc = "running"]
    /\ clients' = [clients EXCEPT ![s] = c]
    /\ subscribed' \in {subscribed \cup {s}} \cup (IF MayFail THEN {subscribed} ELSE {})
    /\ UNCHANGED <<slot, pending, loop, newest>>

HandleUnregisterKeepingClient(s, c) ==                                                  \* slip
    /\ loop[s] = Waiting
    /\ On(c, "leaving") /\ conn[c].server = s
    /\ IF clients[s] = c
       THEN /\ loop' = [loop EXCEPT ![s] = [conn |-> c, pc |-> "unsubscribe"]]
            /\ MoveTo(c, "unregister")
       ELSE Over(c) /\ UNCHANGED loop
    /\ UNCHANGED <<slot, clients, subscribed, pending, newest>>

(* handleUnregister: nothing more happens to a client that was replaced in the map. *)
HandleUnregister(s, c) ==
    /\ loop[s] = Waiting
    /\ On(c, "leaving") /\ conn[c].server = s
    /\ IF clients[s] = c
       THEN /\ clients' = [clients EXCEPT ![s] = None]
            /\ loop' = [loop EXCEPT ![s] = [conn |-> c, pc |-> "unsubscribe"]]
            /\ MoveTo(c, "unregister")
       ELSE Over(c) /\ UNCHANGED <<clients, loop>>
    /\ UNCHANGED <<slot, subscribed, pending, newest>>

LoopAt(s, pc) == loop[s].pc = pc
LoopTo(s, pc) == loop' = [loop EXCEPT ![s].pc = pc]

UnsubscribeForgotten(s) ==                                                              \* slip
    /\ LoopAt(s, "unsubscribe")
    /\ LoopTo(s, "release")
    /\ UNCHANGED <<slot, conn, clients, subscribed, pending, newest>>

(* Unsubscribe: messages already received may still be handled, or are lost with the subscription. *)
Unsubscribe(s) ==
    /\ LoopAt(s, "unsubscribe")
    /\ subscribed' = subscribed \ {s}
    /\ pending' \in {pending, [pending EXCEPT ![s] = 0]}
    /\ LoopTo(s, "release")
    /\ UNCHANGED <<slot, conn, clients, newest>>

ReleaseSlot(s) ==
    /\ LoopAt(s, "release")
    /\ ReleaseWebSocket(s) \/ (MayFail /\ UNCHANGED slot)
    /\ LoopTo(s, "disconnect")
    /\ UNCHANGED <<conn, clients, subscribed, pending, newest>>

(* HandleDisconnect (of the call manager), then the loop takes the next client. *)
UnregisterDone(s) ==
    /\ LoopAt(s, "disconnect")
    /\ Over(loop[s].conn)
    /\ loop' = [loop EXCEPT ![s] = Waiting]
    /\ UNCHANGED <<slot, clients, subscribed, pending, newest>>

-----------------------------------------------------------------------------
(* receiveMessages and handlePubSubMessage: the client the map holds by now is closed. *)
HandleDisconnectMessage(s) ==
    /\ pending[s] > 0
    /\ pending' = [pending EXCEPT ![s] = @ - 1]
    /\ conn' = IF s \in subscribed THEN Closed(clients[s]) ELSE conn
    /\ UNCHANGED <<slot, clients, subscribed, loop, newest>>

(* The key expires 30 s after it was set, or a heartbeat refreshed it, whatever server it names.
   Without faults a handshake and an unregistration take less than that. *)
Beating(c) == On(c, "running") /\ conn[c].open
Holding(c) == conn[c].pc \in {"upgrade", "register", "running", "leaving", "unregister"}

SlotExpires ==
    /\ slot # None
    /\ MayFail \/ \A c \in Conns : ~Holding(c)
    /\ slot' = None
    /\ UNCHANGED <<conn, clients, subscribed, pending, loop, newest>>

(* A server stops or crashes (main returns as soon as the hub is told to stop) and starts again
   under its ID: what is in Redis stays. *)
Crash(s) ==
    /\ MayFail
    /\ conn' = [c \in Conns |-> IF conn[c].server = s THEN NoConn ELSE conn[c]]
    /\ clients' = [clients EXCEPT ![s] = None]
    /\ subscribed' = subscribed \ {s}
    /\ pending' = [pending EXCEPT ![s] = 0]
    /\ loop' = [loop EXCEPT ![s] = Waiting]
    /\ UNCHANGED <<slot, newest>>

-----------------------------------------------------------------------------
Request(c) ==
    \/ KickLookup(c) \/ KickLocal(c) \/ KickRemote(c)
    \/ ForceAcquire(c)
    \/ Upgrade(c) \/ UpgradeFails(c)

Loop(s) ==
    \/ \E c \in Conns : HandleRegister(s, c) \/ HandleUnregister(s, c)
    \/ Unsubscribe(s) \/ ReleaseSlot(s) \/ UnregisterDone(s)

Next ==
    \/ \E c \in Conns :
        \/ \E s \in Servers : Connect(c, s)
        \/ Request(c)
        \/ RequestFails(c)
        \/ ReadPumpEnds(c)
    \/ \E s \in Servers : Loop(s) \/ HandleDisconnectMessage(s) \/ Crash(s)
    \/ SlotExpires

Spec == Init /\ [][Next]_vars

-----------------------------------------------------------------------------
(* Types: what the slot, the maps of the hubs and the goroutines of a connection can hold. *)
TypeOK ==
    /\ slot \in Servers \cup {None}
    /\ conn \in [Conns -> [server : Servers, pc : Progress \ {"none"}, open : BOOLEAN] \cup {NoConn}]
    /\ clients \in [Servers -> Conns \cup {None}]
    /\ subscribed \subseteq Servers
    /\ pending \in [Servers -> 0..MaxPending]
    /\ loop \in [Servers -> [conn : Conns, pc : {"unsubscribe", "release", "disconnect"}] \cup {Waiting}]
    /\ newest \in Conns \cup {None}

(* No connection that is read and not closed escapes its hub's map, whoever was registered or
   unregistered meanwhile: it can be sent to, and kicked (handler.go:117-124, 167-175). *)
NoUntrackedConnection ==
    \A c \in Conns : Beating(c) => clients[conn[c].server] = c

(* Without faults, a hub that waits for a client is subscribed to the user's channel exactly while
   it has a client of the user: neither a replacement nor a stale unregistration drops the
   subscription of the connection that stays (handler.go:127-137, 177-183). *)
SubscribedWithClient ==
    \A s \in Servers : LoopAt(s, "wait") => (s \in subscribed <=> clients[s] # None)

(* Without faults, and if no client abandons its handshake, a slot is never left behind: the server it
   names has a client of the user, waits to register one, or is about to release it
   (handler.go:294-331, 186). *)
SlotBacked ==
    \A s \in Servers : slot = s =>
        \/ clients[s] # None
        \/ loop[s].pc \in {"unsubscribe", "release"}
        \/ \E c \in Conns : conn[c].server = s /\ conn[c].pc \in {"upgrade", "register"}

(* If handshakes do not overlap and the pause after a kick is long enough, the slot names the server
   of every connection that is open; with NoUntrackedConnection, there is at most one
   (handler.go:294-320, 397). *)
OnlineWhenConnected ==
    \A c \in Conns : Beating(c) => slot = conn[c].server

(* Under the same assumptions a server closes a connection only to make room for a newer one: a kick
   never reaches the connection it was sent for (handler.go:222-229, 380-393). *)
NewestSurvives ==
    [][\A c \in Conns :
        Beating(c) /\ ~conn'[c].open /\ conn'[c].pc = "running" => c # newest]_vars

(* A closed client does not stay in the map, where messages for its successor on another server
   would be lost in it: the loop comes to unregister it (handler.go:417, 165-175). *)
ClosedLeaves ==
    \A s \in Servers, c \in Conns :
        clients[s] = c /\ ~conn[c].open ~> clients[s] # c

-----------------------------------------------------------------------------
(* "preventing a reconnected client's slot from being deleted by a stale unregister"
   (session.go:91-92): an unregistration does not delete the slot while another connection of the
   user holds it on the same server. *)
StaleUnregisterKeepsSlot ==
    [][\A s \in Servers : LoopAt(s, "release") /\ ~LoopAt(s, "release")' /\ slot = s /\ slot' = None =>
        ~ \E c \in Conns : conn[c].server = s /\ conn[c].pc \in {"upgrade", "register"}]_vars

(* "Redis SET NX ensures single connection per user" (README.md:1012): once every kick, handshake and
   unregistration is over, at most one connection is open. *)
Settled ==
    /\ \A c \in Conns : conn[c].pc \in {"none", "running"}
    /\ \A s \in Servers : pending[s] = 0
SingleConnection == Settled => \A c, d \in Conns : Beating(c) /\ Beating(d) => c = d
=============================================================================
