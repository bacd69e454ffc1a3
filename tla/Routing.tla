------------------------------- MODULE Routing -------------------------------
(***************************************************************************)
(* The path of a message to the user of Hub: SendToUser and                *)
(* handlePubSubMessage (internal/ws/handler.go), the send channel and the  *)
(* write pump of a client (internal/ws/client.go), Publish and             *)
(* receiveMessages (internal/signaling/pubsub.go).  Who sends what is left *)
(* to the modules that extend this one; they take the steps of Hub from    *)
(* here, with what each does to messages on their way.                     *)
(*                                                                         *)
(* A definition marked "slip" is no part of the specification: it is the   *)
(* one after it as a plausible bug would have it, for trying whether the   *)
(* properties notice.                                                      *)
(***************************************************************************)
EXTENDS Hub, Sequences

CONSTANTS
    Senders,    \* goroutines that send to the user
    QueueSize,  \* capacity of the send channel of a client
    Leftovers   \* bound: the closed subscriptions whose receivers still run, at one server at a time

ASSUME RoutingBoundAssumption == QueueSize \in Nat \ {0}
ASSUME RoutingLeftoversAssumption == "current" \notin Leftovers

VARIABLES
    sender,     \* sender[x]: the SendToUser that goroutine x runs
    queue,      \* queue[c]: the send channel of client c
    received,   \* received[c]: history, what was written to connection c while it lasts
    inbox,      \* inbox[r]: what was published to receiver r and not looked at yet
    hand        \* hand[r]: what receiver r is about to pass on, and the client it found

routing == <<sender, queue, received, inbox, hand>>

(* A server has a goroutine that receives from its subscription to the user's channel, and one for
   each subscription that was closed with messages left. *)
Receivers == Servers \X ({"current"} \cup Leftovers)
Current(s) == <<s, "current">>
Leftover(s, k) == <<s, k>>
Home(r) == r[1]

NotSending == [pc |-> "idle", server |-> None, client |-> None, msg |-> None]
NoHand == [client |-> None, msg |-> None]

RoutingInit ==
    /\ sender = [x \in Senders |-> NotSending]
    /\ queue = [c \in Conns |-> <<>>]
    /\ received = [c \in Conns |-> <<>>]
    /\ inbox = [r \in Receivers |-> <<>>]
    /\ hand = [r \in Receivers |-> NoHand]

(* What the messages of set M can make of the variables. *)
RoutingTypes(M) ==
    /\ sender \in [Senders -> [pc : {"send"}, server : Servers, client : Conns, msg : M]
                         \cup [pc : {"publish"}, server : Servers, client : Conns \cup {None}, msg : M]
                         \cup {NotSending}]
    /\ queue \in [Conns -> Seq(M)]
    /\ \A c \in Conns : Len(queue[c]) <= QueueSize
    /\ received \in [Conns -> Seq(M)]
    /\ inbox \in [Receivers -> Seq(M)]
    /\ hand \in [Receivers -> [client : Conns, msg : M] \cup {NoHand}]

-----------------------------------------------------------------------------
(* Client.Send: the select queues the message if there is room, and finds done closed if it is; when
   both hold it picks one at random.  The default, no room, reports failure like a closed client. *)
HasRoom(c) == Len(queue[c]) < QueueSize
Enqueue(c, m) == queue' = [queue EXCEPT ![c] = Append(@, m)]
MayRefuse(c) == ~conn[c].open \/ ~HasRoom(c)

(* SendToUser on server s: the map is read under the lock, and used after it was released. *)
SendToUser(x, s, m) ==
    /\ sender[x] = NotSending
    /\ sender' = [sender EXCEPT ![x] = [pc |-> IF clients[s] = None THEN "publish" ELSE "send",
                                        server |-> s, client |-> clients[s], msg |-> m]]
    /\ UNCHANGED <<queue, received, inbox, hand>>

SendDone(x) == sender' = [sender EXCEPT ![x] = NotSending]

SendQueuedTwice(x) ==                                                                   \* slip
    /\ sender[x].pc = "send"
    /\ HasRoom(sender[x].client)
    /\ Enqueue(sender[x].client, sender[x].msg)
    /\ sender' = [sender EXCEPT ![x].pc = "publish"]
    /\ UNCHANGED <<received, inbox, hand>>

SendQueued(x) ==
    /\ sender[x].pc = "send"
    /\ HasRoom(sender[x].client)
    /\ Enqueue(sender[x].client, sender[x].msg)
    /\ SendDone(x)
    /\ UNCHANGED <<received, inbox, hand>>

SendRefused(x) ==
    /\ sender[x].pc = "send"
    /\ MayRefuse(sender[x].client)
    /\ sender' = [sender EXCEPT ![x].pc = "publish"]
    /\ UNCHANGED <<queue, received, inbox, hand>>

(* Publish: to every server that is subscribed by now, if any; an error is only logged.  A broken
   connection to Redis may cost a subscriber the message. *)
Publish(x) ==
    /\ sender[x].pc = "publish"
    /\ \E S \in {subscribed} \cup (IF MayFail THEN SUBSET subscribed ELSE {}) :
        inbox' = [r \in Receivers |-> IF r \in {Current(s) : s \in S}
                                      THEN Append(inbox[r], sender[x].msg) ELSE inbox[r]]
    /\ SendDone(x)
    /\ UNCHANGED <<queue, received, hand>>

-----------------------------------------------------------------------------
ReceiveAny(r) ==                                                                        \* slip
    /\ \E i \in DOMAIN inbox[r] :
        /\ hand[r] = NoHand
        /\ clients[Home(r)] # None
        /\ inbox' = [inbox EXCEPT ![r] = SubSeq(@, 1, i - 1) \o SubSeq(@, i + 1, Len(@))]
        /\ hand' = [hand EXCEPT ![r] = [client |-> clients[Home(r)], msg |-> inbox[r][i]]]
    /\ UNCHANGED <<sender, queue, received>>

(* receiveMessages and handlePubSubMessage: without a handler (no subscription) or a client the
   message is dropped. *)
Receive(r) ==
    LET s == Home(r) IN
    /\ inbox[r] # <<>> /\ hand[r] = NoHand
    /\ inbox' = [inbox EXCEPT ![r] = Tail(@)]
    /\ hand' = IF s \in subscribed /\ clients[s] # None
               THEN [hand EXCEPT ![r] = [client |-> clients[s], msg |-> Head(inbox[r])]]
               ELSE hand
    /\ UNCHANGED <<sender, queue, received>>

PassOnAnyway(r) ==                                                                      \* slip
    /\ hand[r] # NoHand
    /\ Enqueue(hand[r].client, hand[r].msg)
    /\ hand' = [hand EXCEPT ![r] = NoHand]
    /\ UNCHANGED <<sender, received, inbox>>

(* A client that refuses the message loses it. *)
PassOn(r) ==
    LET c == hand[r].client IN
    /\ hand[r] # NoHand
    /\ \/ HasRoom(c) /\ Enqueue(c, hand[r].msg)
       \/ MayRefuse(c) /\ UNCHANGED queue
    /\ hand' = [hand EXCEPT ![r] = NoHand]
    /\ UNCHANGED <<sender, received, inbox>>

(* WritePump.  Close is one step here: nothing is written after it.  A write or a ping that fails
   closes the client, and so ends the read pump: ReadPumpEnds. *)
WritePump(c) ==
    /\ Beating(c) /\ queue[c] # <<>>
    /\ received' = [received EXCEPT ![c] = Append(@, Head(queue[c]))]
    /\ queue' = [queue EXCEPT ![c] = Tail(@)]
    /\ UNCHANGED <<sender, inbox, hand>>

(* The steps of the path that need nobody's request. *)
SendStep(x) == SendQueued(x) \/ SendRefused(x) \/ Publish(x)
Transit ==
    \/ \E x \in Senders : SendStep(x)
    \/ \E r \in Receivers : Receive(r) \/ PassOn(r)
    \/ \E c \in Conns : WritePump(c)

-----------------------------------------------------------------------------
(* The steps of Hub. *)

(* A client object is its own: a connection is not recycled while a goroutine still holds it. *)
Unreferenced(c) ==
    /\ \A x \in Senders : sender[x].client # c
    /\ \A r \in Receivers : hand[r].client # c

(* NewClient makes an empty channel. *)
ConnectFresh(c, s) ==
    /\ Connect(c, s)
    /\ Unreferenced(c)
    /\ queue' = [queue EXCEPT ![c] = <<>>]
    /\ UNCHANGED <<sender, received, inbox, hand>>

(* sub.Close: some of what was published reached the receiver before, and is still in its channel.
   Unsubscribe does not wait for the receivers of earlier subscriptions. *)
UnsubscribeLeaving(s, k, n) ==
    LET cur == Current(s)
        old == Leftover(s, k)
    IN  /\ Unsubscribe(s)
        /\ inbox[old] = <<>> /\ hand[old] = NoHand
        /\ n \in 0..Len(inbox[cur])
        /\ inbox' = [inbox EXCEPT ![old] = SubSeq(inbox[cur], 1, n), ![cur] = <<>>]
        /\ hand' = [hand EXCEPT ![old] = hand[cur], ![cur] = NoHand]
        /\ UNCHANGED <<sender, queue, received>>

(* The goroutines of a server that stops go with it. *)
CrashLosing(s) ==
    /\ Crash(s)
    /\ sender' = [x \in Senders |-> IF sender[x].server = s THEN NotSending ELSE sender[x]]
    /\ inbox' = [r \in Receivers |-> IF Home(r) = s THEN <<>> ELSE inbox[r]]
    /\ hand' = [r \in Receivers |-> IF Home(r) = s THEN NoHand ELSE hand[r]]
    /\ LET Lost(c) == conn[c].server = s
       IN  /\ queue' = [c \in Conns |-> IF Lost(c) THEN <<>> ELSE queue[c]]
           /\ received' = [c \in Conns |-> IF Lost(c) THEN <<>> ELSE received[c]]

(* A connection that ends is not written to any more, and its history is over. *)
LeaveStep(c) ==
    /\ ReadPumpEnds(c)
    /\ received' = [received EXCEPT ![c] = <<>>]
    /\ UNCHANGED <<sender, queue, inbox, hand>>

(* The others leave messages alone. *)
RequestStep(c) == (Request(c) \/ RequestFails(c)) /\ UNCHANGED routing
RegisterStep(s, c) == HandleRegister(s, c) /\ UNCHANGED routing
LoopStep(s) ==
    /\ \/ \E c \in Conns : HandleUnregister(s, c)
       \/ ReleaseSlot(s)
    /\ UNCHANGED routing
UnregisterDoneStep(s) == UnregisterDone(s) /\ UNCHANGED routing
KickStep(s) == HandleDisconnectMessage(s) /\ UNCHANGED routing
ExpireStep == SlotExpires /\ UNCHANGED routing
=============================================================================
