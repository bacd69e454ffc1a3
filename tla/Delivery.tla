------------------------------ MODULE Delivery -------------------------------
(***************************************************************************)
(* Peers that send numbered messages to the user, one after the other,     *)
(* while the user connects, reconnects and leaves.  A peer's read pump     *)
(* runs one handler at a time, and so sends one message at a time; the     *)
(* peer may meanwhile move to another server.                              *)
(***************************************************************************)
EXTENDS Routing

CONSTANT MaxSent    \* bound on the messages of one peer

ASSUME DeliveryBoundAssumption == MaxSent \in Nat

VARIABLES
    sent,       \* sent[x]: how many messages x has begun to send
    published,  \* history: messages that went through pub/sub
    outlived    \* history: messages that were received before and handled after their subscription ended

delivery == <<sent, published, outlived>>
dvars == <<vars, routing, delivery>>

Message == [from : Senders, n : 1..MaxSent]
ASSUME DeliveryNoneAssumption == None \notin Message

DeliveryInit ==
    /\ Init
    /\ RoutingInit
    /\ sent = [x \in Senders |-> 0]
    /\ published = {}
    /\ outlived = {}

-----------------------------------------------------------------------------
(* A handler of x on server s sends its next message. *)
Send(x, s) ==
    /\ sent[x] < MaxSent
    /\ sent' = [sent EXCEPT ![x] = @ + 1]
    /\ SendToUser(x, s, [from |-> x, n |-> sent[x] + 1])
    /\ UNCHANGED <<vars, published, outlived>>

(* The histories: what is published, and what an Unsubscribe leaves to its receiver. *)
Deliver ==
    /\ Transit
    /\ published' = published \cup {sender[x].msg : x \in {y \in Senders : sender[y].pc = "publish" /\ sender'[y].pc = "idle"}}
    /\ UNCHANGED <<vars, sent, outlived>>

Leave(s, k, n) ==
    /\ UnsubscribeLeaving(s, k, n)
    /\ outlived' = outlived \cup {inbox[Current(s)][i] : i \in 1..n} \cup ({hand[Current(s)].msg} \ {None})
    /\ UNCHANGED <<sent, published>>

ConnectionStep(c) ==
    /\ \/ \E s \in Servers : ConnectFresh(c, s) \/ RegisterStep(s, c)
       \/ RequestStep(c)
       \/ LeaveStep(c)
    /\ UNCHANGED delivery

ServerStep(s) ==
    \/ LoopStep(s) /\ UNCHANGED delivery
    \/ UnregisterDoneStep(s) /\ UNCHANGED delivery
    \/ KickStep(s) /\ UNCHANGED delivery
    \/ CrashLosing(s) /\ UNCHANGED delivery
    \/ \E k \in Leftovers, n \in 0..MaxSent * Cardinality(Senders) : Leave(s, k, n)

DeliveryNext ==
    \/ \E x \in Senders, s \in Servers : Send(x, s)
    \/ Deliver
    \/ \E c \in Conns : ConnectionStep(c)
    \/ \E s \in Servers : ServerStep(s)
    \/ ExpireStep /\ UNCHANGED delivery

DeliverySpec == DeliveryInit /\ [][DeliveryNext]_dvars

-----------------------------------------------------------------------------
(* Types: the path of the messages, no queue of which is longer than its capacity, and the
   histories. *)
DeliveryTypeOK ==
    /\ RoutingTypes(Message)
    /\ sent \in [Senders -> 0..MaxSent]
    /\ published \subseteq Message
    /\ outlived \subseteq Message

(* No message is written twice to one connection: the fallback to pub/sub, which may lead back to
   the same client, runs only when Send did not queue the message (handler.go:263-270). *)
OncePerConnection ==
    \A c \in Conns : \A i, j \in DOMAIN received[c] :
        received[c][i] = received[c][j] => i = j

(* A connection gets the messages of a peer in order, with two exceptions: one that went through
   pub/sub may come after a later one that did not, or after any later one if its subscription ended
   under it.  A queued message is never overtaken, nor one on the same subscription
   (handler.go:257-270, pubsub.go:96-115). *)
InOrder ==
    \A c \in Conns : \A i, j \in DOMAIN received[c] :
        LET early == received[c][i]
            late == received[c][j]
        IN  i < j /\ early.from = late.from /\ late.n < early.n
                => late \in published /\ (early \notin published \/ late \in outlived)

-----------------------------------------------------------------------------
(* "Returns false if the client is closed or the buffer is full" (client.go:71): SendToUser never
   takes a message for sent that it gave to a closed client. *)
ClosedRefuses ==
    [][\A x \in Senders :
        sender[x].pc = "send" /\ ~conn[sender[x].client].open /\ sender'[x] # sender[x]
            => sender'[x].pc = "publish"]_dvars
=============================================================================
