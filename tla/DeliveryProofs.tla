----------------------------- MODULE DeliveryProofs ------------------------------
(***************************************************************************)
(* No message reaches a connection twice, for any number of connections,   *)
(* servers, peers and messages and any length of the queues, whatever      *)
(* fails and whatever crashes.                                             *)
(***************************************************************************)
EXTENDS Delivery, HubProofs

In(m, q) == \E i \in DOMAIN q : q[i] = m
NoRepeat(q) == \A i, j \in DOMAIN q : q[i] = q[j] => i = j

(* Where a message can be, but for the goroutine that sends it. *)
Waits(m, r) == In(m, inbox[r]) \/ (hand[r] # NoHand /\ hand[r].msg = m)
Reached(m, c) == In(m, queue[c]) \/ In(m, received[c])
Seen(m) == (\E r \in Receivers : Waits(m, r)) \/ (\E c \in Conns : Reached(m, c))

(* A message that SendToUser holds is nowhere else, and its number is new. *)
FreshInv ==
    /\ \A x \in Senders, m \in Message : sender[x] # NotSending /\ sender[x].msg = m =>
        m.from = x /\ m.n = sent[x] /\ ~Seen(m)
    /\ \A m \in Message : Seen(m) => m.n <= sent[m.from]

(* A goroutine that holds a client of its server holds it until the client is gone, and longer; a
   connection that is not yet registered is new to everybody. *)
ReferenceInv ==
    /\ \A s \in Servers, c \in Conns : clients[s] = c => conn[c].server = s /\ conn[c].pc \in {"running", "leaving"}
    /\ \A c \in Conns : conn[c].pc # "running" => received[c] = <<>>
    /\ \A c \in Conns : conn[c].pc \in Handshake \cup {"register"} => queue[c] = <<>> /\ Unreferenced(c)
    /\ \A r \in Receivers, c \in Conns : hand[r].client = c /\ conn[c].pc # "none" => conn[c].server = Home(r)

(* A message is in one place of the receivers of a server, or in one place of a connection to it. *)
ReceiverOnce ==
    /\ \A r \in Receivers : NoRepeat(inbox[r]) /\ (hand[r] # NoHand => ~In(hand[r].msg, inbox[r]))
    /\ \A r, q \in Receivers : r # q /\ Home(r) = Home(q) => \A m \in Message : ~(Waits(m, r) /\ Waits(m, q))

ConnectionOnce ==
    \A c \in Conns : conn[c].pc = "running" =>
        /\ NoRepeat(queue[c]) /\ NoRepeat(received[c])
        /\ \A m \in Message : ~(In(m, queue[c]) /\ In(m, received[c]))
        /\ \A m \in Message, r \in Receivers : Reached(m, c) /\ Home(r) = conn[c].server => ~Waits(m, r)

MessageInv ==
    /\ DeliveryTypeOK
    /\ FreshInv
    /\ ReferenceInv
    /\ ReceiverOnce
    /\ ConnectionOnce

(* Inductive: that a message is in one place rests on its number being new when it is sent, and on the
   receivers of a server passing messages on to connections of this server only. *)
DeliveryInv == HubInv /\ MessageInv

-----------------------------------------------------------------------------
(* A behaviour of Delivery is one of Hub. *)

LEMMA StepOfHub ==
    ASSUME [DeliveryNext]_dvars
    PROVE  [Next]_vars
  <1>1. ASSUME NEW x \in Senders, NEW s \in Servers, Send(x, s)
        PROVE  UNCHANGED vars
    BY <1>1 DEF Send
  <1>2. CASE Deliver
    BY <1>2 DEF Deliver
  <1>3. ASSUME NEW c \in Conns, ConnectionStep(c)
        PROVE  Next
    BY <1>3 DEF ConnectionStep, ConnectFresh, RegisterStep, RequestStep, LeaveStep, Next, Loop
  <1>4. ASSUME NEW s \in Servers, ServerStep(s)
        PROVE  Next
    BY <1>4 DEF ServerStep, LoopStep, UnregisterDoneStep, KickStep, CrashLosing, Leave, UnsubscribeLeaving, Next,
                Loop
  <1>5. CASE ExpireStep
    BY <1>5 DEF ExpireStep, Next
  <1>6. CASE UNCHANGED dvars
    BY <1>6 DEF dvars
  <1> QED
    BY <1>1, <1>2, <1>3, <1>4, <1>5, <1>6 DEF DeliveryNext

(* Whatever is sent to them, the connections of a user behave like those of Hub. *)
THEOREM DeliveryImplementsHub == DeliverySpec => Spec
  <1>1. DeliveryInit => Init
    BY DEF DeliveryInit
  <1> QED
    BY <1>1, StepOfHub, PTL DEF DeliverySpec, Spec

(* So the client that SendToUser finds in the map is the open connection of its server, if there is
   one (handler.go:257-262). *)
THEOREM DeliveryTracked == DeliverySpec => []NoUntrackedConnection
  BY DeliveryImplementsHub, TrackedAlways, PTL

-----------------------------------------------------------------------------
(* Sequences. *)

LEMMA AppendFacts ==
    ASSUME NEW M, NEW q \in Seq(M), NEW m \in M
    PROVE  /\ Append(q, m) \in Seq(M) /\ Len(Append(q, m)) = Len(q) + 1
           /\ \A k \in M : In(k, Append(q, m)) <=> In(k, q) \/ k = m
           /\ NoRepeat(q) /\ ~In(m, q) => NoRepeat(Append(q, m))
  <1> DEFINE a == Append(q, m)
  <1>1. /\ a \in Seq(M) /\ Len(a) = Len(q) + 1 /\ Len(q) \in Nat
        /\ DOMAIN a = 1..Len(q) + 1 /\ DOMAIN q = 1..Len(q)
        /\ \A i \in 1..Len(q) : a[i] = q[i]
        /\ a[Len(q) + 1] = m
    OBVIOUS
  <1> HIDE DEF a
  <1>2. \A k \in M : In(k, a) <=> In(k, q) \/ k = m
    BY <1>1 DEF In
  <1>3. NoRepeat(q) /\ ~In(m, q) => NoRepeat(a)
    BY <1>1 DEF In, NoRepeat
  <1> QED
    BY <1>1, <1>2, <1>3 DEF a

LEMMA TailFacts ==
    ASSUME NEW M, NEW q \in Seq(M), q # <<>>
    PROVE  /\ Tail(q) \in Seq(M) /\ Len(Tail(q)) < Len(q)
           /\ Head(q) \in M /\ In(Head(q), q)
           /\ \A k \in M : In(k, Tail(q)) => In(k, q)
           /\ NoRepeat(q) => NoRepeat(Tail(q)) /\ ~In(Head(q), Tail(q))
  <1> DEFINE t == Tail(q)
             h == Head(q)
  <1>1. /\ t \in Seq(M) /\ Len(t) = Len(q) - 1 /\ Len(q) \in Nat /\ Len(q) > 0
        /\ DOMAIN t = 1..Len(q) - 1 /\ DOMAIN q = 1..Len(q)
        /\ \A i \in 1..Len(q) - 1 : t[i] = q[i + 1]
        /\ h = q[1] /\ h \in M
    OBVIOUS
  <1> HIDE DEF t, h
  <1>2. In(h, q)
    BY <1>1 DEF In
  <1>3. ASSUME NEW k \in M, In(k, t)
        PROVE  In(k, q)
    <2>1. PICK i \in 1..Len(q) - 1 : t[i] = k
      BY <1>1, <1>3 DEF In
    <2>2. i + 1 \in DOMAIN q /\ q[i + 1] = k
      BY <1>1, <2>1
    <2> QED
      BY <2>2 DEF In
  <1>4. ASSUME NoRepeat(q), NEW i \in 1..Len(q) - 1, NEW j \in 1..Len(q) - 1, t[i] = t[j]
        PROVE  i = j
    <2>1. i + 1 \in DOMAIN q /\ j + 1 \in DOMAIN q /\ q[i + 1] = q[j + 1]
      BY <1>1, <1>4
    <2>2. i + 1 = j + 1
      BY <1>4, <2>1 DEF NoRepeat
    <2> QED
      BY <2>2
  <1>5. ASSUME NoRepeat(q), In(h, t)
        PROVE  FALSE
    <2>1. PICK i \in 1..Len(q) - 1 : t[i] = h
      BY <1>1, <1>5 DEF In
    <2>2. i + 1 \in DOMAIN q /\ 1 \in DOMAIN q /\ q[i + 1] = q[1]
      BY <1>1, <2>1
    <2>3. i + 1 = 1
      BY <1>5, <2>2 DEF NoRepeat
    <2> QED
      BY <2>3
  <1>6. NoRepeat(q) => NoRepeat(t)
    BY <1>1, <1>4 DEF NoRepeat
  <1> QED
    BY <1>1, <1>2, <1>3, <1>5, <1>6 DEF t, h

LEMMA PrefixFacts ==
    ASSUME NEW M, NEW q \in Seq(M), NEW n \in 0..Len(q)
    PROVE  /\ SubSeq(q, 1, n) \in Seq(M)
           /\ \A k \in M : In(k, SubSeq(q, 1, n)) => In(k, q)
           /\ NoRepeat(q) => NoRepeat(SubSeq(q, 1, n))
  <1> DEFINE p == SubSeq(q, 1, n)
  <1>1. /\ p \in Seq(M) /\ DOMAIN p = 1..n /\ DOMAIN q = 1..Len(q) /\ Len(q) \in Nat
        /\ \A i \in 1..n : p[i] = q[i]
    OBVIOUS
  <1> HIDE DEF p
  <1>2. \A k \in M : In(k, p) => In(k, q)
    BY <1>1 DEF In
  <1>3. NoRepeat(q) => NoRepeat(p)
    BY <1>1 DEF NoRepeat
  <1> QED
    BY <1>1, <1>2, <1>3 DEF p

LEMMA EmptyFacts == NoRepeat(<<>>) /\ \A m : ~In(m, <<>>)
  BY DEF NoRepeat, In

-----------------------------------------------------------------------------
(* What a goroutine that sends holds. *)
LEMMA SenderFacts ==
    ASSUME DeliveryTypeOK, NEW x \in Senders, sender[x] # NotSending
    PROVE  /\ sender[x].pc \in {"send", "publish"} /\ sender[x].server \in Servers
           /\ sender[x].msg \in Message
           /\ sender[x].pc = "send" => sender[x].client \in Conns
  BY DEF DeliveryTypeOK, RoutingTypes

(* Messages that move do not change what holds of those that are being sent. *)
LEMMA FreshKept ==
    ASSUME DeliveryTypeOK, FreshInv, sent' = sent,
           \A x \in Senders : sender'[x] # NotSending =>
                sender[x] # NotSending /\ sender'[x].msg = sender[x].msg,
           \A m \in Message : Seen(m)' =>
                \/ Seen(m)
                \/ \E x \in Senders : sender[x] # NotSending /\ sender[x].msg = m /\ sender'[x] = NotSending
    PROVE  FreshInv'
  <1>1. ASSUME NEW x \in Senders, NEW m \in Message, sender'[x] # NotSending, sender'[x].msg = m
        PROVE  m.from = x /\ m.n = sent'[x] /\ ~Seen(m)'
    <2>1. sender[x] # NotSending /\ sender[x].msg = m
      BY <1>1
    <2>2. m.from = x /\ m.n = sent[x] /\ ~Seen(m)
      BY <2>1 DEF FreshInv
    <2>3. ASSUME NEW y \in Senders, sender[y] # NotSending, sender[y].msg = m
          PROVE  y = x
      BY <2>2, <2>3 DEF FreshInv
    <2> QED
      BY <1>1, <2>2, <2>3
  <1>2. ASSUME NEW m \in Message, Seen(m)'
        PROVE  m.n <= sent'[m.from]
    <2>1. CASE Seen(m)
      BY <2>1 DEF FreshInv
    <2>2. ASSUME NEW x \in Senders, sender[x] # NotSending, sender[x].msg = m
          PROVE  m.n = sent[m.from] /\ m.n \in Nat
      BY <2>2 DEF FreshInv, Message
    <2> QED
      BY <1>2, <2>1, <2>2
  <1> QED
    BY <1>1, <1>2 DEF FreshInv

(* The same for the places at the receivers of a server and at its connections: it is enough to know
   what is new in each. *)
LEMMA OnceKept ==
    ASSUME DeliveryInv, UNCHANGED <<vars, queue, received>>,
           \A r \in Receivers : NoRepeat(inbox'[r]) /\ (hand'[r] # NoHand => ~In(hand'[r].msg, inbox'[r])),
           \A r \in Receivers, m \in Message : Waits(m, r)' => Waits(m, r)
    PROVE  ReceiverOnce' /\ ConnectionOnce'
  <1>1. ReceiverOnce'
    BY DEF DeliveryInv, ReceiverOnce, MessageInv
  <1>2. \A c \in Conns, m \in Message : Reached(m, c)' <=> Reached(m, c)
    BY DEF Reached
  <1>3. ConnectionOnce'
    BY <1>2 DEF DeliveryInv, MessageInv, ConnectionOnce, vars
  <1> QED
    BY <1>1, <1>3

(* Who holds a client holds it until it is gone: a step of the goroutines that send and receive. *)
LEMMA ReferenceKept ==
    ASSUME ReferenceInv, UNCHANGED vars,
           \A c \in Conns : received'[c] = received[c] \/ conn[c].pc = "running",
           \A c \in Conns : queue'[c] = queue[c] \/ conn[c].pc \notin Handshake \cup {"register"},
           \A x \in Senders, c \in Conns : sender'[x].client = c =>
                sender[x].client = c \/ conn[c].pc \notin Handshake \cup {"register"},
           \A r \in Receivers, c \in Conns : hand'[r].client = c =>
                \/ hand[r].client = c
                \/ conn[c].pc \notin Handshake \cup {"register"} /\ conn[c].server = Home(r)
    PROVE  ReferenceInv'
  <1>1. UNCHANGED <<conn, clients>>
    BY DEF vars
  <1>2. \A c \in Conns : conn[c].pc \in Handshake \cup {"register"} => queue'[c] = <<>> /\ Unreferenced(c)'
    BY DEF ReferenceInv, Unreferenced
  <1>3. \A r \in Receivers, c \in Conns : hand'[r].client = c /\ conn[c].pc # "none" => conn[c].server = Home(r)
    BY DEF ReferenceInv
  <1> QED
    BY <1>1, <1>2, <1>3 DEF ReferenceInv

LEMMA Typing ==
    DeliveryTypeOK =>
        /\ queue \in [Conns -> Seq(Message)] /\ received \in [Conns -> Seq(Message)]
        /\ inbox \in [Receivers -> Seq(Message)]
        /\ hand \in [Receivers -> [client : Conns, msg : Message] \cup {NoHand}]
        /\ sent \in [Senders -> 0..MaxSent]
  BY DEF DeliveryTypeOK, RoutingTypes

-----------------------------------------------------------------------------
(* The steps of a message. *)

LEMMA SendSafe ==
    ASSUME DeliveryInv, NEW x \in Senders, NEW s \in Servers, Send(x, s)
    PROVE  MessageInv'
  <1> DEFINE m == [from |-> x, n |-> sent[x] + 1]
             held == [pc |-> IF clients[s] = None THEN "publish" ELSE "send",
                      server |-> s, client |-> clients[s], msg |-> m]
  <1>1. /\ DeliveryTypeOK /\ FreshInv /\ ReferenceInv /\ clients[s] \in Conns \cup {None}
        /\ sent[x] \in 0..MaxSent /\ sent[x] < MaxSent
    BY Typed, Typing DEF DeliveryInv, MessageInv, HubInv, Send
  <1>2. m \in Message /\ m.from = x /\ m.n = sent[x] + 1
    BY <1>1, DeliveryBoundAssumption DEF Message
  <1>3. /\ held.client = clients[s] /\ held.msg = m
        /\ held \in [pc : {"send"}, server : Servers, client : Conns, msg : Message]
                \cup [pc : {"publish"}, server : Servers, client : Conns \cup {None}, msg : Message]
    <2> HIDE DEF m
    <2> QED
      BY <1>1, <1>2
  <1>4. /\ sender[x] = NotSending /\ sender' = [sender EXCEPT ![x] = held]
        /\ sent' = [sent EXCEPT ![x] = sent[x] + 1]
        /\ UNCHANGED <<vars, queue, received, inbox, hand, published, outlived>>
    BY DEF Send, SendToUser
  <1> HIDE DEF m, held
  <1>5. sender'[x] = held /\ \A y \in Senders \ {x} : sender'[y] = sender[y] /\ sent'[y] = sent[y]
    BY <1>1, <1>4 DEF DeliveryTypeOK, RoutingTypes
  <1>6. sent'[x] = sent[x] + 1 /\ sent' \in [Senders -> 0..MaxSent]
    BY <1>1, <1>4, DeliveryBoundAssumption DEF DeliveryTypeOK
  <1>7. DeliveryTypeOK'
    BY <1>1, <1>3, <1>4, <1>6 DEF DeliveryTypeOK, RoutingTypes
  <1>8. \A k \in Message : Seen(k)' <=> Seen(k)
    BY <1>4 DEF Seen, Waits, Reached
  <1>9. FreshInv'
    <2>1. ~Seen(m)
      BY <1>1, <1>2 DEF FreshInv
    <2>2. ASSUME NEW y \in Senders, NEW k \in Message, sender'[y] # NotSending, sender'[y].msg = k
          PROVE  k.from = y /\ k.n = sent'[y] /\ ~Seen(k)'
      <3>1. CASE y = x
        BY <1>2, <1>3, <1>5, <1>6, <1>8, <2>1, <2>2, <3>1
      <3>2. CASE y # x
        BY <1>1, <1>5, <1>8, <2>2, <3>2 DEF FreshInv
      <3> QED
        BY <3>1, <3>2
    <2>3. ASSUME NEW k \in Message, Seen(k)'
          PROVE  k.n <= sent'[k.from]
      <3>1. k.n <= sent[k.from] /\ k.n \in Nat /\ k.from \in Senders
        BY <1>1, <1>8, <2>3 DEF FreshInv, Message
      <3> QED
        BY <1>1, <1>5, <1>6, <3>1
    <2> QED
      BY <2>2, <2>3 DEF FreshInv
  <1>10. ReferenceInv'
    <2>1. \A y \in Senders, c \in Conns : sender'[y].client = c =>
                sender[y].client = c \/ conn[c].pc \notin Handshake \cup {"register"}
      BY <1>1, <1>3, <1>5 DEF ReferenceInv, Handshake
    <2> QED
      BY <1>1, <1>4, <2>1, ReferenceKept
  <1>11. ReceiverOnce' /\ ConnectionOnce'
    BY <1>4, OnceKept DEF DeliveryInv, MessageInv, ReceiverOnce, Waits
  <1> QED
    BY <1>7, <1>9, <1>10, <1>11 DEF MessageInv

(* What a goroutine that sends makes of its own state: done, or on to pub/sub. *)
LEMMA SenderStep ==
    ASSUME DeliveryTypeOK, NEW x \in Senders, sender[x] # NotSending,
           SendDone(x) \/ sender' = [sender EXCEPT ![x].pc = "publish"]
    PROVE  /\ \A y \in Senders : sender'[y] # NotSending =>
                /\ sender[y] # NotSending
                /\ sender'[y].msg = sender[y].msg /\ sender'[y].client = sender[y].client
           /\ \A y \in Senders, c \in Conns : sender'[y].client = c => sender[y].client = c
           /\ SendDone(x) => sender'[x] = NotSending
           /\ sender' \in [Senders -> [pc : {"send"}, server : Servers, client : Conns, msg : Message]
                               \cup [pc : {"publish"}, server : Servers, client : Conns \cup {None}, msg : Message]
                               \cup {NotSending}]
  <1> DEFINE Held == [pc : {"send"}, server : Servers, client : Conns, msg : Message]
                     \cup [pc : {"publish"}, server : Servers, client : Conns \cup {None}, msg : Message]
  <1>1. sender \in [Senders -> Held \cup {NotSending}] /\ sender[x] \in Held
    BY DEF DeliveryTypeOK, RoutingTypes
  <1>2. NotSending.client = None
    BY DEF NotSending
  <1>3. CASE SendDone(x)
    <2>1. sender'[x] = NotSending /\ \A y \in Senders \ {x} : sender'[y] = sender[y]
      BY <1>1, <1>3 DEF SendDone
    <2>2. sender' \in [Senders -> Held \cup {NotSending}]
      BY <1>1, <1>3 DEF SendDone
    <2> QED
      BY <1>2, <2>1, <2>2, HubNoneAssumption
  <1>4. CASE sender' = [sender EXCEPT ![x].pc = "publish"]
    <2> DEFINE r == sender[x]
               next == [r EXCEPT !.pc = "publish"]
    <2>1. next \in Held /\ next.msg = r.msg /\ next.client = r.client
      BY <1>1
    <2>2. sender' = [sender EXCEPT ![x] = next]
      BY <1>4
    <2> HIDE DEF next
    <2>3. sender'[x] = next /\ \A y \in Senders \ {x} : sender'[y] = sender[y]
      BY <1>1, <2>2
    <2>4. sender' \in [Senders -> Held \cup {NotSending}]
      BY <1>1, <2>1, <2>2
    <2>5. SendDone(x) => sender'[x] = NotSending
      BY <1>1 DEF SendDone
    <2> QED
      BY <2>1, <2>3, <2>4, <2>5
  <1> QED
    BY <1>3, <1>4

(* The steps of the path leave the counters alone and record what was published. *)
LEMMA DeliverType ==
    ASSUME DeliveryTypeOK, Deliver, RoutingTypes(Message)'
    PROVE  DeliveryTypeOK'
  <1>1. \A x \in Senders : sender[x].pc = "publish" => sender[x].msg \in Message
    BY SenderFacts DEF NotSending
  <1>2. published' \subseteq Message
    BY <1>1 DEF Deliver, DeliveryTypeOK
  <1> QED
    BY <1>2 DEF Deliver, DeliveryTypeOK

LEMMA SendQueuedSafe ==
    ASSUME DeliveryInv, Deliver, UNCHANGED vars, NEW x \in Senders, SendQueued(x)
    PROVE  MessageInv'
  <1>1. DeliveryTypeOK /\ FreshInv /\ ReferenceInv /\ sent' = sent /\ sender[x] # NotSending
    BY DEF DeliveryInv, MessageInv, Deliver, SendQueued, NotSending
  <1>2. PICK m \in Message : m = sender[x].msg
    BY <1>1, SenderFacts
  <1>3. PICK c \in Conns : c = sender[x].client
    BY <1>1, SenderFacts DEF SendQueued
  <1>4. /\ queue' = [queue EXCEPT ![c] = Append(queue[c], m)] /\ Len(queue[c]) < QueueSize
        /\ SendDone(x) /\ UNCHANGED <<received, inbox, hand>>
    BY <1>2, <1>3 DEF SendQueued, Enqueue, HasRoom
  <1>5. queue[c] \in Seq(Message) /\ queue \in [Conns -> Seq(Message)]
    BY <1>1, Typing
  <1> DEFINE a == Append(queue[c], m)
  <1>6. /\ a \in Seq(Message) /\ Len(a) = Len(queue[c]) + 1
        /\ \A k \in Message : In(k, a) <=> In(k, queue[c]) \/ k = m
        /\ NoRepeat(queue[c]) /\ ~In(m, queue[c]) => NoRepeat(a)
    BY <1>5, AppendFacts
  <1>7. queue' = [queue EXCEPT ![c] = a]
    BY <1>4
  <1> HIDE DEF a
  <1>8. queue'[c] = a /\ \A d \in Conns \ {c} : queue'[d] = queue[d]
    BY <1>5, <1>7
  <1>9. ~Seen(m)
    BY <1>1, <1>2 DEF FreshInv
  <1>10. DeliveryTypeOK'
    <2>1. queue' \in [Conns -> Seq(Message)]
      BY <1>5, <1>6, <1>7
    <2>2. \A d \in Conns : Len(queue'[d]) <= QueueSize
      <3>1. Len(queue[c]) \in Nat
        BY <1>5
      <3> QED
        BY <1>1, <1>4, <1>6, <1>8, <3>1, RoutingBoundAssumption DEF DeliveryTypeOK, RoutingTypes
    <2> QED
      BY <1>1, <1>4, <2>1, <2>2, SenderStep, DeliverType DEF DeliveryTypeOK, RoutingTypes
  <1>11. FreshInv'
    <2>1. \A k \in Message : Seen(k)' => Seen(k) \/ k = m
      BY <1>4, <1>6, <1>8 DEF Seen, Waits, Reached
    <2>2. \A k \in Message : Seen(k)' =>
            \/ Seen(k)
            \/ \E y \in Senders : sender[y] # NotSending /\ sender[y].msg = k /\ sender'[y] = NotSending
      BY <1>1, <1>2, <1>4, <2>1, SenderStep
    <2> QED
      BY <1>1, <1>4, <2>2, SenderStep, FreshKept
  <1>12. ReferenceInv'
    <2>1. conn[c].pc \notin Handshake \cup {"register"}
      BY <1>1, <1>3 DEF ReferenceInv, Unreferenced
    <2> QED
      BY <1>1, <1>4, <1>8, <2>1, SenderStep, ReferenceKept
  <1>13. ReceiverOnce'
    BY <1>4 DEF DeliveryInv, MessageInv, ReceiverOnce, Waits
  <1>14. ConnectionOnce'
    <2> SUFFICES ASSUME NEW d \in Conns, conn[d].pc = "running"
                 PROVE  /\ NoRepeat(queue'[d]) /\ NoRepeat(received'[d])
                        /\ \A k \in Message : ~(In(k, queue'[d]) /\ In(k, received'[d]))
                        /\ \A k \in Message, r \in Receivers : Reached(k, d)' /\ Home(r) = conn[d].server => ~Waits(k, r)'
      BY DEF ConnectionOnce, vars
    <2>1. /\ NoRepeat(queue[d]) /\ NoRepeat(received[d])
          /\ \A k \in Message : ~(In(k, queue[d]) /\ In(k, received[d]))
          /\ \A k \in Message, r \in Receivers : Reached(k, d) /\ Home(r) = conn[d].server => ~Waits(k, r)
      BY DEF DeliveryInv, MessageInv, ConnectionOnce
    <2>2. \A k \in Message, r \in Receivers : Waits(k, r)' <=> Waits(k, r)
      BY <1>4 DEF Waits
    <2>3. CASE d # c
      BY <1>4, <1>8, <2>1, <2>2, <2>3 DEF Reached
    <2>4. CASE d = c
      <3>1. ~In(m, queue[c]) /\ ~In(m, received[c]) /\ \A r \in Receivers : ~Waits(m, r)
        BY <1>9 DEF Seen, Reached
      <3> QED
        BY <1>4, <1>6, <1>8, <2>1, <2>2, <2>4, <3>1 DEF Reached
    <2> QED
      BY <2>3, <2>4
  <1> QED
    BY <1>10, <1>11, <1>12, <1>13, <1>14 DEF MessageInv

LEMMA SendRefusedSafe ==
    ASSUME DeliveryInv, Deliver, UNCHANGED vars, NEW x \in Senders, SendRefused(x)
    PROVE  MessageInv'
  <1>1. DeliveryTypeOK /\ FreshInv /\ ReferenceInv /\ sent' = sent /\ sender[x] # NotSending
    BY DEF DeliveryInv, MessageInv, Deliver, SendRefused, NotSending
  <1>2. sender' = [sender EXCEPT ![x].pc = "publish"] /\ UNCHANGED <<queue, received, inbox, hand>>
    BY DEF SendRefused
  <1>3. DeliveryTypeOK'
    BY <1>1, <1>2, SenderStep, DeliverType DEF DeliveryTypeOK, RoutingTypes
  <1>4. FreshInv'
    <2>1. \A k \in Message : Seen(k)' => Seen(k)
      BY <1>2 DEF Seen, Waits, Reached
    <2> QED
      BY <1>1, <1>2, <2>1, SenderStep, FreshKept
  <1>5. ReferenceInv'
    BY <1>1, <1>2, SenderStep, ReferenceKept
  <1>6. ReceiverOnce' /\ ConnectionOnce'
    BY <1>2, OnceKept DEF DeliveryInv, MessageInv, ReceiverOnce, Waits
  <1> QED
    BY <1>3, <1>4, <1>5, <1>6 DEF MessageInv

LEMMA PublishSafe ==
    ASSUME DeliveryInv, Deliver, UNCHANGED vars, NEW x \in Senders, Publish(x)
    PROVE  MessageInv'
  <1>1. DeliveryTypeOK /\ FreshInv /\ ReferenceInv /\ sent' = sent /\ sender[x] # NotSending
    BY DEF DeliveryInv, MessageInv, Deliver, Publish, NotSending
  <1>2. PICK m \in Message : m = sender[x].msg
    BY <1>1, SenderFacts
  <1>3. PICK S \in SUBSET Receivers :
            inbox' = [r \in Receivers |-> IF r \in S THEN Append(inbox[r], m) ELSE inbox[r]]
            /\ \A r, q \in S : Home(r) = Home(q) => r = q
    <2>1. PICK T : inbox' = [r \in Receivers |-> IF r \in {Current(s) : s \in T}
                                                 THEN Append(inbox[r], m) ELSE inbox[r]]
      BY <1>2 DEF Publish
    <2> DEFINE S == {Current(s) : s \in T} \cap Receivers
    <2>2. inbox' = [r \in Receivers |-> IF r \in S THEN Append(inbox[r], m) ELSE inbox[r]]
      BY <2>1
    <2>3. \A r, q \in S : Home(r) = Home(q) => r = q
      BY DEF Home, Current
    <2> QED
      BY <2>2, <2>3
  <1>4. SendDone(x) /\ UNCHANGED <<queue, received, hand>>
    BY DEF Publish
  <1>5. ~Seen(m)
    BY <1>1, <1>2 DEF FreshInv
  <1>6. \A r \in Receivers : inbox[r] \in Seq(Message)
    BY <1>1, Typing
  <1>7. \A r \in Receivers : inbox'[r] = IF r \in S THEN Append(inbox[r], m) ELSE inbox[r]
    BY <1>3
  <1>8. \A r \in Receivers :
            /\ inbox'[r] \in Seq(Message)
            /\ \A k \in Message : In(k, inbox'[r]) <=> In(k, inbox[r]) \/ (r \in S /\ k = m)
            /\ NoRepeat(inbox[r]) /\ ~In(m, inbox[r]) => NoRepeat(inbox'[r])
    <2> TAKE r \in Receivers
    <2>1. PICK q \in Seq(Message) : q = inbox[r]
      BY <1>6
    <2> DEFINE a == Append(q, m)
    <2>2. /\ a \in Seq(Message)
          /\ \A k \in Message : In(k, a) <=> In(k, q) \/ k = m
          /\ NoRepeat(q) /\ ~In(m, q) => NoRepeat(a)
      BY AppendFacts
    <2>3. inbox'[r] = IF r \in S THEN a ELSE q
      BY <1>7, <2>1
    <2> HIDE DEF a
    <2> QED
      BY <2>1, <2>2, <2>3
  <1>9. \A r \in Receivers, k \in Message : Waits(k, r)' <=> Waits(k, r) \/ (r \in S /\ k = m)
    BY <1>4, <1>8 DEF Waits
  <1>10. DeliveryTypeOK'
    <2>1. inbox' \in [Receivers -> Seq(Message)]
      BY <1>3, <1>8
    <2> QED
      BY <1>1, <1>4, <2>1, SenderStep, DeliverType DEF DeliveryTypeOK, RoutingTypes
  <1>11. FreshInv'
    <2>1. \A k \in Message : Seen(k)' => Seen(k) \/ k = m
      BY <1>4, <1>9 DEF Seen, Reached
    <2>2. \A k \in Message : Seen(k)' =>
            \/ Seen(k)
            \/ \E y \in Senders : sender[y] # NotSending /\ sender[y].msg = k /\ sender'[y] = NotSending
      BY <1>1, <1>2, <1>4, <2>1, SenderStep
    <2> QED
      BY <1>1, <1>4, <2>2, SenderStep, FreshKept
  <1>12. ReferenceInv'
    BY <1>1, <1>4, SenderStep, ReferenceKept
  <1>13. \A r \in Receivers : ~Waits(m, r)
    BY <1>5 DEF Seen
  <1>14. ReceiverOnce'
    <2>1. ASSUME NEW r \in Receivers
          PROVE  NoRepeat(inbox'[r]) /\ (hand'[r] # NoHand => ~In(hand'[r].msg, inbox'[r]))
      <3>1. NoRepeat(inbox[r]) /\ (hand[r] # NoHand => ~In(hand[r].msg, inbox[r])) /\ ~In(m, inbox[r])
        BY <1>13 DEF DeliveryInv, MessageInv, ReceiverOnce, Waits
      <3>2. hand[r] # NoHand => hand[r].msg \in Message /\ hand[r].msg # m
        BY <1>1, <1>13, Typing DEF Waits
      <3> QED
        BY <1>4, <1>8, <3>1, <3>2
    <2>2. ASSUME NEW r \in Receivers, NEW q \in Receivers, r # q, Home(r) = Home(q), NEW k \in Message
          PROVE  ~(Waits(k, r)' /\ Waits(k, q)')
      BY <1>3, <1>9, <1>13, <2>2 DEF DeliveryInv, MessageInv, ReceiverOnce
    <2> QED
      BY <2>1, <2>2 DEF ReceiverOnce
  <1>15. ConnectionOnce'
    <2>1. \A c \in Conns, k \in Message : (Reached(k, c)' <=> Reached(k, c)) /\ (Reached(k, c) => k # m)
      BY <1>4, <1>5 DEF Reached, Seen
    <2> QED
      BY <1>4, <1>9, <2>1 DEF DeliveryInv, MessageInv, ConnectionOnce, vars
  <1> QED
    BY <1>10, <1>11, <1>12, <1>14, <1>15 DEF MessageInv

LEMMA ReceiveSafe ==
    ASSUME DeliveryInv, Deliver, UNCHANGED vars, NEW r \in Receivers, Receive(r)
    PROVE  MessageInv'
  <1>1. DeliveryTypeOK /\ FreshInv /\ ReferenceInv /\ TypeOK /\ Home(r) \in Servers
    BY DEF DeliveryInv, MessageInv, HubInv, Receivers, Home
  <1>2. UNCHANGED <<sent, sender, queue, received>> /\ hand[r] = NoHand /\ inbox[r] # <<>>
    BY DEF Deliver, Receive
  <1>3. PICK q \in Seq(Message) : q = inbox[r] /\ q # <<>>
    BY <1>1, <1>2, Typing
  <1> DEFINE t == Tail(q)
             h == Head(q)
  <1>4. /\ t \in Seq(Message) /\ h \in Message /\ In(h, q)
        /\ \A k \in Message : In(k, t) => In(k, q)
        /\ NoRepeat(q) => NoRepeat(t) /\ ~In(h, t)
    BY <1>3, TailFacts
  <1>5. PICK d \in [client : Conns, msg : Message] \cup {NoHand} :
            /\ hand' = [hand EXCEPT ![r] = d]
            /\ d # NoHand => d.client = clients[Home(r)] /\ d.msg = h /\ d.client \in Conns
    <2>1. CASE Home(r) \in subscribed /\ clients[Home(r)] # None
      <3> DEFINE d == [client |-> clients[Home(r)], msg |-> h]
      <3>1. clients[Home(r)] \in Conns
        BY <1>1, <2>1, Typed
      <3>2. hand' = [hand EXCEPT ![r] = d]
        BY <1>3, <2>1 DEF Receive
      <3>3. d \in [client : Conns, msg : Message] /\ d.client = clients[Home(r)] /\ d.msg = h
        BY <1>4, <3>1
      <3> QED
        BY <3>1, <3>2, <3>3
    <2>2. CASE ~(Home(r) \in subscribed /\ clients[Home(r)] # None)
      <3>1. hand' = [hand EXCEPT ![r] = NoHand]
        BY <1>1, <1>2, <2>2, Typing DEF Receive
      <3> QED
        BY <3>1
    <2> QED
      BY <2>1, <2>2
  <1>6. inbox' = [inbox EXCEPT ![r] = t]
    BY <1>3 DEF Receive
  <1> HIDE DEF t, h
  <1>7. /\ inbox'[r] = t /\ hand'[r] = d
        /\ \A p \in Receivers \ {r} : inbox'[p] = inbox[p] /\ hand'[p] = hand[p]
    BY <1>1, <1>5, <1>6, Typing
  <1>8. \A p \in Receivers, k \in Message : Waits(k, p)' => Waits(k, p)
    BY <1>3, <1>4, <1>5, <1>7 DEF Waits
  <1>9. DeliveryTypeOK'
    <2>1. inbox' \in [Receivers -> Seq(Message)] /\ hand' \in [Receivers -> [client : Conns, msg : Message] \cup {NoHand}]
      BY <1>1, <1>4, <1>5, <1>6, Typing
    <2> QED
      BY <1>1, <1>2, <2>1, DeliverType DEF DeliveryTypeOK, RoutingTypes
  <1>10. FreshInv'
    <2>1. \A k \in Message : Seen(k)' => Seen(k)
      BY <1>2, <1>8 DEF Seen, Reached
    <2> QED
      BY <1>1, <1>2, <2>1, FreshKept
  <1>11. ReferenceInv'
    <2>1. \A p \in Receivers, c \in Conns : hand'[p].client = c =>
            \/ hand[p].client = c
            \/ conn[c].pc \notin Handshake \cup {"register"} /\ conn[c].server = Home(p)
      <3> SUFFICES ASSUME NEW c \in Conns, d.client = c
                   PROVE  conn[c].pc \notin Handshake \cup {"register"} /\ conn[c].server = Home(r)
        BY <1>7
      <3>1. clients[Home(r)] = c
        BY <1>5, HubNoneAssumption DEF NoHand
      <3> QED
        BY <1>1, <3>1 DEF ReferenceInv, Handshake
    <2> QED
      BY <1>1, <1>2, <2>1, ReferenceKept
  <1>12. ReceiverOnce' /\ ConnectionOnce'
    <2>1. ASSUME NEW p \in Receivers
          PROVE  NoRepeat(inbox'[p]) /\ (hand'[p] # NoHand => ~In(hand'[p].msg, inbox'[p]))
      <3>1. NoRepeat(inbox[p]) /\ (hand[p] # NoHand => ~In(hand[p].msg, inbox[p]))
        BY DEF DeliveryInv, MessageInv, ReceiverOnce
      <3>2. CASE p # r
        BY <1>7, <3>1, <3>2
      <3>3. CASE p = r
        BY <1>3, <1>4, <1>5, <1>7, <3>1, <3>3
      <3> QED
        BY <3>2, <3>3
    <2> QED
      BY <1>2, <1>8, <2>1, OnceKept
  <1> QED
    BY <1>9, <1>10, <1>11, <1>12 DEF MessageInv

(* What a receiver passes on to a connection of its server is at no other receiver of it. *)
LEMMA PassOnSafe ==
    ASSUME DeliveryInv, Deliver, UNCHANGED vars, NEW r \in Receivers, PassOn(r)
    PROVE  MessageInv'
  <1>1. DeliveryTypeOK /\ FreshInv /\ ReferenceInv
    BY DEF DeliveryInv, MessageInv
  <1>2. /\ UNCHANGED <<sent, sender, received, inbox>> /\ hand[r] # NoHand
        /\ hand' = [hand EXCEPT ![r] = NoHand]
    BY DEF Deliver, PassOn
  <1>3. PICK c \in Conns, m \in Message : hand[r].client = c /\ hand[r].msg = m
    BY <1>1, <1>2, Typing
  <1>4. /\ hand'[r] = NoHand
        /\ \A p \in Receivers \ {r} : hand'[p] = hand[p]
        /\ hand' \in [Receivers -> [client : Conns, msg : Message] \cup {NoHand}]
    BY <1>1, <1>2, Typing
  <1>5. PICK q \in Seq(Message) : q = queue[c]
    BY <1>1, Typing
  <1> DEFINE a == Append(q, m)
  <1>6. /\ a \in Seq(Message) /\ Len(a) = Len(q) + 1
        /\ \A k \in Message : In(k, a) <=> In(k, q) \/ k = m
        /\ NoRepeat(q) /\ ~In(m, q) => NoRepeat(a)
    BY AppendFacts
  <1>7. UNCHANGED queue \/ (queue' = [queue EXCEPT ![c] = a] /\ Len(q) < QueueSize)
    BY <1>3, <1>5 DEF PassOn, Enqueue, HasRoom
  <1> HIDE DEF a
  <1>8. /\ queue'[c] = q \/ (queue'[c] = a /\ Len(q) < QueueSize)
        /\ \A d \in Conns \ {c} : queue'[d] = queue[d]
        /\ queue' \in [Conns -> Seq(Message)]
    BY <1>1, <1>5, <1>6, <1>7, Typing
  <1>9. Waits(m, r)
    BY <1>2, <1>3 DEF Waits
  <1>10. \A p \in Receivers, k \in Message : Waits(k, p)' => Waits(k, p) /\ (Home(p) = Home(r) => k # m)
    <2>1. \A p \in Receivers, k \in Message : Waits(k, p)' => Waits(k, p)
      BY <1>2, <1>4 DEF Waits
    <2>2. \A p \in Receivers \ {r} : Home(p) = Home(r) => ~Waits(m, p)
      BY <1>9 DEF DeliveryInv, MessageInv, ReceiverOnce
    <2>3. ~Waits(m, r)'
      BY <1>2, <1>3, <1>4 DEF DeliveryInv, MessageInv, ReceiverOnce, Waits
    <2> QED
      BY <2>1, <2>2, <2>3
  <1>11. \A k \in Message, d \in Conns : Reached(k, d)' => Reached(k, d) \/ (k = m /\ d = c)
    BY <1>2, <1>5, <1>6, <1>8 DEF Reached
  <1>12. DeliveryTypeOK'
    <2>1. \A d \in Conns : Len(queue'[d]) <= QueueSize
      <3>1. Len(q) \in Nat
        OBVIOUS
      <3>2. \A d \in Conns : Len(queue[d]) <= QueueSize
        BY <1>1 DEF DeliveryTypeOK, RoutingTypes
      <3> QED
        BY <1>5, <1>6, <1>8, <3>1, <3>2, RoutingBoundAssumption
    <2> QED
      BY <1>1, <1>2, <1>4, <1>8, <2>1, DeliverType DEF DeliveryTypeOK, RoutingTypes
  <1>13. FreshInv'
    <2>1. \A k \in Message : Seen(k)' => Seen(k)
      BY <1>9, <1>10, <1>11 DEF Seen
    <2> QED
      BY <1>1, <1>2, <2>1, FreshKept
  <1>14. ReferenceInv'
    <2>1. conn[c].pc \notin Handshake \cup {"register"}
      BY <1>1, <1>3 DEF ReferenceInv, Unreferenced
    <2>2. \A p \in Receivers, d \in Conns : hand'[p].client = d => hand[p].client = d
      BY <1>4, HubNoneAssumption DEF NoHand
    <2> QED
      BY <1>1, <1>2, <1>8, <2>1, <2>2, ReferenceKept
  <1>15. ReceiverOnce'
    <2>1. ASSUME NEW p \in Receivers
          PROVE  NoRepeat(inbox'[p]) /\ (hand'[p] # NoHand => ~In(hand'[p].msg, inbox'[p]))
      BY <1>2, <1>4 DEF DeliveryInv, MessageInv, ReceiverOnce
    <2>2. \A p, o \in Receivers : p # o /\ Home(p) = Home(o) => \A k \in Message : ~(Waits(k, p)' /\ Waits(k, o)')
      BY <1>10 DEF DeliveryInv, MessageInv, ReceiverOnce
    <2> QED
      BY <2>1, <2>2 DEF ReceiverOnce
  <1>16. ConnectionOnce'
    <2> SUFFICES ASSUME NEW d \in Conns, conn[d].pc = "running"
                 PROVE  /\ NoRepeat(queue'[d]) /\ NoRepeat(received[d])
                        /\ \A k \in Message : ~(In(k, queue'[d]) /\ In(k, received[d]))
                        /\ \A k \in Message, p \in Receivers :
                             Reached(k, d)' /\ Home(p) = conn[d].server => ~Waits(k, p)'
      BY <1>2 DEF ConnectionOnce, vars
    <2>1. /\ NoRepeat(queue[d]) /\ NoRepeat(received[d])
          /\ \A k \in Message : ~(In(k, queue[d]) /\ In(k, received[d]))
          /\ \A k \in Message, p \in Receivers : Reached(k, d) /\ Home(p) = conn[d].server => ~Waits(k, p)
      BY DEF DeliveryInv, MessageInv, ConnectionOnce
    <2>2. CASE d # c
      BY <1>8, <1>10, <1>11, <2>1, <2>2
    <2>3. CASE d = c
      <3>1. conn[c].server = Home(r)
        BY <1>1, <1>3, <2>3 DEF ReferenceInv
      <3>2. ~Reached(m, c)
        BY <1>9, <2>1, <2>3, <3>1
      <3>3. ~In(m, q) /\ ~In(m, received[c])
        BY <1>5, <3>2 DEF Reached
      <3>4. /\ NoRepeat(queue'[c])
            /\ \A k \in Message : ~(In(k, queue'[c]) /\ In(k, received[c]))
        BY <1>5, <1>6, <1>8, <2>1, <2>3, <3>3
      <3>5. \A k \in Message, p \in Receivers : Reached(k, c)' /\ Home(p) = conn[c].server => ~Waits(k, p)'
        BY <1>10, <1>11, <2>1, <2>3, <3>1
      <3> QED
        BY <2>1, <2>3, <3>4, <3>5
    <2> QED
      BY <2>2, <2>3
  <1> QED
    BY <1>12, <1>13, <1>14, <1>15, <1>16 DEF MessageInv

LEMMA WritePumpSafe ==
    ASSUME DeliveryInv, Deliver, UNCHANGED vars, NEW c \in Conns, WritePump(c)
    PROVE  MessageInv'
  <1>1. DeliveryTypeOK /\ FreshInv /\ ReferenceInv
    BY DEF DeliveryInv, MessageInv
  <1>2. UNCHANGED <<sent, sender, inbox, hand>> /\ conn[c].pc = "running"
    BY DEF Deliver, WritePump, Beating, On
  <1>3. PICK q \in Seq(Message), w \in Seq(Message) : q = queue[c] /\ q # <<>> /\ w = received[c]
    BY <1>1, Typing DEF WritePump
  <1> DEFINE t == Tail(q)
             h == Head(q)
             a == Append(w, h)
  <1>4. /\ t \in Seq(Message) /\ h \in Message /\ In(h, q) /\ Len(t) < Len(q)
        /\ \A k \in Message : In(k, t) => In(k, q)
        /\ NoRepeat(q) => NoRepeat(t) /\ ~In(h, t)
    BY <1>3, TailFacts
  <1>5. /\ a \in Seq(Message)
        /\ \A k \in Message : In(k, a) <=> In(k, w) \/ k = h
        /\ NoRepeat(w) /\ ~In(h, w) => NoRepeat(a)
    <2> HIDE DEF h
    <2> QED
      BY <1>4, AppendFacts
  <1>6. received' = [received EXCEPT ![c] = a] /\ queue' = [queue EXCEPT ![c] = t]
    BY <1>3 DEF WritePump
  <1> HIDE DEF t, h, a
  <1>7. /\ queue'[c] = t /\ received'[c] = a
        /\ \A d \in Conns \ {c} : queue'[d] = queue[d] /\ received'[d] = received[d]
        /\ queue' \in [Conns -> Seq(Message)] /\ received' \in [Conns -> Seq(Message)]
    BY <1>1, <1>4, <1>5, <1>6, Typing
  <1>8. \A k \in Message, d \in Conns : Reached(k, d)' => Reached(k, d)
    BY <1>3, <1>4, <1>5, <1>7 DEF Reached
  <1>9. \A k \in Message, p \in Receivers : Waits(k, p)' <=> Waits(k, p)
    BY <1>2 DEF Waits
  <1>10. DeliveryTypeOK'
    <2>1. \A d \in Conns : Len(queue'[d]) <= QueueSize
      <3>1. Len(q) \in Nat /\ Len(t) \in Nat
        BY <1>4
      <3>2. \A d \in Conns : Len(queue[d]) <= QueueSize
        BY <1>1 DEF DeliveryTypeOK, RoutingTypes
      <3>3. Len(q) <= QueueSize
        BY <1>3, <3>2
      <3>4. Len(t) <= QueueSize
        BY <1>4, <3>1, <3>3, RoutingBoundAssumption
      <3> QED
        BY <1>7, <3>2, <3>4
    <2> QED
      BY <1>1, <1>2, <1>7, <2>1, DeliverType DEF DeliveryTypeOK, RoutingTypes
  <1>11. FreshInv'
    <2>1. \A k \in Message : Seen(k)' => Seen(k)
      BY <1>8, <1>9 DEF Seen
    <2> QED
      BY <1>1, <1>2, <2>1, FreshKept
  <1>12. ReferenceInv'
    <2>1. conn[c].pc \notin Handshake \cup {"register"}
      BY <1>2 DEF Handshake
    <2> QED
      BY <1>1, <1>2, <1>7, <2>1, ReferenceKept
  <1>13. ReceiverOnce'
    BY <1>2, <1>9 DEF DeliveryInv, MessageInv, ReceiverOnce
  <1>14. ConnectionOnce'
    <2> SUFFICES ASSUME NEW d \in Conns, conn[d].pc = "running"
                 PROVE  /\ NoRepeat(queue'[d]) /\ NoRepeat(received'[d])
                        /\ \A k \in Message : ~(In(k, queue'[d]) /\ In(k, received'[d]))
                        /\ \A k \in Message, p \in Receivers :
                             Reached(k, d)' /\ Home(p) = conn[d].server => ~Waits(k, p)'
      BY DEF ConnectionOnce, vars
    <2>1. /\ NoRepeat(queue[d]) /\ NoRepeat(received[d])
          /\ \A k \in Message : ~(In(k, queue[d]) /\ In(k, received[d]))
          /\ \A k \in Message, p \in Receivers : Reached(k, d) /\ Home(p) = conn[d].server => ~Waits(k, p)
      BY DEF DeliveryInv, MessageInv, ConnectionOnce
    <2>2. CASE d # c
      BY <1>7, <1>8, <1>9, <2>1, <2>2
    <2>3. CASE d = c
      BY <1>3, <1>4, <1>5, <1>7, <1>8, <1>9, <2>1, <2>3
    <2> QED
      BY <2>2, <2>3
  <1> QED
    BY <1>10, <1>11, <1>12, <1>13, <1>14 DEF MessageInv

-----------------------------------------------------------------------------
(* The steps of Hub. *)

(* Messages may be lost, and go from one receiver of a server to another; a connection is registered
   that nobody knew, and one that is recycled is unknown again. *)
LEMMA HubStepSafe ==
    ASSUME DeliveryInv, DeliveryTypeOK', ReceiverOnce', sent' = sent,
           \A x \in Senders : sender'[x] = sender[x] \/ sender'[x] = NotSending,
           \A c \in Conns : /\ queue'[c] = queue[c] \/ queue'[c] = <<>>
                            /\ received'[c] = received[c] \/ received'[c] = <<>>,
           \A r \in Receivers, m \in Message : Waits(m, r)' =>
                \E q \in Receivers : Home(q) = Home(r) /\ Waits(m, q),
           \A r \in Receivers, c \in Conns : hand'[r].client = c =>
                \E q \in Receivers : Home(q) = Home(r) /\ hand[q].client = c,
           \A c \in Conns :
                /\ conn'[c].pc = "running" => conn[c].pc \in {"running", "register"}
                /\ conn'[c].pc # "running" => conn[c].pc # "running" \/ received'[c] = <<>>
                /\ \/ conn'[c].pc = "none"
                   \/ conn[c].pc = "none" /\ queue'[c] = <<>> /\ Unreferenced(c)
                   \/ /\ conn[c].pc # "none" /\ conn'[c].server = conn[c].server
                      /\ conn'[c].pc \in Handshake \cup {"register"} => conn[c].pc \in Handshake \cup {"register"},
           \A s \in Servers, c \in Conns : clients'[s] = c =>
                conn'[c].server = s /\ conn'[c].pc \in {"running", "leaving"}
    PROVE  MessageInv'
  <1>1. DeliveryTypeOK /\ FreshInv /\ ReferenceInv
    BY DEF DeliveryInv, MessageInv
  <1>2. \A c \in Conns, m \in Message : Reached(m, c)' => Reached(m, c)
    BY EmptyFacts DEF Reached
  <1>3. FreshInv'
    <2>1. \A m \in Message : Seen(m)' => Seen(m)
      BY <1>2 DEF Seen
    <2> QED
      BY <1>1, <2>1, FreshKept
  <1>4. ASSUME NEW c \in Conns, Unreferenced(c)
        PROVE  Unreferenced(c)'
    <2>1. \A x \in Senders : sender'[x].client # c
      BY <1>4, HubNoneAssumption DEF Unreferenced, NotSending
    <2>2. \A r \in Receivers : hand'[r].client # c
      BY <1>4 DEF Unreferenced
    <2> QED
      BY <2>1, <2>2 DEF Unreferenced
  <1>5. ReferenceInv'
    <2>1. ASSUME NEW c \in Conns
          PROVE  conn'[c].pc # "running" => received'[c] = <<>>
      BY <1>1 DEF ReferenceInv
    <2>2. ASSUME NEW c \in Conns, conn'[c].pc \in Handshake \cup {"register"}
          PROVE  queue'[c] = <<>> /\ Unreferenced(c)'
      <3>1. conn'[c].pc # "none"
        BY <2>2 DEF Handshake
      <3> QED
        BY <1>1, <1>4, <2>2, <3>1 DEF ReferenceInv
    <2>3. ASSUME NEW r \in Receivers, NEW c \in Conns, hand'[r].client = c, conn'[c].pc # "none"
          PROVE  conn'[c].server = Home(r)
      <3>1. PICK q \in Receivers : Home(q) = Home(r) /\ hand[q].client = c
        BY <2>3
      <3>2. ~Unreferenced(c)
        BY <3>1 DEF Unreferenced
      <3> QED
        BY <1>1, <2>3, <3>1, <3>2 DEF ReferenceInv
    <2> QED
      BY <2>1, <2>2, <2>3 DEF ReferenceInv
  <1>6. ConnectionOnce'
    <2> SUFFICES ASSUME NEW c \in Conns, conn'[c].pc = "running"
                 PROVE  /\ NoRepeat(queue'[c]) /\ NoRepeat(received'[c])
                        /\ \A m \in Message : ~(In(m, queue'[c]) /\ In(m, received'[c]))
                        /\ \A m \in Message, r \in Receivers :
                             Reached(m, c)' /\ Home(r) = conn'[c].server => ~Waits(m, r)'
      BY DEF ConnectionOnce
    <2>1. CASE conn[c].pc = "running"
      <3>1. /\ NoRepeat(queue[c]) /\ NoRepeat(received[c])
            /\ \A m \in Message : ~(In(m, queue[c]) /\ In(m, received[c]))
            /\ \A m \in Message, r \in Receivers : Reached(m, c) /\ Home(r) = conn[c].server => ~Waits(m, r)
        BY <2>1 DEF DeliveryInv, MessageInv, ConnectionOnce
      <3>2. conn'[c].server = conn[c].server
        BY <2>1
      <3> QED
        BY <1>2, <3>1, <3>2, EmptyFacts
    <2>2. CASE conn[c].pc = "register"
      <3>1. queue[c] = <<>> /\ received[c] = <<>>
        BY <1>1, <2>2 DEF ReferenceInv
      <3>2. queue'[c] = <<>> /\ received'[c] = <<>>
        BY <3>1
      <3> QED
        BY <3>2, EmptyFacts DEF Reached
    <2> QED
      BY <2>1, <2>2
  <1> QED
    BY <1>3, <1>5, <1>6 DEF MessageInv

(* A step that leaves all messages where they are. *)
LEMMA HubStepAlone ==
    ASSUME DeliveryInv, UNCHANGED <<sender, queue, inbox, hand, delivery>>,
           received' \in [Conns -> Seq(Message)],
           \A c \in Conns : received'[c] = received[c] \/ received'[c] = <<>>,
           \A c \in Conns :
                /\ conn'[c].pc = "running" => conn[c].pc \in {"running", "register"}
                /\ conn'[c].pc # "running" => conn[c].pc # "running" \/ received'[c] = <<>>
                /\ \/ conn'[c].pc = "none"
                   \/ /\ conn[c].pc # "none" /\ conn'[c].server = conn[c].server
                      /\ conn'[c].pc \in Handshake \cup {"register"} => conn[c].pc \in Handshake \cup {"register"},
           \A s \in Servers, c \in Conns : clients'[s] = c =>
                conn'[c].server = s /\ conn'[c].pc \in {"running", "leaving"}
    PROVE  MessageInv'
  <1>1. DeliveryTypeOK /\ ReceiverOnce
    BY DEF DeliveryInv, MessageInv
  <1>2. DeliveryTypeOK' /\ sent' = sent
    BY <1>1 DEF DeliveryTypeOK, RoutingTypes, delivery
  <1>3. ReceiverOnce'
    BY <1>1 DEF ReceiverOnce, Waits
  <1>4. \A r \in Receivers, m \in Message : Waits(m, r)' => \E q \in Receivers : Home(q) = Home(r) /\ Waits(m, q)
    BY DEF Waits
  <1>5. \A r \in Receivers, c \in Conns : hand'[r].client = c =>
            \E q \in Receivers : Home(q) = Home(r) /\ hand[q].client = c
    OBVIOUS
  <1> QED
    BY <1>2, <1>3, <1>4, <1>5, HubStepSafe

(* Who is in a map runs there. *)
LEMMA ClientFacts ==
    ASSUME DeliveryInv, NEW s \in Servers, NEW c \in Conns, clients[s] = c
    PROVE  conn[c].server = s /\ conn[c].pc \in {"running", "leaving"}
  BY DEF DeliveryInv, MessageInv, ReferenceInv

LEMMA RequestStepSafe ==
    ASSUME DeliveryInv, NEW c \in Conns, RequestStep(c), UNCHANGED delivery
    PROVE  MessageInv'
  <1>1. HubInv /\ (Request(c) \/ RequestFails(c)) /\ UNCHANGED <<sender, queue, received, inbox, hand>>
    BY DEF DeliveryInv, RequestStep, routing
  <1>2. received' \in [Conns -> Seq(Message)]
    BY <1>1, Typing DEF DeliveryInv, MessageInv
  <1>3. ASSUME NEW e \in Conns
        PROVE  /\ conn'[e].pc = "running" => conn[e].pc \in {"running", "register"}
               /\ conn'[e].pc # "running" => conn[e].pc # "running"
               /\ \/ conn'[e].pc = "none"
                  \/ /\ conn[e].pc # "none" /\ conn'[e].server = conn[e].server
                     /\ conn'[e].pc \in Handshake \cup {"register"} => conn[e].pc \in Handshake \cup {"register"}
    BY <1>1, RequestMoves DEF Handshake
  <1>4. ASSUME NEW s \in Servers, NEW e \in Conns, clients'[s] = e
        PROVE  conn'[e].server = s /\ conn'[e].pc \in {"running", "leaving"}
    BY <1>1, <1>4, RequestMoves, ClientFacts DEF Handshake
  <1> QED
    BY <1>1, <1>2, <1>3, <1>4, HubStepAlone

LEMMA RegisterSafe ==
    ASSUME DeliveryInv, NEW s \in Servers, NEW c \in Conns, RegisterStep(s, c), UNCHANGED delivery
    PROVE  MessageInv'
  <1> DEFINE d == clients[s]
  <1>1. TypeOK /\ d \in Conns \cup {None} /\ UNCHANGED <<sender, queue, received, inbox, hand>>
    BY Typed DEF DeliveryInv, HubInv, RegisterStep, routing
  <1>2. /\ Moves(conn', Closed(d), c, "running")
        /\ clients' = [clients EXCEPT ![s] = c]
        /\ conn[c].pc = "register" /\ conn[c].server = s
    BY DEF RegisterStep, HandleRegister, Moves, On
  <1>3. /\ conn'[c].pc = "running"
        /\ \A e \in Conns : conn'[e].server = conn[e].server
        /\ \A e \in Conns \ {c} : conn'[e].pc = conn[e].pc
    <2>1. conn[c].pc # "none" /\ "running" \in Progress \ {"none"}
      BY <1>2 DEF Progress
    <2> HIDE DEF d
    <2> QED
      BY <1>1, <1>2, <2>1, MoveToValue
  <1>4. clients'[s] = c /\ \A r \in Servers \ {s} : clients'[r] = clients[r]
    BY <1>1, <1>2, Typed
  <1>5. ASSUME NEW e \in Conns
        PROVE  /\ conn'[e].pc = "running" => conn[e].pc \in {"running", "register"}
               /\ conn'[e].pc # "running" => conn[e].pc # "running"
               /\ \/ conn'[e].pc = "none"
                  \/ /\ conn[e].pc # "none" /\ conn'[e].server = conn[e].server
                     /\ conn'[e].pc \in Handshake \cup {"register"} => conn[e].pc \in Handshake \cup {"register"}
    BY <1>2, <1>3 DEF Handshake
  <1>6. ASSUME NEW r \in Servers, NEW e \in Conns, clients'[r] = e
        PROVE  conn'[e].server = r /\ conn'[e].pc \in {"running", "leaving"}
    <2>1. CASE r = s
      BY <1>2, <1>3, <1>4, <1>6, <2>1
    <2>2. CASE r # s
      <3>1. conn[e].server = r /\ conn[e].pc \in {"running", "leaving"}
        BY <1>4, <1>6, <2>2, ClientFacts
      <3> QED
        BY <1>2, <1>3, <3>1
    <2> QED
      BY <2>1, <2>2
  <1>7. received' \in [Conns -> Seq(Message)]
    BY <1>1, Typing DEF DeliveryInv, MessageInv
  <1> QED
    BY <1>1, <1>5, <1>6, <1>7, HubStepAlone

LEMMA LeaveSafe ==
    ASSUME DeliveryInv, NEW c \in Conns, LeaveStep(c), UNCHANGED delivery
    PROVE  MessageInv'
  <1> DEFINE r == conn[c]
             left == [r EXCEPT !.pc = "leaving", !.open = FALSE]
  <1>1. conn \in [Conns -> Connection \cup {NoConn}] /\ r.pc = "running"
    BY Typed DEF DeliveryInv, HubInv, LeaveStep, ReadPumpEnds, On
  <1>2. r \in Connection
    BY <1>1 DEF NoConn
  <1>3. left \in Connection /\ left.pc = "leaving" /\ left.server = r.server
    BY <1>2 DEF Connection, Progress
  <1>4. /\ conn' = [conn EXCEPT ![c] = left] /\ clients' = clients
        /\ received' = [received EXCEPT ![c] = <<>>] /\ UNCHANGED <<sender, queue, inbox, hand>>
    BY DEF LeaveStep, ReadPumpEnds
  <1> HIDE DEF left
  <1>5. conn'[c] = left /\ \A e \in Conns \ {c} : conn'[e] = conn[e]
    BY <1>1, <1>4
  <1>6. /\ received' \in [Conns -> Seq(Message)]
        /\ received'[c] = <<>> /\ \A e \in Conns \ {c} : received'[e] = received[e]
    BY <1>4, Typing DEF DeliveryInv, MessageInv
  <1>7. ASSUME NEW e \in Conns
        PROVE  /\ conn'[e].pc = "running" => conn[e].pc = "running"
               /\ conn'[e].pc # "running" => conn[e].pc # "running" \/ received'[e] = <<>>
               /\ \/ conn'[e].pc = "none"
                  \/ /\ conn[e].pc # "none" /\ conn'[e].server = conn[e].server
                     /\ conn'[e].pc \in Handshake \cup {"register"} => conn[e].pc \in Handshake \cup {"register"}
    BY <1>1, <1>3, <1>5, <1>6 DEF Handshake
  <1>8. ASSUME NEW s \in Servers, NEW e \in Conns, clients'[s] = e
        PROVE  conn'[e].server = s /\ conn'[e].pc \in {"running", "leaving"}
    BY <1>3, <1>4, <1>5, <1>8, ClientFacts
  <1> QED
    BY <1>4, <1>6, <1>7, <1>8, HubStepAlone

(* A client that is in no map when the loop is done with it is forgotten. *)
LEMMA OverSafe ==
    ASSUME DeliveryInv, NEW c \in Conns, Over(c), conn[c].pc # "running", \A s \in Servers : clients[s] # c,
           UNCHANGED <<clients, sender, queue, received, inbox, hand, delivery>>
    PROVE  MessageInv'
  <1>1. TypeOK /\ received' \in [Conns -> Seq(Message)]
    BY Typing DEF DeliveryInv, HubInv, MessageInv
  <1>2. conn'[c] = NoConn /\ \A e \in Conns \ {c} : conn'[e] = conn[e]
    BY <1>1, OverValue
  <1>3. ASSUME NEW e \in Conns
        PROVE  /\ conn'[e].pc = "running" => conn[e].pc = "running"
               /\ conn'[e].pc # "running" => conn[e].pc # "running"
               /\ \/ conn'[e].pc = "none"
                  \/ /\ conn[e].pc # "none" /\ conn'[e].server = conn[e].server
                     /\ conn'[e].pc \in Handshake \cup {"register"} => conn[e].pc \in Handshake \cup {"register"}
    BY <1>2 DEF NoConn
  <1>4. ASSUME NEW s \in Servers, NEW e \in Conns, clients'[s] = e
        PROVE  conn'[e].server = s /\ conn'[e].pc \in {"running", "leaving"}
    BY <1>2, <1>4, ClientFacts
  <1> QED
    BY <1>1, <1>3, <1>4, HubStepAlone

LEMMA StillSafe ==
    ASSUME DeliveryInv, UNCHANGED <<clients, sender, queue, received, inbox, hand, delivery>>,
           \A e \in Conns : conn'[e].pc = conn[e].pc /\ conn'[e].server = conn[e].server
    PROVE  MessageInv'
  <1>1. received' \in [Conns -> Seq(Message)]
    BY Typing DEF DeliveryInv, MessageInv
  <1>2. ASSUME NEW s \in Servers, NEW e \in Conns, clients'[s] = e
        PROVE  conn'[e].server = s /\ conn'[e].pc \in {"running", "leaving"}
    BY <1>2, ClientFacts
  <1> QED
    BY <1>1, <1>2, HubStepAlone

LEMMA LoopSafe ==
    ASSUME DeliveryInv, NEW s \in Servers, LoopStep(s), UNCHANGED delivery
    PROVE  MessageInv'
  <1>1. TypeOK /\ UNCHANGED <<sender, queue, received, inbox, hand>>
    BY DEF DeliveryInv, HubInv, LoopStep, routing
  <1>2. CASE ReleaseSlot(s)
    BY <1>1, <1>2, StillSafe DEF ReleaseSlot
  <1>3. ASSUME NEW c \in Conns, HandleUnregister(s, c), clients[s] # c
        PROVE  MessageInv'
    <2>1. Over(c) /\ clients' = clients /\ conn[c].pc = "leaving" /\ conn[c].server = s
      BY <1>3 DEF HandleUnregister, On
    <2>2. \A r \in Servers : clients[r] # c
      BY <1>3, <2>1, ClientFacts
    <2> QED
      BY <1>1, <2>1, <2>2, OverSafe
  <1>4. ASSUME NEW c \in Conns, HandleUnregister(s, c), clients[s] = c
        PROVE  MessageInv'
    <2>1. /\ clients' = [clients EXCEPT ![s] = None]
          /\ Moves(conn', Closed(None), c, "unregister")
          /\ conn[c].pc = "leaving" /\ conn[c].server = s
      BY <1>4 DEF HandleUnregister, MoveTo, Moves, Closed, On
    <2>2. /\ conn'[c].pc = "unregister"
          /\ \A e \in Conns : conn'[e].server = conn[e].server
          /\ \A e \in Conns \ {c} : conn'[e].pc = conn[e].pc
      <3>1. conn[c].pc # "none" /\ "unregister" \in Progress \ {"none"} /\ None \in Conns \cup {None}
        BY <2>1 DEF Progress
      <3> QED
        BY <1>1, <2>1, <3>1, MoveToValue
    <2>3. clients'[s] = None /\ \A r \in Servers \ {s} : clients'[r] = clients[r]
      BY <1>1, <2>1, Typed
    <2>4. ASSUME NEW e \in Conns
          PROVE  /\ conn'[e].pc = "running" => conn[e].pc = "running"
                 /\ conn'[e].pc # "running" => conn[e].pc # "running"
                 /\ \/ conn'[e].pc = "none"
                    \/ /\ conn[e].pc # "none" /\ conn'[e].server = conn[e].server
                       /\ conn'[e].pc \in Handshake \cup {"register"} => conn[e].pc \in Handshake \cup {"register"}
      BY <2>1, <2>2 DEF Handshake
    <2>5. ASSUME NEW r \in Servers, NEW e \in Conns, clients'[r] = e
          PROVE  conn'[e].server = r /\ conn'[e].pc \in {"running", "leaving"}
      <3>1. r # s /\ clients[r] = e
        BY <2>3, <2>5, HubNoneAssumption
      <3>2. conn[e].server = r /\ conn[e].pc \in {"running", "leaving"}
        BY <3>1, ClientFacts
      <3> QED
        BY <2>1, <2>2, <3>1, <3>2
    <2>6. received' \in [Conns -> Seq(Message)]
      BY <1>1, Typing DEF DeliveryInv, MessageInv
    <2> QED
      BY <1>1, <2>4, <2>5, <2>6, HubStepAlone
  <1> QED
    BY <1>2, <1>3, <1>4 DEF LoopStep

LEMMA UnregisterDoneStepSafe ==
    ASSUME DeliveryInv, NEW s \in Servers, UnregisterDoneStep(s), UNCHANGED delivery
    PROVE  MessageInv'
  <1>1. HubInv /\ loop[s].pc = "disconnect" /\ UNCHANGED <<clients, sender, queue, received, inbox, hand>>
    BY DEF DeliveryInv, UnregisterDoneStep, UnregisterDone, LoopAt, routing
  <1>2. PICK c \in Conns : c = loop[s].conn /\ conn[c].pc = "unregister"
    BY <1>1, LoopFacts
  <1>3. Over(c)
    BY <1>2 DEF UnregisterDoneStep, UnregisterDone
  <1>4. \A r \in Servers : clients[r] # c
    BY <1>2, ClientFacts
  <1> QED
    BY <1>1, <1>2, <1>3, <1>4, OverSafe

LEMMA KickStepSafe ==
    ASSUME DeliveryInv, NEW s \in Servers, KickStep(s), UNCHANGED delivery
    PROVE  MessageInv'
  <1>1. TypeOK /\ UNCHANGED <<clients, sender, queue, received, inbox, hand>>
    BY DEF DeliveryInv, HubInv, KickStep, HandleDisconnectMessage, routing
  <1>2. PICK d \in Conns \cup {None} : conn' = Closed(d)
    BY <1>1 DEF KickStep, HandleDisconnectMessage, TypeOK, Closed
  <1>3. \A e \in Conns : conn'[e].pc = conn[e].pc /\ conn'[e].server = conn[e].server
    BY <1>1, <1>2, ClosedValue
  <1> QED
    BY <1>1, <1>3, StillSafe

LEMMA ExpireStepSafe ==
    ASSUME DeliveryInv, ExpireStep, UNCHANGED delivery
    PROVE  MessageInv'
  <1>1. UNCHANGED <<conn, clients, sender, queue, received, inbox, hand>>
    BY DEF ExpireStep, SlotExpires, routing
  <1> QED
    BY <1>1, StillSafe

LEMMA ConnectFreshSafe ==
    ASSUME DeliveryInv, NEW c \in Conns, NEW s \in Servers, ConnectFresh(c, s), UNCHANGED delivery
    PROVE  MessageInv'
  <1> DEFINE first == [server |-> s, open |-> TRUE, pc |-> IF slot = None THEN "upgrade" ELSE "lookup"]
  <1>1. /\ conn[c].pc = "none" /\ Unreferenced(c) /\ DeliveryTypeOK
        /\ UNCHANGED <<clients, sender, received, inbox, hand, sent>>
        /\ queue' = [queue EXCEPT ![c] = <<>>]
        /\ conn' = [conn EXCEPT ![c] = first]
    BY DEF DeliveryInv, MessageInv, ConnectFresh, Connect, On, delivery
  <1>2. conn \in [Conns -> Connection \cup {NoConn}]
    BY Typed DEF DeliveryInv, HubInv
  <1>3. first.pc \in {"upgrade", "lookup"}
    OBVIOUS
  <1> HIDE DEF first
  <1>4. conn'[c] = first /\ \A e \in Conns \ {c} : conn'[e] = conn[e]
    BY <1>1, <1>2
  <1>5. /\ queue' \in [Conns -> Seq(Message)] /\ queue'[c] = <<>>
        /\ \A e \in Conns \ {c} : queue'[e] = queue[e]
    BY <1>1, Typing
  <1>6. DeliveryTypeOK'
    <2>1. Len(<<>>) <= QueueSize
      BY RoutingBoundAssumption
    <2>2. \A e \in Conns : Len(queue'[e]) <= QueueSize
      BY <1>1, <1>5, <2>1 DEF DeliveryTypeOK, RoutingTypes
    <2> QED
      BY <1>1, <1>5, <2>2 DEF DeliveryTypeOK, RoutingTypes, delivery
  <1>7. ReceiverOnce'
    BY <1>1 DEF DeliveryInv, MessageInv, ReceiverOnce, Waits
  <1>8. \A r \in Receivers, m \in Message : Waits(m, r)' => Waits(m, r)
    BY <1>1 DEF Waits
  <1>9. ASSUME NEW e \in Conns
        PROVE  /\ conn'[e].pc = "running" => conn[e].pc = "running"
               /\ conn'[e].pc # "running" => conn[e].pc # "running"
               /\ \/ conn'[e].pc = "none"
                  \/ conn[e].pc = "none" /\ queue'[e] = <<>> /\ Unreferenced(e)
                  \/ /\ conn[e].pc # "none" /\ conn'[e].server = conn[e].server
                     /\ conn'[e].pc \in Handshake \cup {"register"} => conn[e].pc \in Handshake \cup {"register"}
    BY <1>1, <1>3, <1>4, <1>5
  <1>10. ASSUME NEW r \in Servers, NEW e \in Conns, clients'[r] = e
         PROVE  conn'[e].server = r /\ conn'[e].pc \in {"running", "leaving"}
    BY <1>1, <1>4, <1>10, ClientFacts
  <1> QED
    BY <1>1, <1>5, <1>6, <1>7, <1>8, <1>9, <1>10, HubStepSafe

(* What the receiver of a subscription that ends has left goes to another receiver of its server. *)
LEMMA UnsubscribeSafely ==
    ASSUME DeliveryInv, NEW s \in Servers, NEW k \in Leftovers,
           NEW n \in 0..MaxSent * Cardinality(Senders), Leave(s, k, n)
    PROVE  MessageInv'
  <1> DEFINE cur == Current(s)
             old == Leftover(s, k)
  <1>1. /\ DeliveryTypeOK /\ ReceiverOnce
        /\ cur \in Receivers /\ old \in Receivers /\ cur # old
        /\ Home(cur) = s /\ Home(old) = s
    BY RoutingLeftoversAssumption DEF DeliveryInv, MessageInv, Receivers, Current, Leftover, Home
  <1>2. PICK q \in Seq(Message), h \in [client : Conns, msg : Message] \cup {NoHand} :
            q = inbox[cur] /\ h = hand[cur]
    BY <1>1, Typing
  <1> DEFINE p == SubSeq(q, 1, n)
  <1>3. /\ UNCHANGED <<conn, clients, sender, queue, received, sent, published>>
        /\ n \in 0..Len(q)
        /\ inbox' = [inbox EXCEPT ![old] = p, ![cur] = <<>>]
        /\ hand' = [hand EXCEPT ![old] = h, ![cur] = NoHand]
        /\ outlived' = outlived \cup {q[i] : i \in 1..n} \cup ({h.msg} \ {None})
    BY <1>2 DEF Leave, UnsubscribeLeaving, Unsubscribe
  <1>4. /\ p \in Seq(Message)
        /\ \A m \in Message : In(m, p) => In(m, q)
        /\ NoRepeat(q) => NoRepeat(p)
    BY <1>3, PrefixFacts
  <1> HIDE DEF p, cur, old
  <1>5. /\ inbox' \in [Receivers -> Seq(Message)]
        /\ inbox'[old] = p /\ inbox'[cur] = <<>>
        /\ \A r \in Receivers \ {cur, old} : inbox'[r] = inbox[r]
    <2> DEFINE moved == [inbox EXCEPT ![old] = p]
    <2>1. /\ moved \in [Receivers -> Seq(Message)]
          /\ moved[old] = p /\ \A r \in Receivers \ {old} : moved[r] = inbox[r]
      BY <1>1, <1>4, Typing
    <2>2. inbox' = [moved EXCEPT ![cur] = <<>>]
      BY <1>3
    <2> HIDE DEF moved
    <2> QED
      BY <1>1, <2>1, <2>2
  <1>6. /\ hand' \in [Receivers -> [client : Conns, msg : Message] \cup {NoHand}]
        /\ hand'[old] = h /\ hand'[cur] = NoHand
        /\ \A r \in Receivers \ {cur, old} : hand'[r] = hand[r]
    BY <1>1, <1>2, <1>3, Typing
  <1>7. ASSUME NEW m \in Message
        PROVE  /\ ~Waits(m, cur)'
               /\ Waits(m, old)' => Waits(m, cur)
               /\ \A r \in Receivers \ {cur, old} : Waits(m, r)' <=> Waits(m, r)
    BY <1>2, <1>4, <1>5, <1>6, EmptyFacts DEF Waits
  <1>8. DeliveryTypeOK'
    <2>1. outlived' \subseteq Message
      <3>1. outlived \subseteq Message
        BY <1>1 DEF DeliveryTypeOK
      <3>2. \A i \in 1..n : q[i] \in Message
        BY <1>3
      <3>3. h.msg \in Message \cup {None}
        BY DEF NoHand
      <3> QED
        BY <1>3, <3>1, <3>2, <3>3
    <2> QED
      BY <1>1, <1>3, <1>5, <1>6, <2>1 DEF DeliveryTypeOK, RoutingTypes
  <1>9. ReceiverOnce'
    <2>1. NoRepeat(q) /\ (h # NoHand => ~In(h.msg, q))
      BY <1>1, <1>2 DEF ReceiverOnce
    <2>2. NoRepeat(p) /\ (h # NoHand => ~In(h.msg, p))
      BY <1>4, <2>1 DEF NoHand
    <2>3. ASSUME NEW r \in Receivers
          PROVE  NoRepeat(inbox'[r]) /\ (hand'[r] # NoHand => ~In(hand'[r].msg, inbox'[r]))
      BY <1>1, <1>5, <1>6, <2>2, <2>3, EmptyFacts DEF ReceiverOnce
    <2>4. ASSUME NEW r \in Receivers, NEW o \in Receivers, r # o, Home(r) = Home(o), NEW m \in Message
          PROVE  ~(Waits(m, r)' /\ Waits(m, o)')
      <3>1. \A a \in Receivers, b \in Receivers : a # b /\ Home(a) = Home(b) => ~(Waits(m, a) /\ Waits(m, b))
        BY <1>1, <2>4 DEF ReceiverOnce
      <3>2. CASE r = old \/ o = old
        BY <1>1, <1>7, <2>4, <3>1, <3>2
      <3>3. CASE r # old /\ o # old
        BY <1>7, <2>4, <3>1, <3>3
      <3> QED
        BY <3>2, <3>3
    <2> QED
      BY <2>3, <2>4 DEF ReceiverOnce
  <1>10. ASSUME NEW r \in Receivers, NEW m \in Message, Waits(m, r)'
         PROVE  \E o \in Receivers : Home(o) = Home(r) /\ Waits(m, o)
    BY <1>1, <1>7, <1>10
  <1>11. ASSUME NEW r \in Receivers, NEW c \in Conns, hand'[r].client = c
         PROVE  \E o \in Receivers : Home(o) = Home(r) /\ hand[o].client = c
    BY <1>1, <1>2, <1>6, <1>11, HubNoneAssumption DEF NoHand
  <1>12. ASSUME NEW r \in Servers, NEW c \in Conns, clients'[r] = c
         PROVE  conn'[c].server = r /\ conn'[c].pc \in {"running", "leaving"}
    BY <1>3, <1>12, ClientFacts
  <1> QED
    BY <1>3, <1>8, <1>9, <1>10, <1>11, <1>12, HubStepSafe

LEMMA CrashLosingSafe ==
    ASSUME DeliveryInv, NEW s \in Servers, CrashLosing(s), UNCHANGED delivery
    PROVE  MessageInv'
  <1>1. /\ TypeOK /\ DeliveryTypeOK /\ ReceiverOnce
        /\ clients' = [clients EXCEPT ![s] = None]
        /\ sender' = [x \in Senders |-> IF sender[x].server = s THEN NotSending ELSE sender[x]]
        /\ inbox' = [r \in Receivers |-> IF Home(r) = s THEN <<>> ELSE inbox[r]]
        /\ hand' = [r \in Receivers |-> IF Home(r) = s THEN NoHand ELSE hand[r]]
        /\ queue' = [c \in Conns |-> IF conn[c].server = s THEN <<>> ELSE queue[c]]
        /\ received' = [c \in Conns |-> IF conn[c].server = s THEN <<>> ELSE received[c]]
        /\ UNCHANGED <<sent, published, outlived>>
    BY DEF DeliveryInv, HubInv, MessageInv, CrashLosing, Crash, delivery
  <1>2. \A e \in Conns : conn'[e] = IF conn[e].server = s THEN NoConn ELSE conn[e]
    BY DEF CrashLosing, Crash
  <1>3. clients'[s] = None /\ \A r \in Servers \ {s} : clients'[r] = clients[r]
    BY <1>1, Typed
  <1>4. DeliveryTypeOK'
    <2>1. <<>> \in Seq(Message) /\ Len(<<>>) <= QueueSize
      BY RoutingBoundAssumption
    <2>2. /\ queue' \in [Conns -> Seq(Message)] /\ received' \in [Conns -> Seq(Message)]
          /\ inbox' \in [Receivers -> Seq(Message)]
          /\ hand' \in [Receivers -> [client : Conns, msg : Message] \cup {NoHand}]
      BY <1>1, <2>1, Typing
    <2>3. \A c \in Conns : Len(queue'[c]) <= QueueSize
      BY <1>1, <2>1 DEF DeliveryTypeOK, RoutingTypes
    <2>4. sender' \in [Senders -> [pc : {"send"}, server : Servers, client : Conns, msg : Message]
                               \cup [pc : {"publish"}, server : Servers, client : Conns \cup {None}, msg : Message]
                               \cup {NotSending}]
      BY <1>1 DEF DeliveryTypeOK, RoutingTypes
    <2> QED
      BY <1>1, <2>2, <2>3, <2>4 DEF DeliveryTypeOK, RoutingTypes
  <1>5. ASSUME NEW r \in Receivers, NEW m \in Message, Waits(m, r)'
        PROVE  Waits(m, r)
    BY <1>1, <1>5, EmptyFacts DEF Waits
  <1>6. ReceiverOnce'
    <2>1. ASSUME NEW r \in Receivers
          PROVE  NoRepeat(inbox'[r]) /\ (hand'[r] # NoHand => ~In(hand'[r].msg, inbox'[r]))
      BY <1>1, EmptyFacts DEF ReceiverOnce
    <2>2. \A r, o \in Receivers : r # o /\ Home(r) = Home(o) => \A m \in Message : ~(Waits(m, r)' /\ Waits(m, o)')
      BY <1>1, <1>5 DEF ReceiverOnce
    <2> QED
      BY <2>1, <2>2 DEF ReceiverOnce
  <1>7. /\ \A x \in Senders : sender'[x] = sender[x] \/ sender'[x] = NotSending
        /\ \A c \in Conns : /\ queue'[c] = queue[c] \/ queue'[c] = <<>>
                            /\ received'[c] = received[c] \/ received'[c] = <<>>
        /\ \A r \in Receivers, c \in Conns : hand'[r].client = c => hand[r].client = c
    BY <1>1, HubNoneAssumption DEF NoHand
  <1>8. ASSUME NEW e \in Conns
        PROVE  /\ conn'[e].pc = "running" => conn[e].pc = "running"
               /\ conn'[e].pc # "running" => conn[e].pc # "running" \/ received'[e] = <<>>
               /\ \/ conn'[e].pc = "none"
                  \/ conn[e].pc # "none" /\ conn'[e] = conn[e]
    BY <1>1, <1>2 DEF NoConn
  <1>9. ASSUME NEW r \in Servers, NEW e \in Conns, clients'[r] = e
        PROVE  conn'[e].server = r /\ conn'[e].pc \in {"running", "leaving"}
    <2>1. r # s /\ clients[r] = e
      BY <1>3, <1>9, HubNoneAssumption
    <2> QED
      BY <1>2, <2>1, ClientFacts
  <1> QED
    BY <1>1, <1>4, <1>5, <1>6, <1>7, <1>8, <1>9, HubStepSafe

-----------------------------------------------------------------------------
LEMMA DeliveryInvNext ==
    ASSUME DeliveryInv, [DeliveryNext]_dvars
    PROVE  DeliveryInv'
  <1>1. HubInv'
    BY StepOfHub, HubInvNext DEF DeliveryInv
  <1> SUFFICES MessageInv'
    BY <1>1 DEF DeliveryInv
  <1>2. ASSUME NEW x \in Senders, NEW s \in Servers, Send(x, s)
        PROVE  MessageInv'
    BY <1>2, SendSafe
  <1>3. CASE Deliver
    <2>1. UNCHANGED vars /\ Transit
      BY <1>3 DEF Deliver
    <2>2. ASSUME NEW x \in Senders, SendStep(x)
          PROVE  MessageInv'
      BY <1>3, <2>1, <2>2, SendQueuedSafe, SendRefusedSafe, PublishSafe DEF SendStep
    <2>3. ASSUME NEW r \in Receivers, Receive(r) \/ PassOn(r)
          PROVE  MessageInv'
      BY <1>3, <2>1, <2>3, ReceiveSafe, PassOnSafe
    <2>4. ASSUME NEW c \in Conns, WritePump(c)
          PROVE  MessageInv'
      BY <1>3, <2>1, <2>4, WritePumpSafe
    <2> QED
      BY <2>1, <2>2, <2>3, <2>4 DEF Transit
  <1>4. ASSUME NEW c \in Conns, ConnectionStep(c)
        PROVE  MessageInv'
    BY <1>4, ConnectFreshSafe, RegisterSafe, RequestStepSafe, LeaveSafe DEF ConnectionStep
  <1>5. ASSUME NEW s \in Servers, ServerStep(s)
        PROVE  MessageInv'
    BY <1>5, LoopSafe, UnregisterDoneStepSafe, KickStepSafe, CrashLosingSafe, UnsubscribeSafely DEF ServerStep
  <1>6. CASE ExpireStep /\ UNCHANGED delivery
    BY <1>6, ExpireStepSafe
  <1>7. CASE UNCHANGED dvars
    <2>1. UNCHANGED <<conn, clients, sender, queue, received, inbox, hand, delivery>>
      BY <1>7 DEF dvars, vars, routing
    <2> QED
      BY <2>1, StillSafe
  <1> QED
    BY <1>1, <1>2, <1>3, <1>4, <1>5, <1>6, <1>7 DEF DeliveryNext

LEMMA DeliveryInvInit ==
    ASSUME DeliveryInit
    PROVE  DeliveryInv
  <1>1. HubInv
    BY HubInvInit DEF DeliveryInit
  <1>2. /\ sender = [x \in Senders |-> NotSending]
        /\ queue = [c \in Conns |-> <<>>] /\ received = [c \in Conns |-> <<>>]
        /\ inbox = [r \in Receivers |-> <<>>] /\ hand = [r \in Receivers |-> NoHand]
        /\ sent = [x \in Senders |-> 0] /\ published = {} /\ outlived = {}
        /\ clients = [s \in Servers |-> None] /\ conn = [c \in Conns |-> NoConn]
    BY DEF DeliveryInit, RoutingInit, Init
  <1>3. DeliveryTypeOK
    BY <1>2, DeliveryBoundAssumption, RoutingBoundAssumption DEF DeliveryTypeOK, RoutingTypes
  <1>4. \A m : (\A r \in Receivers : ~Waits(m, r)) /\ (\A c \in Conns : ~Reached(m, c))
    BY <1>2, EmptyFacts DEF Waits, Reached
  <1>5. FreshInv
    BY <1>2, <1>4 DEF FreshInv, Seen
  <1>6. ReferenceInv
    BY <1>2, HubNoneAssumption DEF ReferenceInv, NoConn, NoHand, Handshake
  <1>7. ReceiverOnce
    BY <1>2, <1>4, EmptyFacts DEF ReceiverOnce
  <1>8. ConnectionOnce
    BY <1>2 DEF ConnectionOnce, NoConn
  <1> QED
    BY <1>1, <1>3, <1>5, <1>6, <1>7, <1>8 DEF DeliveryInv, MessageInv

(* DeliveryInv holds in every state. *)
THEOREM DeliveryInvariance == DeliverySpec => []DeliveryInv
  BY DeliveryInvInit, DeliveryInvNext, PTL DEF DeliverySpec

(* The send channels never hold more than their capacity, and nothing but messages is on its way. *)
THEOREM DeliveryTypeCorrect == DeliverySpec => []DeliveryTypeOK
  <1>1. DeliveryInv => DeliveryTypeOK
    BY DEF DeliveryInv, MessageInv
  <1> QED
    BY <1>1, DeliveryInvariance, PTL

(* SendToUser may try a queue and then pub/sub, which may lead back to the same queue; no message is
   written to a connection twice (handler.go:257-270). *)
THEOREM OnceAlways == DeliverySpec => []OncePerConnection
  <1>1. ASSUME DeliveryInv, NEW c \in Conns
        PROVE  NoRepeat(received[c])
    <2>1. ReferenceInv /\ ConnectionOnce
      BY <1>1 DEF DeliveryInv, MessageInv
    <2>2. CASE conn[c].pc = "running"
      BY <2>1, <2>2 DEF ConnectionOnce
    <2>3. CASE conn[c].pc # "running"
      BY <2>1, <2>3, EmptyFacts DEF ReferenceInv
    <2> QED
      BY <2>2, <2>3
  <1>2. DeliveryInv => OncePerConnection
    BY <1>1 DEF OncePerConnection, NoRepeat
  <1> QED
    BY <1>2, DeliveryInvariance, PTL

-----------------------------------------------------------------------------
(* Order. *)

(* The first message comes before the second in a sequence. *)
Precedes(m, e, q) == \E i, j \in DOMAIN q : i < j /\ q[i] = m /\ q[j] = e

(* The first is passed on before the second by the receiver at which both wait; the first came to a
   connection before the second. *)
Ahead(m, e, r) == (hand[r] # NoHand /\ hand[r].msg = m /\ In(e, inbox[r])) \/ Precedes(m, e, inbox[r])
Follows(m, e, c) ==
    \/ Precedes(m, e, received[c])
    \/ In(m, received[c]) /\ In(e, queue[c])
    \/ Precedes(m, e, queue[c])

(* Of two messages of one peer, the first was sent first; or it came first although it was sent later,
   and that is one of the exceptions of InOrder. *)
Older(m, e) == m.from = e.from => m.n < e.n
Excused(m, e) == m.from = e.from /\ e.n < m.n => e \in published /\ (m \notin published \/ e \in outlived)

(* What waits went through pub/sub, and what went through pub/sub is not being sent any more. *)
PublishedInv ==
    /\ \A r \in Receivers, m \in Message : Waits(m, r) => m \in published
    /\ \A m \in published : m.n <= sent[m.from]
    /\ \A x \in Senders, m \in published : sender[x] # NotSending => sender[x].msg # m

(* A receiver has messages in the order in which they were sent, and those of a subscription that ended
   are older than those of the next one. *)
LineInv ==
    /\ \A r \in Receivers, m, e \in Message : Ahead(m, e, r) => Older(m, e)
    /\ \A s \in Servers, k \in Leftovers, m, e \in Message :
            Waits(m, Leftover(s, k)) /\ Waits(e, Current(s)) => Older(m, e)
    /\ \A s \in Servers, k \in Leftovers, m \in Message : Waits(m, Leftover(s, k)) => m \in outlived

(* What came to a connection through pub/sub is older than what its server has yet to pass on from its
   subscription. *)
ArrivalInv ==
    \A c \in Conns : conn[c].pc = "running" =>
        /\ \A m, e \in Message : Follows(m, e, c) => Excused(m, e)
        /\ \A m \in published, e \in Message : Reached(m, c) /\ Waits(e, Current(conn[c].server)) => Older(m, e)

(* Inductive, with DeliveryInv: that InOrder holds of what was written to a connection rests on the
   order in what is on its way to it. *)
OrderInv == PublishedInv /\ LineInv /\ ArrivalInv

LEMMA PrecedesAppend ==
    ASSUME NEW M, NEW q \in Seq(M), NEW k, NEW m, NEW e, Precedes(m, e, Append(q, k))
    PROVE  Precedes(m, e, q) \/ (In(m, q) /\ e = k)
  <1> DEFINE a == Append(q, k)
  <1>1. /\ Len(q) \in Nat /\ DOMAIN a = 1..Len(q) + 1 /\ DOMAIN q = 1..Len(q)
        /\ \A i \in 1..Len(q) : a[i] = q[i]
        /\ a[Len(q) + 1] = k
    OBVIOUS
  <1>2. PICK i \in DOMAIN a, j \in DOMAIN a : i < j /\ a[i] = m /\ a[j] = e
    BY DEF Precedes
  <1> HIDE DEF a
  <1>3. i \in DOMAIN q /\ q[i] = m
    BY <1>1, <1>2
  <1>4. CASE j = Len(q) + 1
    BY <1>1, <1>2, <1>3, <1>4 DEF In
  <1>5. CASE j # Len(q) + 1
    <2>1. j \in DOMAIN q /\ q[j] = e
      BY <1>1, <1>2, <1>5
    <2> QED
      BY <1>2, <1>3, <2>1 DEF Precedes
  <1> QED
    BY <1>4, <1>5

LEMMA PrecedesTail ==
    ASSUME NEW M, NEW q \in Seq(M), q # <<>>
    PROVE  /\ \A m, e : Precedes(m, e, Tail(q)) => Precedes(m, e, q)
           /\ \A e : In(e, Tail(q)) => Precedes(Head(q), e, q)
  <1> DEFINE t == Tail(q)
             h == Head(q)
  <1>1. /\ Len(q) \in Nat /\ Len(q) > 0
        /\ DOMAIN t = 1..Len(q) - 1 /\ DOMAIN q = 1..Len(q)
        /\ \A i \in 1..Len(q) - 1 : t[i] = q[i + 1]
        /\ h = q[1]
    OBVIOUS
  <1> HIDE DEF t, h
  <1>2. ASSUME NEW m, NEW e, Precedes(m, e, t)
        PROVE  Precedes(m, e, q)
    <2>1. PICK i \in DOMAIN t, j \in DOMAIN t : i < j /\ t[i] = m /\ t[j] = e
      BY <1>2 DEF Precedes
    <2>2. i + 1 \in DOMAIN q /\ j + 1 \in DOMAIN q /\ i + 1 < j + 1 /\ q[i + 1] = m /\ q[j + 1] = e
      BY <1>1, <2>1
    <2> QED
      BY <2>2 DEF Precedes
  <1>3. ASSUME NEW e, In(e, t)
        PROVE  Precedes(h, e, q)
    <2>1. PICK i \in DOMAIN t : t[i] = e
      BY <1>3 DEF In
    <2>2. 1 \in DOMAIN q /\ i + 1 \in DOMAIN q /\ 1 < i + 1 /\ q[1] = h /\ q[i + 1] = e
      BY <1>1, <2>1
    <2> QED
      BY <2>2 DEF Precedes
  <1> QED
    BY <1>2, <1>3 DEF t, h

LEMMA PrecedesPrefix ==
    ASSUME NEW M, NEW q \in Seq(M), NEW n \in 0..Len(q), NEW m, NEW e, Precedes(m, e, SubSeq(q, 1, n))
    PROVE  Precedes(m, e, q)
  <1> DEFINE p == SubSeq(q, 1, n)
  <1>1. DOMAIN p = 1..n /\ DOMAIN q = 1..Len(q) /\ Len(q) \in Nat /\ \A i \in 1..n : p[i] = q[i]
    OBVIOUS
  <1>2. PICK i \in DOMAIN p, j \in DOMAIN p : i < j /\ p[i] = m /\ p[j] = e
    BY DEF Precedes
  <1> HIDE DEF p
  <1>3. i \in DOMAIN q /\ j \in DOMAIN q /\ q[i] = m /\ q[j] = e
    BY <1>1, <1>2
  <1> QED
    BY <1>2, <1>3 DEF Precedes

LEMMA PrecedesNothing == \A m, e : ~Precedes(m, e, <<>>)
  BY DEF Precedes

LEMMA PrecedesBoth ==
    ASSUME NEW m, NEW e, NEW q, Precedes(m, e, q)
    PROVE  In(m, q) /\ In(e, q)
  BY DEF Precedes, In

(* What came of a peer so far is older than the message it sends. *)
LEMMA NewestOfPeer ==
    ASSUME sent \in [Senders -> 0..MaxSent], NEW m \in Message, NEW e \in Message, m # e,
           m.n <= sent[m.from], e.n = sent[e.from]
    PROVE  Older(m, e) /\ Excused(m, e)
  <1>1. m = [from |-> m.from, n |-> m.n] /\ e = [from |-> e.from, n |-> e.n]
    BY DEF Message
  <1>2. m.n \in Nat /\ e.n \in Nat
    BY DEF Message
  <1>3. m.from = e.from => m.n # e.n
    BY <1>1
  <1>4. m.from = e.from => m.n < e.n
    BY <1>2, <1>3
  <1> QED
    BY <1>2, <1>4 DEF Older, Excused

(* A message that is held was neither published nor seen, and is its peer's newest. *)
LEMMA HeldFacts ==
    ASSUME DeliveryTypeOK, FreshInv, PublishedInv, NEW x \in Senders, sender[x] # NotSending,
           NEW m \in Message, m = sender[x].msg
    PROVE  /\ m \notin published /\ ~Seen(m)
           /\ \A k \in Message : k \in published \/ Seen(k) => Older(k, m) /\ Excused(k, m)
           /\ \A y \in Senders : sender[y] # NotSending /\ sender[y].msg = m => y = x
  <1>1. m \notin published /\ ~Seen(m) /\ m.n = sent[m.from] /\ m.from = x
    BY DEF PublishedInv, FreshInv
  <1>2. \A k \in Message : k \in published \/ Seen(k) => k # m /\ k.n <= sent[k.from]
    BY <1>1 DEF PublishedInv, FreshInv
  <1>3. \A k \in Message : k \in published \/ Seen(k) => Older(k, m) /\ Excused(k, m)
    BY <1>1, <1>2, NewestOfPeer, Typing
  <1>4. \A y \in Senders : sender[y] # NotSending /\ sender[y].msg = m => y = x
    BY <1>1 DEF FreshInv
  <1> QED
    BY <1>1, <1>3, <1>4

(* What happens to the goroutines that send, but for Send. *)
SendersGoOn ==
    \A x \in Senders : sender'[x] # NotSending => sender[x] # NotSending /\ sender'[x].msg = sender[x].msg

(* A step that sends and publishes nothing and puts no two messages together keeps the order. *)
LEMMA OrderShrinks ==
    ASSUME DeliveryInv, OrderInv, SendersGoOn, UNCHANGED <<sent, published>>, outlived \subseteq outlived',
           \A r \in Receivers, m \in Message : Waits(m, r)' => Waits(m, r),
           \A r \in Receivers, m, e \in Message : Ahead(m, e, r)' => Ahead(m, e, r),
           \A c \in Conns : conn'[c].pc = "running" =>
                \/ \A m \in Message : ~Reached(m, c)'
                \/ /\ conn[c].pc = "running" /\ conn'[c].server = conn[c].server
                   /\ \A m \in Message : Reached(m, c)' => Reached(m, c)
                   /\ \A m, e \in Message : Follows(m, e, c)' => Follows(m, e, c)
    PROVE  OrderInv'
  <1>1. PublishedInv'
    BY DEF OrderInv, PublishedInv, SendersGoOn
  <1>2. LineInv'
    <2>1. \A s \in Servers, k \in Leftovers : Current(s) \in Receivers /\ Leftover(s, k) \in Receivers
      BY DEF Current, Leftover, Receivers
    <2>2. ASSUME NEW s \in Servers, NEW k \in Leftovers, NEW m \in Message
          PROVE  /\ Waits(m, Current(s))' => Waits(m, Current(s))
                 /\ Waits(m, Leftover(s, k))' => Waits(m, Leftover(s, k))
      <3>1. PICK r \in Receivers, q \in Receivers : r = Current(s) /\ q = Leftover(s, k)
        BY <2>1
      <3>2. (Waits(m, r)' => Waits(m, r)) /\ (Waits(m, q)' => Waits(m, q))
        OBVIOUS
      <3> QED
        BY <3>1, <3>2
    <2>3. \A r \in Receivers, m, e \in Message : Ahead(m, e, r)' => Older(m, e)
      BY DEF OrderInv, LineInv
    <2>4. \A s \in Servers, k \in Leftovers, m, e \in Message :
            Waits(m, Leftover(s, k))' /\ Waits(e, Current(s))' => Older(m, e)
      BY <2>2 DEF OrderInv, LineInv
    <2>5. \A s \in Servers, k \in Leftovers, m \in Message : Waits(m, Leftover(s, k))' => m \in outlived'
      BY <2>2 DEF OrderInv, LineInv
    <2> QED
      BY <2>3, <2>4, <2>5 DEF LineInv, Older
  <1>3. ASSUME NEW c \in Conns, conn'[c].pc = "running"
        PROVE  /\ \A m, e \in Message : Follows(m, e, c)' => Excused(m, e)'
               /\ \A m \in published', e \in Message :
                    Reached(m, c)' /\ Waits(e, Current(conn[c].server))' => Older(m, e)
    <2>1. published' \subseteq Message
      BY DEF DeliveryInv, MessageInv, DeliveryTypeOK
    <2>2. \A m, e \in Message : Follows(m, e, c)' => Reached(m, c)' /\ Reached(e, c)'
      BY PrecedesBoth DEF Follows, Reached
    <2>3. CASE \A m \in Message : ~Reached(m, c)'
      BY <2>1, <2>2, <2>3
    <2>4. CASE /\ conn[c].pc = "running" /\ conn'[c].server = conn[c].server
               /\ \A m \in Message : Reached(m, c)' => Reached(m, c)
               /\ \A m, e \in Message : Follows(m, e, c)' => Follows(m, e, c)
      <3>1. \A m, e \in Message : Excused(m, e) => Excused(m, e)'
        BY DEF Excused
      <3>2. conn[c].server \in Servers
        BY <2>4, AtServer DEF DeliveryInv, HubInv
      <3>3. Current(conn[c].server) \in Receivers
        BY <3>2 DEF Current, Receivers
      <3>4. /\ \A m, e \in Message : Follows(m, e, c) => Excused(m, e)
            /\ \A m \in published, e \in Message :
                 Reached(m, c) /\ Waits(e, Current(conn[c].server)) => Older(m, e)
        BY <2>4 DEF OrderInv, ArrivalInv
      <3>5. \A m, e \in Message : Follows(m, e, c)' => Excused(m, e)'
        BY <2>4, <3>1, <3>4
      <3>6. PICK r \in Receivers : r = Current(conn[c].server)
        BY <3>3
      <3>7. \A e \in Message : Waits(e, r)' => Waits(e, r)
        OBVIOUS
      <3>8. r = Current(conn[c].server)'
        BY <2>4, <3>6
      <3>9. \A e \in Message : Waits(e, Current(conn[c].server))' => Waits(e, r)
        BY <3>7, <3>8 DEF Waits
      <3> QED
        BY <2>1, <2>4, <3>4, <3>5, <3>6, <3>9
    <2> QED
      BY <1>3, <2>3, <2>4
  <1>4. ArrivalInv'
    BY <1>3 DEF ArrivalInv, Older
  <1> QED
    BY <1>1, <1>2, <1>4 DEF OrderInv

-----------------------------------------------------------------------------
(* The steps of a message, again. *)

LEMMA ReceiversOf ==
    \A s \in Servers : Current(s) \in Receivers /\ \A k \in Leftovers : Leftover(s, k) \in Receivers
  BY DEF Current, Leftover, Receivers

LEMMA NothingPublished ==
    ASSUME Deliver, \A y \in Senders : sender[y].pc = "publish" => sender'[y] = sender[y]
    PROVE  published' = published
  BY DEF Deliver

LEMMA SendInOrder ==
    ASSUME DeliveryInv, OrderInv, NEW x \in Senders, NEW s \in Servers, Send(x, s)
    PROVE  OrderInv'
  <1> DEFINE m == [from |-> x, n |-> sent[x] + 1]
             held == [pc |-> IF clients[s] = None THEN "publish" ELSE "send",
                      server |-> s, client |-> clients[s], msg |-> m]
  <1>1. sender \in [Senders -> [pc : {"send"}, server : Servers, client : Conns, msg : Message]
                         \cup [pc : {"publish"}, server : Servers, client : Conns \cup {None}, msg : Message]
                         \cup {NotSending}]
        /\ sent \in [Senders -> 0..MaxSent] /\ published \subseteq Message
    BY DEF DeliveryInv, MessageInv, DeliveryTypeOK, RoutingTypes
  <1>2. /\ sender' = [sender EXCEPT ![x] = held]
        /\ sent' = [sent EXCEPT ![x] = sent[x] + 1]
        /\ UNCHANGED <<vars, queue, received, inbox, hand, published, outlived>>
    BY DEF Send, SendToUser
  <1>3. held.msg = m /\ m.from = x /\ m.n = sent[x] + 1
    OBVIOUS
  <1> HIDE DEF m, held
  <1>4. /\ sender'[x] = held /\ sent'[x] = sent[x] + 1
        /\ \A y \in Senders \ {x} : sender'[y] = sender[y] /\ sent'[y] = sent[y]
    BY <1>1, <1>2
  <1>5. \A k \in published : k.n <= sent[k.from] /\ k.n \in Nat /\ k.from \in Senders
    BY <1>1 DEF OrderInv, PublishedInv, Message
  <1>6. PublishedInv'
    <2>1. \A r \in Receivers, k \in Message : Waits(k, r)' => k \in published'
      BY <1>2 DEF OrderInv, PublishedInv, Waits
    <2>2. \A k \in published' : k.n <= sent'[k.from]
      BY <1>1, <1>2, <1>4, <1>5
    <2>3. m \notin published
      BY <1>1, <1>3, <1>5
    <2>4. \A y \in Senders, k \in published' : sender'[y] # NotSending => sender'[y].msg # k
      BY <1>2, <1>3, <1>4, <2>3 DEF OrderInv, PublishedInv
    <2> QED
      BY <2>1, <2>2, <2>4 DEF PublishedInv
  <1>7. LineInv'
    BY <1>2 DEF OrderInv, LineInv, Ahead, Waits, Older
  <1>8. ArrivalInv'
    BY <1>2 DEF OrderInv, ArrivalInv, Follows, Reached, Waits, Excused, Older, vars
  <1> QED
    BY <1>6, <1>7, <1>8 DEF OrderInv

(* A message that comes to a connection at the end of its queue. *)
LEMMA Arrives ==
    ASSUME DeliveryInv, OrderInv, UNCHANGED <<vars, received, published, outlived>>,
           NEW c \in Conns, NEW m \in Message,
           queue'[c] = Append(queue[c], m), \A d \in Conns \ {c} : queue'[d] = queue[d],
           \A r \in Receivers, k \in Message : Waits(k, r)' => Waits(k, r),
           conn[c].pc = "running" =>
                /\ \A k \in Message : Reached(k, c) => Excused(k, m)
                /\ m \in published =>
                    \A k \in Message : Waits(k, Current(conn[c].server))' => Older(m, k)
    PROVE  ArrivalInv'
  <1> SUFFICES ASSUME NEW d \in Conns, conn[d].pc = "running"
               PROVE  /\ \A k, e \in Message : Follows(k, e, d)' => Excused(k, e)
                      /\ \A k \in published, e \in Message :
                            Reached(k, d)' /\ Waits(e, Current(conn[d].server))' => Older(k, e)
    BY DEF ArrivalInv, Excused, Older, vars
  <1>1. queue[d] \in Seq(Message) /\ published \subseteq Message
    BY Typing DEF DeliveryInv, MessageInv, DeliveryTypeOK
  <1>2. conn' = conn /\ conn[d].server \in Servers
    BY AtServer DEF vars, DeliveryInv, HubInv
  <1>3. PICK r \in Receivers : r = Current(conn[d].server)
    BY <1>2, ReceiversOf
  <1>4. \A e \in Message : Waits(e, Current(conn[d].server))' => Waits(e, r)
    <2>1. \A e \in Message : Waits(e, r)' => Waits(e, r)
      OBVIOUS
    <2>2. r = Current(conn[d].server)'
      BY <1>2, <1>3
    <2> QED
      BY <2>1, <2>2 DEF Waits
  <1>5. /\ \A k, e \in Message : Follows(k, e, d) => Excused(k, e)
        /\ \A k \in published, e \in Message : Reached(k, d) /\ Waits(e, r) => Older(k, e)
    BY <1>3 DEF OrderInv, ArrivalInv
  <1>6. CASE d # c
    <2>1. queue'[d] = queue[d] /\ received'[d] = received[d]
      BY <1>6
    <2> QED
      BY <1>4, <1>5, <2>1 DEF Follows, Reached
  <1>7. CASE d = c
    <2>1. PICK q \in Seq(Message) : q = queue[d]
      BY <1>1
    <2> DEFINE a == Append(q, m)
    <2>2. /\ \A k, e \in Message : Precedes(k, e, a) => Precedes(k, e, q) \/ (In(k, q) /\ e = m)
          /\ \A k \in Message : In(k, a) => In(k, q) \/ k = m
      BY PrecedesAppend, AppendFacts
    <2>3. queue'[d] = a /\ received'[d] = received[d]
      BY <1>7, <2>1
    <2> HIDE DEF a
    <2>4. \A k, e \in Message : Follows(k, e, d)' => Follows(k, e, d) \/ (Reached(k, d) /\ e = m)
      BY <2>1, <2>2, <2>3 DEF Follows, Reached
    <2>5. \A k \in Message : Reached(k, d)' => Reached(k, d) \/ k = m
      BY <2>1, <2>2, <2>3 DEF Reached
    <2> QED
      BY <1>1, <1>4, <1>5, <1>7, <2>4, <2>5
  <1> QED
    BY <1>6, <1>7

LEMMA SendQueuedInOrder ==
    ASSUME DeliveryInv, OrderInv, Deliver, UNCHANGED vars, NEW x \in Senders, SendQueued(x)
    PROVE  OrderInv'
  <1>1. DeliveryTypeOK /\ FreshInv /\ PublishedInv /\ UNCHANGED <<sent, outlived>> /\ sender[x] # NotSending
        /\ sender[x].pc = "send"
    BY DEF DeliveryInv, MessageInv, OrderInv, Deliver, SendQueued, NotSending
  <1>2. PICK m \in Message : m = sender[x].msg
    BY <1>1, SenderFacts
  <1>3. PICK c \in Conns : c = sender[x].client
    BY <1>1, SenderFacts
  <1>4. /\ queue' = [queue EXCEPT ![c] = Append(queue[c], m)]
        /\ SendDone(x) /\ UNCHANGED <<received, inbox, hand>>
    BY <1>2, <1>3 DEF SendQueued, Enqueue
  <1>5. queue'[c] = Append(queue[c], m) /\ \A d \in Conns \ {c} : queue'[d] = queue[d]
    BY <1>1, <1>4, Typing
  <1>6. \A y \in Senders \ {x} : sender'[y] = sender[y]
    BY <1>1, <1>4 DEF SendDone, DeliveryTypeOK, RoutingTypes
  <1>7. published' = published
    BY <1>1, <1>6, NothingPublished
  <1>8. PublishedInv'
    BY <1>1, <1>4, <1>7, SenderStep DEF PublishedInv, Waits
  <1>9. LineInv'
    BY <1>1, <1>4 DEF OrderInv, LineInv, Ahead, Waits, Older
  <1>10. m \notin published /\ \A k \in Message : Seen(k) => Excused(k, m)
    BY <1>1, <1>2, HeldFacts
  <1>11. ArrivalInv'
    <2>1. \A k \in Message : Reached(k, c) => Excused(k, m)
      BY <1>10 DEF Seen
    <2>2. \A r \in Receivers, k \in Message : Waits(k, r)' => Waits(k, r)
      BY <1>4 DEF Waits
    <2> QED
      BY <1>1, <1>4, <1>5, <1>7, <1>10, <2>1, <2>2, Arrives
  <1> QED
    BY <1>8, <1>9, <1>11 DEF OrderInv

LEMMA SendRefusedInOrder ==
    ASSUME DeliveryInv, OrderInv, Deliver, UNCHANGED vars, NEW x \in Senders, SendRefused(x)
    PROVE  OrderInv'
  <1>1. DeliveryTypeOK /\ UNCHANGED <<sent, outlived>> /\ sender[x] # NotSending /\ sender[x].pc = "send"
    BY DEF DeliveryInv, MessageInv, Deliver, SendRefused, NotSending
  <1>2. sender' = [sender EXCEPT ![x].pc = "publish"] /\ UNCHANGED <<conn, queue, received, inbox, hand>>
    BY DEF SendRefused, vars
  <1>3. \A y \in Senders \ {x} : sender'[y] = sender[y]
    BY <1>1, <1>2 DEF DeliveryTypeOK, RoutingTypes
  <1>4. published' = published
    BY <1>1, <1>3, NothingPublished
  <1>5. SendersGoOn
    BY <1>1, <1>2, SenderStep DEF SendersGoOn
  <1> QED
    BY <1>1, <1>2, <1>4, <1>5, OrderShrinks DEF Waits, Ahead, Reached, Follows

LEMMA ReceiveInOrder ==
    ASSUME DeliveryInv, OrderInv, Deliver, UNCHANGED vars, NEW r \in Receivers, Receive(r)
    PROVE  OrderInv'
  <1>1. DeliveryTypeOK /\ UNCHANGED <<sent, outlived, conn>>
    BY DEF DeliveryInv, MessageInv, Deliver, vars
  <1>2. UNCHANGED <<sender, queue, received>> /\ inbox[r] # <<>>
    BY DEF Receive
  <1>3. PICK q \in Seq(Message) : q = inbox[r] /\ q # <<>>
    BY <1>1, <1>2, Typing
  <1> DEFINE t == Tail(q)
             h == Head(q)
  <1>4. /\ In(h, q) /\ \A k \in Message : In(k, t) => In(k, q)
        /\ \A m, e : Precedes(m, e, t) => Precedes(m, e, q)
        /\ \A e : In(e, t) => Precedes(h, e, q)
    BY <1>3, TailFacts, PrecedesTail
  <1>5. /\ hand[r] = NoHand
        /\ inbox' = [inbox EXCEPT ![r] = t]
        /\ \/ hand' = [hand EXCEPT ![r] = [client |-> clients[Home(r)], msg |-> h]]
           \/ hand' = hand
    BY <1>3 DEF Receive
  <1> HIDE DEF t, h
  <1>6. /\ inbox'[r] = t /\ (hand'[r] # NoHand => hand'[r].msg = h)
        /\ \A p \in Receivers \ {r} : inbox'[p] = inbox[p] /\ hand'[p] = hand[p]
    BY <1>1, <1>5, Typing
  <1>7. \A p \in Receivers, k \in Message : Waits(k, p)' => Waits(k, p)
    BY <1>3, <1>4, <1>6 DEF Waits
  <1>8. \A p \in Receivers, k, e \in Message : Ahead(k, e, p)' => Ahead(k, e, p)
    BY <1>3, <1>4, <1>6 DEF Ahead
  <1>9. published' = published
    BY <1>2, NothingPublished
  <1>10. SendersGoOn
    BY <1>2 DEF SendersGoOn
  <1> QED
    BY <1>1, <1>2, <1>7, <1>8, <1>9, <1>10, OrderShrinks DEF Reached, Follows

LEMMA WritePumpInOrder ==
    ASSUME DeliveryInv, OrderInv, Deliver, UNCHANGED vars, NEW c \in Conns, WritePump(c)
    PROVE  OrderInv'
  <1>1. DeliveryTypeOK /\ UNCHANGED <<sent, outlived, conn>>
    BY DEF DeliveryInv, MessageInv, Deliver, vars
  <1>2. UNCHANGED <<sender, inbox, hand>>
    BY DEF WritePump
  <1>3. PICK q \in Seq(Message), w \in Seq(Message) : q = queue[c] /\ q # <<>> /\ w = received[c]
    BY <1>1, Typing DEF WritePump
  <1> DEFINE t == Tail(q)
             h == Head(q)
             a == Append(w, h)
  <1>4. /\ h \in Message /\ In(h, q)
        /\ \A k \in Message : In(k, t) => In(k, q)
        /\ \A m, e : Precedes(m, e, t) => Precedes(m, e, q)
        /\ \A e : In(e, t) => Precedes(h, e, q)
    BY <1>3, TailFacts, PrecedesTail
  <1>5. /\ \A k \in Message : In(k, a) => In(k, w) \/ k = h
        /\ \A m, e : Precedes(m, e, a) => Precedes(m, e, w) \/ (In(m, w) /\ e = h)
    <2> HIDE DEF h
    <2> QED
      BY <1>4, AppendFacts, PrecedesAppend
  <1>6. received' = [received EXCEPT ![c] = a] /\ queue' = [queue EXCEPT ![c] = t]
    BY <1>3 DEF WritePump
  <1> HIDE DEF t, h, a
  <1>7. /\ queue'[c] = t /\ received'[c] = a
        /\ \A d \in Conns \ {c} : queue'[d] = queue[d] /\ received'[d] = received[d]
    BY <1>1, <1>6, Typing
  <1>8. \A k \in Message, d \in Conns : Reached(k, d)' => Reached(k, d)
    BY <1>3, <1>4, <1>5, <1>7 DEF Reached
  <1>9. ASSUME NEW k \in Message, NEW e \in Message, NEW d \in Conns, Follows(k, e, d)'
        PROVE  Follows(k, e, d)
    <2>1. CASE d # c
      BY <1>7, <1>9, <2>1 DEF Follows
    <2>2. CASE d = c
      <3>1. Precedes(k, e, a) \/ (In(k, a) /\ In(e, t)) \/ Precedes(k, e, t)
        BY <1>7, <1>9, <2>2 DEF Follows
      <3>2. Precedes(k, e, w) \/ (In(k, w) /\ In(e, q)) \/ Precedes(k, e, q)
        BY <1>4, <1>5, <3>1
      <3> QED
        BY <1>3, <2>2, <3>2 DEF Follows
    <2> QED
      BY <2>1, <2>2
  <1>10. published' = published
    BY <1>2, NothingPublished
  <1>11. SendersGoOn
    BY <1>2 DEF SendersGoOn
  <1> QED
    BY <1>1, <1>2, <1>8, <1>9, <1>10, <1>11, OrderShrinks DEF Waits, Ahead

(* The message that goes through pub/sub is newer than what its peer sent before. *)
LEMMA PublishInOrder ==
    ASSUME DeliveryInv, OrderInv, Deliver, UNCHANGED vars, NEW x \in Senders, Publish(x)
    PROVE  OrderInv'
  <1>1. /\ DeliveryTypeOK /\ FreshInv /\ PublishedInv /\ LineInv /\ ArrivalInv
        /\ UNCHANGED <<sent, outlived, conn>>
        /\ sender[x] # NotSending /\ sender[x].pc = "publish"
    BY DEF DeliveryInv, MessageInv, OrderInv, Deliver, Publish, NotSending, vars
  <1>2. PICK m \in Message : m = sender[x].msg
    BY <1>1, SenderFacts
  <1>3. PICK T : inbox' = [r \in Receivers |-> IF r \in {Current(s) : s \in T}
                                               THEN Append(inbox[r], m) ELSE inbox[r]]
    BY <1>2 DEF Publish
  <1> DEFINE S == {Current(s) : s \in T}
  <1>4. SendDone(x) /\ UNCHANGED <<queue, received, hand>>
    BY DEF Publish
  <1>5. \A s \in Servers, l \in Leftovers : Leftover(s, l) \notin S
    BY RoutingLeftoversAssumption DEF Current, Leftover
  <1>6. \A r \in Receivers : inbox'[r] = IF r \in S THEN Append(inbox[r], m) ELSE inbox[r]
    BY <1>3
  <1> HIDE DEF S
  <1>7. ASSUME NEW r \in Receivers
        PROVE  /\ \A k \in Message : In(k, inbox'[r]) => In(k, inbox[r]) \/ (r \in S /\ k = m)
               /\ \A k, e : Precedes(k, e, inbox'[r]) => Precedes(k, e, inbox[r]) \/ (In(k, inbox[r]) /\ e = m)
    <2>1. PICK q \in Seq(Message) : q = inbox[r]
      BY <1>1, Typing
    <2> DEFINE a == Append(q, m)
    <2>2. /\ \A k \in Message : In(k, a) => In(k, q) \/ k = m
          /\ \A k, e : Precedes(k, e, a) => Precedes(k, e, q) \/ (In(k, q) /\ e = m)
      BY AppendFacts, PrecedesAppend
    <2>3. inbox'[r] = IF r \in S THEN a ELSE q
      BY <1>6, <2>1
    <2> HIDE DEF a
    <2> QED
      BY <2>1, <2>2, <2>3
  <1>8. \A r \in Receivers, k \in Message : Waits(k, r)' => Waits(k, r) \/ (r \in S /\ k = m)
    BY <1>4, <1>7 DEF Waits
  <1>9. \A r \in Receivers, k, e \in Message : Ahead(k, e, r)' => Ahead(k, e, r) \/ (Waits(k, r) /\ e = m)
    BY <1>4, <1>7 DEF Ahead, Waits
  <1>10. /\ m \notin published /\ ~Seen(m)
         /\ \A k \in Message : k \in published \/ Seen(k) => Older(k, m)
         /\ \A y \in Senders : sender[y] # NotSending /\ sender[y].msg = m => y = x
    BY <1>1, <1>2, HeldFacts
  <1>11. sender'[x] = NotSending /\ \A y \in Senders \ {x} : sender'[y] = sender[y]
    BY <1>1, <1>4 DEF SendDone, DeliveryTypeOK, RoutingTypes
  <1>12. published' = published \cup {m}
    <2>1. {y \in Senders : sender[y].pc = "publish" /\ sender'[y].pc = "idle"} = {x}
      BY <1>1, <1>11 DEF NotSending
    <2>2. published' = published \cup {sender[y].msg : y \in {x}}
      BY <2>1 DEF Deliver
    <2> QED
      BY <1>2, <2>2
  <1>13. PublishedInv'
    <2>1. \A r \in Receivers, k \in Message : Waits(k, r)' => k \in published'
      BY <1>1, <1>8, <1>12 DEF PublishedInv
    <2>2. \A k \in published' : k.n <= sent'[k.from]
      <3>1. m.n <= sent[m.from]
        BY <1>1, <1>2 DEF FreshInv, Message
      <3> QED
        BY <1>1, <1>12, <3>1 DEF PublishedInv
    <2>3. \A y \in Senders, k \in published' : sender'[y] # NotSending => sender'[y].msg # k
      BY <1>1, <1>10, <1>11, <1>12 DEF PublishedInv
    <2> QED
      BY <2>1, <2>2, <2>3 DEF PublishedInv
  <1>14. LineInv'
    <2>1. \A r \in Receivers, k \in Message : Waits(k, r) => Older(k, m)
      BY <1>10 DEF Seen
    <2>2. \A r \in Receivers, k, e \in Message : Ahead(k, e, r)' => Older(k, e)
      BY <1>1, <1>9, <2>1 DEF LineInv
    <2>3. ASSUME NEW s \in Servers, NEW l \in Leftovers, NEW k \in Message, Waits(k, Leftover(s, l))'
          PROVE  Waits(k, Leftover(s, l))
      <3>1. PICK r \in Receivers : r = Leftover(s, l) /\ r \notin S
        BY <1>5, ReceiversOf
      <3>2. Waits(k, r)'
        BY <2>3, <3>1 DEF Waits
      <3> QED
        BY <1>8, <3>1, <3>2
    <2>4. ASSUME NEW s \in Servers, NEW l \in Leftovers, NEW k \in Message, NEW e \in Message,
                 Waits(k, Leftover(s, l))', Waits(e, Current(s))'
          PROVE  Older(k, e)
      <3>1. PICK r \in Receivers : r = Current(s)
        BY ReceiversOf
      <3>2. Waits(e, r)'
        BY <2>4, <3>1 DEF Waits
      <3>3. Waits(e, Current(s)) \/ e = m
        BY <1>8, <3>1, <3>2
      <3>4. Waits(k, Leftover(s, l)) /\ Leftover(s, l) \in Receivers
        BY <2>3, <2>4, ReceiversOf
      <3> QED
        BY <1>1, <2>1, <3>3, <3>4 DEF LineInv
    <2> QED
      BY <1>1, <2>2, <2>3, <2>4 DEF LineInv, Older
  <1>15. ArrivalInv'
    <2> SUFFICES ASSUME NEW c \in Conns, conn[c].pc = "running"
                 PROVE  /\ \A k, e \in Message : Follows(k, e, c)' => Excused(k, e)'
                        /\ \A k \in published', e \in Message :
                              Reached(k, c)' /\ Waits(e, Current(conn[c].server))' => Older(k, e)
      BY <1>1 DEF ArrivalInv, Older
    <2>1. /\ \A k, e \in Message : Follows(k, e, c) => Excused(k, e)
          /\ \A k \in published, e \in Message : Reached(k, c) /\ Waits(e, Current(conn[c].server)) => Older(k, e)
      BY <1>1 DEF ArrivalInv
    <2>2. \A k \in Message : Reached(k, c) => k # m /\ Older(k, m)
      BY <1>10 DEF Seen
    <2>3. \A k, e \in Message : Follows(k, e, c)' => Excused(k, e)'
      <3>1. \A k, e \in Message : Follows(k, e, c)' => Follows(k, e, c) /\ Reached(k, c)
        BY <1>4, PrecedesBoth DEF Follows, Reached
      <3> QED
        BY <1>1, <1>12, <2>1, <2>2, <3>1 DEF Excused
    <2>4. ASSUME NEW k \in published', NEW e \in Message, Reached(k, c)', Waits(e, Current(conn[c].server))'
          PROVE  Older(k, e)
      <3>1. k \in Message /\ Reached(k, c)
        BY <1>1, <1>4, <1>12, <2>4 DEF Reached, DeliveryTypeOK
      <3>2. k \in published
        BY <1>12, <2>2, <3>1
      <3>3. conn[c].server \in Servers
        BY AtServer DEF DeliveryInv, HubInv
      <3>4. PICK r \in Receivers : r = Current(conn[c].server)
        BY <3>3, ReceiversOf
      <3>5. Waits(e, r)'
        BY <1>1, <2>4, <3>4 DEF Waits
      <3>6. Waits(e, r) \/ e = m
        BY <1>8, <3>5
      <3> QED
        BY <2>1, <2>2, <3>1, <3>2, <3>4, <3>6
    <2> QED
      BY <2>3, <2>4
  <1> QED
    BY <1>13, <1>14, <1>15 DEF OrderInv

(* What is passed on is older than what the same subscription still has for the connection, and newer
   than what came from it, unless the subscription is over. *)
LEMMA PassOnInOrder ==
    ASSUME DeliveryInv, OrderInv, Deliver, UNCHANGED vars, NEW r \in Receivers, PassOn(r)
    PROVE  OrderInv'
  <1>1. /\ DeliveryTypeOK /\ ReferenceInv /\ PublishedInv /\ LineInv /\ ArrivalInv
        /\ UNCHANGED <<sent, outlived, conn>>
    BY DEF DeliveryInv, MessageInv, OrderInv, Deliver, vars
  <1>2. /\ UNCHANGED <<sender, received, inbox>> /\ hand[r] # NoHand
        /\ hand' = [hand EXCEPT ![r] = NoHand]
    BY DEF PassOn
  <1>3. PICK c \in Conns, m \in Message : hand[r].client = c /\ hand[r].msg = m
    BY <1>1, <1>2, Typing
  <1>4. hand'[r] = NoHand /\ \A p \in Receivers \ {r} : hand'[p] = hand[p]
    BY <1>1, <1>2, Typing
  <1>5. \A p \in Receivers, k \in Message : Waits(k, p)' => Waits(k, p)
    BY <1>2, <1>4 DEF Waits
  <1>6. \A p \in Receivers, k, e \in Message : Ahead(k, e, p)' => Ahead(k, e, p)
    BY <1>2, <1>4 DEF Ahead
  <1>7. published' = published
    BY <1>2, NothingPublished
  <1>8. SendersGoOn
    BY <1>2 DEF SendersGoOn
  <1>9. CASE UNCHANGED queue
    BY <1>1, <1>2, <1>5, <1>6, <1>7, <1>8, <1>9, OrderShrinks DEF Reached, Follows
  <1>10. CASE queue' = [queue EXCEPT ![c] = Append(queue[c], m)]
    <2>1. queue'[c] = Append(queue[c], m) /\ \A d \in Conns \ {c} : queue'[d] = queue[d]
      BY <1>1, <1>10, Typing
    <2>2. PublishedInv'
      BY <1>1, <1>2, <1>5, <1>7 DEF PublishedInv
    <2>3. LineInv'
      <3>1. ASSUME NEW s \in Servers, NEW l \in Leftovers, NEW k \in Message
            PROVE  /\ Waits(k, Current(s))' => Waits(k, Current(s))
                   /\ Waits(k, Leftover(s, l))' => Waits(k, Leftover(s, l))
        <4>1. PICK p \in Receivers, o \in Receivers : p = Current(s) /\ o = Leftover(s, l)
          BY ReceiversOf
        <4>2. (Waits(k, p)' => Waits(k, p)) /\ (Waits(k, o)' => Waits(k, o))
          BY <1>5
        <4> QED
          BY <4>1, <4>2 DEF Waits
      <3> QED
        BY <1>1, <1>6, <3>1 DEF LineInv, Older
    <2>4. Waits(m, r) /\ m \in published
      BY <1>1, <1>2, <1>3 DEF Waits, PublishedInv
    <2>5. ASSUME conn[c].pc = "running"
          PROVE  /\ \A k \in Message : Reached(k, c) => Excused(k, m)
                 /\ \A k \in Message : Waits(k, Current(conn[c].server))' => Older(m, k)
      <3>1. PICK s \in Servers : s = conn[c].server /\ Home(r) = s
        BY <1>1, <1>3, <2>5, AtServer DEF DeliveryInv, HubInv, ReferenceInv
      <3>2. r = Current(s) \/ \E l \in Leftovers : r = Leftover(s, l)
        BY <3>1 DEF Receivers, Home, Current, Leftover
      <3>3. \A k \in published, e \in Message : Reached(k, c) /\ Waits(e, Current(s)) => Older(k, e)
        BY <1>1, <2>5, <3>1 DEF ArrivalInv
      <3>4. PICK p \in Receivers : p = Current(s)
        BY <3>1, ReceiversOf
      <3>5. CASE r = Current(s)
        <4>1. \A k \in published : Reached(k, c) => Older(k, m)
          BY <2>4, <3>3, <3>5
        <4>2. \A k \in Message : Reached(k, c) => Excused(k, m)
          <5>1. \A k \in Message : k.n \in Nat
            BY DEF Message
          <5> QED
            BY <2>4, <4>1, <5>1 DEF Excused, Older
        <4>3. ASSUME NEW k \in Message, Waits(k, r)'
              PROVE  Older(m, k)
          <5>1. In(k, inbox[r])
            BY <1>2, <1>4, <4>3 DEF Waits
          <5>2. Ahead(m, k, r)
            BY <1>2, <1>3, <5>1 DEF Ahead
          <5> QED
            BY <1>1, <5>2 DEF LineInv
        <4>4. \A k \in Message : Waits(k, Current(s))' => Waits(k, r)'
          BY <3>5 DEF Waits
        <4> QED
          BY <1>1, <3>1, <4>2, <4>3, <4>4 DEF Waits
      <3>6. CASE \E l \in Leftovers : r = Leftover(s, l)
        <4>1. m \in outlived
          BY <1>1, <2>4, <3>1, <3>6 DEF LineInv
        <4>2. \A k \in Message : Reached(k, c) => Excused(k, m)
          BY <2>4, <4>1 DEF Excused
        <4>3. \A k \in Message : Waits(k, Current(s)) => Older(m, k)
          BY <1>1, <2>4, <3>1, <3>6 DEF LineInv
        <4>4. \A k \in Message : Waits(k, Current(s))' => Waits(k, Current(s))
          <5>1. \A k \in Message : Waits(k, p)' => Waits(k, p)
            BY <1>5
          <5> QED
            BY <3>4, <5>1 DEF Waits
        <4> QED
          BY <1>1, <3>1, <4>2, <4>3, <4>4 DEF Waits
      <3> QED
        BY <3>2, <3>5, <3>6
    <2>6. ArrivalInv'
      BY <1>1, <1>2, <1>5, <1>7, <2>1, <2>5, Arrives
    <2> QED
      BY <2>2, <2>3, <2>6 DEF OrderInv
  <1>11. UNCHANGED queue \/ queue' = [queue EXCEPT ![c] = Append(queue[c], m)]
    BY <1>3 DEF PassOn, Enqueue
  <1> QED
    BY <1>9, <1>10, <1>11

-----------------------------------------------------------------------------
(* The steps of Hub, again. *)

(* A step of Hub that leaves what is on its way where it is, or loses it. *)
LEMMA HubStepInOrder ==
    ASSUME DeliveryInv, OrderInv, Next, UNCHANGED delivery,
           \A x \in Senders : sender'[x] = sender[x] \/ sender'[x] = NotSending,
           \A c \in Conns : /\ queue'[c] = queue[c] \/ queue'[c] = <<>>
                            /\ received'[c] = received[c] \/ received'[c] = <<>>,
           \A r \in Receivers : /\ inbox'[r] = inbox[r] \/ inbox'[r] = <<>>
                                /\ hand'[r] = hand[r] \/ hand'[r] = NoHand
    PROVE  OrderInv'
  <1>1. UNCHANGED <<sent, published, outlived>> /\ HubInv /\ ReferenceInv
    BY DEF delivery, DeliveryInv, MessageInv
  <1>2. SendersGoOn
    BY DEF SendersGoOn
  <1>3. \A r \in Receivers, m \in Message : Waits(m, r)' => Waits(m, r)
    BY EmptyFacts DEF Waits
  <1>4. \A r \in Receivers, m, e \in Message : Ahead(m, e, r)' => Ahead(m, e, r)
    BY EmptyFacts, PrecedesNothing DEF Ahead
  <1>5. \A c \in Conns, m \in Message : Reached(m, c)' => Reached(m, c)
    BY EmptyFacts DEF Reached
  <1>6. \A c \in Conns, m, e \in Message : Follows(m, e, c)' => Follows(m, e, c)
    BY EmptyFacts, PrecedesNothing DEF Follows
  <1>7. ASSUME NEW c \in Conns, conn'[c].pc = "running"
        PROVE  \/ \A m \in Message : ~Reached(m, c)'
               \/ conn[c].pc = "running" /\ conn'[c].server = conn[c].server
    <2>1. conn[c].pc \in {"running", "register"} /\ conn'[c].server = conn[c].server
      BY <1>1, <1>7, RunsOn
    <2>2. CASE conn[c].pc = "register"
      <3>1. queue[c] = <<>> /\ received[c] = <<>>
        BY <1>1, <2>2 DEF ReferenceInv
      <3>2. queue'[c] = <<>> /\ received'[c] = <<>>
        BY <3>1
      <3> QED
        BY <3>2, EmptyFacts DEF Reached
    <2> QED
      BY <2>1, <2>2
  <1> QED
    BY <1>1, <1>2, <1>3, <1>4, <1>5, <1>6, <1>7, OrderShrinks

LEMMA ConnectionStepInOrder ==
    ASSUME DeliveryInv, OrderInv, NEW c \in Conns, ConnectionStep(c)
    PROVE  OrderInv'
  <1>1. Next
    BY DEF ConnectionStep, ConnectFresh, RegisterStep, RequestStep, LeaveStep, Next, Loop
  <1>2. UNCHANGED <<sender, inbox, hand>> /\ UNCHANGED delivery
    BY DEF ConnectionStep, ConnectFresh, RegisterStep, RequestStep, LeaveStep, routing
  <1>3. queue' = queue \/ queue' = [queue EXCEPT ![c] = <<>>]
    BY DEF ConnectionStep, ConnectFresh, RegisterStep, RequestStep, LeaveStep, routing
  <1>4. received' = received \/ received' = [received EXCEPT ![c] = <<>>]
    BY DEF ConnectionStep, ConnectFresh, RegisterStep, RequestStep, LeaveStep, routing
  <1>5. queue \in [Conns -> Seq(Message)] /\ received \in [Conns -> Seq(Message)]
    BY Typing DEF DeliveryInv, MessageInv
  <1>6. \A d \in Conns : /\ queue'[d] = queue[d] \/ queue'[d] = <<>>
                         /\ received'[d] = received[d] \/ received'[d] = <<>>
    BY <1>3, <1>4, <1>5
  <1> QED
    BY <1>1, <1>2, <1>6, HubStepInOrder

LEMMA CrashLosingInOrder ==
    ASSUME DeliveryInv, OrderInv, NEW s \in Servers, CrashLosing(s), UNCHANGED delivery
    PROVE  OrderInv'
  <1>1. Next
    BY DEF CrashLosing, Next
  <1>2. /\ \A x \in Senders : sender'[x] = sender[x] \/ sender'[x] = NotSending
        /\ \A c \in Conns : /\ queue'[c] = queue[c] \/ queue'[c] = <<>>
                            /\ received'[c] = received[c] \/ received'[c] = <<>>
        /\ \A r \in Receivers : /\ inbox'[r] = inbox[r] \/ inbox'[r] = <<>>
                                /\ hand'[r] = hand[r] \/ hand'[r] = NoHand
    BY DEF CrashLosing
  <1> QED
    BY <1>1, <1>2, HubStepInOrder

(* The receiver that is left with the messages of a subscription that ended has them in the order of
   that subscription, and its server has none of the next one yet. *)
LEMMA LeaveInOrder ==
    ASSUME DeliveryInv, OrderInv, NEW s \in Servers, NEW k \in Leftovers,
           NEW n \in 0..MaxSent * Cardinality(Senders), Leave(s, k, n)
    PROVE  OrderInv'
  <1> DEFINE cur == Current(s)
             old == Leftover(s, k)
  <1>1. /\ DeliveryTypeOK /\ PublishedInv /\ LineInv /\ ArrivalInv
        /\ cur \in Receivers /\ old \in Receivers /\ cur # old
        /\ \A t \in Servers \ {s} : Current(t) \notin {cur, old}
        /\ \A t \in Servers, l \in Leftovers : Leftover(t, l) # cur /\ (Leftover(t, l) = old => t = s)
    BY RoutingLeftoversAssumption DEF DeliveryInv, MessageInv, OrderInv, Receivers, Current, Leftover
  <1>2. PICK q \in Seq(Message), h \in [client : Conns, msg : Message] \cup {NoHand} :
            q = inbox[cur] /\ h = hand[cur]
    BY <1>1, Typing
  <1> DEFINE p == SubSeq(q, 1, n)
  <1>3. /\ UNCHANGED <<conn, sender, queue, received, sent, published>>
        /\ n \in 0..Len(q)
        /\ inbox' = [inbox EXCEPT ![old] = p, ![cur] = <<>>]
        /\ hand' = [hand EXCEPT ![old] = h, ![cur] = NoHand]
        /\ outlived' = outlived \cup {q[i] : i \in 1..n} \cup ({h.msg} \ {None})
    BY <1>2 DEF Leave, UnsubscribeLeaving, Unsubscribe
  <1>4. /\ p \in Seq(Message)
        /\ \A m \in Message : In(m, p) => In(m, q) /\ m \in outlived'
        /\ \A m, e : Precedes(m, e, p) => Precedes(m, e, q)
    <2>1. DOMAIN p = 1..n /\ \A i \in 1..n : p[i] = q[i]
      BY <1>3
    <2>2. p \in Seq(Message) /\ \A m \in Message : In(m, p) => In(m, q)
      BY <1>3, PrefixFacts
    <2>3. \A m, e : Precedes(m, e, p) => Precedes(m, e, q)
      BY <1>3, PrecedesPrefix
    <2> HIDE DEF p
    <2>4. \A m \in Message : In(m, p) => m \in outlived'
      BY <1>3, <2>1 DEF In
    <2> QED
      BY <2>2, <2>3, <2>4
  <1> HIDE DEF p, cur, old
  <1>5. /\ inbox'[old] = p /\ inbox'[cur] = <<>>
        /\ \A r \in Receivers \ {cur, old} : inbox'[r] = inbox[r]
    <2> DEFINE moved == [inbox EXCEPT ![old] = p]
    <2>1. /\ moved \in [Receivers -> Seq(Message)]
          /\ moved[old] = p /\ \A r \in Receivers \ {old} : moved[r] = inbox[r]
      BY <1>1, <1>4, Typing
    <2>2. inbox' = [moved EXCEPT ![cur] = <<>>]
      BY <1>3
    <2> HIDE DEF moved
    <2> QED
      BY <1>1, <2>1, <2>2
  <1>6. /\ hand'[old] = h /\ hand'[cur] = NoHand
        /\ \A r \in Receivers \ {cur, old} : hand'[r] = hand[r]
    BY <1>1, <1>2, <1>3, Typing
  <1>7. ASSUME NEW m \in Message
        PROVE  /\ ~Waits(m, cur)'
               /\ Waits(m, old)' => Waits(m, cur) /\ m \in outlived'
               /\ \A r \in Receivers \ {cur, old} : Waits(m, r)' <=> Waits(m, r)
    <2>1. h # NoHand /\ h.msg = m => m \in outlived'
      BY <1>3, DeliveryNoneAssumption
    <2> QED
      BY <1>2, <1>4, <1>5, <1>6, <2>1, EmptyFacts DEF Waits
  <1>8. ASSUME NEW m \in Message, NEW e \in Message
        PROVE  /\ ~Ahead(m, e, cur)'
               /\ Ahead(m, e, old)' => Ahead(m, e, cur)
               /\ \A r \in Receivers \ {cur, old} : Ahead(m, e, r)' <=> Ahead(m, e, r)
    BY <1>2, <1>4, <1>5, <1>6, EmptyFacts, PrecedesNothing DEF Ahead
  <1>9. outlived \subseteq outlived'
    BY <1>3
  <1>10. PublishedInv'
    <2>1. \A r \in Receivers, m \in Message : Waits(m, r)' => m \in published'
      BY <1>1, <1>3, <1>7 DEF PublishedInv
    <2> QED
      BY <1>1, <1>3, <2>1 DEF PublishedInv
  (* What waits at the other receivers stays. *)
  <1>11. ASSUME NEW t \in Servers, NEW m \in Message
         PROVE  /\ Waits(m, Current(t))' => Waits(m, Current(t)) /\ t # s
                /\ \A l \in Leftovers : Waits(m, Leftover(t, l))' =>
                        Waits(m, Leftover(t, l)) \/ (t = s /\ m \in outlived')
    <2>1. Waits(m, Current(t))' => Waits(m, Current(t)) /\ t # s
      <3>1. PICK r \in Receivers : r = Current(t) /\ (t = s <=> r = cur) /\ (t # s => r # old)
        BY <1>1, ReceiversOf DEF cur
      <3>2. Waits(m, r)' => Waits(m, r) /\ t # s
        BY <1>7, <3>1
      <3> QED
        BY <3>1, <3>2 DEF Waits
    <2>2. ASSUME NEW l \in Leftovers, Waits(m, Leftover(t, l))'
          PROVE  Waits(m, Leftover(t, l)) \/ (t = s /\ m \in outlived')
      <3>1. PICK r \in Receivers : r = Leftover(t, l) /\ r # cur /\ (r = old => t = s)
        BY <1>1, ReceiversOf
      <3>2. Waits(m, r)'
        BY <2>2, <3>1 DEF Waits
      <3> QED
        BY <1>7, <3>1, <3>2
    <2> QED
      BY <2>1, <2>2
  <1>12. LineInv'
    <2>1. \A r \in Receivers, m, e \in Message : Ahead(m, e, r)' => Older(m, e)
      BY <1>1, <1>8 DEF LineInv
    <2>2. \A t \in Servers, l \in Leftovers, m, e \in Message :
            Waits(m, Leftover(t, l))' /\ Waits(e, Current(t))' => Older(m, e)
      BY <1>1, <1>11 DEF LineInv
    <2>3. \A t \in Servers, l \in Leftovers, m \in Message : Waits(m, Leftover(t, l))' => m \in outlived'
      BY <1>1, <1>9, <1>11 DEF LineInv
    <2> QED
      BY <2>1, <2>2, <2>3 DEF LineInv, Older
  <1>13. ArrivalInv'
    <2> SUFFICES ASSUME NEW c \in Conns, conn[c].pc = "running"
                 PROVE  /\ \A m, e \in Message : Follows(m, e, c)' => Excused(m, e)'
                        /\ \A m \in published, e \in Message :
                              Reached(m, c)' /\ Waits(e, Current(conn[c].server))' => Older(m, e)
      BY <1>3 DEF ArrivalInv, Older
    <2>1. /\ \A m, e \in Message : Follows(m, e, c) => Excused(m, e)
          /\ \A m \in published, e \in Message : Reached(m, c) /\ Waits(e, Current(conn[c].server)) => Older(m, e)
      BY <1>1 DEF ArrivalInv
    <2>2. \A m, e \in Message : Follows(m, e, c)' => Excused(m, e)'
      BY <1>3, <1>9, <2>1 DEF Follows, Excused
    <2>3. PICK t \in Servers : t = conn[c].server
      BY AtServer DEF DeliveryInv, HubInv
    <2>4. \A m \in Message : Reached(m, c)' => Reached(m, c)
      BY <1>3 DEF Reached
    <2>5. \A e \in Message : Waits(e, Current(t))' => Waits(e, Current(t))
      BY <1>11
    <2>6. published \subseteq Message
      BY <1>1 DEF DeliveryTypeOK
    <2>7. \A e \in Message : Waits(e, Current(conn[c].server))' => Waits(e, Current(t))'
      BY <1>3, <2>3 DEF Waits
    <2> QED
      BY <2>1, <2>2, <2>3, <2>4, <2>5, <2>6, <2>7
  <1> QED
    BY <1>10, <1>12, <1>13 DEF OrderInv

-----------------------------------------------------------------------------
LEMMA OrderInvNext ==
    ASSUME DeliveryInv, OrderInv, [DeliveryNext]_dvars
    PROVE  OrderInv'
  <1>1. ASSUME NEW x \in Senders, NEW s \in Servers, Send(x, s)
        PROVE  OrderInv'
    BY <1>1, SendInOrder
  <1>2. CASE Deliver
    <2>1. UNCHANGED vars /\ Transit
      BY <1>2 DEF Deliver
    <2>2. ASSUME NEW x \in Senders, SendStep(x)
          PROVE  OrderInv'
      BY <1>2, <2>1, <2>2, SendQueuedInOrder, SendRefusedInOrder, PublishInOrder DEF SendStep
    <2>3. ASSUME NEW r \in Receivers, Receive(r) \/ PassOn(r)
          PROVE  OrderInv'
      BY <1>2, <2>1, <2>3, ReceiveInOrder, PassOnInOrder
    <2>4. ASSUME NEW c \in Conns, WritePump(c)
          PROVE  OrderInv'
      BY <1>2, <2>1, <2>4, WritePumpInOrder
    <2> QED
      BY <2>1, <2>2, <2>3, <2>4 DEF Transit
  <1>3. ASSUME NEW c \in Conns, ConnectionStep(c)
        PROVE  OrderInv'
    BY <1>3, ConnectionStepInOrder
  <1>4. ASSUME NEW s \in Servers, ServerStep(s)
        PROVE  OrderInv'
    <2>1. CASE (LoopStep(s) \/ UnregisterDoneStep(s) \/ KickStep(s)) /\ UNCHANGED delivery
      <3>1. Next /\ UNCHANGED <<sender, queue, received, inbox, hand>>
        BY <2>1 DEF LoopStep, UnregisterDoneStep, KickStep, routing, Next, Loop
      <3> QED
        BY <2>1, <3>1, HubStepInOrder
    <2>2. CASE CrashLosing(s) /\ UNCHANGED delivery
      BY <2>2, CrashLosingInOrder
    <2>3. ASSUME NEW k \in Leftovers, NEW n \in 0..MaxSent * Cardinality(Senders), Leave(s, k, n)
          PROVE  OrderInv'
      BY <2>3, LeaveInOrder
    <2> QED
      BY <1>4, <2>1, <2>2, <2>3 DEF ServerStep
  <1>5. CASE ExpireStep /\ UNCHANGED delivery
    <2>1. Next /\ UNCHANGED <<sender, queue, received, inbox, hand>>
      BY <1>5 DEF ExpireStep, routing, Next
    <2> QED
      BY <1>5, <2>1, HubStepInOrder
  <1>6. CASE UNCHANGED dvars
    BY <1>6 DEF OrderInv, PublishedInv, LineInv, ArrivalInv, Ahead, Follows, Waits, Reached, Excused, Older,
                dvars, vars, routing, delivery
  <1> QED
    BY <1>1, <1>2, <1>3, <1>4, <1>5, <1>6 DEF DeliveryNext

LEMMA OrderInvInit ==
    ASSUME DeliveryInit
    PROVE  OrderInv
  <1>1. /\ sender = [x \in Senders |-> NotSending]
        /\ inbox = [r \in Receivers |-> <<>>] /\ hand = [r \in Receivers |-> NoHand]
        /\ published = {} /\ conn = [c \in Conns |-> NoConn]
    BY DEF DeliveryInit, RoutingInit, Init
  <1>2. \A r \in Receivers, m, e \in Message : ~Waits(m, r) /\ ~Ahead(m, e, r)
    BY <1>1, EmptyFacts, PrecedesNothing DEF Waits, Ahead
  <1>3. PublishedInv
    BY <1>1, <1>2 DEF PublishedInv
  <1>4. LineInv
    BY <1>2, ReceiversOf DEF LineInv
  <1>5. ArrivalInv
    BY <1>1 DEF ArrivalInv, NoConn
  <1> QED
    BY <1>3, <1>4, <1>5 DEF OrderInv

(* A connection gets the messages of a peer in order, but for one that went through pub/sub when a later
   one did not, or when its subscription ended under it (handler.go:257-270, pubsub.go:96-115). *)
THEOREM InOrderAlways == DeliverySpec => []InOrder
  <1>1. ASSUME DeliveryInv, OrderInv, NEW c \in Conns, NEW i \in DOMAIN received[c], NEW j \in DOMAIN received[c],
               i < j, received[c][i].from = received[c][j].from, received[c][j].n < received[c][i].n
        PROVE  received[c][j] \in published /\ (received[c][i] \notin published \/ received[c][j] \in outlived)
    <2>1. received[c] \in Seq(Message) /\ ReferenceInv /\ ArrivalInv
      BY <1>1, Typing DEF DeliveryInv, MessageInv, OrderInv
    <2>2. PICK m \in Message, e \in Message : m = received[c][i] /\ e = received[c][j]
      BY <1>1, <2>1
    <2>3. Precedes(m, e, received[c]) /\ received[c] # <<>>
      BY <1>1, <2>2 DEF Precedes
    <2>4. conn[c].pc = "running"
      BY <2>1, <2>3 DEF ReferenceInv
    <2>5. Excused(m, e)
      BY <2>1, <2>3, <2>4 DEF ArrivalInv, Follows
    <2> QED
      BY <1>1, <2>2, <2>5 DEF Excused
  <1>2. DeliveryInv /\ OrderInv => InOrder
    BY <1>1 DEF InOrder
  <1>3. DeliveryInit => DeliveryInv /\ OrderInv
    BY DeliveryInvInit, OrderInvInit
  <1>4. DeliveryInv /\ OrderInv /\ [DeliveryNext]_dvars => DeliveryInv' /\ OrderInv'
    BY DeliveryInvNext, OrderInvNext
  <1> QED
    BY <1>2, <1>3, <1>4, PTL DEF DeliverySpec
=============================================================================
