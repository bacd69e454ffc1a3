------------------------------ MODULE RingingProofs ------------------------------
(***************************************************************************)
(* A call to a user adds nothing to what the user's connections do: a      *)
(* behaviour of Ringing is one of Hub, and what is proved of Hub holds of  *)
(* it.  The types of what Ringing adds, and that a connected user is told  *)
(* of a call, and that it is over.  Where a cleanup may meet a connection. *)
(***************************************************************************)
EXTENDS Ringing, HubPromptProofs

(* Every step that runs handlers of a call is a step of Hub, or leaves the connections alone. *)
LEMMA StepOfHub ==
    ASSUME [RingingNext]_rvars
    PROVE  [Next]_vars
  <1>1. ASSUME StartCall \/ GiveUp \/ CallerStep \/ SessionExpires
        PROVE  UNCHANGED vars
    BY <1>1 DEF StartCall, GiveUp, CallerStep, CreateExec, SendRing, MarkEnded, SendEnded, CallerSends,
                SessionExpires
  <1>2. ASSUME NEW c \in Conns, ReconnectStep(c) \/ CheckCall(c) \/ CheckReply(c) \/ Answer(c)
        PROVE  UNCHANGED vars
    BY <1>2 DEF ReconnectStep, ReconnectRead, ReconnectTell, CheckCall, CheckReply, Answer
  <1>3. ASSUME NEW c \in Conns, NEW s \in Servers, ConnectOnce(c, s)
        PROVE  Next
    BY <1>3 DEF ConnectOnce, Next
  <1>4. ASSUME NEW c \in Conns, NEW s \in Servers, Take(s, c)
        PROVE  UNCHANGED vars
    BY <1>4 DEF Take
  <1>5. ASSUME NEW c \in Conns, NEW s \in Servers, Register(s, c) \/ Unregister(s, c)
        PROVE  Next
    BY <1>5 DEF Register, Unregister, Next, Loop
  <1>6. ASSUME NEW c \in Conns, ReadEnds(c)
        PROVE  Next
    BY <1>6 DEF ReadEnds, Next
  <1>7. ASSUME NEW s \in Servers, LoopGoesOn(s)
        PROVE  Next
    BY <1>7 DEF LoopGoesOn, Next, Loop
  <1>8. ASSUME NEW s \in Servers, DisconnectStep(s)
        PROVE  Next \/ UNCHANGED vars
    BY <1>8 DEF DisconnectStep, DisconnectRead, DisconnectEnd, Next, Loop
  <1>9. ASSUME HubStep
        PROVE  Next
    BY <1>9 DEF HubStep, Next
  <1>10. ASSUME UNCHANGED rvars
         PROVE  UNCHANGED vars
    BY <1>10 DEF rvars
  <1> QED
    BY <1>1, <1>2, <1>3, <1>4, <1>5, <1>6, <1>7, <1>8, <1>9, <1>10 DEF RingingNext

(* The connections of a user who is called behave like those of Hub. *)
THEOREM RingingImplementsHub == RingingSpec => Spec
  <1>1. RingingInit => Init
    BY DEF RingingInit
  <1> QED
    BY <1>1, StepOfHub, PTL DEF RingingSpec, Spec

(* So a hub that waits is subscribed exactly while it has a client, and no slot is left behind, also
   while calls are started and cleaned up on its loop (handler.go:127-137, 177-194). *)
THEOREM RingingSubscribed ==
    ASSUME Undisturbed
    PROVE  RingingSpec => [](TypeOK /\ SubscribedWithClient /\ SlotBacked)
  <1>1. ~MayFail
    BY DEF Undisturbed
  <1> QED
    BY <1>1, RingingImplementsHub, HubTypeCorrect, SubscribedAlways, SlotBackedAlways, PTL

(* And a user who is connected is online for the caller, on the newest connection, if handshakes do
   not overlap and kicks are over within the pause (call.go:71, handler.go:294-320, 397). *)
THEOREM RingingOnline ==
    ASSUME Orderly
    PROVE  RingingSpec => []OnlineWhenConnected /\ NewestSurvives
  BY RingingImplementsHub, OnlineAlways, NewestSurvivesAlways, PTL

-----------------------------------------------------------------------------
(* Types. *)

Called == [Handlers -> 0..Returned]
Reconnecting == [pc : {"read", "tell", "done"}, server : Servers]

LEMMA SendType ==
    ASSUME RingingTypeOK, NEW s, NEW told \in [Conns -> Messages], SendToUser(s, told)
    PROVE  shown' \in [Conns -> SUBSET Messages]
  BY DEF RingingTypeOK, SendToUser

(* The caller's handlers: the step a handler is at, and where CallerOn takes it. *)
LEMMA StepAt ==
    ASSUME caller \in Called
    PROVE  /\ CallerAt("start", "exec") <=> caller["start"] = 1
           /\ CallerAt("start", "send") <=> caller["start"] = 2
           /\ CallerAt("end", "cas") <=> caller["end"] = 1
           /\ CallerAt("end", "send") <=> caller["end"] = 2
  BY DEF CallerAt, Order

LEMMA CallerGoes ==
    ASSUME caller \in Called, NEW op \in Handlers, caller[op] \in {0, 1, 2},
           caller' = [caller EXCEPT ![op] = @ + 1]
    PROVE  /\ caller' \in Called /\ caller'[op] = caller[op] + 1
           /\ \A other \in Handlers \ {op} : caller'[other] = caller[other]
  BY DEF Called, Returned

LEMMA CallerTypes ==
    ASSUME RingingTypeOK, StartCall \/ GiveUp \/ CallerStep
    PROVE  RingingTypeOK'
  <1>1. caller' \in Called
    <2>1. caller \in Called /\ "start" \in Handlers /\ "end" \in Handlers
      BY DEF RingingTypeOK, Called, Handlers
    <2>2. CASE StartCall \/ GiveUp
      BY <2>1, <2>2 DEF StartCall, GiveUp, Called, Begun, Returned
    <2>3. CASE CallerStep
      <3>1. PICK op \in Handlers : caller[op] \in {1, 2} /\ CallerOn(op)
        BY <2>1, <2>3 DEF CallerStep, CreateExec, SendRing, MarkEnded, SendEnded, CallerSends, CallerAt
      <3> QED
        BY <2>1, <3>1, CallerGoes DEF CallerOn
    <2> QED
      BY <2>2, <2>3
  <1>2. shown' \in [Conns -> SUBSET Messages] /\ pushes' \subseteq Pushes
    <2>1. ASSUME NEW op, NEW m \in Messages, NEW P \in SUBSET Pushes, CallerSends(op, m, P)
          PROVE  shown' \in [Conns -> SUBSET Messages] /\ pushes' \subseteq Pushes
      <3>1. SendToUser(CallerServer, [c \in Conns |-> m]) /\ pushes' = pushes \cup P
        BY <2>1 DEF CallerSends
      <3>2. [c \in Conns |-> m] \in [Conns -> Messages]
        OBVIOUS
      <3> QED
        BY <3>1, <3>2, SendType DEF RingingTypeOK
    <2>2. CASE SendRing
      BY <2>1, <2>2 DEF SendRing, Messages, Pushes
    <2>3. CASE SendEnded
      BY <2>1, <2>3 DEF SendEnded, Messages, Pushes
    <2>4. CASE StartCall \/ GiveUp \/ CreateExec \/ MarkEnded
      BY <2>4 DEF StartCall, GiveUp, CreateExec, MarkEnded, RingingTypeOK
    <2> QED
      BY <2>2, <2>3, <2>4 DEF CallerStep
  <1>3. /\ call' \in {"none", "ringing", "over"} /\ online' \in BOOLEAN
        /\ UNCHANGED <<reconnect, cleanup, taken, check>>
    BY DEF StartCall, GiveUp, CallerStep, CreateExec, SendRing, MarkEnded, SendEnded, CallerSends, RingingTypeOK
  <1> QED
    BY <1>1, <1>2, <1>3 DEF RingingTypeOK, Called

(* The goroutine of a reconnect is at pc on server s. *)
LEMMA ReconnectType ==
    ASSUME RingingTypeOK, NEW c \in Conns, reconnect[c] # NoReconnect, NEW pc \in {"tell", "done"},
           reconnect' = [reconnect EXCEPT ![c].pc = pc]
    PROVE  reconnect' \in [Conns -> Reconnecting \cup {NoReconnect}]
  <1> DEFINE r == reconnect[c]
             next == [r EXCEPT !.pc = pc]
  <1>1. r \in Reconnecting
    BY DEF RingingTypeOK, Reconnecting
  <1>2. next \in Reconnecting
    BY <1>1 DEF Reconnecting
  <1>3. reconnect' = [reconnect EXCEPT ![c] = next]
    OBVIOUS
  <1> HIDE DEF next
  <1> QED
    BY <1>2, <1>3 DEF RingingTypeOK, Reconnecting

LEMMA ReconnectTypes ==
    ASSUME RingingTypeOK, NEW c \in Conns, ReconnectStep(c)
    PROVE  RingingTypeOK'
  <1>1. PICK pc \in {"tell", "done"} : reconnect' = [reconnect EXCEPT ![c].pc = pc]
    BY DEF ReconnectStep, ReconnectRead, ReconnectTell
  <1>2. reconnect' \in [Conns -> Reconnecting \cup {NoReconnect}]
    <2>1. reconnect[c] # NoReconnect
      BY DEF ReconnectStep, ReconnectRead, ReconnectTell, NoReconnect
    <2> QED
      BY <1>1, <2>1, ReconnectType
  <1>3. shown' \in [Conns -> SUBSET Messages]
    <2>1. CASE ReconnectRead(c)
      BY <2>1 DEF ReconnectRead, RingingTypeOK
    <2>2. CASE ReconnectTell(c)
      <3> DEFINE told == [d \in Conns |-> IF d = c THEN "ring" ELSE "stray"]
      <3>1. told \in [Conns -> Messages]
        BY DEF Messages
      <3>2. SendToUser(reconnect[c].server, told)
        BY <2>2 DEF ReconnectTell
      <3> QED
        BY <3>1, <3>2, SendType
    <2> QED
      BY <2>1, <2>2 DEF ReconnectStep
  <1>4. UNCHANGED <<call, caller, online, cleanup, taken, check, pushes>>
    BY DEF ReconnectStep, ReconnectRead, ReconnectTell
  <1> QED
    BY <1>2, <1>3, <1>4 DEF RingingTypeOK, Reconnecting

LEMMA ConnectionTypes ==
    ASSUME RingingTypeOK, NEW c \in Conns,
           \/ \E s \in Servers : ConnectOnce(c, s) \/ Take(s, c) \/ Register(s, c)
           \/ CheckCall(c) \/ CheckReply(c) \/ Answer(c) \/ ReadEnds(c)
    PROVE  RingingTypeOK'
  <1>1. ASSUME NEW s \in Servers, ConnectOnce(c, s) \/ Take(s, c)
        PROVE  RingingTypeOK'
    BY <1>1 DEF ConnectOnce, Take, ringing, RingingTypeOK
  <1>2. ASSUME NEW s \in Servers, Register(s, c)
        PROVE  RingingTypeOK'
    <2> DEFINE fresh == [pc |-> "read", server |-> s]
    <2>1. fresh \in Reconnecting
      BY DEF Reconnecting
    <2>2. /\ reconnect' = [reconnect EXCEPT ![c] = fresh] /\ taken' = taken \ {c}
          /\ UNCHANGED <<call, caller, online, shown, cleanup, check, pushes>>
      BY <1>2 DEF Register
    <2> HIDE DEF fresh
    <2> QED
      BY <2>1, <2>2 DEF RingingTypeOK, Reconnecting
  <1>3. CASE CheckCall(c)
    <2>1. PICK m \in Messages : check' = [check EXCEPT ![c] = m]
      BY <1>3 DEF CheckCall, Messages
    <2> QED
      BY <1>3, <2>1 DEF CheckCall, RingingTypeOK
  <1>4. CASE CheckReply(c)
    BY <1>4 DEF CheckReply, RingingTypeOK
  <1>5. CASE Answer(c)
    BY <1>5 DEF Answer, RingingTypeOK
  <1>6. CASE ReadEnds(c)
    BY <1>6 DEF ReadEnds, RingingTypeOK
  <1> QED
    BY <1>1, <1>2, <1>3, <1>4, <1>5, <1>6

LEMMA ServerTypes ==
    ASSUME RingingTypeOK, NEW s \in Servers,
           (\E c \in Conns : Unregister(s, c)) \/ LoopGoesOn(s) \/ DisconnectStep(s)
    PROVE  RingingTypeOK'
  <1>1. CASE (\E c \in Conns : Unregister(s, c)) \/ LoopGoesOn(s)
    BY <1>1 DEF Unregister, LoopGoesOn, ringing, RingingTypeOK
  <1>2. CASE DisconnectRead(s)
    BY <1>2 DEF DisconnectRead, RingingTypeOK
  <1>3. CASE DisconnectEnd(s)
    BY <1>3 DEF DisconnectEnd, RingingTypeOK
  <1> QED
    BY <1>1, <1>2, <1>3 DEF DisconnectStep

(* What is sent to a connection, asked of the push service and done by the goroutines of a call is of
   the kinds the module names, whatever the number of connections and servers. *)
THEOREM RingingTypeCorrect == RingingSpec => []RingingTypeOK
  <1>1. RingingInit => RingingTypeOK
    <2> SUFFICES ASSUME RingingInit
                 PROVE  RingingTypeOK
      OBVIOUS
    <2>1. caller \in [Handlers -> 0..Returned]
      BY DEF RingingInit, Returned
    <2> QED
      BY <2>1 DEF RingingInit, RingingTypeOK
  <1>2. RingingTypeOK /\ [RingingNext]_rvars => RingingTypeOK'
    <2> SUFFICES ASSUME RingingTypeOK, [RingingNext]_rvars
                 PROVE  RingingTypeOK'
      OBVIOUS
    <2>1. CASE HubStep \/ SessionExpires \/ UNCHANGED rvars
      BY <2>1 DEF HubStep, SessionExpires, rvars, ringing, RingingTypeOK
    <2> QED
      BY <2>1, CallerTypes, ReconnectTypes, ConnectionTypes, ServerTypes DEF RingingNext
  <1> QED
    BY <1>1, <1>2, PTL DEF RingingSpec

-----------------------------------------------------------------------------
(* Who is told. *)

(* There is a call once StartCall has stored it, and the caller made it over before the user is told
   so. *)
CallerInv ==
    /\ call = "ringing" \/ caller["end"] # 0 => caller["start"] \in {2, Returned}
    /\ caller["end"] \in {2, Returned} => call = "over"

(* The goroutine of a reconnect starts with the registration, and no ring reaches the connection
   before. *)
RegisteredInv ==
    \A c \in Conns :
        /\ Newcomer(c) => reconnect[c] = NoReconnect
        /\ Served(c) => reconnect[c] # NoReconnect
        /\ reconnect[c] = NoReconnect => "ring" \notin shown[c] /\ check[c] # "ring"

(* OverLearned, and that it stays so: it holds already of whoever is about to be told of a call that
   was read as ringing. *)
OverKnown ==
    \A c \in Conns :
        /\ caller["end"] = Returned /\ Beating(c)
        /\ "ring" \in shown[c] \/ reconnect[c].pc = "tell" \/ check[c] = "ring"
        => Dismissed(c)

(* Inductive together with the facts about the connections. *)
ToldInv == CallerInv /\ RegisteredInv /\ RingExpected /\ OverKnown
Facts == RingingTypeOK /\ PromptInv /\ MapInv

(* SendToUser adds its message to what some of the clients that a map holds were told. *)
LEMMA SendAdds ==
    ASSUME Facts, NEW s \in Servers, NEW told, SendToUser(s, told), NEW c \in Conns
    PROVE  /\ shown[c] \subseteq shown'[c]
           /\ shown'[c] \subseteq shown[c] \cup {told[c]}
           /\ shown'[c] # shown[c] => Served(c)
  <1>1. PICK to \in Recipients(s) :
            shown' = [d \in Conns |-> IF d \in to /\ conn[d].open THEN shown[d] \cup {told[d]} ELSE shown[d]]
    BY DEF SendToUser
  <1>2. subscribed \subseteq Servers
    BY DEF Facts, PromptInv, HubInv, TypeOK
  <1>3. c \in to => \E t \in Servers : clients[t] = c
    BY <1>1, <1>2 DEF Recipients
  <1>4. c \in to => Served(c)
    BY <1>3 DEF Facts, MapInv
  <1> QED
    BY <1>1, <1>4

(* With one connection at a time, a message for the user reaches the one that is open, from whatever
   server it is sent: no other client is in a map. *)
LEMMA Reaches ==
    ASSUME Facts, Orderly, NEW s \in Servers, NEW told, SendToUser(s, told), NEW c \in Conns, Beating(c)
    PROVE  told[c] \in shown'[c]
  <1>1. PICK to \in Recipients(s) :
            shown' = [d \in Conns |-> IF d \in to /\ conn[d].open THEN shown[d] \cup {told[d]} ELSE shown[d]]
    BY DEF SendToUser
  <1>2. conn[c].server \in subscribed /\ clients[conn[c].server] = c /\ Holder(c) /\ conn[c].open
    BY MapFacts DEF Facts, Beating
  <1>3. clients[s] \in Conns \cup {None}
    BY Typed DEF Facts, PromptInv, HubInv
  <1>4. clients[s] # None => clients[s] = c
    <2> SUFFICES ASSUME NEW d \in Conns, clients[s] = d
                 PROVE  d = c
      BY <1>3
    <2>1. Holder(d)
      BY DEF Facts, MapInv, Served, Holder
    <2> QED
      BY <1>2, <2>1 DEF Facts, PromptInv, HolderInv
  <1>5. c \in to
    <2> DEFINE all == {clients[t] : t \in subscribed}
    <2>1. c \in all
      BY <1>2
    <2>2. CASE clients[s] = None
      BY <1>1, <2>1, <2>2 DEF Recipients
    <2>3. CASE clients[s] = c
      <3>1. c # None
        BY HubNoneAssumption
      <3> QED
        BY <1>1, <1>2, <2>3, <3>1 DEF Recipients
    <2> QED
      BY <1>4, <2>2, <2>3
  <1> QED
    BY <1>1, <1>2, <1>5

(* A step that tells nobody anything, and brings no connection. *)
LEMMA NobodyTold ==
    ASSUME ToldInv, UNCHANGED <<caller, shown, reconnect, check>>, call' \in {call, "over"},
           \A c \in Conns : /\ Beating(c)' => Beating(c)
                            /\ Newcomer(c)' => Newcomer(c)
                            /\ Served(c)' => Served(c)
    PROVE  ToldInv'
  <1>1. CallerInv'
    BY DEF ToldInv, CallerInv
  <1>2. RegisteredInv'
    BY DEF ToldInv, RegisteredInv
  <1>3. RingExpected'
    BY DEF ToldInv, RingExpected, Rings, CallerAt
  <1>4. OverKnown'
    BY DEF ToldInv, OverKnown, Dismissed
  <1> QED
    BY <1>1, <1>2, <1>3, <1>4 DEF ToldInv

(* The hub goes on, or cleans up the call: nobody new is connected. *)
LEMMA HubGoesOn ==
    ASSUME Facts, ToldInv,
           \/ HubStep
           \/ \E s \in Servers : (\E c \in Conns : Unregister(s, c)) \/ LoopGoesOn(s) \/ DisconnectStep(s)
           \/ \E c \in Conns : Answer(c) \/ \E s \in Servers : Take(s, c)
           \/ SessionExpires
           \/ UNCHANGED rvars
    PROVE  ToldInv'
  <1>1. UNCHANGED <<caller, shown, reconnect, check>> /\ call' \in {call, "over"}
    BY DEF HubStep, Unregister, LoopGoesOn, DisconnectStep, DisconnectRead, DisconnectEnd, Answer, Take,
           SessionExpires, rvars, ringing
  <1>2. Onward \/ UNCHANGED vars
    BY DEF HubStep, Unregister, LoopGoesOn, DisconnectStep, DisconnectRead, DisconnectEnd, Answer, Take,
           SessionExpires, rvars, Onward
  <1>3. ASSUME NEW c \in Conns
        PROVE  /\ Beating(c)' => Beating(c)
               /\ Newcomer(c)' => Newcomer(c)
               /\ Served(c)' => Served(c)
    <2>1. CASE Onward
      <3>1. Further(c)
        BY <2>1, OnwardMoves DEF Facts, PromptInv
      <3> QED
        BY <3>1 DEF Further, Beating, On, Newcomer
    <2>2. CASE UNCHANGED vars
      BY <2>2 DEF vars, Beating, On, Newcomer, Served
    <2> QED
      BY <1>2, <2>1, <2>2
  <1> QED
    BY <1>1, <1>3, NobodyTold

(* Nobody is told anything by the first steps of the caller's handlers. *)
LEMMA CallerBegins ==
    ASSUME Facts, ToldInv, StartCall \/ GiveUp \/ CreateExec \/ MarkEnded
    PROVE  ToldInv'
  <1>1. UNCHANGED <<vars, shown, reconnect, check>>
    BY DEF StartCall, GiveUp, CreateExec, MarkEnded
  <1>2. RegisteredInv'
    BY <1>1 DEF ToldInv, RegisteredInv, vars, Newcomer, Served
  <1>3. caller \in Called /\ "start" \in Handlers /\ "end" \in Handlers /\ CallerInv
    BY DEF Facts, RingingTypeOK, Called, Handlers, ToldInv
  <1>4. /\ CallerInv'
        /\ caller' \in Called
        /\ caller'["end"] # Returned \/ (caller["end"] = Returned /\ call' = call)
        /\ call' = "ringing" => call = "ringing" \/ caller'["start"] = 2
        /\ caller["start"] = 2 => caller'["start"] = 2
    <2>1. CASE StartCall
      BY <1>3, <2>1 DEF StartCall, CallerInv, Called, Begun, Returned
    <2>2. CASE GiveUp
      BY <1>3, <2>2 DEF GiveUp, CallerInv, Called, Begun, Returned
    <2>3. CASE CreateExec
      BY <1>3, <2>3, StepAt, CallerGoes DEF CreateExec, CallerOn, CallerInv, Called, Returned
    <2>4. CASE MarkEnded
      BY <1>3, <2>4, StepAt, CallerGoes DEF MarkEnded, CallerOn, CallerInv, Called, Returned
    <2> QED
      BY <2>1, <2>2, <2>3, <2>4
  <1>5. RingExpected'
    <2>1. CallerAt("start", "send") => caller["start"] = 2
      BY <1>3, StepAt
    <2>2. caller'["start"] = 2 => CallerAt("start", "send")'
      BY DEF CallerAt, Order
    <2> QED
      BY <1>1, <1>4, <2>1, <2>2 DEF ToldInv, RingExpected, vars, Beating, On, Rings
  <1>6. OverKnown'
    BY <1>1, <1>4 DEF ToldInv, OverKnown, Dismissed, vars, Beating, On
  <1> QED
    BY <1>2, <1>4, <1>5, <1>6 DEF ToldInv

(* The caller's handlers tell the user. *)
LEMMA CallerTells ==
    ASSUME Facts, Orderly, ToldInv, SendRing \/ SendEnded
    PROVE  ToldInv'
  <1>0. caller \in Called /\ "start" \in Handlers /\ "end" \in Handlers /\ CallerInv
    BY DEF Facts, RingingTypeOK, Called, Handlers, ToldInv
  <1>1. PICK op \in Handlers, m \in Messages :
            /\ op = "start" => m \in {"ring", "stray"} /\ (call = "over" => m = "stray")
            /\ op = "end" => m = "over"
            /\ CallerAt(op, "send")
            /\ \E P \in SUBSET Pushes : CallerSends(op, m, P)
    <2>1. {} \in SUBSET Pushes /\ {"incoming"} \in SUBSET Pushes /\ {"cancelled"} \in SUBSET Pushes
      BY DEF Pushes
    <2>2. CASE SendRing
      BY <1>0, <2>1, <2>2 DEF SendRing, CallerSends, Messages
    <2>3. CASE SendEnded
      BY <1>0, <2>1, <2>3 DEF SendEnded, CallerSends, Messages
    <2> QED
      BY <2>2, <2>3
  <1> DEFINE told == [c \in Conns |-> m]
  <1>2. SendToUser(CallerServer, told) /\ CallerOn(op) /\ UNCHANGED <<vars, call, reconnect, check>>
    BY <1>1 DEF CallerSends
  <1>3. ASSUME NEW c \in Conns
        PROVE  /\ told[c] = m
               /\ shown[c] \subseteq shown'[c] /\ shown'[c] \subseteq shown[c] \cup {told[c]}
               /\ shown'[c] # shown[c] => Served(c)
               /\ Beating(c) => told[c] \in shown'[c]
    <2>1. told[c] = m
      OBVIOUS
    <2> HIDE DEF told
    <2> QED
      BY <1>2, <1>3, <2>1, SendAdds, Reaches, RingingServerAssumption
  <1>4. \A c \in Conns : /\ shown[c] \subseteq shown'[c] /\ shown'[c] \subseteq shown[c] \cup {m}
                         /\ shown'[c] # shown[c] => Served(c)
                         /\ Beating(c) => m \in shown'[c]
    BY <1>3
  <1> HIDE DEF told
  <1>5. \A c \in Conns : /\ Beating(c)' <=> Beating(c)
                         /\ Newcomer(c)' <=> Newcomer(c)
                         /\ Served(c)' <=> Served(c)
    BY <1>2 DEF vars, Beating, On, Newcomer, Served
  <1>6. caller[op] = 2
    <2>1. CASE op = "start"
      BY <1>0, <1>1, <2>1, StepAt
    <2>2. CASE op = "end"
      BY <1>0, <1>1, <2>2, StepAt
    <2> QED
      BY <2>1, <2>2 DEF Handlers
  <1>7. caller'[op] = Returned /\ \A other \in Handlers \ {op} : caller'[other] = caller[other]
    <2>1. caller' = [caller EXCEPT ![op] = @ + 1]
      BY <1>2 DEF CallerOn
    <2>2. caller'[op] = caller[op] + 1 /\ \A other \in Handlers \ {op} : caller'[other] = caller[other]
      BY <1>0, <1>6, <2>1, CallerGoes
    <2> QED
      BY <1>6, <2>2 DEF Returned
  <1>8. CallerInv'
    BY <1>0, <1>2, <1>6, <1>7 DEF CallerInv, Handlers
  <1>9. RegisteredInv'
    BY <1>2, <1>4, <1>5 DEF ToldInv, RegisteredInv
  <1>10. CASE op = "start"
    <2>1. RingExpected'
      BY <1>1, <1>4, <1>5, <1>10 DEF RingExpected, Rings
    <2>2. caller'["end"] = Returned => caller["end"] = Returned /\ m = "stray"
      BY <1>0, <1>1, <1>7, <1>10 DEF CallerInv
    <2>3. OverKnown'
      BY <1>2, <1>4, <1>5, <2>2 DEF ToldInv, OverKnown, Dismissed
    <2> QED
      BY <1>8, <1>9, <2>1, <2>3 DEF ToldInv
  <1>11. CASE op = "end"
    <2>1. call = "over" /\ call' = "over"
      BY <1>0, <1>2, <1>6, <1>11 DEF CallerInv
    <2>2. RingExpected'
      BY <2>1 DEF RingExpected
    <2>3. OverKnown'
      BY <1>1, <1>4, <1>5, <1>11 DEF OverKnown, Dismissed
    <2> QED
      BY <1>8, <1>9, <2>2, <2>3 DEF ToldInv
  <1> QED
    BY <1>10, <1>11 DEF Handlers

(* A connection comes: nobody told it anything yet. *)
LEMMA ConnectTold ==
    ASSUME Facts, ToldInv, NEW c \in Conns, NEW s \in Servers, ConnectOnce(c, s)
    PROVE  ToldInv'
  <1>1. reconnect[c] = NoReconnect /\ UNCHANGED <<call, caller, shown, reconnect, check>>
    BY DEF ConnectOnce, Unused, ringing
  <1>2. conn'[c].pc \in Handshake /\ \A e \in Conns \ {c} : conn'[e] = conn[e]
    BY ConnectMoves DEF ConnectOnce, Facts, PromptInv
  <1>3. /\ ~Beating(c)' /\ ~Served(c)'
        /\ \A e \in Conns \ {c} : /\ Beating(e)' <=> Beating(e)
                                  /\ Newcomer(e)' <=> Newcomer(e)
                                  /\ Served(e)' <=> Served(e)
    BY <1>2 DEF Beating, On, Served, Newcomer, Handshake
  <1>4. CallerInv'
    BY <1>1 DEF ToldInv, CallerInv
  <1>5. RegisteredInv'
    BY <1>1, <1>3 DEF ToldInv, RegisteredInv
  <1>6. RingExpected'
    BY <1>1, <1>3 DEF ToldInv, RingExpected, Rings, CallerAt
  <1>7. OverKnown'
    BY <1>1, <1>3 DEF ToldInv, OverKnown, Dismissed
  <1> QED
    BY <1>4, <1>5, <1>6, <1>7 DEF ToldInv

(* It is registered: its reconnect will read the session. *)
LEMMA RegisterTold ==
    ASSUME Facts, ToldInv, NEW c \in Conns, NEW s \in Servers, Register(s, c)
    PROVE  ToldInv'
  <1> DEFINE fresh == [pc |-> "read", server |-> s]
  <1>1. fresh.pc = "read" /\ fresh # NoReconnect
    BY DEF NoReconnect
  <1>2. reconnect' = [reconnect EXCEPT ![c] = fresh] /\ UNCHANGED <<call, caller, shown, check>>
    BY DEF Register
  <1> HIDE DEF fresh
  <1>3. reconnect'[c] = fresh /\ \A e \in Conns \ {c} : reconnect'[e] = reconnect[e]
    BY <1>2 DEF Facts, RingingTypeOK
  <1>4. /\ conn[c].pc = "register" /\ conn'[c].pc = "running"
        /\ \A e \in Conns \ {c} : conn'[e].pc = conn[e].pc /\ (conn'[e].open => conn[e].open)
    BY RegisterMoves DEF Register, Facts, PromptInv
  <1>5. /\ Newcomer(c) /\ ~Newcomer(c)'
        /\ \A e \in Conns \ {c} : /\ Beating(e)' => Beating(e)
                                  /\ Newcomer(e)' <=> Newcomer(e)
                                  /\ Served(e)' <=> Served(e)
    BY <1>4 DEF Beating, On, Served, Newcomer, Handshake
  <1>6. "ring" \notin shown[c] /\ check[c] # "ring"
    BY <1>5 DEF ToldInv, RegisteredInv
  <1>7. CallerInv'
    BY <1>2 DEF ToldInv, CallerInv
  <1>8. RegisteredInv'
    BY <1>1, <1>2, <1>3, <1>5 DEF ToldInv, RegisteredInv
  <1>9. RingExpected'
    BY <1>1, <1>2, <1>3, <1>5 DEF ToldInv, RingExpected, Rings, CallerAt
  <1>10. OverKnown'
    BY <1>1, <1>2, <1>3, <1>5, <1>6 DEF ToldInv, OverKnown, Dismissed
  <1> QED
    BY <1>7, <1>8, <1>9, <1>10 DEF ToldInv

(* The goroutine of a reconnect reads the session, and rings. *)
LEMMA ReconnectPc ==
    ASSUME RingingTypeOK, NEW c \in Conns, reconnect[c] # NoReconnect, NEW pc \in {"tell", "done"},
           reconnect' = [reconnect EXCEPT ![c].pc = pc]
    PROVE  /\ reconnect'[c].pc = pc /\ reconnect'[c] # NoReconnect /\ reconnect[c].server \in Servers
           /\ \A e \in Conns \ {c} : reconnect'[e] = reconnect[e]
  <1> DEFINE r == reconnect[c]
             next == [r EXCEPT !.pc = pc]
  <1>1. r \in Reconnecting
    BY DEF RingingTypeOK, Reconnecting
  <1>2. next.pc = pc /\ reconnect' = [reconnect EXCEPT ![c] = next]
    BY <1>1 DEF Reconnecting
  <1> HIDE DEF next
  <1>3. reconnect'[c] = next /\ \A e \in Conns \ {c} : reconnect'[e] = reconnect[e]
    BY <1>2 DEF RingingTypeOK
  <1> QED
    BY <1>1, <1>2, <1>3 DEF NoReconnect, Reconnecting

LEMMA ReconnectTold ==
    ASSUME Facts, Orderly, ToldInv, NEW c \in Conns, ReconnectStep(c)
    PROVE  ToldInv'
  <1>1. reconnect[c] # NoReconnect /\ UNCHANGED <<vars, call, caller, check>>
    BY DEF ReconnectStep, ReconnectRead, ReconnectTell, NoReconnect
  <1>2. \A e \in Conns : /\ Beating(e)' <=> Beating(e)
                         /\ Newcomer(e)' <=> Newcomer(e)
                         /\ Served(e)' <=> Served(e)
    BY <1>1 DEF vars, Beating, On, Newcomer, Served
  <1>3. CallerInv'
    BY <1>1 DEF ToldInv, CallerInv
  <1>4. CASE ReconnectRead(c)
    <2>1. PICK pc \in {"tell", "done"} : /\ reconnect' = [reconnect EXCEPT ![c].pc = pc]
                                         /\ pc = "tell" <=> call = "ringing"
      BY <1>4 DEF ReconnectRead
    <2>2. /\ reconnect'[c].pc = pc /\ reconnect'[c] # NoReconnect /\ shown' = shown
          /\ \A e \in Conns \ {c} : reconnect'[e] = reconnect[e]
      BY <1>1, <1>4, <2>1, ReconnectPc DEF Facts, ReconnectRead
    <2>3. RegisteredInv'
      BY <1>1, <1>2, <2>2 DEF ToldInv, RegisteredInv
    <2>4. RingExpected'
      BY <1>1, <1>2, <2>1, <2>2 DEF ToldInv, RingExpected, Rings, CallerAt
    <2>5. OverKnown'
      BY <1>1, <1>2, <2>1, <2>2 DEF ToldInv, OverKnown, CallerInv, Dismissed
    <2> QED
      BY <1>3, <2>3, <2>4, <2>5 DEF ToldInv
  <1>5. CASE ReconnectTell(c)
    <2> DEFINE told == [d \in Conns |-> IF d = c THEN "ring" ELSE "stray"]
    <2>1. /\ reconnect'[c].pc = "done" /\ reconnect'[c] # NoReconnect /\ reconnect[c].server \in Servers
          /\ \A e \in Conns \ {c} : reconnect'[e] = reconnect[e]
      BY <1>1, <1>5, ReconnectPc DEF Facts, ReconnectTell
    <2>2. SendToUser(reconnect[c].server, told) /\ reconnect[c].pc = "tell"
      BY <1>5 DEF ReconnectTell
    <2>3. ASSUME NEW d \in Conns
          PROVE  /\ shown[d] \subseteq shown'[d] /\ shown'[d] \subseteq shown[d] \cup {told[d]}
                 /\ Beating(d) => told[d] \in shown'[d]
      <3> HIDE DEF told
      <3> QED
        BY <2>1, <2>2, <2>3, SendAdds, Reaches
    <2>4. /\ \A d \in Conns : shown[d] \subseteq shown'[d]
          /\ \A d \in Conns \ {c} : "ring" \in shown'[d] => "ring" \in shown[d]
          /\ Beating(c) => "ring" \in shown'[c]
      BY <2>3
    <2> HIDE DEF told
    <2>5. RegisteredInv'
      BY <1>1, <1>2, <2>1, <2>4 DEF ToldInv, RegisteredInv
    <2>6. RingExpected'
      BY <1>1, <1>2, <2>1, <2>4 DEF ToldInv, RingExpected, Rings, CallerAt
    <2>7. OverKnown'
      BY <1>1, <1>2, <2>1, <2>2, <2>4 DEF ToldInv, OverKnown, Dismissed
    <2> QED
      BY <1>3, <2>5, <2>6, <2>7 DEF ToldInv
  <1> QED
    BY <1>4, <1>5 DEF ReconnectStep

(* The app checks the call, or loses the connection. *)
LEMMA CheckTold ==
    ASSUME Facts, ToldInv, NEW c \in Conns, CheckCall(c) \/ CheckReply(c) \/ ReadEnds(c)
    PROVE  ToldInv'
  <1>1. UNCHANGED <<call, caller, reconnect>>
    BY DEF CheckCall, CheckReply, ReadEnds
  <1>2. ASSUME NEW e \in Conns
        PROVE  /\ Beating(e)' => Beating(e)
               /\ Newcomer(e)' => Newcomer(e)
               /\ Served(e)' => Served(e)
    <2>1. CASE ReadEnds(c)
      <3>1. Further(e)
        BY <2>1, OnwardMoves DEF ReadEnds, Onward, Facts, PromptInv
      <3> QED
        BY <3>1 DEF Further, Beating, On, Newcomer
    <2>2. CASE CheckCall(c) \/ CheckReply(c)
      BY <2>2 DEF CheckCall, CheckReply, vars, Beating, On, Newcomer, Served
    <2> QED
      BY <2>1, <2>2
  <1>3. /\ \A e \in Conns \ {c} : shown'[e] = shown[e] /\ check'[e] = check[e]
        /\ Beating(c)' => shown[c] \subseteq shown'[c]
        /\ "ring" \in shown'[c] => "ring" \in shown[c] \/ check[c] = "ring"
        /\ check'[c] = "ring" => Beating(c) /\ call = "ringing"
    <2>1. shown \in [Conns -> SUBSET Messages] /\ check \in [Conns -> Messages \cup {"idle", "done"}]
      BY DEF Facts, RingingTypeOK
    <2>2. CASE CheckCall(c)
      BY <2>1, <2>2 DEF CheckCall
    <2>3. CASE CheckReply(c)
      BY <2>1, <2>3 DEF CheckReply
    <2>4. CASE ReadEnds(c)
      <3>1. ~Beating(c)'
        <4>1. conn'[c].open = FALSE
          <5> DEFINE r == conn[c]
                     left == [r EXCEPT !.pc = "leaving", !.open = FALSE]
          <5>1. r \in Connection
            BY <2>4, Typed DEF ReadEnds, ReadPumpEnds, On, NoConn, Facts, PromptInv, HubInv
          <5>2. left.open = FALSE /\ conn' = [conn EXCEPT ![c] = left]
            BY <2>4, <5>1 DEF Connection, ReadEnds, ReadPumpEnds
          <5> HIDE DEF left
          <5> QED
            BY <5>2, Typed DEF Facts, PromptInv, HubInv
        <4> QED
          BY <4>1 DEF Beating
      <3> QED
        BY <2>1, <2>4, <3>1 DEF ReadEnds
    <2> QED
      BY <2>2, <2>3, <2>4
  <1>4. CallerInv'
    BY <1>1 DEF ToldInv, CallerInv
  <1>5. RegisteredInv'
    BY <1>1, <1>2, <1>3 DEF ToldInv, RegisteredInv, Beating, On, Served
  <1>6. RingExpected'
    BY <1>1, <1>2, <1>3 DEF ToldInv, RingExpected, Rings, CallerAt
  <1>7. OverKnown'
    BY <1>1, <1>2, <1>3 DEF ToldInv, OverKnown, CallerInv, Dismissed
  <1> QED
    BY <1>4, <1>5, <1>6, <1>7 DEF ToldInv

LEMMA ToldInvNext ==
    ASSUME Facts, Orderly, ToldInv, [RingingNext]_rvars
    PROVE  ToldInv'
  BY HubGoesOn, CallerBegins, CallerTells, ConnectTold, RegisterTold, ReconnectTold, CheckTold
  DEF RingingNext, CallerStep

(* The invariant holds for any number of connections and servers, if handshakes do not overlap and
   kicks are over within the pause. *)
LEMMA ToldInvariance ==
    ASSUME Orderly
    PROVE  RingingSpec => []ToldInv
  <1>1. RingingInit => ToldInv
    BY DEF RingingInit, Init, ToldInv, CallerInv, RegisteredInv, RingExpected, OverKnown, Handlers,
           Returned, NoConn, Served, Beating, On
  <1>2. Facts /\ ToldInv /\ [RingingNext]_rvars => ToldInv'
    BY ToldInvNext
  <1>3. RingingSpec => []Facts
    BY RingingImplementsHub, PromptInvariance, MapAlways, RingingTypeCorrect, PTL DEF Facts
  <1> QED
    BY <1>1, <1>2, <1>3, PTL DEF RingingSpec

(* A connection that a loop has taken is in the hub's hands until it registers it. *)
LEMMA TakenStays ==
    ASSUME HubInv, ~MayFail, Onward, NEW c \in Conns, On(c, "register")
    PROVE  On(c, "register")' /\ (conn'[c].open => conn[c].open)
  <1>1. TypeOK /\ conn \in [Conns -> Connection \cup {NoConn}] /\ clients \in [Servers -> Conns \cup {None}]
    BY Typed DEF HubInv
  <1>2. ASSUME conn'[c] = conn[c]
        PROVE  On(c, "register")' /\ (conn'[c].open => conn[c].open)
    BY <1>2 DEF On
  <1>3. ASSUME NEW e \in Conns, Request(e) \/ RequestFails(e)
        PROVE  On(c, "register")' /\ (conn'[c].open => conn[c].open)
    BY <1>3, RequestMoves DEF On, Handshake
  <1>4. ASSUME NEW e \in Conns, ReadPumpEnds(e)
        PROVE  conn'[c] = conn[c]
    BY <1>1, <1>4 DEF ReadPumpEnds, On
  <1>5. ASSUME NEW s \in Servers, NEW e \in Conns, HandleUnregister(s, e)
        PROVE  conn'[c] = conn[c]
    BY <1>1, <1>5 DEF HandleUnregister, MoveTo, Over, On
  <1>6. ASSUME NEW s \in Servers, UnregisterDone(s)
        PROVE  conn'[c] = conn[c]
    <2>1. PICK e \in Conns : e = loop[s].conn /\ conn[e].pc = "unregister"
      BY <1>6, LoopFacts DEF UnregisterDone, LoopAt
    <2> QED
      BY <1>1, <1>6, <2>1, OverValue DEF UnregisterDone, On
  <1>7. ASSUME NEW s \in Servers, HandleDisconnectMessage(s)
        PROVE  On(c, "register")' /\ (conn'[c].open => conn[c].open)
    <2>1. PICK d \in Conns \cup {None} : conn' = Closed(d)
      BY <1>1, <1>7 DEF HandleDisconnectMessage, Closed
    <2> QED
      BY <1>1, <2>1, ClosedValue DEF On
  <1>8. ASSUME SlotExpires \/ \E s \in Servers : Unsubscribe(s) \/ ReleaseSlot(s)
        PROVE  conn'[c] = conn[c]
    BY <1>8 DEF SlotExpires, Unsubscribe, ReleaseSlot
  <1>9. \A s \in Servers : ~Crash(s)
    BY DEF Crash
  <1> QED
    BY <1>2, <1>3, <1>4, <1>5, <1>6, <1>7, <1>8, <1>9 DEF Onward

(* Who served its app before it was in the map, and was asked then, was answered; and the caller asks
   for a cancel push whenever it tells the user that the call is over. *)
WokenInv ==
    /\ \A c \in taken : On(c, "register")
    /\ \A c \in Conns : reconnect[c] = NoReconnect /\ c \notin taken => check[c] = "idle"
    /\ \A c \in Conns : check[c] = "done" /\ Serving(c) => shown[c] # {}
    /\ caller["end"] = Returned => "cancelled" \in pushes

(* A step by which nobody asks, and nobody comes to serve. *)
LEMMA NobodyAsks ==
    ASSUME WokenInv, taken' = taken, check' = check,
           \A c \in Conns : shown[c] \subseteq shown'[c],
           \A c \in Conns : reconnect[c] # NoReconnect => reconnect'[c] # NoReconnect,
           \A c \in taken : On(c, "register")',
           \A c \in Conns : Serving(c)' => Serving(c),
           caller'["end"] = Returned => "cancelled" \in pushes'
    PROVE  WokenInv'
  BY DEF WokenInv

(* The connections, as the steps of the hub leave them. *)
LEMMA ServesStill ==
    ASSUME Facts, ~MayFail, WokenInv, Onward \/ UNCHANGED vars
    PROVE  /\ \A c \in taken : On(c, "register")'
           /\ \A c \in Conns : Beating(c)' => Beating(c)
           /\ taken' = taken => \A c \in Conns : Serving(c)' => Serving(c)
  <1>1. taken \subseteq Conns
    BY DEF Facts, RingingTypeOK
  <1>2. CASE Onward
    <2>1. \A c \in taken : On(c, "register")' /\ (conn'[c].open => conn[c].open)
      BY <1>1, <1>2, TakenStays DEF Facts, PromptInv, WokenInv
    <2>2. \A c \in Conns : Beating(c)' => Beating(c)
      <3> SUFFICES ASSUME NEW c \in Conns, Beating(c)'
                   PROVE  Beating(c)
        OBVIOUS
      <3>1. Further(c)
        BY <1>2, OnwardMoves DEF Facts, PromptInv
      <3> QED
        BY <3>1 DEF Further, Beating, On
    <2> QED
      BY <2>1, <2>2 DEF Serving
  <1>3. CASE UNCHANGED vars
    BY <1>1, <1>3 DEF vars, WokenInv, On, Beating, Serving
  <1> QED
    BY <1>2, <1>3

LEMMA CallerWakes ==
    ASSUME Facts, ~MayFail, ToldInv, WokenInv, StartCall \/ GiveUp \/ CallerStep
    PROVE  WokenInv'
  <1>1. UNCHANGED <<vars, reconnect, check, taken>> /\ pushes \subseteq pushes'
    BY DEF StartCall, GiveUp, CallerStep, CreateExec, SendRing, MarkEnded, SendEnded, CallerSends
  <1>2. \A c \in Conns : shown[c] \subseteq shown'[c]
    <2>1. ASSUME NEW op, NEW m, NEW P, CallerSends(op, m, P)
          PROVE  \A c \in Conns : shown[c] \subseteq shown'[c]
      BY <2>1, SendAdds, RingingServerAssumption DEF CallerSends
    <2> QED
      BY <2>1 DEF StartCall, GiveUp, CallerStep, CreateExec, SendRing, MarkEnded, SendEnded
  <1>3. caller'["end"] = Returned => "cancelled" \in pushes'
    <2>1. caller \in Called /\ "start" \in Handlers /\ "end" \in Handlers
      BY DEF Facts, RingingTypeOK, Called, Handlers
    <2>2. CASE StartCall \/ CreateExec \/ SendRing
      BY <1>1, <2>1, <2>2
      DEF StartCall, CreateExec, SendRing, CallerSends, CallerOn, WokenInv, Called
    <2>3. CASE GiveUp
      BY <2>1, <2>3 DEF GiveUp, Called, Begun, Returned
    <2>4. CASE MarkEnded
      BY <2>1, <2>4, StepAt, CallerGoes DEF MarkEnded, CallerOn, Returned
    <2>5. CASE SendEnded
      BY <2>5 DEF SendEnded, CallerSends
    <2> QED
      BY <2>2, <2>3, <2>4, <2>5 DEF CallerStep
  <1>4. \A c \in Conns : Serving(c)' => Serving(c)
    BY <1>1, ServesStill
  <1>5. \A c \in taken : On(c, "register")'
    BY <1>1, ServesStill
  <1> QED
    BY <1>1, <1>2, <1>3, <1>4, <1>5, NobodyAsks

LEMMA HubWakes ==
    ASSUME Facts, ~MayFail, ToldInv, WokenInv,
           \/ HubStep
           \/ \E s \in Servers : (\E c \in Conns : Unregister(s, c)) \/ LoopGoesOn(s) \/ DisconnectStep(s)
           \/ \E c \in Conns : Answer(c) \/ ReconnectStep(c)
           \/ SessionExpires
           \/ UNCHANGED rvars
    PROVE  WokenInv'
  <1>1. UNCHANGED <<caller, taken, check, pushes>>
    BY DEF HubStep, Unregister, LoopGoesOn, DisconnectStep, DisconnectRead, DisconnectEnd, Answer, ReconnectStep,
           ReconnectRead, ReconnectTell, SessionExpires, rvars, ringing
  <1>2. Onward \/ UNCHANGED vars
    BY DEF HubStep, Unregister, LoopGoesOn, DisconnectStep, DisconnectRead, DisconnectEnd, Answer, ReconnectStep,
           ReconnectRead, ReconnectTell, SessionExpires, rvars, Onward
  <1>3. /\ \A c \in Conns : shown[c] \subseteq shown'[c]
        /\ \A c \in Conns : reconnect[c] # NoReconnect => reconnect'[c] # NoReconnect
    <2>1. CASE \E c \in Conns : ReconnectStep(c)
      <3>1. PICK c \in Conns : ReconnectStep(c)
        BY <2>1
      <3>2. PICK pc \in {"tell", "done"} : reconnect' = [reconnect EXCEPT ![c].pc = pc]
        BY <3>1 DEF ReconnectStep, ReconnectRead, ReconnectTell
      <3>3. reconnect[c] # NoReconnect
        BY <3>1 DEF ReconnectStep, ReconnectRead, ReconnectTell, NoReconnect
      <3>4. /\ reconnect'[c] # NoReconnect /\ reconnect[c].server \in Servers
            /\ \A e \in Conns \ {c} : reconnect'[e] = reconnect[e]
        BY <3>2, <3>3, ReconnectPc DEF Facts
      <3>5. \A e \in Conns : shown[e] \subseteq shown'[e]
        <4>1. CASE ReconnectRead(c)
          BY <4>1 DEF ReconnectRead
        <4>2. CASE ReconnectTell(c)
          BY <3>4, <4>2, SendAdds DEF ReconnectTell
        <4> QED
          BY <3>1, <4>1, <4>2 DEF ReconnectStep
      <3> QED
        BY <3>4, <3>5
    <2>2. CASE ~ \E c \in Conns : ReconnectStep(c)
      BY <2>2 DEF HubStep, Unregister, LoopGoesOn, DisconnectStep, DisconnectRead, DisconnectEnd, Answer,
                  SessionExpires, rvars, ringing
    <2> QED
      BY <2>1, <2>2
  <1>4. \A c \in taken : On(c, "register")'
    BY <1>2, ServesStill
  <1>5. \A c \in Conns : Serving(c)' => Serving(c)
    BY <1>1, <1>2, ServesStill
  <1>6. caller'["end"] = Returned => "cancelled" \in pushes'
    BY <1>1 DEF WokenInv
  <1> QED
    BY <1>1, <1>3, <1>4, <1>5, <1>6, NobodyAsks

(* A connection comes, is taken by a loop, and is registered. *)
LEMMA ConnectionWakes ==
    ASSUME Facts, ~MayFail, ToldInv, WokenInv, NEW c \in Conns, NEW s \in Servers,
           ConnectOnce(c, s) \/ Take(s, c) \/ Register(s, c)
    PROVE  WokenInv'
  <1>1. taken \subseteq Conns /\ UNCHANGED <<caller, shown, check, pushes>>
    BY DEF Facts, RingingTypeOK, ConnectOnce, Take, Register, ringing
  <1>2. CASE ConnectOnce(c, s)
    <2>1. conn[c].pc = "none" /\ conn'[c].pc \in Handshake /\ \A e \in Conns \ {c} : conn'[e] = conn[e]
      BY <1>2, ConnectMoves DEF ConnectOnce, Facts, PromptInv
    <2>2. c \notin taken
      BY <2>1 DEF WokenInv, On
    <2>3. taken' = taken /\ reconnect' = reconnect
      BY <1>2 DEF ConnectOnce, ringing
    <2>4. \A e \in taken : On(e, "register")'
      BY <1>1, <2>1, <2>2 DEF WokenInv, On
    <2>5. \A e \in Conns : Serving(e)' => Serving(e)
      BY <2>1, <2>2, <2>3 DEF Serving, Beating, On, Handshake
    <2> QED
      BY <1>1, <2>3, <2>4, <2>5, NobodyAsks DEF WokenInv
  <1>3. CASE Take(s, c)
    <2>1. /\ UNCHANGED <<vars, reconnect>> /\ taken' = taken \cup {c} /\ conn[c].pc = "register"
          /\ c \notin taken => check[c] = "idle"
      BY <1>3 DEF Take, On, ToldInv, RegisteredInv, Newcomer, WokenInv
    <2>2. \A e \in Conns : (Beating(e)' <=> Beating(e)) /\ (conn'[e].open <=> conn[e].open)
      BY <2>1 DEF vars, Beating, On
    <2>3. \A e \in taken' : On(e, "register")'
      BY <2>1 DEF WokenInv, vars, On
    <2>4. \A e \in Conns : check[e] = "done" /\ Serving(e)' => Serving(e)
      BY <2>1, <2>2 DEF Serving
    <2> QED
      BY <1>1, <2>1, <2>3, <2>4 DEF WokenInv
  <1>4. CASE Register(s, c)
    <2> DEFINE fresh == [pc |-> "read", server |-> s]
    <2>1. fresh # NoReconnect
      BY DEF NoReconnect
    <2>2. reconnect' = [reconnect EXCEPT ![c] = fresh] /\ taken' = taken \ {c} /\ c \in taken
      BY <1>4 DEF Register
    <2> HIDE DEF fresh
    <2>3. reconnect'[c] # NoReconnect /\ \A e \in Conns \ {c} : reconnect'[e] = reconnect[e]
      BY <2>1, <2>2 DEF Facts, RingingTypeOK
    <2>4. /\ \A e \in Conns : conn'[e].open => conn[e].open
          /\ \A e \in Conns \ {c} : conn'[e].pc = conn[e].pc
      BY <1>4, RegisterMoves DEF Register, Facts, PromptInv
    <2>5. \A e \in taken' : On(e, "register")'
      BY <1>1, <2>2, <2>4 DEF WokenInv, On
    <2>6. ASSUME NEW e \in Conns, Serving(e)'
          PROVE  Serving(e)
      <3>1. conn[e].open
        BY <2>4, <2>6 DEF Serving, Beating
      <3> QED
        BY <2>2, <2>4, <2>6, <3>1 DEF Serving, Beating, On
    <2> QED
      BY <1>1, <2>2, <2>3, <2>5, <2>6 DEF WokenInv
  <1> QED
    BY <1>2, <1>3, <1>4

LEMMA CheckWakes ==
    ASSUME Facts, ~MayFail, ToldInv, WokenInv, NEW c \in Conns, CheckCall(c) \/ CheckReply(c) \/ ReadEnds(c)
    PROVE  WokenInv'
  <1>1. /\ taken \subseteq Conns /\ UNCHANGED <<caller, reconnect, taken, pushes>>
        /\ shown \in [Conns -> SUBSET Messages] /\ check \in [Conns -> Messages \cup {"idle", "done"}]
    BY DEF Facts, RingingTypeOK, CheckCall, CheckReply, ReadEnds
  <1>2. Onward \/ UNCHANGED vars
    BY DEF CheckCall, CheckReply, ReadEnds, Onward
  <1>3. \A e \in taken' : On(e, "register")'
    BY <1>1, <1>2, ServesStill
  <1>4. \A e \in Conns : Serving(e)' => Serving(e)
    BY <1>1, <1>2, ServesStill
  <1>5. reconnect[c] # NoReconnect \/ c \in taken
    <2>1. CASE CheckCall(c)
      BY <2>1 DEF CheckCall, Serving, Beating, On, Served, ToldInv, RegisteredInv
    <2>2. CASE CheckReply(c)
      BY <2>2 DEF CheckReply, WokenInv, Messages
    <2>3. CASE ReadEnds(c)
      BY <2>3 DEF ReadEnds, ReadPumpEnds, On, Served, ToldInv, RegisteredInv
    <2> QED
      BY <2>1, <2>2, <2>3
  <1>6. /\ \A e \in Conns \ {c} : check'[e] = check[e] /\ shown'[e] = shown[e]
        /\ check'[c] = "done" /\ Serving(c)' => shown'[c] # {}
    <2>1. CASE CheckCall(c)
      BY <1>1, <2>1 DEF CheckCall
    <2>2. CASE CheckReply(c)
      <3>1. Serving(c)' => conn[c].open
        BY <1>4 DEF Serving, Beating
      <3> QED
        BY <1>1, <2>2, <3>1 DEF CheckReply
    <2>3. CASE ReadEnds(c)
      <3>1. ~Serving(c)'
        <4> DEFINE r == conn[c]
                   left == [r EXCEPT !.pc = "leaving", !.open = FALSE]
        <4>1. r \in Connection
          BY <2>3, Typed DEF ReadEnds, ReadPumpEnds, On, NoConn, Facts, PromptInv, HubInv
        <4>2. left.open = FALSE /\ conn' = [conn EXCEPT ![c] = left]
          BY <2>3, <4>1 DEF Connection, ReadEnds, ReadPumpEnds
        <4> HIDE DEF left
        <4>3. conn'[c].open = FALSE
          BY <4>2, Typed DEF Facts, PromptInv, HubInv
        <4> QED
          BY <4>3 DEF Serving, Beating
      <3> QED
        BY <1>1, <2>3, <3>1 DEF ReadEnds
    <2> QED
      BY <2>1, <2>2, <2>3
  <1> QED
    BY <1>1, <1>3, <1>4, <1>5, <1>6 DEF WokenInv

LEMMA WokenInvNext ==
    ASSUME Facts, ~MayFail, ToldInv, WokenInv, [RingingNext]_rvars
    PROVE  WokenInv'
  BY CallerWakes, HubWakes, ConnectionWakes, CheckWakes DEF RingingNext

(* A user whom a push woke is not left with a call that the caller gave up, whatever the number of
   connections and servers (call.go:374-394, 616-641, handler.go:338-348): OverLearned covers what was
   answered to a connection in the map, and the cancel push what was answered before. *)
THEOREM WokenLearnsAlways ==
    ASSUME Orderly
    PROVE  RingingSpec => []WokenLearns
  <1>1. RingingInit => WokenInv
    BY DEF RingingInit, WokenInv, Handlers, Returned
  <1>2. Facts /\ ToldInv /\ WokenInv /\ [RingingNext]_rvars => WokenInv'
    BY WokenInvNext DEF Orderly, Undisturbed
  <1>3. RingingSpec => []Facts
    BY RingingImplementsHub, PromptInvariance, MapAlways, RingingTypeCorrect, PTL DEF Facts
  <1>4. Facts /\ ToldInv /\ WokenInv => WokenLearns
    <2> SUFFICES ASSUME Facts, ToldInv, WokenInv, NEW c \in Conns, caller["end"] = Returned, Beating(c),
                        check[c] = "done", ~Dismissed(c)
                 PROVE  "stray" \in shown[c] /\ "cancelled" \in pushes
      BY DEF WokenLearns
    <2>1. shown[c] # {} /\ shown[c] \subseteq Messages
      BY DEF WokenInv, Serving, Facts, RingingTypeOK
    <2>2. "ring" \notin shown[c] /\ "over" \notin shown[c]
      BY DEF ToldInv, OverKnown, Dismissed
    <2> QED
      BY <2>1, <2>2 DEF Messages, WokenInv
  <1> QED
    BY <1>1, <1>2, <1>3, <1>4, ToldInvariance, PTL DEF RingingSpec

(* A user who is connected while the call rings has seen it, or StartCall or the reconnect of the
   connection has yet to ring: whichever comes second, storing the call or registering the connection,
   notices the first (call.go:131, 519-522, handler.go:141-161). *)
THEOREM RingExpectedAlways ==
    ASSUME Orderly
    PROVE  RingingSpec => []RingExpected
  BY ToldInvariance, PTL DEF ToldInv

(* Who was told that the call rings is told that it is over before the caller's handler is done, also
   if a reconnect or a check read the session just before (call.go:366-387, 548-583). *)
THEOREM OverLearnedAlways ==
    ASSUME Orderly
    PROVE  RingingSpec => []OverLearned
  <1>1. ToldInv => OverLearned
    BY DEF ToldInv, OverKnown, OverLearned
  <1> QED
    BY <1>1, ToldInvariance, PTL

-----------------------------------------------------------------------------
(* Whose call a cleanup ends. *)

(* A loop that cleans up a call is in the last step of an unregistration, and takes no client. *)
CleanupInv == \A s \in cleanup : LoopAt(s, "disconnect")

LEMMA CleanupInvNext ==
    ASSUME RingingTypeOK, TypeOK, CleanupInv, [RingingNext]_rvars
    PROVE  CleanupInv'
  <1>1. loop \in [Servers -> Unregistering \cup {Waiting}] /\ cleanup \subseteq Servers
    BY Typed DEF RingingTypeOK
  <1>2. ASSUME UNCHANGED <<loop, cleanup>>
        PROVE  CleanupInv'
    BY <1>2 DEF CleanupInv, LoopAt
  <1>3. ASSUME NEW s \in Servers, s \notin cleanup, \A t \in Servers \ {s} : loop'[t] = loop[t],
               cleanup' = cleanup
        PROVE  CleanupInv'
    BY <1>1, <1>3 DEF CleanupInv, LoopAt
  <1>4. ASSUME NEW s \in Servers, (\E c \in Conns : Unregister(s, c)) \/ LoopGoesOn(s)
        PROVE  CleanupInv'
    <2>1. ~LoopAt(s, "disconnect") /\ cleanup' = cleanup
      BY <1>4 DEF Unregister, HandleUnregister, LoopGoesOn, Unsubscribe, ReleaseSlot, ringing, LoopAt, Waiting
    <2>2. \A t \in Servers \ {s} : loop'[t] = loop[t]
      BY <1>1, <1>4 DEF Unregister, HandleUnregister, LoopGoesOn, Unsubscribe, ReleaseSlot, LoopTo
    <2> QED
      BY <1>3, <2>1, <2>2 DEF CleanupInv
  <1>5. ASSUME NEW s \in Servers, DisconnectRead(s)
        PROVE  CleanupInv'
    <2>1. LoopAt(s, "disconnect") /\ s \notin cleanup
      BY <1>5 DEF DisconnectRead
    <2>2. CASE call = "ringing"
      BY <1>5, <2>1, <2>2 DEF DisconnectRead, vars, CleanupInv, LoopAt
    <2>3. CASE call # "ringing"
      BY <1>1, <1>3, <1>5, <2>1, <2>3 DEF DisconnectRead, UnregisterDone
    <2> QED
      BY <2>2, <2>3
  <1>6. ASSUME NEW s \in Servers, DisconnectEnd(s)
        PROVE  CleanupInv'
    <2>1. cleanup' = cleanup \ {s} /\ \A t \in Servers \ {s} : loop'[t] = loop[t]
      BY <1>1, <1>6 DEF DisconnectEnd, UnregisterDone
    <2> QED
      BY <1>1, <2>1 DEF CleanupInv, LoopAt
  <1>7. ASSUME StartCall \/ GiveUp \/ CallerStep \/ SessionExpires \/ HubStep \/ UNCHANGED rvars
        PROVE  CleanupInv'
    BY <1>2, <1>7 DEF StartCall, GiveUp, CallerStep, CreateExec, SendRing, MarkEnded, SendEnded, CallerSends,
                      SessionExpires, HubStep, Request, KickLookup, KickLocal, KickRemote, ForceAcquire, Upgrade, UpgradeFails,
                      HandleDisconnectMessage, SlotExpires, rvars, ringing, vars
  <1>8. ASSUME NEW c \in Conns,
               \/ \E s \in Servers : ConnectOnce(c, s) \/ Take(s, c) \/ Register(s, c)
               \/ ReconnectStep(c) \/ CheckCall(c) \/ CheckReply(c) \/ Answer(c) \/ ReadEnds(c)
        PROVE  CleanupInv'
    BY <1>2, <1>8 DEF ConnectOnce, Connect, Take, Register, HandleRegister, ReconnectStep, ReconnectRead,
                      ReconnectTell, CheckCall, CheckReply, Answer, ReadEnds, ReadPumpEnds, ringing, vars
  <1> QED
    BY <1>4, <1>5, <1>6, <1>7, <1>8 DEF RingingNext, DisconnectStep

(* The user of a call that a cleanup is about to end may be connected, as the run stale_disconnect
   shows, but only to another server, also with overlapping handshakes, slow kicks and commands that
   fail: the loop registers nobody until HandleDisconnect has returned (handler.go:81-94, 194). *)
CleanedUpElsewhere == \A s \in cleanup, c \in Conns : Beating(c) => conn[c].server # s

THEOREM CleanedUpElsewhereAlways == RingingSpec => []CleanedUpElsewhere
  <1>1. RingingInit => CleanupInv
    BY DEF RingingInit, CleanupInv
  <1>2. RingingTypeOK /\ TypeOK /\ CleanupInv /\ [RingingNext]_rvars => CleanupInv'
    BY CleanupInvNext
  <1>3. RingingTypeOK /\ HubInv /\ CleanupInv => CleanedUpElsewhere
    <2> SUFFICES ASSUME RingingTypeOK, HubInv, CleanupInv, NEW s \in cleanup, NEW c \in Conns, Beating(c),
                        conn[c].server = s
                 PROVE  FALSE
      BY DEF CleanedUpElsewhere
    <2>1. clients[s] = c
      BY DEF HubInv, NoUntrackedConnection
    <2>2. s \in Servers /\ loop[s].pc = "disconnect"
      BY DEF RingingTypeOK, CleanupInv, LoopAt
    <2>3. clients[s] = None
      BY <2>2, LoopFacts
    <2> QED
      BY <2>1, <2>3, HubNoneAssumption
  <1>4. HubInv => TypeOK
    BY DEF HubInv
  <1> QED
    BY <1>1, <1>2, <1>3, <1>4, RingingImplementsHub, HubInvariance, RingingTypeCorrect, PTL DEF RingingSpec
=============================================================================
