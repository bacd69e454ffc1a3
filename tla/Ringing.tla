------------------------------- MODULE Ringing -------------------------------
(***************************************************************************)
(* One ringing call to the user of Hub, while the user's connections come  *)
(* and go: the call manager's handlers (internal/signaling/call.go) on the *)
(* caller's side and on the loops of the hubs, the goroutines that         *)
(* handleRegister starts, call.check (internal/ws/handler.go), and the     *)
(* pushes that wake the user's app.                                        *)
(*                                                                         *)
(* The call is followed until it is answered, ended or deleted: from then  *)
(* on it is over.  CallSessions has what the records of a call go through. *)
(* The caller stays on one server and sent full device data.  The caller's *)
(* StartCall runs on one connection; whoever reconnects meanwhile may give *)
(* up the call on the next, before StartCall has returned.  A send is one  *)
(* step here, and no queue is full; Delivery has the delays.               *)
(*                                                                         *)
(* A connection that was registered stands for no later one: the           *)
(* connections bound how often the user comes back.                        *)
(*                                                                         *)
(* A definition marked "slip" is no part of the specification: it is the   *)
(* one after it as a plausible bug would have it, for trying whether the   *)
(* properties notice.                                                      *)
(***************************************************************************)
EXTENDS Hub, Sequences

CONSTANT
    CallerServer    \* the server of the caller's connection

ASSUME RingingServerAssumption == CallerServer \in Servers

VARIABLES
    call,       \* none yet, ringing, or over
    caller,     \* caller[op]: how far the caller's handlers have come
    online,     \* what StartCall was told of the callee
    shown,      \* shown[c]: what was sent to connection c about the call
    reconnect,  \* reconnect[c]: the goroutine that the registration of c started
    cleanup,    \* servers whose loop runs HandleDisconnect and found the call ringing
    taken,      \* connections that a loop took from its channel and has not registered yet
    check,      \* check[c]: the call.check that the read pump of c handles, and its reply
    pushes      \* pushes asked for: the push service delivers them at any later time, in any order

ringing == <<call, caller, online, shown, reconnect, cleanup, taken, check, pushes>>
rvars == <<vars, ringing>>

(* What tells a connection of the call: a ring by StartCall or by the HandleReconnect of its own, or
   the answer to its call.check; a stray ring, by a StartCall whose call is over, by the HandleReconnect
   of another connection, or an answer from before its registration; and the news that the call is
   over. *)
Messages == {"ring", "stray", "over"}
Pushes == {"incoming", "cancelled"}

RingBeforeSession == [start |-> <<"send", "exec">>, end |-> <<"cas", "send">>]          \* slip
TellBeforeCas == [start |-> <<"exec", "send">>, end |-> <<"send", "cas">>]              \* slip

(* The steps of StartCall, and of EndCall or the caller's HandleDisconnect.  The push that goes with
   a message is asked for in the same step. *)
Order == [start |-> <<"exec", "send">>, end |-> <<"cas", "send">>]

(* A handler that has not begun, has its first or its second step before it, or has returned. *)
Handlers == {"start", "end"}
Begun == 1
Returned == 3

NoReconnect == [pc |-> "idle", server |-> None]

RingingInit ==
    /\ Init
    /\ call = "none"
    /\ caller = [op \in Handlers |-> 0]
    /\ online = FALSE
    /\ shown = [c \in Conns |-> {}]
    /\ reconnect = [c \in Conns |-> NoReconnect]
    /\ cleanup = {}
    /\ taken = {}
    /\ check = [c \in Conns |-> "idle"]
    /\ pushes = {}

-----------------------------------------------------------------------------
(* SendToUser on server s: the client in the map of s takes the message, also if it was closed, or
   refuses it because it was; without one that takes it, it goes to every subscribed server.  To
   connection c the message is told[c]. *)
Recipients(s) ==
    LET local == clients[s]
        all == {clients[t] : t \in subscribed}
    IN  IF local = None THEN {all}
        ELSE {{local}} \cup (IF conn[local].open THEN {} ELSE {all})

SendToUser(s, told) ==
    \E to \in Recipients(s) :
        shown' = [c \in Conns |-> IF c \in to /\ conn[c].open THEN shown[c] \cup {told[c]} ELSE shown[c]]

-----------------------------------------------------------------------------
(* The caller. *)

(* StartCall: is the callee online? *)
StartCall ==
    /\ caller["start"] = 0
    /\ caller' = [caller EXCEPT !["start"] = Begun]
    /\ online' = (slot # None)
    /\ UNCHANGED <<vars, call, shown, reconnect, cleanup, taken, check, pushes>>

(* EndCall, or HandleDisconnect for the caller: the session is read. *)
GiveUp ==
    /\ caller["end"] = 0
    /\ call = "ringing"
    /\ caller' = [caller EXCEPT !["end"] = Begun]
    /\ UNCHANGED <<vars, call, online, shown, reconnect, cleanup, taken, check, pushes>>

(* The handler is at a step, and goes on to the next or returns. *)
CallerAt(op, step) == caller[op] \in {1, 2} /\ Order[op][caller[op]] = step

CallerOn(op) == caller' = [caller EXCEPT ![op] = @ + 1]

CreateExec ==
    /\ CallerAt("start", "exec")
    /\ call' = "ringing"
    /\ CallerOn("start")
    /\ UNCHANGED <<vars, online, shown, reconnect, cleanup, taken, check, pushes>>

(* UpdateCallState to "ended". *)
MarkEnded ==
    /\ CallerAt("end", "cas")
    /\ call' = "over"
    /\ CallerOn("end")
    /\ UNCHANGED <<vars, online, shown, reconnect, cleanup, taken, check, pushes>>

(* The user is sent a message, and asked for is a push, if one is needed; a goroutine sends it. *)
CallerSends(op, m, P) ==
    /\ CallerAt(op, "send")
    /\ SendToUser(CallerServer, [c \in Conns |-> m])
    /\ pushes' = pushes \cup P
    /\ CallerOn(op)
    /\ UNCHANGED <<vars, call, online, reconnect, cleanup, taken, check>>

(* StartCall does not look at the session again: a call that is over meanwhile still rings. *)
SendRing ==
    CallerSends("start", IF call = "over" THEN "stray" ELSE "ring", IF online THEN {} ELSE {"incoming"})

SendEndedNoPush == CallerSends("end", "over", {})                                       \* slip
SendEndedMistyped == CallerSends("end", "over", {"over"})                               \* slip
SendEnded == CallerSends("end", "over", {"cancelled"})

CallerStep == CreateExec \/ SendRing \/ MarkEnded \/ SendEnded

-----------------------------------------------------------------------------
(* The user's connections. *)

(* Which of the connections that were not used comes next makes no difference. *)
Unused == {c \in Conns : On(c, "none") /\ reconnect[c] = NoReconnect}

(* Client c serves its peer: from when the loop took it, before it is in the map. *)
Serving(c) == Beating(c) \/ (c \in taken /\ conn[c].open)
TakenAt(s) == {c \in taken : conn[c].server = s}

ConnectOnce(c, s) ==
    /\ c \in Unused /\ c = CHOOSE d \in Unused : TRUE
    /\ Connect(c, s)
    /\ UNCHANGED ringing

(* Run takes c from the channel, which lets HandleUpgrade start runClient. *)
Take(s, c) ==
    /\ loop[s] = Waiting /\ TakenAt(s) = {}
    /\ On(c, "register") /\ conn[c].server = s
    /\ taken' = taken \cup {c}
    /\ UNCHANGED <<vars, call, caller, online, shown, reconnect, cleanup, check, pushes>>

(* handleRegister, which ends by starting the goroutine of HandleReconnect. *)
Register(s, c) ==
    /\ c \in taken
    /\ HandleRegister(s, c)
    /\ taken' = taken \ {c}
    /\ reconnect' = [reconnect EXCEPT ![c] = [pc |-> "read", server |-> s]]
    /\ UNCHANGED <<call, caller, online, shown, cleanup, check, pushes>>

(* HandleReconnect: the session is read, and call.ring sent again if the call is ringing. *)
ReconnectRead(c) ==
    /\ reconnect[c].pc = "read"
    /\ reconnect' = [reconnect EXCEPT ![c].pc = IF call = "ringing" THEN "tell" ELSE "done"]
    /\ UNCHANGED <<vars, call, caller, online, shown, cleanup, taken, check, pushes>>

ReconnectTell(c) ==
    /\ reconnect[c].pc = "tell"
    /\ SendToUser(reconnect[c].server, [d \in Conns |-> IF d = c THEN "ring" ELSE "stray"])
    /\ reconnect' = [reconnect EXCEPT ![c].pc = "done"]
    /\ UNCHANGED <<vars, call, caller, online, cleanup, taken, check, pushes>>

(* HandleDisconnect for the user, on the loop that unregisters a connection: the session is read,
   then ended and deleted.  (The caller is told.) *)
DisconnectRead(s) ==
    /\ LoopAt(s, "disconnect") /\ s \notin cleanup
    /\ IF call = "ringing" THEN cleanup' = cleanup \cup {s} /\ UNCHANGED vars
                            ELSE UnregisterDone(s) /\ UNCHANGED cleanup
    /\ UNCHANGED <<call, caller, online, shown, reconnect, taken, check, pushes>>

DisconnectEnd(s) ==
    /\ s \in cleanup
    /\ call' = "over"
    /\ cleanup' = cleanup \ {s}
    /\ UnregisterDone(s)
    /\ UNCHANGED <<caller, online, shown, reconnect, taken, check, pushes>>

(* The rest of the hub. *)
Unregister(s, c) == TakenAt(s) = {} /\ HandleUnregister(s, c) /\ UNCHANGED ringing
LoopGoesOn(s) == (Unsubscribe(s) \/ ReleaseSlot(s)) /\ UNCHANGED ringing

HubStep ==
    /\ \/ \E c \in Conns : Request(c)
       \/ \E s \in Servers : HandleDisconnectMessage(s)
       \/ SlotExpires
    /\ UNCHANGED ringing

-----------------------------------------------------------------------------
(* The user's app. *)

(* An app that a push woke sends call.check, once per connection: CheckCall reads the session. *)
CheckCall(c) ==
    /\ Serving(c) /\ check[c] = "idle"
    /\ "incoming" \in pushes
    /\ check' = [check EXCEPT ![c] = CASE call # "ringing" -> "over"
                                            [] call = "ringing" /\ Beating(c) -> "ring"
                                            [] OTHER -> "stray"]
    /\ UNCHANGED <<vars, call, caller, online, shown, reconnect, cleanup, taken, pushes>>

(* The reply goes to the client that asked, not through the map. *)
CheckReply(c) ==
    /\ check[c] \in Messages
    /\ shown' = [shown EXCEPT ![c] = IF conn[c].open THEN @ \cup {check[c]} ELSE @]
    /\ check' = [check EXCEPT ![c] = "done"]
    /\ UNCHANGED <<vars, call, caller, online, reconnect, cleanup, taken, pushes>>

(* The read pump, which runs the handler of call.check, ends: the app has lost the connection. *)
ReadEnds(c) ==
    /\ ReadPumpEnds(c)
    /\ check[c] \notin Messages
    /\ check' = [check EXCEPT ![c] = "done"]
    /\ shown' = [shown EXCEPT ![c] = {}]
    /\ UNCHANGED <<call, caller, online, reconnect, cleanup, taken, pushes>>

(* The hash of a ringing call expires 120 s after CreateExec. *)
SessionExpires ==
    /\ call = "ringing"
    /\ call' = "over"
    /\ UNCHANGED <<vars, caller, online, shown, reconnect, cleanup, taken, check, pushes>>

(* The user answers a call the app shows: AcceptCall or RejectCall. *)
Rings(c) == shown[c] \cap {"ring", "stray"} # {}
Dismissed(c) == "over" \in shown[c]

Answer(c) ==
    /\ Beating(c) /\ Rings(c)
    /\ call = "ringing"
    /\ call' = "over"
    /\ UNCHANGED <<vars, caller, online, shown, reconnect, cleanup, taken, check, pushes>>

-----------------------------------------------------------------------------
ReconnectStep(c) == ReconnectRead(c) \/ ReconnectTell(c)
DisconnectStep(s) == DisconnectRead(s) \/ DisconnectEnd(s)

RingingNext ==
    \/ StartCall \/ GiveUp \/ CallerStep \/ SessionExpires
    \/ \E c \in Conns :
        \/ \E s \in Servers : ConnectOnce(c, s) \/ Take(s, c) \/ Register(s, c)
        \/ ReconnectStep(c)
        \/ CheckCall(c) \/ CheckReply(c)
        \/ Answer(c)
        \/ ReadEnds(c)
    \/ \E s \in Servers :
        \/ \E c \in Conns : Unregister(s, c)
        \/ LoopGoesOn(s)
        \/ DisconnectStep(s)
    \/ HubStep

RingingSpec == RingingInit /\ [][RingingNext]_rvars

(* The Go scheduler runs every goroutine; a read on a closed connection fails; the clients that wait
   for a loop queue on its channels, and select serves both at random.  Nobody need connect, finish a
   handshake, call, check, answer or hang up. *)
LoopRuns(s) ==
    \/ \E c \in Conns : Take(s, c) \/ Register(s, c) \/ Unregister(s, c)
    \/ LoopGoesOn(s)
    \/ DisconnectStep(s)

RingingFairness ==
    /\ WF_rvars(CallerStep)
    /\ \A c \in Conns :
        /\ WF_rvars(ReconnectStep(c))
        /\ WF_rvars(CheckReply(c))
        /\ WF_rvars(~conn[c].open /\ ReadEnds(c))
    /\ \A s \in Servers :
        /\ WF_rvars(LoopRuns(s))
        /\ \A c \in Conns : SF_rvars(Unregister(s, c))

RingingFairSpec == RingingSpec /\ RingingFairness

-----------------------------------------------------------------------------
(* Types: the call, and the goroutines that work for it. *)
RingingTypeOK ==
    /\ call \in {"none", "ringing", "over"}
    /\ caller \in [Handlers -> 0..Returned]
    /\ online \in BOOLEAN
    /\ shown \in [Conns -> SUBSET Messages]
    /\ reconnect \in [Conns -> [pc : {"read", "tell", "done"}, server : Servers] \cup {NoReconnect}]
    /\ cleanup \subseteq Servers
    /\ taken \subseteq Conns
    /\ check \in [Conns -> Messages \cup {"idle", "done"}]
    /\ pushes \subseteq Pushes

(* A user who is connected while the call rings sees it, or is about to: StartCall has yet to ring, and
   will find the client in the map, or the reconnect of the connection has yet to read the session or to
   tell of it (call.go:131, handler.go:141-161, call.go:519-522). *)
RingExpected ==
    \A c \in Conns : call = "ringing" /\ Beating(c) =>
        \/ Rings(c)
        \/ CallerAt("start", "send")
        \/ reconnect[c].pc \in {"read", "tell"}

(* And the user gets to see it, if the call keeps ringing and the connection lasts. *)
RingReaches ==
    \A c \in Conns : call = "ringing" /\ Beating(c) ~> call # "ringing" \/ ~Beating(c) \/ Rings(c)

(* A user whom a connection was told the call rings was told on it that the caller gave up, once the
   caller's hang-up is done, also when a reconnect or a check read the session just before: whoever reads
   "ringing" is in the map when call.ended is sent.  A stray ring may stay, and a ring may still
   come after call.ended (call.go:366-387, 548-583, handler.go:141-161). *)
OverLearned ==
    \A c \in Conns : caller["end"] = Returned /\ "ring" \in shown[c] /\ Beating(c) => Dismissed(c)

(* A user whom a push woke is not left with a call that the caller gave up: what the connection was
   told in answer to its call.check was taken back by call.ended, or was answered before the connection
   could be sent that, and then a cancel push is on its way (call.go:374-394, 616-641,
   handler.go:338-348). *)
WokenLearns ==
    \A c \in Conns : caller["end"] = Returned /\ Beating(c) /\ check[c] = "done" =>
        Dismissed(c) \/ ("stray" \in shown[c] /\ "cancelled" \in pushes)

-----------------------------------------------------------------------------
(* "HandleDisconnect handles cleanup when a user disconnects" (call.go:464): it does not end the
   call of a user who is connected. *)
ConnectedKeepsCall ==
    [][\A s \in Servers : s \in cleanup \ cleanup' /\ call = "ringing" => ~ \E c \in Conns : Beating(c)]_rvars
=============================================================================
