---------------------------- MODULE CallSessions ----------------------------
(***************************************************************************)
(* The life of call sessions: every handler of the CallManager             *)
(* (internal/signaling/call.go) that changes state, run by concurrent      *)
(* goroutines of any number of servers, at the grain of the Redis commands *)
(* that SessionManager (internal/redis/session.go) issues.  One action is  *)
(* one Redis command, one EXEC, one Lua script, or the sends between two   *)
(* of them; everything else a handler does is local to its goroutine.      *)
(*                                                                         *)
(* A handler whose early return changes nothing (session not found, not a  *)
(* party, busy, wrong state) is a disabled action when it would return at  *)
(* its first command, and a step to Idle later on.                         *)
(*                                                                         *)
(* A definition marked "slip" is no part of the specification: it is the   *)
(* one after it as a plausible bug would have it, for trying whether the   *)
(* properties notice.                                                      *)
(***************************************************************************)
EXTENDS FiniteSets

CONSTANTS
    Users,      \* user identifiers
    Sessions,   \* session identifiers, each a UUID used for one call
    Procs,      \* goroutines that run handlers
    None,       \* no user, no session
    Devices,    \* what a call.start may say of the callee's device
    Recorded,   \* kinds of events the log records
    MayFail,    \* Redis commands and sends may fail, servers may crash
    MayExpire   \* Redis may expire sessions

ASSUME NoneAssumption == None \notin Users \cup Sessions
ASSUME DevicesAssumption == Devices \subseteq {"none", "token_only", "full"}
ASSUME FaultsAssumption == MayFail \in BOOLEAN /\ MayExpire \in BOOLEAN

VARIABLES
    state,      \* state[s]: field "state" of hash call:session:s, or why there is no such hash
    meta,       \* meta[s]: the fields of the hash that never change
    userCall,   \* userCall[u]: the string at call:user:u, or None
    job,        \* job[p]: the handler that goroutine p runs
    log         \* history: messages and pushes sent to a user, users who left a session

vars == <<state, meta, userCall, job, log>>

Live == {"ringing", "accepted", "rejected", "ended"}
Absent == {"unborn", "deleted", "expired"}
States == Live \cup Absent
Gone == {"deleted", "expired"}

Ops == {"start", "accept", "reject", "end", "disconnect", "reconnect", "forward"}
Pcs == {"caller", "callee", "exec", "ring", "ringing",
        "get", "clear", "cas", "read", "del", "tell"}
Kinds == {"ring", "ringing", "accepted", "rejected", "ended", "webrtc",     \* messages
          "incoming", "cancelled",                                          \* pushes
          "left"}                                                           \* a user left
ASSUME RecordedAssumption == Recorded \subseteq Kinds

Meta == [caller : Users \cup {None}, callee : Users \cup {None},
         device : {"none", "token_only", "full"}]
NoMeta == [caller |-> None, callee |-> None, device |-> "none"]

Job == [op : Ops, pc : Pcs, user : Users, sid : Sessions,
        seen : States, online : BOOLEAN, dirty : BOOLEAN]
Idle == [op |-> "idle", pc |-> "idle", user |-> None, sid |-> None,
         seen |-> "unborn", online |-> FALSE, dirty |-> FALSE]

Event == [kind : Kinds, user : Users \cup {None}, sid : Sessions]

Init ==
    /\ state = [s \in Sessions |-> "unborn"]
    /\ meta = [s \in Sessions |-> NoMeta]
    /\ userCall = [u \in Users |-> None]
    /\ job = [p \in Procs |-> Idle]
    /\ log = {}

-----------------------------------------------------------------------------
(* The parties of a session and the peer of one of them. *)
Parties(s) == {meta[s].caller, meta[s].callee}
PeerSwapped(s, u) == IF u = meta[s].caller THEN meta[s].caller ELSE meta[s].callee      \* slip
Peer(s, u) == IF u = meta[s].caller THEN meta[s].callee ELSE meta[s].caller

(* HGETALL finds the hash: GetCallSession returns no ErrSessionNotFound. *)
Exists(s) == state[s] \in Live

(* The Lua script: the state moves only from the expected one; a missing hash matches nothing. *)
UpdateCallStateBlindly(s, expected, new) ==                                             \* slip
    state' = IF Exists(s) THEN [state EXCEPT ![s] = new] ELSE state
UpdateCallState(s, expected, new) ==
    state' = IF state[s] = expected /\ Exists(s) THEN [state EXCEPT ![s] = new] ELSE state

(* Goroutine p enters, moves to a later step of, or leaves its handler. *)
Begin(p, j) == job' = [job EXCEPT ![p] = j]
Goto(p, pc) == job' = [job EXCEPT ![p].pc = pc]
Return(p) == job' = [job EXCEPT ![p] = Idle]

Handler(op, pc, u, s, seen) ==
    [Idle EXCEPT !.op = op, !.pc = pc, !.user = u, !.sid = s, !.seen = seen]

(* A goroutine between its WATCH and its EXEC, and the effect on it of a write to call:user:u, u in U. *)
Watching(j) == j.op = "start" /\ j.pc \in {"caller", "callee", "exec"}
TouchMissed(j, U) == j                                                                  \* slip
Touch(j, U) ==
    IF Watching(j) /\ Parties(j.sid) \cap U # {} THEN [j EXCEPT !.dirty = TRUE] ELSE j

(* SET or DEL of the keys call:user:u, u in U; only a key that changes touches its watchers. *)
WriteUserCalls(U, value) ==
    userCall' = [u \in Users |-> IF u \in U THEN value ELSE userCall[u]]
Watchers(U, value) ==
    [p \in Procs |-> Touch(job[p], {u \in U : userCall[u] # value})]

(* An event, if its kind is recorded. *)
Occurs(kind, u, s) ==
    IF kind \in Recorded THEN {[kind |-> kind, user |-> u, sid |-> s]} ELSE {}
Log(events) == log' = log \cup events

(* A user can name a session in a request only after a message or a push named it to this user.  A log
   that leaves out some of them cannot tell, and the user may then know of any session. *)
Naming == Kinds \ {"left"}
Heard(u, s) ==
    Naming \subseteq Recorded => \E e \in log : e.kind \in Naming /\ e.user = u /\ e.sid = s

(* What a send or a push may achieve: under MayFail nothing, its error is only logged. *)
Attempt(events) == {events} \cup (IF MayFail THEN {{}} ELSE {})
SendToUser(type, u, s) == Attempt(Occurs(type, u, s))

(* A push is sent by a goroutine of its own, which asks the push service within 8 s; here it is
   sent at once.  That of StartCall wakes a callee that was offline when the handler looked. *)
IncomingPush(j) ==
    IF j.online THEN {} ELSE Occurs("incoming", meta[j.sid].callee, j.sid)

(* A cancel push goes out when the caller gives up a call its snapshot shows ringing, if the
   session holds a device token and an OS. *)
CancelPush(j) ==
    IF j.seen = "ringing" /\ j.user = meta[j.sid].caller /\ meta[j.sid].device = "full"
    THEN Occurs("cancelled", meta[j.sid].callee, j.sid)
    ELSE {}

-----------------------------------------------------------------------------
(* call.start: StartCall and CreateCallSession. *)

(* The handler refuses a call to oneself; an offline callee needs a device token. *)
MayStart(u, v, online, device) ==
    /\ u # v
    /\ online \/ device # "none"

(* The session is built under a fresh UUID, and WATCH is issued on its keys. *)
StartCall(p, u, v, s, online, device) ==
    /\ job[p] = Idle
    /\ MayStart(u, v, online, device)
    /\ state[s] = "unborn" /\ meta[s] = NoMeta
    /\ meta' = [meta EXCEPT ![s] = [caller |-> u, callee |-> v, device |-> device]]
    /\ Begin(p, [Handler("start", "caller", u, s, "unborn") EXCEPT !.online = online])
    /\ UNCHANGED <<state, userCall, log>>

(* The call is not created: its UUID was never stored anywhere, and is free again in the model. *)
CreateFails(p) ==
    /\ meta' = [meta EXCEPT ![job[p].sid] = NoMeta]
    /\ Return(p)
    /\ UNCHANGED <<state, userCall, log>>

At(p, op, pc) == job[p].op = op /\ job[p].pc = pc

(* GET of one party's mapping: a user who has one is busy. *)
CheckFree(p, pc, u, next) ==
    /\ At(p, "start", pc)
    /\ IF userCall[u] # None
       THEN CreateFails(p)
       ELSE /\ Goto(p, next)
            /\ UNCHANGED <<state, meta, userCall, log>>

CheckCaller(p) == CheckFree(p, "caller", meta[job[p].sid].caller, "callee")
CheckCallee(p) == CheckFree(p, "callee", meta[job[p].sid].callee, "exec")

CreateExecAnyway(p) ==                                                                  \* slip
    LET s == job[p].sid IN
    /\ At(p, "start", "exec")
    /\ state' = [state EXCEPT ![s] = "ringing"]
    /\ WriteUserCalls(Parties(s), s)
    /\ job' = [Watchers(Parties(s), s) EXCEPT ![p] = [job[p] EXCEPT !.pc = "ring"]]
    /\ UNCHANGED <<meta, log>>

(* EXEC: refused when a watched key was touched, else the hash and both mappings appear at once. *)
CreateExec(p) ==
    LET s == job[p].sid IN
    /\ At(p, "start", "exec")
    /\ ~job[p].dirty
    /\ state' = [state EXCEPT ![s] = "ringing"]
    /\ WriteUserCalls(Parties(s), s)
    /\ job' = [Watchers(Parties(s), s) EXCEPT ![p] = [job[p] EXCEPT !.pc = "ring"]]
    /\ UNCHANGED <<meta, log>>

CreateAborted(p) ==
    /\ At(p, "start", "exec")
    /\ job[p].dirty
    /\ CreateFails(p)

(* call.ring to the callee; a push wakes a callee that was offline when StartCall looked. *)
SendRing(p) ==
    LET s == job[p].sid IN
    /\ At(p, "start", "ring")
    /\ \E ring \in SendToUser("ring", meta[s].callee, s), push \in Attempt(IncomingPush(job[p])) :
            Log(ring \cup push)
    /\ Goto(p, "ringing")
    /\ UNCHANGED <<state, meta, userCall>>

(* The handler confirms with call.ringing on the caller's own connection. *)
SendRinging(p) ==
    /\ At(p, "start", "ringing")
    /\ \E ringing \in SendToUser("ringing", job[p].user, job[p].sid) : Log(ringing)
    /\ Return(p)
    /\ UNCHANGED <<state, meta, userCall>>

-----------------------------------------------------------------------------
(* call.accept: only the callee, only a ringing call. *)
AcceptCall(p, u, s) ==
    /\ job[p] = Idle
    /\ Heard(u, s)
    /\ Exists(s) /\ u = meta[s].callee
    /\ Begin(p, Handler("accept", "cas", u, s, state[s]))
    /\ UNCHANGED <<state, meta, userCall, log>>

AcceptCasConflictIgnored(p) ==                                                          \* slip
    /\ At(p, "accept", "cas")
    /\ UpdateCallState(job[p].sid, "ringing", "accepted")
    /\ Goto(p, "tell")
    /\ UNCHANGED <<meta, userCall, log>>

AcceptCas(p) ==
    LET s == job[p].sid IN
    /\ At(p, "accept", "cas")
    /\ UpdateCallState(s, "ringing", "accepted")
    /\ IF state[s] = "ringing" THEN Goto(p, "tell") ELSE Return(p)
    /\ UNCHANGED <<meta, userCall, log>>

AcceptTell(p) ==
    /\ At(p, "accept", "tell")
    /\ \E accepted \in SendToUser("accepted", meta[job[p].sid].caller, job[p].sid) : Log(accepted)
    /\ Return(p)
    /\ UNCHANGED <<state, meta, userCall>>

-----------------------------------------------------------------------------
(* call.reject: only the callee, only a ringing call; the session is deleted. *)
RejectCall(p, u, s) ==
    /\ job[p] = Idle
    /\ Heard(u, s)
    /\ Exists(s) /\ u = meta[s].callee
    /\ Begin(p, Handler("reject", "cas", u, s, state[s]))
    /\ UNCHANGED <<state, meta, userCall, log>>

RejectCas(p) ==
    LET s == job[p].sid IN
    /\ At(p, "reject", "cas")
    /\ UpdateCallState(s, "ringing", "rejected")
    /\ IF state[s] = "ringing"
       THEN Goto(p, "tell") /\ Log(Occurs("left", job[p].user, s))
       ELSE Return(p) /\ UNCHANGED log
    /\ UNCHANGED <<meta, userCall>>

RejectTell(p) ==
    /\ At(p, "reject", "tell")
    /\ \E rejected \in SendToUser("rejected", meta[job[p].sid].caller, job[p].sid) : Log(rejected)
    /\ Goto(p, "read")
    /\ UNCHANGED <<state, meta, userCall>>

-----------------------------------------------------------------------------
(* call.end: either party, whatever the state; the state the snapshot shows decides what follows. *)
EndCall(p, u, s) ==
    /\ job[p] = Idle
    /\ Heard(u, s)
    /\ Exists(s) /\ u \in Parties(s)
    /\ Begin(p, Handler("end", "cas", u, s, state[s]))
    /\ Log(Occurs("left", u, s))
    /\ UNCHANGED <<state, meta, userCall>>

MarkEndedOrReturn(p, op, next) ==                                                       \* slip
    LET s == job[p].sid IN
    /\ At(p, op, "cas")
    /\ UpdateCallState(s, job[p].seen, "ended")
    /\ IF state[s] = job[p].seen THEN Goto(p, next) ELSE Return(p)
    /\ UNCHANGED <<meta, userCall, log>>

(* Neither a lost race nor an error of the script stops the handler. *)
MarkEnded(p, op, next) ==
    /\ At(p, op, "cas")
    /\ \/ UpdateCallState(job[p].sid, job[p].seen, "ended")
       \/ MayFail /\ UNCHANGED state
    /\ Goto(p, next)
    /\ UNCHANGED <<meta, userCall, log>>

TellEnded(p) ==
    \E ended \in SendToUser("ended", Peer(job[p].sid, job[p].user), job[p].sid),
       push \in Attempt(CancelPush(job[p])) :
        Log(ended \cup push)

EndCas(p) == MarkEnded(p, "end", "tell")

EndTell(p) ==
    /\ At(p, "end", "tell")
    /\ TellEnded(p)
    /\ Goto(p, "read")
    /\ UNCHANGED <<state, meta, userCall>>

-----------------------------------------------------------------------------
(* DeleteCallSession: HGETALL for the parties, then one DEL of the hash and of both mappings,
   whatever they hold by then.  After it a disconnect still has its peer to tell. *)
AfterDelete(p, jobs) ==
    job' = [jobs EXCEPT ![p] = IF job[p].op = "disconnect" THEN [job[p] EXCEPT !.pc = "tell"] ELSE Idle]

DeleteRead(p) ==
    /\ job[p].pc = "read"
    /\ IF Exists(job[p].sid) THEN Goto(p, "del") ELSE AfterDelete(p, job)
    /\ UNCHANGED <<state, meta, userCall, log>>

DeleteDelOfOne(p) ==                                                                    \* slip
    LET s == job[p].sid IN
    /\ job[p].pc = "del"
    /\ state' = IF Exists(s) THEN [state EXCEPT ![s] = "deleted"] ELSE state
    /\ WriteUserCalls({meta[s].caller}, None)
    /\ AfterDelete(p, Watchers({meta[s].caller}, None))
    /\ UNCHANGED <<meta, log>>

DeleteDel(p) ==
    LET s == job[p].sid IN
    /\ job[p].pc = "del"
    /\ state' = IF Exists(s) THEN [state EXCEPT ![s] = "deleted"] ELSE state
    /\ WriteUserCalls(Parties(s), None)
    /\ AfterDelete(p, Watchers(Parties(s), None))
    /\ UNCHANGED <<meta, log>>

-----------------------------------------------------------------------------
(* A connection is gone: HandleDisconnect and CleanupUserCall. *)

FindCallUnchecked(p, op, u) ==                                                          \* slip
    /\ job[p] = Idle
    /\ Begin(p, Handler(op, "get", u, userCall[u], "unborn"))

(* GET call:user:u is the first command of both HandleDisconnect and HandleReconnect. *)
FindCall(p, op, u) ==
    /\ job[p] = Idle
    /\ userCall[u] # None
    /\ Begin(p, Handler(op, "get", u, userCall[u], "unborn"))

HandleDisconnect(p, u) ==
    /\ FindCall(p, "disconnect", u)
    /\ Log(Occurs("left", u, userCall[u]))
    /\ UNCHANGED <<state, meta, userCall>>

(* HGETALL: an expired session leaves only the mapping to clear. *)
DisconnectGet(p) ==
    LET s == job[p].sid IN
    /\ At(p, "disconnect", "get")
    /\ IF Exists(s)
       THEN job' = [job EXCEPT ![p].pc = "cas", ![p].seen = state[s]]
       ELSE Goto(p, "clear")
    /\ UNCHANGED <<state, meta, userCall, log>>

(* ClearUserCall: DEL of the mapping, whatever it holds by then. *)
ClearUserCall(p) ==
    LET u == job[p].user IN
    /\ job[p].pc = "clear"
    /\ WriteUserCalls({u}, None)
    /\ job' = [Watchers({u}, None) EXCEPT ![p] = Idle]
    /\ UNCHANGED <<state, meta, log>>

DisconnectCas(p) == MarkEnded(p, "disconnect", "read")

(* The peer learns only after everything is deleted. *)
DisconnectTell(p) ==
    /\ At(p, "disconnect", "tell")
    /\ TellEnded(p)
    /\ Return(p)
    /\ UNCHANGED <<state, meta, userCall>>

-----------------------------------------------------------------------------
(* A new connection: HandleReconnect repeats call.ring or call.ringing. *)
HandleReconnect(p, u) ==
    /\ FindCall(p, "reconnect", u)
    /\ UNCHANGED <<state, meta, userCall, log>>

ReconnectGet(p) ==
    LET s == job[p].sid IN
    /\ At(p, "reconnect", "get")
    /\ CASE state[s] = "ringing" -> job' = [job EXCEPT ![p].pc = "tell", ![p].seen = "ringing"]
         [] ~Exists(s) -> Goto(p, "clear")
         [] OTHER -> Return(p)
    /\ UNCHANGED <<state, meta, userCall, log>>

ReconnectTell(p) ==
    LET s == job[p].sid
        u == job[p].user
    IN
    /\ At(p, "reconnect", "tell")
    /\ \E again \in SendToUser(IF u = meta[s].callee THEN "ring" ELSE "ringing", u, s) : Log(again)
    /\ Return(p)
    /\ UNCHANGED <<state, meta, userCall>>

-----------------------------------------------------------------------------
(* webrtc.offer, webrtc.answer, webrtc.ice: forwarded between the parties of an accepted call. *)
ForwardWebRTC(p, u, s) ==
    /\ job[p] = Idle
    /\ Heard(u, s)
    /\ u \in Parties(s)
    /\ state[s] = "accepted"
    /\ Begin(p, Handler("forward", "tell", u, s, "accepted"))
    /\ UNCHANGED <<state, meta, userCall, log>>

ForwardTell(p) ==
    /\ At(p, "forward", "tell")
    /\ \E media \in SendToUser("webrtc", Peer(job[p].sid, job[p].user), job[p].sid) : Log(media)
    /\ Return(p)
    /\ UNCHANGED <<state, meta, userCall>>

-----------------------------------------------------------------------------
(* Redis expires keys 120 s after CreateExec; nothing refreshes them.  The hash's deadline is set
   first, so a mapping never expires before the hash it names. *)
ExpireSession(s) ==
    /\ MayExpire
    /\ Exists(s)
    /\ state' = [state EXCEPT ![s] = "expired"]
    /\ UNCHANGED <<meta, userCall, job, log>>

ExpireMappingOfCaller(u) ==                                                             \* slip
    /\ MayExpire
    /\ userCall[u] # None /\ ~Exists(userCall[u])
    /\ u = meta[userCall[u]].caller
    /\ WriteUserCalls({u}, None)
    /\ job' = Watchers({u}, None)
    /\ UNCHANGED <<state, meta, log>>

ExpireMapping(u) ==
    /\ MayExpire
    /\ userCall[u] # None /\ ~Exists(userCall[u])
    /\ WriteUserCalls({u}, None)
    /\ job' = Watchers({u}, None)
    /\ UNCHANGED <<state, meta, log>>

(* A server crashes, a Redis command fails, or its reply is lost: the handler goes no further. *)
Abort(p) ==
    /\ MayFail
    /\ job[p] # Idle
    /\ IF Watching(job[p])
       THEN CreateFails(p)
       ELSE Return(p) /\ UNCHANGED <<state, meta, userCall, log>>

-----------------------------------------------------------------------------
(* A message or an event starts a handler. *)
Request(p) ==
    \E u \in Users :
        \/ \E v \in Users, s \in Sessions, online \in BOOLEAN, device \in Devices :
                StartCall(p, u, v, s, online, device)
        \/ \E s \in Sessions :
                \/ AcceptCall(p, u, s)
                \/ RejectCall(p, u, s)
                \/ EndCall(p, u, s)
                \/ ForwardWebRTC(p, u, s)
        \/ HandleDisconnect(p, u)
        \/ HandleReconnect(p, u)

(* A handler takes its next step. *)
Step(p) ==
    \/ CheckCaller(p) \/ CheckCallee(p) \/ CreateExec(p) \/ CreateAborted(p)
    \/ SendRing(p) \/ SendRinging(p)
    \/ AcceptCas(p) \/ AcceptTell(p)
    \/ RejectCas(p) \/ RejectTell(p)
    \/ EndCas(p) \/ EndTell(p)
    \/ DeleteRead(p) \/ DeleteDel(p)
    \/ DisconnectGet(p) \/ DisconnectCas(p) \/ DisconnectTell(p) \/ ClearUserCall(p)
    \/ ReconnectGet(p) \/ ReconnectTell(p)
    \/ ForwardTell(p)

Next ==
    \/ \E p \in Procs : Request(p) \/ Step(p) \/ Abort(p)
    \/ \E s \in Sessions : ExpireSession(s)
    \/ \E u \in Users : ExpireMapping(u)

Spec == Init /\ [][Next]_vars

(* The Go scheduler runs every goroutine, Redis keeps its deadlines; no message need ever arrive. *)
Fairness ==
    /\ \A p \in Procs : WF_vars(Step(p))
    /\ \A s \in Sessions : WF_vars(ExpireSession(s))
    /\ \A u \in Users : WF_vars(ExpireMapping(u))

FairSpec == Spec /\ Fairness

-----------------------------------------------------------------------------
(* Types: what the Redis keys and the local variables of the handlers can hold. *)
TypeOK ==
    /\ state \in [Sessions -> States]
    /\ meta \in [Sessions -> Meta]
    /\ userCall \in [Users -> Sessions \cup {None}]
    /\ job \in [Procs -> Job \cup {Idle}]
    /\ log \subseteq Event

(* A user is in two calls at once only if it was in a third that is gone (whose late cleanup wiped
   its mapping): the WATCH of CreateCallSession keeps simultaneous call.starts apart
   (session.go:173-246). *)
Exclusive ==
    \A s1, s2 \in Sessions : \A u \in Parties(s1) \cap Parties(s2) :
        s1 # s2 /\ Exists(s1) /\ Exists(s2)
            => \E s3 \in Sessions : state[s3] \in Gone /\ u \in Parties(s3)

(* A user's mapping is never taken from one call by another: it goes through "no call" first
   (session.go:181-195 and the EXEC of session.go:207). *)
NeverOverwritten ==
    [][\A u \in Users : userCall'[u] \in {userCall[u], None} \/ userCall[u] = None]_vars

(* No mapping outlives the deletion of its session: only expiry leaves a dangling mapping, which the
   next disconnect or reconnect clears (session.go:353-358, 381-384). *)
MappingHasSession ==
    \A u \in Users : userCall[u] # None =>
        /\ u \in Parties(userCall[u])
        /\ state[userCall[u]] \in Live \cup {"expired"}

(* One outcome per call: a caller that was told "rejected" is never told "accepted", and no media
   signaling is forwarded for its call (call.go:223-234, 287-298, 429-432). *)
SettledOnce ==
    \A e \in log : e.kind = "rejected" =>
        ~ \E f \in log : f.sid = e.sid /\ f.kind \in {"accepted", "webrtc"}

(* Without faults, once a session is deleted each party left it, was told that it is over, or is
   the peer of a disconnect that is about to tell it, also when hang-ups, disconnects and rejections
   of one call race (call.go:300-308, 374-389, 489-503). *)
BothLearn ==
    \A s \in Sessions : \A u \in Parties(s) : state[s] = "deleted" =>
        \/ \E e \in log : e.user = u /\ e.sid = s /\ e.kind \in {"left", "ended", "rejected"}
        \/ \E p \in Procs : At(p, "disconnect", "tell") /\ job[p].sid = s /\ job[p].user # u

(* Without faults, a hang-up or a disconnect never returns while its call is alive, not even when
   its snapshot went stale because the peer accepted or rejected in between (call.go:364-372,
   session.go:389-391). *)
HangupTakesEffect ==
    [][\A p \in Procs : job[p].op \in {"end", "disconnect"} /\ job'[p] = Idle
            => state'[job[p].sid] \in Gone]_vars

(* Whatever fails, no user stays busy with one call for ever (session.go:220, 223-224). *)
BusyEventuallyFree ==
    \A u \in Users : \A s \in Sessions : userCall[u] = s ~> userCall[u] # s

-----------------------------------------------------------------------------
(* The inductive invariant behind Exclusive, NeverOverwritten and MappingHasSession. *)

(* WATCH works (session.go:233): until a watched key is touched, what CheckCaller and CheckCallee
   read is still true, and the session under construction is stored nowhere. *)
Undisturbed(p) ==
    LET s == job[p].sid IN
    /\ state[s] = "unborn"
    /\ Parties(s) \subseteq Users
    /\ meta[s].caller # meta[s].callee
    /\ \A q \in Procs \ {p} : Watching(job[q]) => job[q].sid # s
    /\ ~job[p].dirty /\ job[p].pc \in {"callee", "exec"} => userCall[meta[s].caller] = None
    /\ ~job[p].dirty /\ job[p].pc = "exec" => userCall[meta[s].callee] = None
WatchInv == \A p \in Procs : Watching(job[p]) => Undisturbed(p)

(* A stored session has two users for parties. *)
StoredParties ==
    \A s \in Sessions : state[s] # "unborn" => Parties(s) \subseteq Users

(* A handler past its first command works on a session that was stored; it clears the mapping only
   of a party of a session that is gone. *)
Sound(j) ==
    j # Idle /\ ~Watching(j) =>
        /\ state[j.sid] # "unborn"
        /\ j.op \in {"disconnect", "reconnect"} => j.user \in Parties(j.sid)
        /\ j.pc = "clear" => j.op \in {"disconnect", "reconnect"} /\ state[j.sid] \in Gone
HandlerInv == \A p \in Procs : Sound(job[p])

(* A live session lost the mapping of a party only to the cleanup of another of its sessions. *)
LiveMapped ==
    \A s \in Sessions : \A u \in Parties(s) : Exists(s) =>
        \/ userCall[u] = s
        \/ \E s3 \in Sessions : state[s3] \in Gone /\ u \in Parties(s3)

IInv ==
    /\ TypeOK
    /\ WatchInv
    /\ StoredParties
    /\ HandlerInv
    /\ MappingHasSession
    /\ LiveMapped

-----------------------------------------------------------------------------
(* The sessions refine the registry: it sees the hash's state, the parties of stored sessions and
   the mappings. *)
Phase(s) == IF state[s] \in Gone THEN "gone" ELSE state[s]
Pair(s) == IF state[s] = "unborn" THEN {} ELSE Parties(s)
Registry == INSTANCE CallRegistry WITH
    phase <- [s \in Sessions |-> Phase(s)],
    pair <- [s \in Sessions |-> Pair(s)],
    owner <- userCall
RegistrySpec == Registry!Spec

-----------------------------------------------------------------------------
(* "DeleteCallSession removes a call session and its user mappings" (session.go:342): what its DEL
   removes names the session it was called for. *)
OwnMappingsOnly ==
    [][\A p \in Procs : job[p].pc = "del" /\ job'[p].pc # "del" =>
            \A u \in Users : userCall'[u] # userCall[u] => userCall[u] = job[p].sid]_vars

(* "If the caller is ending a ringing call and a push was sent, cancel it on the device"
   (call.go:391): no cancel push for a call that no push announced or is about to announce. *)
CancelOnlyAfterPush ==
    \A e \in log : e.kind = "cancelled" =>
        \/ [e EXCEPT !.kind = "incoming"] \in log
        \/ \E p \in Procs : At(p, "start", "ring") /\ job[p].sid = e.sid

(* "Periodic Redis TTL refresh keeps sessions alive" (README.md:1014), "Either party can end the call
   at any time" (call.go:334): an accepted call does not vanish before a party hangs up or is
   disconnected. *)
AcceptedCallPersists ==
    [][\A s \in Sessions : state[s] = "accepted" /\ state'[s] \in Gone
            => \E e \in log : e.kind = "left" /\ e.sid = s]_vars
=============================================================================
