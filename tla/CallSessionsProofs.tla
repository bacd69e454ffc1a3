------------------------- MODULE CallSessionsProofs -------------------------
(* Proofs about CallSessions, for every set of users, sessions and goroutines, with and without
   faults and expiry. *)
EXTENDS CallSessions, TLAPS

USE NoneAssumption

-----------------------------------------------------------------------------
(* Type correctness, one lemma per kind of step. *)

LEMMA HandlerType ==
    ASSUME NEW op \in Ops, NEW pc \in Pcs, NEW u \in Users, NEW s \in Sessions, NEW seen \in States
    PROVE  Handler(op, pc, u, s, seen) \in Job
  BY DEF Handler, Idle, Job

LEMMA OnlineType ==
    ASSUME NEW j \in Job, NEW b \in BOOLEAN
    PROVE  [j EXCEPT !.online = b] \in Job
  BY DEF Job

LEMMA IdleIsNoJob == Idle \notin Job
  BY DEF Idle, Job, Ops

LEMMA OccursType ==
    ASSUME NEW kind \in Kinds, NEW u \in Users \cup {None}, NEW s \in Sessions
    PROVE  Occurs(kind, u, s) \subseteq Event
  BY DEF Occurs, Event

LEMMA SendType ==
    ASSUME NEW kind \in Kinds, NEW u \in Users \cup {None}, NEW s \in Sessions,
           NEW e \in SendToUser(kind, u, s)
    PROVE  e \subseteq Event
  BY OccursType DEF SendToUser, Attempt

LEMMA TouchType ==
    ASSUME NEW j \in Job \cup {Idle}, NEW U
    PROVE  Touch(j, U) \in Job \cup {Idle}
  <1>1. CASE Watching(j)
    <2>1. j \in Job
      BY <1>1 DEF Watching, Idle
    <2> QED
      BY <2>1 DEF Touch, Job
  <1>2. CASE ~Watching(j)
    BY <1>2 DEF Touch
  <1> QED
    BY <1>1, <1>2

LEMMA WatchersType ==
    ASSUME TypeOK, NEW U, NEW v
    PROVE  Watchers(U, v) \in [Procs -> Job \cup {Idle}]
  <1> SUFFICES ASSUME NEW p \in Procs
               PROVE  Touch(job[p], {u \in U : userCall[u] # v}) \in Job \cup {Idle}
    BY DEF Watchers
  <1> QED
    BY TouchType DEF TypeOK

LEMMA WriteType ==
    ASSUME TypeOK, NEW U, NEW v \in Sessions \cup {None}, WriteUserCalls(U, v)
    PROVE  userCall' \in [Users -> Sessions \cup {None}]
  BY DEF WriteUserCalls, TypeOK

(* A goroutine whose handler is at some step runs a handler. *)
LEMMA AtJob ==
    ASSUME TypeOK, NEW p \in Procs, job[p].pc \in Pcs
    PROVE  job[p] \in Job /\ job[p] # Idle /\ job[p].sid \in Sessions /\ job[p].user \in Users
  BY DEF TypeOK, Idle, Job, Pcs

LEMMA BeginType ==
    ASSUME TypeOK, NEW p \in Procs, NEW j \in Job \cup {Idle}, Begin(p, j)
    PROVE  job' \in [Procs -> Job \cup {Idle}]
  BY DEF TypeOK, Begin

LEMMA ReturnType ==
    ASSUME TypeOK, NEW p \in Procs, Return(p)
    PROVE  job' \in [Procs -> Job \cup {Idle}]
  BY DEF TypeOK, Return

LEMMA GotoType ==
    ASSUME TypeOK, NEW p \in Procs, job[p] \in Job, NEW pc \in Pcs, Goto(p, pc)
    PROVE  job' \in [Procs -> Job \cup {Idle}]
  <1>1. [job[p] EXCEPT !.pc = pc] \in Job
    BY DEF Job
  <1>2. job' = [job EXCEPT ![p] = [job[p] EXCEPT !.pc = pc]]
    BY DEF Goto
  <1> QED
    BY <1>1, <1>2 DEF TypeOK

LEMMA UpdateType ==
    ASSUME TypeOK, NEW s \in Sessions, NEW old, NEW new \in States, UpdateCallState(s, old, new)
    PROVE  state' \in [Sessions -> States]
  BY DEF TypeOK, UpdateCallState

LEMMA MetaType ==
    ASSUME TypeOK, NEW s \in Sessions
    PROVE  /\ meta[s].caller \in Users \cup {None}
           /\ meta[s].callee \in Users \cup {None}
  BY DEF TypeOK, Meta

LEMMA CancelType ==
    ASSUME TypeOK, NEW j \in Job
    PROVE  CancelPush(j) \subseteq Event
  <1>1. j.sid \in Sessions
    BY DEF Job
  <1> QED
    BY <1>1, MetaType, OccursType DEF CancelPush, Kinds

LEMMA TellEndedType ==
    ASSUME TypeOK, NEW p \in Procs, job[p] \in Job, TellEnded(p)
    PROVE  log' \subseteq Event
  <1>1. /\ job[p].sid \in Sessions
        /\ Peer(job[p].sid, job[p].user) \in Users \cup {None}
    BY MetaType DEF Job, Peer
  <1>2. PICK ended \in SendToUser("ended", Peer(job[p].sid, job[p].user), job[p].sid),
             push \in Attempt(CancelPush(job[p])) : Log(ended \cup push)
    BY DEF TellEnded
  <1>3. ended \subseteq Event
    BY <1>1, SendType DEF Kinds
  <1>4. push \subseteq Event
    BY CancelType DEF Attempt
  <1> QED
    BY <1>2, <1>3, <1>4 DEF Log, TypeOK

LEMMA CreateFailsType ==
    ASSUME TypeOK, NEW p \in Procs, CreateFails(p)
    PROVE  TypeOK'
  <1>1. meta' \in [Sessions -> Meta]
    BY DEF TypeOK, CreateFails, NoMeta, Meta
  <1>2. job' \in [Procs -> Job \cup {Idle}]
    BY ReturnType DEF CreateFails
  <1> QED
    BY <1>1, <1>2 DEF TypeOK, CreateFails

LEMMA CheckFreeType ==
    ASSUME TypeOK, NEW p \in Procs, NEW pc \in Pcs, NEW next \in Pcs, NEW u, CheckFree(p, pc, u, next)
    PROVE  TypeOK'
  <1>1. job[p] \in Job
    BY AtJob DEF CheckFree, At
  <1>2. CASE userCall[u] # None
    BY <1>2, CreateFailsType DEF CheckFree
  <1>3. CASE userCall[u] = None
    BY <1>1, <1>3, GotoType DEF CheckFree, TypeOK
  <1> QED
    BY <1>2, <1>3

LEMMA RequestType ==
    ASSUME TypeOK, NEW p \in Procs, Request(p)
    PROVE  TypeOK'
  <1> USE DEF TypeOK
  <1>1. ASSUME NEW u \in Users, NEW v \in Users, NEW s \in Sessions, NEW online \in BOOLEAN,
               NEW device \in Devices, StartCall(p, u, v, s, online, device)
        PROVE  TypeOK'
    <2>1. meta' \in [Sessions -> Meta]
      BY <1>1, DevicesAssumption DEF StartCall, Meta
    <2>2. [Handler("start", "caller", u, s, "unborn") EXCEPT !.online = online] \in Job
      <3>1. Handler("start", "caller", u, s, "unborn") \in Job
        BY HandlerType DEF Ops, Pcs, States, Absent
      <3> QED
        BY <3>1, OnlineType
    <2>3. job' \in [Procs -> Job \cup {Idle}]
      BY <1>1, <2>2, BeginType DEF StartCall
    <2>4. UNCHANGED <<state, userCall, log>>
      BY <1>1 DEF StartCall
    <2> QED
      BY <2>1, <2>3, <2>4
  <1>2. ASSUME NEW u \in Users, NEW s \in Sessions, AcceptCall(p, u, s) \/ RejectCall(p, u, s)
        PROVE  TypeOK'
    <2>1. \A op \in Ops : Handler(op, "cas", u, s, state[s]) \in Job
      BY HandlerType DEF Pcs
    <2>2. job' \in [Procs -> Job \cup {Idle}]
      BY <1>2, <2>1, BeginType DEF AcceptCall, RejectCall, Ops
    <2> QED
      BY <1>2, <2>2 DEF AcceptCall, RejectCall
  <1>3. ASSUME NEW u \in Users, NEW s \in Sessions, EndCall(p, u, s)
        PROVE  TypeOK'
    <2>1. Handler("end", "cas", u, s, state[s]) \in Job
      BY HandlerType DEF Pcs, Ops
    <2>2. job' \in [Procs -> Job \cup {Idle}]
      BY <1>3, <2>1, BeginType DEF EndCall
    <2>3. Occurs("left", u, s) \subseteq Event
      BY OccursType DEF Kinds
    <2> QED
      BY <1>3, <2>2, <2>3 DEF EndCall, Log
  <1>4. ASSUME NEW u \in Users, NEW s \in Sessions, ForwardWebRTC(p, u, s)
        PROVE  TypeOK'
    <2>1. Handler("forward", "tell", u, s, "accepted") \in Job
      BY HandlerType DEF Pcs, Ops, States, Live
    <2>2. job' \in [Procs -> Job \cup {Idle}]
      BY <1>4, <2>1, BeginType DEF ForwardWebRTC
    <2> QED
      BY <1>4, <2>2 DEF ForwardWebRTC
  <1>5. ASSUME NEW u \in Users, HandleDisconnect(p, u) \/ HandleReconnect(p, u)
        PROVE  TypeOK'
    <2>1. userCall[u] \in Sessions
      BY <1>5 DEF HandleDisconnect, HandleReconnect, FindCall
    <2>2. \A op \in Ops : Handler(op, "get", u, userCall[u], "unborn") \in Job
      BY <2>1, HandlerType DEF Pcs, States, Absent
    <2>3. job' \in [Procs -> Job \cup {Idle}]
      BY <1>5, <2>2, BeginType DEF HandleDisconnect, HandleReconnect, FindCall, Ops
    <2>4. Occurs("left", u, userCall[u]) \subseteq Event
      BY <2>1, OccursType DEF Kinds
    <2> QED
      BY <1>5, <2>3, <2>4 DEF HandleDisconnect, HandleReconnect, Log
  <1> QED
    BY <1>1, <1>2, <1>3, <1>4, <1>5 DEF Request

LEMMA StartStepType ==
    ASSUME TypeOK, NEW p \in Procs,
           \/ CheckCaller(p) \/ CheckCallee(p) \/ CreateExec(p) \/ CreateAborted(p)
           \/ SendRing(p) \/ SendRinging(p)
    PROVE  TypeOK'
  <1>1. CASE CheckCaller(p) \/ CheckCallee(p)
    BY <1>1, CheckFreeType DEF CheckCaller, CheckCallee, Pcs
  <1>2. CASE CreateAborted(p)
    BY <1>2, CreateFailsType DEF CreateAborted
  <1>3. CASE CreateExec(p)
    <2>1. job[p] \in Job /\ job[p].sid \in Sessions
      BY <1>3, AtJob DEF CreateExec, At, Pcs
    <2>2. state' \in [Sessions -> States]
      BY <1>3, <2>1 DEF CreateExec, TypeOK, States, Live
    <2>3. userCall' \in [Users -> Sessions \cup {None}]
      BY <1>3, <2>1, WriteType DEF CreateExec
    <2>4. [job[p] EXCEPT !.pc = "ring"] \in Job
      BY <2>1 DEF Job, Pcs
    <2>5. job' \in [Procs -> Job \cup {Idle}]
      BY <1>3, <2>4, WatchersType DEF CreateExec
    <2> QED
      BY <1>3, <2>2, <2>3, <2>5 DEF CreateExec, TypeOK
  <1>4. CASE SendRing(p)
    <2>1. job[p] \in Job /\ job[p].sid \in Sessions
      BY <1>4, AtJob DEF SendRing, At, Pcs
    <2>2. job' \in [Procs -> Job \cup {Idle}]
      BY <1>4, <2>1, GotoType DEF SendRing, Pcs
    <2>3. PICK ring \in SendToUser("ring", meta[job[p].sid].callee, job[p].sid),
               push \in Attempt(IncomingPush(job[p])) : Log(ring \cup push)
      BY <1>4 DEF SendRing
    <2>4. ring \subseteq Event
      BY <2>1, MetaType, SendType DEF Kinds
    <2>5. push \subseteq Event
      <3>1. IncomingPush(job[p]) \subseteq Event
        BY <2>1, MetaType, OccursType DEF IncomingPush, Kinds
      <3> QED
        BY <3>1 DEF Attempt
    <2> QED
      BY <1>4, <2>2, <2>3, <2>4, <2>5 DEF SendRing, TypeOK, Log
  <1>5. CASE SendRinging(p)
    <2>1. job[p].sid \in Sessions /\ job[p].user \in Users
      BY <1>5, AtJob DEF SendRinging, At, Pcs
    <2>2. job' \in [Procs -> Job \cup {Idle}]
      BY <1>5, ReturnType DEF SendRinging
    <2>3. PICK ringing \in SendToUser("ringing", job[p].user, job[p].sid) : Log(ringing)
      BY <1>5 DEF SendRinging
    <2>4. ringing \subseteq Event
      BY <2>1, SendType DEF Kinds
    <2> QED
      BY <1>5, <2>2, <2>3, <2>4 DEF SendRinging, TypeOK, Log
  <1> QED
    BY <1>1, <1>2, <1>3, <1>4, <1>5

LEMMA AnswerStepType ==
    ASSUME TypeOK, NEW p \in Procs,
           AcceptCas(p) \/ AcceptTell(p) \/ RejectCas(p) \/ RejectTell(p)
    PROVE  TypeOK'
  <1>1. job[p] \in Job /\ job[p].sid \in Sessions /\ job[p].user \in Users
    BY AtJob DEF AcceptCas, AcceptTell, RejectCas, RejectTell, At, Pcs
  <1>2. CASE AcceptCas(p)
    <2>1. state' \in [Sessions -> States]
      BY <1>1, <1>2, UpdateType DEF AcceptCas, States, Live
    <2>2. job' \in [Procs -> Job \cup {Idle}]
      BY <1>1, <1>2, GotoType, ReturnType DEF AcceptCas, Pcs
    <2> QED
      BY <1>2, <2>1, <2>2 DEF AcceptCas, TypeOK
  <1>3. CASE AcceptTell(p)
    <2>1. job' \in [Procs -> Job \cup {Idle}]
      BY <1>3, ReturnType DEF AcceptTell
    <2>2. PICK accepted \in SendToUser("accepted", meta[job[p].sid].caller, job[p].sid) : Log(accepted)
      BY <1>3 DEF AcceptTell
    <2>3. accepted \subseteq Event
      BY <1>1, MetaType, SendType DEF Kinds
    <2> QED
      BY <1>3, <2>1, <2>2, <2>3 DEF AcceptTell, TypeOK, Log
  <1>4. CASE RejectCas(p)
    <2>1. state' \in [Sessions -> States]
      BY <1>1, <1>4, UpdateType DEF RejectCas, States, Live
    <2>2. job' \in [Procs -> Job \cup {Idle}]
      BY <1>1, <1>4, GotoType, ReturnType DEF RejectCas, Pcs
    <2>3. Occurs("left", job[p].user, job[p].sid) \subseteq Event
      BY <1>1, OccursType DEF Kinds
    <2> QED
      BY <1>4, <2>1, <2>2, <2>3 DEF RejectCas, TypeOK, Log
  <1>5. CASE RejectTell(p)
    <2>1. job' \in [Procs -> Job \cup {Idle}]
      BY <1>1, <1>5, GotoType DEF RejectTell, Pcs
    <2>2. PICK rejected \in SendToUser("rejected", meta[job[p].sid].caller, job[p].sid) : Log(rejected)
      BY <1>5 DEF RejectTell
    <2>3. rejected \subseteq Event
      BY <1>1, MetaType, SendType DEF Kinds
    <2> QED
      BY <1>5, <2>1, <2>2, <2>3 DEF RejectTell, TypeOK, Log
  <1> QED
    BY <1>2, <1>3, <1>4, <1>5

LEMMA EndStepType ==
    ASSUME TypeOK, NEW p \in Procs,
           \/ EndCas(p) \/ EndTell(p) \/ DeleteRead(p) \/ DeleteDel(p) \/ ClearUserCall(p)
           \/ DisconnectGet(p) \/ DisconnectCas(p) \/ DisconnectTell(p)
    PROVE  TypeOK'
  <1>1. job[p] \in Job /\ job[p].sid \in Sessions /\ job[p].user \in Users
    BY AtJob DEF EndCas, EndTell, DeleteRead, DeleteDel, ClearUserCall, DisconnectGet,
                 DisconnectCas, DisconnectTell, MarkEnded, At, Pcs
  <1>2. ASSUME NEW op, NEW next \in Pcs, MarkEnded(p, op, next)
        PROVE  TypeOK'
    <2>1. state' \in [Sessions -> States]
      BY <1>1, <1>2, UpdateType DEF MarkEnded, TypeOK, States, Live
    <2>2. job' \in [Procs -> Job \cup {Idle}]
      BY <1>1, <1>2, GotoType DEF MarkEnded
    <2> QED
      BY <1>2, <2>1, <2>2 DEF MarkEnded, TypeOK
  <1>3. CASE EndCas(p) \/ DisconnectCas(p)
    BY <1>2, <1>3 DEF EndCas, DisconnectCas, Pcs
  <1>4. CASE EndTell(p)
    <2>1. job' \in [Procs -> Job \cup {Idle}]
      BY <1>1, <1>4, GotoType DEF EndTell, Pcs
    <2>2. log' \subseteq Event
      BY <1>1, <1>4, TellEndedType DEF EndTell
    <2> QED
      BY <1>4, <2>1, <2>2 DEF EndTell, TypeOK
  <1>5. CASE DisconnectTell(p)
    <2>1. job' \in [Procs -> Job \cup {Idle}]
      BY <1>5, ReturnType DEF DisconnectTell
    <2>2. log' \subseteq Event
      BY <1>1, <1>5, TellEndedType DEF DisconnectTell
    <2> QED
      BY <1>5, <2>1, <2>2 DEF DisconnectTell, TypeOK
  <1>6. ASSUME NEW jobs \in [Procs -> Job \cup {Idle}], AfterDelete(p, jobs)
        PROVE  job' \in [Procs -> Job \cup {Idle}]
    <2>1. [job[p] EXCEPT !.pc = "tell"] \in Job
      BY <1>1 DEF Job, Pcs
    <2> QED
      BY <1>6, <2>1 DEF AfterDelete
  <1>7. CASE DeleteRead(p)
    <2>1. job' \in [Procs -> Job \cup {Idle}]
      BY <1>1, <1>6, <1>7, GotoType DEF DeleteRead, Pcs, TypeOK
    <2> QED
      BY <1>7, <2>1 DEF DeleteRead, TypeOK
  <1>8. CASE DeleteDel(p)
    <2>1. state' \in [Sessions -> States]
      BY <1>1, <1>8 DEF DeleteDel, TypeOK, States, Absent
    <2>2. userCall' \in [Users -> Sessions \cup {None}]
      BY <1>8, WriteType DEF DeleteDel
    <2>3. job' \in [Procs -> Job \cup {Idle}]
      BY <1>6, <1>8, WatchersType DEF DeleteDel
    <2> QED
      BY <1>8, <2>1, <2>2, <2>3 DEF DeleteDel, TypeOK
  <1>9. CASE ClearUserCall(p)
    <2>1. userCall' \in [Users -> Sessions \cup {None}]
      BY <1>9, WriteType DEF ClearUserCall
    <2>2. job' \in [Procs -> Job \cup {Idle}]
      BY <1>9, WatchersType DEF ClearUserCall
    <2> QED
      BY <1>9, <2>1, <2>2 DEF ClearUserCall, TypeOK
  <1>10. CASE DisconnectGet(p)
    <2>1. [job[p] EXCEPT !.pc = "cas", !.seen = state[job[p].sid]] \in Job
      BY <1>1 DEF Job, Pcs, TypeOK
    <2>2. CASE Exists(job[p].sid)
      <3>1. job' = [job EXCEPT ![p] = [job[p] EXCEPT !.pc = "cas", !.seen = state[job[p].sid]]]
        BY <1>10, <2>2 DEF DisconnectGet, TypeOK
      <3> QED
        BY <1>10, <2>1, <3>1 DEF DisconnectGet, TypeOK
    <2>3. CASE ~Exists(job[p].sid)
      BY <1>1, <1>10, <2>3, GotoType DEF DisconnectGet, TypeOK, Pcs
    <2> QED
      BY <2>2, <2>3
  <1> QED
    BY <1>3, <1>4, <1>5, <1>7, <1>8, <1>9, <1>10

LEMMA ReconnectStepType ==
    ASSUME TypeOK, NEW p \in Procs, ReconnectGet(p) \/ ReconnectTell(p) \/ ForwardTell(p)
    PROVE  TypeOK'
  <1>1. job[p] \in Job /\ job[p].sid \in Sessions /\ job[p].user \in Users
    BY AtJob DEF ReconnectGet, ReconnectTell, ForwardTell, At, Pcs
  <1>2. CASE ReconnectGet(p)
    <2>1. [job[p] EXCEPT !.pc = "tell", !.seen = "ringing"] \in Job
      BY <1>1 DEF Job, Pcs, States, Live
    <2>2. CASE state[job[p].sid] = "ringing"
      <3>1. job' = [job EXCEPT ![p] = [job[p] EXCEPT !.pc = "tell", !.seen = "ringing"]]
        BY <1>2, <2>2 DEF ReconnectGet, TypeOK, Exists, Live
      <3> QED
        BY <1>2, <2>1, <3>1 DEF ReconnectGet, TypeOK
    <2>3. CASE state[job[p].sid] # "ringing"
      <3>1. Goto(p, "clear") \/ Return(p)
        BY <1>2, <2>3 DEF ReconnectGet
      <3>2. job' \in [Procs -> Job \cup {Idle}]
        BY <1>1, <3>1, GotoType, ReturnType DEF Pcs
      <3> QED
        BY <1>2, <3>2 DEF ReconnectGet, TypeOK
    <2> QED
      BY <2>2, <2>3
  <1>3. CASE ReconnectTell(p)
    <2> DEFINE again == IF job[p].user = meta[job[p].sid].callee THEN "ring" ELSE "ringing"
    <2>1. job' \in [Procs -> Job \cup {Idle}]
      BY <1>3, ReturnType DEF ReconnectTell
    <2>2. PICK e \in SendToUser(again, job[p].user, job[p].sid) : Log(e)
      BY <1>3 DEF ReconnectTell
    <2>3. e \subseteq Event
      BY <1>1, SendType DEF Kinds
    <2> QED
      BY <1>3, <2>1, <2>2, <2>3 DEF ReconnectTell, TypeOK, Log
  <1>4. CASE ForwardTell(p)
    <2>1. job' \in [Procs -> Job \cup {Idle}]
      BY <1>4, ReturnType DEF ForwardTell
    <2>2. PICK e \in SendToUser("webrtc", Peer(job[p].sid, job[p].user), job[p].sid) : Log(e)
      BY <1>4 DEF ForwardTell
    <2>3. Peer(job[p].sid, job[p].user) \in Users \cup {None}
      BY <1>1, MetaType DEF Peer
    <2>4. e \subseteq Event
      BY <1>1, <2>3, SendType DEF Kinds
    <2> QED
      BY <1>4, <2>1, <2>2, <2>4 DEF ForwardTell, TypeOK, Log
  <1> QED
    BY <1>2, <1>3, <1>4

LEMMA StepType ==
    ASSUME TypeOK, NEW p \in Procs, Step(p)
    PROVE  TypeOK'
  BY StartStepType, AnswerStepType, EndStepType, ReconnectStepType DEF Step

LEMMA FaultType ==
    ASSUME TypeOK,
           \/ \E p \in Procs : Abort(p)
           \/ \E s \in Sessions : ExpireSession(s)
           \/ \E u \in Users : ExpireMapping(u)
    PROVE  TypeOK'
  <1>1. ASSUME NEW p \in Procs, Abort(p)
        PROVE  TypeOK'
    <2>1. CASE Watching(job[p])
      BY <1>1, <2>1, CreateFailsType DEF Abort
    <2>2. CASE ~Watching(job[p])
      BY <1>1, <2>2, ReturnType DEF Abort, TypeOK
    <2> QED
      BY <2>1, <2>2
  <1>2. ASSUME NEW s \in Sessions, ExpireSession(s)
        PROVE  TypeOK'
    BY <1>2 DEF ExpireSession, TypeOK, States, Absent
  <1>3. ASSUME NEW u \in Users, ExpireMapping(u)
        PROVE  TypeOK'
    <2>1. userCall' \in [Users -> Sessions \cup {None}]
      BY <1>3, WriteType DEF ExpireMapping
    <2>2. job' \in [Procs -> Job \cup {Idle}]
      BY <1>3, WatchersType DEF ExpireMapping
    <2> QED
      BY <1>3, <2>1, <2>2 DEF ExpireMapping, TypeOK
  <1> QED
    BY <1>1, <1>2, <1>3

LEMMA InitType == Init => TypeOK
  BY DEF Init, TypeOK, States, Absent, NoMeta, Meta

LEMMA NextType == TypeOK /\ [Next]_vars => TypeOK'
  <1> SUFFICES ASSUME TypeOK, [Next]_vars
               PROVE  TypeOK'
    OBVIOUS
  <1>1. CASE Next
    BY <1>1, RequestType, StepType, FaultType DEF Next
  <1>2. CASE UNCHANGED vars
    BY <1>2 DEF vars, TypeOK
  <1> QED
    BY <1>1, <1>2

(* In every behaviour the Redis keys and the variables of the handlers hold what the code expects of
   them: a handler that runs has a user and a session, a mapping names a session. *)
THEOREM TypeCorrect == Spec => []TypeOK
  BY InitType, NextType, PTL DEF Spec
=============================================================================
