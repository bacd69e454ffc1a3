------------------------ MODULE CallSessionsOutcomes ------------------------
(***************************************************************************)
(* How a call ends and who learns of it, for every set of users, sessions  *)
(* and goroutines: a call has one outcome whatever fails, and without      *)
(* faults every party of a deleted session learns that it is over and no   *)
(* hang-up returns while its call is alive.                                *)
(***************************************************************************)
EXTENDS CallSessionsSafety

(* An event that is in the log if its kind is recorded. *)
Logged(kind, u, s) == Occurs(kind, u, s) \subseteq log

-----------------------------------------------------------------------------
(* A call was accepted or rejected: its session says so, a handler that moved it there is about to
   tell, or somebody was told. *)
TellsAccepted(j) == j.op \in {"accept", "forward"} /\ j.pc = "tell"
TellsRejected(j) == j.op = "reject" /\ j.pc = "tell"

Accepted(s) ==
    \/ state[s] = "accepted"
    \/ \E p \in Procs : TellsAccepted(job[p]) /\ job[p].sid = s
    \/ \E e \in log : e.kind \in {"accepted", "webrtc"} /\ e.sid = s
Rejected(s) ==
    \/ state[s] = "rejected"
    \/ \E p \in Procs : TellsRejected(job[p]) /\ job[p].sid = s
    \/ \E e \in log : e.kind = "rejected" /\ e.sid = s

(* Inductive: both outcomes come out of "ringing", and no session returns there. *)
OutcomeInv ==
    \A s \in Sessions :
        /\ ~(Accepted(s) /\ Rejected(s))
        /\ Accepted(s) \/ Rejected(s) => state[s] \notin {"unborn", "ringing"}

(* The handlers that delete a session work for a party of it, who had left it before; if no message is
   lost, a rejection or a hang-up told the other party before it deletes, and a disconnect has its
   peer to tell only after the session is gone. *)
Closing == {"reject", "end", "disconnect"}
Departed(j) ==
    /\ j.pc \in {"read", "del"} => j.op \in Closing
    /\ j.op = "reject" => j.user = meta[j.sid].callee
    /\ j.op \in {"end", "disconnect"} => j.user \in Parties(j.sid)
    /\ j.op \in Closing /\ (j.op = "reject" => j.pc # "cas") => Logged("left", j.user, j.sid)
    /\ j.op = "disconnect" /\ j.pc = "tell" => state[j.sid] \in Gone
    /\ ~MayFail /\ j.pc \in {"read", "del"} =>
        /\ j.op = "reject" => Logged("rejected", meta[j.sid].caller, j.sid)
        /\ j.op = "end" => Logged("ended", Peer(j.sid, j.user), j.sid)
DepartInv == \A p \in Procs : Departed(job[p])

-----------------------------------------------------------------------------
(* What a step does to the goroutines: p goes on with job j, another may have its watch touched. *)
Takes(p, j) ==
    /\ job'[p] = j
    /\ \A q \in Procs \ {p} : job'[q] = job[q] \/ (Watching(job[q]) /\ Watching(job'[q]))

LEMMA Alone ==
    ASSUME TypeOK, NEW p \in Procs, NEW j, job' = [job EXCEPT ![p] = j]
    PROVE  Takes(p, j)
  BY DEF TypeOK, Takes

LEMMA Touching ==
    ASSUME TypeOK, NEW p \in Procs, NEW U, NEW v, NEW j, job' = [Watchers(U, v) EXCEPT ![p] = j]
    PROVE  Takes(p, j)
  <1> DEFINE changed == {u \in U : userCall[u] # v}
  <1>1. \A q \in Procs : job'[q] = IF q = p THEN j ELSE Touch(job[q], changed)
    BY DEF Watchers
  <1> HIDE DEF changed
  <1>2. \A q \in Procs : job[q] \in Job \cup {Idle}
    BY DEF TypeOK
  <1>3. \A q \in Procs : \/ Touch(job[q], changed) = job[q]
                         \/ Watching(job[q]) /\ Watching(Touch(job[q], changed))
    BY <1>2, TouchKeeps
  <1> QED
    BY <1>1, <1>3 DEF Takes

(* A handler that goes on keeps its operation, its session and its user. *)
Stays(p, next) ==
    \E j \in Job : Takes(p, j) /\ j.op = job[p].op /\ j.pc = next /\ j.user = job[p].user /\ j.sid = job[p].sid

LEMMA GotoTakes ==
    ASSUME TypeOK, NEW p \in Procs, job[p] \in Job, NEW next \in Pcs, Goto(p, next)
    PROVE  Stays(p, next)
  <1> DEFINE j == [job[p] EXCEPT !.pc = next]
  <1>1. j \in Job /\ j.op = job[p].op /\ j.pc = next /\ j.user = job[p].user /\ j.sid = job[p].sid
    BY DEF Job
  <1>2. job' = [job EXCEPT ![p] = j]
    BY DEF Goto
  <1> HIDE DEF j
  <1> QED
    BY <1>1, <1>2, Alone DEF Stays

LEMMA ReturnTakes ==
    ASSUME TypeOK, NEW p \in Procs, Return(p)
    PROVE  Takes(p, Idle)
  BY Alone DEF Return

-----------------------------------------------------------------------------
(* What no step does: forget an event, bring a session back, change the parties of one that is
   stored. *)
Frame ==
    /\ log \subseteq log'
    /\ \A s \in Sessions : state[s] # "unborn" => state'[s] # "unborn" /\ meta'[s] = meta[s]
    /\ \A s \in Sessions : state[s] \in Gone => state'[s] \in Gone

LEMMA FailsFrame ==
    ASSUME IInv, NEW p \in Procs, Watching(job[p]), CreateFails(p)
    PROVE  Frame
  <1>1. job[p].sid \in Sessions /\ state[job[p].sid] = "unborn"
    BY DEF IInv, TypeOK, Job, Idle, Watching, WatchInv, Undisturbed
  <1>2. UNCHANGED <<state, log>> /\ \A s \in Sessions \ {job[p].sid} : meta'[s] = meta[s]
    BY DEF CreateFails, IInv, TypeOK
  <1> QED
    BY <1>1, <1>2 DEF Frame

LEMMA UpdateFrame ==
    ASSUME IInv, NEW s \in Sessions, NEW old, NEW new \in Live, UpdateCallState(s, old, new), UNCHANGED meta,
           log \subseteq log'
    PROVE  Frame
  <1>1. \A r \in Sessions : state'[r] = state[r] \/ (state[r] \in Live /\ state'[r] \in Live)
    BY UpdateLive DEF IInv
  <1> QED
    BY <1>1 DEF Frame, Live, Gone

LEMMA SameFrame ==
    ASSUME UNCHANGED <<state, meta>>, log \subseteq log'
    PROVE  Frame
  BY DEF Frame

LEMMA RequestFrame ==
    ASSUME IInv, NEW p \in Procs, Request(p)
    PROVE  Frame
  <1>1. ASSUME NEW u \in Users, NEW v \in Users, NEW s \in Sessions, NEW online \in BOOLEAN,
               NEW device \in Devices, StartCall(p, u, v, s, online, device)
        PROVE  Frame
    <2>1. UNCHANGED <<state, log>> /\ state[s] = "unborn" /\ \A r \in Sessions \ {s} : meta'[r] = meta[r]
      BY <1>1 DEF StartCall, IInv, TypeOK
    <2> QED
      BY <2>1 DEF Frame
  <1>2. ASSUME NEW u \in Users, NEW s \in Sessions,
               AcceptCall(p, u, s) \/ RejectCall(p, u, s) \/ EndCall(p, u, s) \/ ForwardWebRTC(p, u, s)
        PROVE  Frame
    BY <1>2, SameFrame DEF AcceptCall, RejectCall, EndCall, ForwardWebRTC, Log
  <1>3. ASSUME NEW u \in Users, HandleDisconnect(p, u) \/ HandleReconnect(p, u)
        PROVE  Frame
    BY <1>3, SameFrame DEF HandleDisconnect, HandleReconnect, Log
  <1> QED
    BY <1>1, <1>2, <1>3 DEF Request

LEMMA StepFrame ==
    ASSUME IInv, NEW p \in Procs, Step(p)
    PROVE  Frame
  <1>1. CASE CheckCaller(p) \/ CheckCallee(p) \/ CreateAborted(p)
    <2>1. Watching(job[p])
      BY <1>1 DEF CheckCaller, CheckCallee, CheckFree, CreateAborted, At, Watching
    <2>2. CreateFails(p) \/ UNCHANGED <<state, meta, log>>
      BY <1>1 DEF CheckCaller, CheckCallee, CheckFree, CreateAborted
    <2> QED
      BY <2>1, <2>2, FailsFrame, SameFrame
  <1>2. CASE CreateExec(p)
    <2>1. job[p].sid \in Sessions /\ state[job[p].sid] = "unborn"
      BY <1>2, CreateExecFree
    <2>2. UNCHANGED <<meta, log>> /\ state' = [state EXCEPT ![job[p].sid] = "ringing"]
      BY <1>2 DEF CreateExec
    <2>3. state'[job[p].sid] = "ringing" /\ \A r \in Sessions \ {job[p].sid} : state'[r] = state[r]
      BY <2>1, <2>2 DEF IInv, TypeOK
    <2> QED
      BY <2>1, <2>2, <2>3 DEF Frame, Gone
  <1>3. CASE SendRing(p) \/ SendRinging(p) \/ AcceptTell(p) \/ RejectTell(p) \/ EndTell(p) \/ DisconnectTell(p)
             \/ ReconnectTell(p) \/ ForwardTell(p)
    BY <1>3, SameFrame DEF SendRing, SendRinging, AcceptTell, RejectTell, EndTell, DisconnectTell,
                           ReconnectTell, ForwardTell, TellEnded, Log
  <1>4. CASE DeleteRead(p) \/ DisconnectGet(p) \/ ClearUserCall(p) \/ ReconnectGet(p)
    BY <1>4, SameFrame DEF DeleteRead, DisconnectGet, ClearUserCall, ReconnectGet
  <1>5. CASE AcceptCas(p) \/ RejectCas(p)
    <2>1. job[p].sid \in Sessions
      BY <1>5, AtJob DEF AcceptCas, RejectCas, At, Pcs, IInv
    <2>2. PICK new \in Live : UpdateCallState(job[p].sid, "ringing", new)
      BY <1>5 DEF AcceptCas, RejectCas, Live
    <2>3. UNCHANGED meta /\ log \subseteq log'
      BY <1>5 DEF AcceptCas, RejectCas, Log
    <2> QED
      BY <2>1, <2>2, <2>3, UpdateFrame
  <1>6. CASE EndCas(p) \/ DisconnectCas(p)
    <2>1. job[p].sid \in Sessions
      BY <1>6, AtJob DEF EndCas, DisconnectCas, MarkEnded, At, Pcs, IInv
    <2>2. UpdateCallState(job[p].sid, job[p].seen, "ended") \/ UNCHANGED state
      BY <1>6 DEF EndCas, DisconnectCas, MarkEnded
    <2>3. UNCHANGED <<meta, log>>
      BY <1>6 DEF EndCas, DisconnectCas, MarkEnded
    <2> QED
      BY <2>1, <2>2, <2>3, UpdateFrame, SameFrame DEF Live
  <1>7. CASE DeleteDel(p)
    <2>1. /\ UNCHANGED <<meta, log>>
          /\ state' = IF Exists(job[p].sid) THEN [state EXCEPT ![job[p].sid] = "deleted"] ELSE state
      BY <1>7 DEF DeleteDel
    <2>2. \A s \in Sessions : state'[s] = state[s] \/ state'[s] = "deleted"
      BY <2>1 DEF IInv, TypeOK
    <2> QED
      BY <2>1, <2>2 DEF Frame, Gone
  <1> QED
    BY <1>1, <1>2, <1>3, <1>4, <1>5, <1>6, <1>7 DEF Step

LEMMA AbortFrame ==
    ASSUME IInv, NEW p \in Procs, Abort(p)
    PROVE  Frame
  BY FailsFrame, SameFrame DEF Abort

LEMMA ExpireFrame ==
    ASSUME IInv, (\E s \in Sessions : ExpireSession(s)) \/ (\E u \in Users : ExpireMapping(u))
    PROVE  Frame
  <1>1. UNCHANGED <<meta, log>> /\ \A s \in Sessions : state'[s] = state[s] \/ state'[s] = "expired"
    BY DEF ExpireSession, ExpireMapping, IInv, TypeOK
  <1> QED
    BY <1>1 DEF Frame, Gone

LEMMA NextFrame ==
    ASSUME IInv, Next
    PROVE  Frame
  BY RequestFrame, StepFrame, AbortFrame, ExpireFrame DEF Next

-----------------------------------------------------------------------------
(* One outcome.  What a step may add to the signs of an outcome: a state that comes out of
   "ringing", a handler that moved the session there or found it there, an event of such a
   handler. *)
Outgoing ==
    /\ \A s \in Sessions :
        /\ state'[s] \in {"unborn", "ringing"} => state[s] \in {"unborn", "ringing"}
        /\ state'[s] = "accepted" => state[s] \in {"ringing", "accepted"}
        /\ state'[s] = "rejected" => state[s] \in {"ringing", "rejected"}
    /\ \A q \in Procs :
        /\ TellsAccepted(job'[q]) => job'[q] = job[q] \/ state'[job'[q].sid] = "accepted"
        /\ TellsRejected(job'[q]) => job'[q] = job[q] \/ state'[job'[q].sid] = "rejected"
    /\ \A e \in log' : e \notin log =>
        /\ e.kind \in {"accepted", "webrtc"} => \E q \in Procs : TellsAccepted(job[q]) /\ job[q].sid = e.sid
        /\ e.kind = "rejected" => \E q \in Procs : TellsRejected(job[q]) /\ job[q].sid = e.sid

LEMMA OutcomeKept ==
    ASSUME TypeOK, TypeOK', OutcomeInv, Outgoing
    PROVE  OutcomeInv'
  <1> SUFFICES ASSUME NEW s \in Sessions
               PROVE  /\ ~(Accepted(s)' /\ Rejected(s)')
                      /\ Accepted(s)' \/ Rejected(s)' => state'[s] \notin {"unborn", "ringing"}
    BY DEF OutcomeInv
  <1>1. ~(Accepted(s) /\ Rejected(s)) /\ (Accepted(s) \/ Rejected(s) => state[s] \notin {"unborn", "ringing"})
    BY DEF OutcomeInv
  <1>2. /\ state'[s] \in {"unborn", "ringing"} => state[s] \in {"unborn", "ringing"}
        /\ state'[s] = "accepted" => state[s] \in {"ringing", "accepted"}
        /\ state'[s] = "rejected" => state[s] \in {"ringing", "rejected"}
    BY DEF Outgoing
  <1>3. ASSUME Accepted(s)'
        PROVE  Accepted(s) \/ (state[s] = "ringing" /\ state'[s] = "accepted")
    <2>1. CASE state'[s] = "accepted"
      BY <1>2, <2>1 DEF Accepted
    <2>2. ASSUME NEW q \in Procs, TellsAccepted(job'[q]), job'[q].sid = s
          PROVE  Accepted(s) \/ state'[s] = "accepted"
      BY <2>2 DEF Outgoing, Accepted
    <2>3. ASSUME NEW e \in log', e.kind \in {"accepted", "webrtc"}, e.sid = s
          PROVE  Accepted(s)
      BY <2>3 DEF Outgoing, Accepted
    <2> QED
      BY <1>3, <2>1, <2>2, <2>3 DEF Accepted
  <1>4. ASSUME Rejected(s)'
        PROVE  Rejected(s) \/ (state[s] = "ringing" /\ state'[s] = "rejected")
    <2>1. CASE state'[s] = "rejected"
      BY <1>2, <2>1 DEF Rejected
    <2>2. ASSUME NEW q \in Procs, TellsRejected(job'[q]), job'[q].sid = s
          PROVE  Rejected(s) \/ state'[s] = "rejected"
      BY <2>2 DEF Outgoing, Rejected
    <2>3. ASSUME NEW e \in log', e.kind = "rejected", e.sid = s
          PROVE  Rejected(s)
      BY <2>3 DEF Outgoing, Rejected
    <2> QED
      BY <1>4, <2>1, <2>2, <2>3 DEF Rejected
  <1> QED
    BY <1>1, <1>2, <1>3, <1>4

(* The events of a send. *)
LEMMA EventFacts ==
    ASSUME NEW kind, NEW u, NEW s, NEW e \in Occurs(kind, u, s)
    PROVE  e.kind = kind /\ e.user = u /\ e.sid = s
  BY DEF Occurs

LEMMA SendFacts ==
    ASSUME NEW kind, NEW u, NEW s, NEW sends \in SendToUser(kind, u, s), NEW e \in sends
    PROVE  e.kind = kind /\ e.user = u /\ e.sid = s
  BY EventFacts DEF SendToUser, Attempt

(* A step that is no part of an answer: neither its events nor what p does next are signs of one. *)
LEMMA Neutral ==
    ASSUME TypeOK, NEW p \in Procs, NEW j, Takes(p, j), ~TellsAccepted(j), ~TellsRejected(j),
           \A s \in Sessions : \/ state'[s] = state[s]
                               \/ state'[s] \in {"ended", "deleted"}
                               \/ state[s] = "unborn" /\ state'[s] = "ringing",
           \A e \in log' : e \in log \/ e.kind \in Kinds \ {"accepted", "webrtc", "rejected"}
    PROVE  Outgoing
  <1>1. \A q \in Procs : job'[q] = job[q] \/ (~TellsAccepted(job'[q]) /\ ~TellsRejected(job'[q]))
    BY DEF Takes, Watching, TellsAccepted, TellsRejected
  <1> QED
    BY <1>1 DEF Outgoing

LEMMA NeutralReturn ==
    ASSUME TypeOK, NEW p \in Procs, Return(p), UNCHANGED state,
           \A e \in log' : e \in log \/ e.kind \in Kinds \ {"accepted", "webrtc", "rejected"}
    PROVE  Outgoing
  <1>1. Takes(p, Idle) /\ ~TellsAccepted(Idle) /\ ~TellsRejected(Idle)
    BY ReturnTakes DEF Idle, TellsAccepted, TellsRejected
  <1> QED
    BY <1>1, Neutral

LEMMA NeutralGoto ==
    ASSUME TypeOK, NEW p \in Procs, job[p] \in Job, NEW next \in Pcs, Goto(p, next),
           next # "tell" \/ job[p].op \in {"start", "end", "disconnect", "reconnect"},
           \A s \in Sessions : state'[s] = state[s] \/ state'[s] \in {"ended", "deleted"},
           \A e \in log' : e \in log \/ e.kind \in Kinds \ {"accepted", "webrtc", "rejected"}
    PROVE  Outgoing
  <1>1. PICK j \in Job : Takes(p, j) /\ j.op = job[p].op /\ j.pc = next
    BY GotoTakes DEF Stays
  <1>2. ~TellsAccepted(j) /\ ~TellsRejected(j)
    BY <1>1 DEF TellsAccepted, TellsRejected
  <1> QED
    BY <1>1, <1>2, Neutral

LEMMA RequestOutgoing ==
    ASSUME IInv, NEW p \in Procs, Request(p)
    PROVE  Outgoing
  <1>1. TypeOK
    BY DEF IInv
  <1>2. ASSUME NEW u \in Users, NEW v \in Users, NEW s \in Sessions, NEW online \in BOOLEAN,
               NEW device \in Devices, StartCall(p, u, v, s, online, device)
        PROVE  Outgoing
    <2> DEFINE j == [Handler("start", "caller", u, s, "unborn") EXCEPT !.online = online]
    <2>1. j.op = "start"
      BY DEF Handler, Idle
    <2>2. job' = [job EXCEPT ![p] = j] /\ UNCHANGED <<state, log>>
      BY <1>2 DEF StartCall, Begin
    <2> HIDE DEF j
    <2> QED
      BY <1>1, <2>1, <2>2, Alone, Neutral DEF TellsAccepted, TellsRejected
  <1>3. ASSUME NEW op \in Ops, NEW pc \in {"get", "cas"}, NEW u \in Users, NEW s \in Sessions, NEW seen,
               Begin(p, Handler(op, pc, u, s, seen)), UNCHANGED state,
               log' = log \/ log' = log \cup Occurs("left", u, s)
        PROVE  Outgoing
    <2> DEFINE j == Handler(op, pc, u, s, seen)
    <2>1. j.pc = pc
      BY DEF Handler, Idle
    <2>2. job' = [job EXCEPT ![p] = j]
      BY <1>3 DEF Begin
    <2> HIDE DEF j
    <2>3. \A e \in log' : e \in log \/ e.kind = "left"
      BY <1>3, EventFacts
    <2> QED
      BY <1>1, <1>3, <2>1, <2>2, <2>3, Alone, Neutral DEF TellsAccepted, TellsRejected, Kinds
  <1>4. ASSUME NEW u \in Users, NEW s \in Sessions,
               AcceptCall(p, u, s) \/ RejectCall(p, u, s) \/ EndCall(p, u, s)
        PROVE  Outgoing
    <2>1. PICK op \in {"accept", "reject", "end"} : Begin(p, Handler(op, "cas", u, s, state[s]))
      BY <1>4 DEF AcceptCall, RejectCall, EndCall
    <2>2. UNCHANGED state /\ (log' = log \/ log' = log \cup Occurs("left", u, s))
      BY <1>4 DEF AcceptCall, RejectCall, EndCall, Log
    <2> QED
      BY <1>3, <2>1, <2>2 DEF Ops
  <1>5. ASSUME NEW u \in Users, HandleDisconnect(p, u) \/ HandleReconnect(p, u)
        PROVE  Outgoing
    <2>1. PICK op \in {"disconnect", "reconnect"} : Begin(p, Handler(op, "get", u, userCall[u], "unborn"))
      BY <1>5 DEF HandleDisconnect, HandleReconnect, FindCall
    <2>2. userCall[u] \in Sessions
      BY <1>1, <1>5 DEF HandleDisconnect, HandleReconnect, FindCall, TypeOK
    <2>3. UNCHANGED state /\ (log' = log \/ log' = log \cup Occurs("left", u, userCall[u]))
      BY <1>5 DEF HandleDisconnect, HandleReconnect, Log
    <2> QED
      BY <1>3, <2>1, <2>2, <2>3 DEF Ops
  <1>6. ASSUME NEW u \in Users, NEW s \in Sessions, ForwardWebRTC(p, u, s)
        PROVE  Outgoing
    <2> DEFINE j == Handler("forward", "tell", u, s, "accepted")
    <2>1. j.op = "forward" /\ j.sid = s
      BY DEF Handler, Idle
    <2>2. job' = [job EXCEPT ![p] = j] /\ state[s] = "accepted" /\ UNCHANGED <<state, log>>
      BY <1>6 DEF ForwardWebRTC, Begin
    <2> HIDE DEF j
    <2>3. Takes(p, j)
      BY <1>1, <2>2, Alone
    <2> QED
      BY <2>1, <2>2, <2>3 DEF Outgoing, Takes, Watching, TellsAccepted, TellsRejected
  <1> QED
    BY <1>2, <1>4, <1>5, <1>6 DEF Request

LEMMA StartStepOutgoing ==
    ASSUME IInv, NEW p \in Procs,
           \/ CheckCaller(p) \/ CheckCallee(p) \/ CreateExec(p) \/ CreateAborted(p)
           \/ SendRing(p) \/ SendRinging(p)
    PROVE  Outgoing
  <1>1. TypeOK /\ job[p] \in Job /\ job[p].op = "start"
    BY AtJob DEF IInv, CheckCaller, CheckCallee, CheckFree, CreateExec, CreateAborted, SendRing, SendRinging, At,
                 Pcs
  <1>2. CASE CheckCaller(p) \/ CheckCallee(p) \/ CreateAborted(p)
    <2>1. UNCHANGED <<state, log>>
      BY <1>2 DEF CheckCaller, CheckCallee, CheckFree, CreateAborted, CreateFails
    <2>2. Return(p) \/ Goto(p, "callee") \/ Goto(p, "exec")
      BY <1>2 DEF CheckCaller, CheckCallee, CheckFree, CreateAborted, CreateFails
    <2> QED
      BY <1>1, <2>1, <2>2, NeutralReturn, NeutralGoto DEF Pcs
  <1>3. CASE CreateExec(p)
    <2> DEFINE s == job[p].sid
               j == [job[p] EXCEPT !.pc = "ring"]
    <2>1. s \in Sessions /\ state[s] = "unborn"
      BY <1>3, CreateExecFree
    <2>2. j.pc = "ring"
      BY <1>1 DEF Job
    <2>3. /\ state' = [state EXCEPT ![s] = "ringing"] /\ UNCHANGED log
          /\ job' = [Watchers(Parties(s), s) EXCEPT ![p] = j]
      BY <1>3 DEF CreateExec
    <2> HIDE DEF s, j
    <2>4. Takes(p, j)
      BY <1>1, <2>3, Touching
    <2>5. state'[s] = "ringing" /\ \A r \in Sessions \ {s} : state'[r] = state[r]
      BY <1>1, <2>1, <2>3 DEF TypeOK
    <2> QED
      BY <1>1, <2>1, <2>2, <2>3, <2>4, <2>5, Neutral DEF TellsAccepted, TellsRejected
  <1>4. CASE SendRing(p)
    <2> DEFINE s == job[p].sid
    <2>1. UNCHANGED state /\ Goto(p, "ringing")
      BY <1>4 DEF SendRing
    <2>2. PICK ring \in SendToUser("ring", meta[s].callee, s), push \in Attempt(IncomingPush(job[p])) :
                log' = log \cup ring \cup push
      BY <1>4 DEF SendRing, Log
    <2>3. \A e \in push : e.kind = "incoming"
      BY <2>2, EventFacts DEF Attempt, IncomingPush
    <2>4. \A e \in log' : e \in log \/ e.kind \in {"ring", "incoming"}
      BY <2>2, <2>3, SendFacts
    <2> QED
      BY <1>1, <2>1, <2>4, NeutralGoto DEF Pcs, Kinds
  <1>5. CASE SendRinging(p)
    <2>1. UNCHANGED state /\ Return(p)
      BY <1>5 DEF SendRinging
    <2>2. \A e \in log' : e \in log \/ e.kind = "ringing"
      BY <1>5, SendFacts DEF SendRinging, Log
    <2> QED
      BY <1>1, <2>1, <2>2, NeutralReturn DEF Kinds
  <1> QED
    BY <1>2, <1>3, <1>4, <1>5

(* The two answers: a script that finds the session ringing moves it, and the telling that follows. *)
LEMMA AnswerStepOutgoing ==
    ASSUME IInv, NEW p \in Procs,
           AcceptCas(p) \/ AcceptTell(p) \/ RejectCas(p) \/ RejectTell(p)
    PROVE  Outgoing
  <1> DEFINE s == job[p].sid
  <1>1. TypeOK /\ job[p] \in Job /\ s \in Sessions
    BY AtJob DEF IInv, AcceptCas, AcceptTell, RejectCas, RejectTell, At, Pcs
  <1>2. ASSUME NEW op \in {"accept", "reject"}, NEW new \in {"accepted", "rejected"},
               op = "accept" <=> new = "accepted",
               job[p].op = op, UpdateCallState(s, "ringing", new),
               IF state[s] = "ringing" THEN Goto(p, "tell") ELSE Return(p),
               \A e \in log' : e \in log \/ e.kind = "left"
        PROVE  Outgoing
    <2>1. CASE state[s] = "ringing"
      <3>1. state' = [state EXCEPT ![s] = new]
        BY <1>2, <2>1 DEF UpdateCallState, Exists, Live
      <3>2. state'[s] = new /\ \A r \in Sessions \ {s} : state'[r] = state[r]
        BY <1>1, <3>1 DEF TypeOK
      <3>3. PICK j \in Job : Takes(p, j) /\ j.op = op /\ j.sid = s
        BY <1>1, <1>2, <2>1, GotoTakes DEF Stays, Pcs
      <3> HIDE DEF s
      <3>4. \A q \in Procs : /\ TellsAccepted(job'[q]) => job'[q] = job[q] \/ state'[job'[q].sid] = "accepted"
                             /\ TellsRejected(job'[q]) => job'[q] = job[q] \/ state'[job'[q].sid] = "rejected"
        BY <1>2, <3>2, <3>3 DEF Takes, Watching, TellsAccepted, TellsRejected
      <3> QED
        BY <1>1, <1>2, <2>1, <3>2, <3>4 DEF Outgoing
    <2>2. CASE state[s] # "ringing"
      <3>1. UNCHANGED state /\ Return(p)
        BY <1>2, <2>2 DEF UpdateCallState
      <3> QED
        BY <1>1, <1>2, <3>1, NeutralReturn DEF Kinds
    <2> QED
      BY <2>1, <2>2
  <1>3. CASE AcceptCas(p)
    <2>1. /\ job[p].op = "accept" /\ UpdateCallState(s, "ringing", "accepted") /\ UNCHANGED log
          /\ IF state[s] = "ringing" THEN Goto(p, "tell") ELSE Return(p)
      BY <1>3 DEF AcceptCas, At
    <2> QED
      BY <1>2, <2>1
  <1>4. CASE RejectCas(p)
    <2>1. /\ job[p].op = "reject" /\ UpdateCallState(s, "ringing", "rejected")
          /\ IF state[s] = "ringing" THEN Goto(p, "tell") ELSE Return(p)
          /\ log' = log \/ log' = log \cup Occurs("left", job[p].user, s)
      BY <1>4 DEF RejectCas, At, Log
    <2>2. \A e \in log' : e \in log \/ e.kind = "left"
      BY <2>1, EventFacts
    <2> QED
      BY <1>2, <2>1, <2>2
  <1>5. CASE AcceptTell(p)
    <2>1. TellsAccepted(job[p]) /\ Return(p) /\ UNCHANGED state
      BY <1>5 DEF AcceptTell, At, TellsAccepted
    <2>2. \A e \in log' : e \in log \/ (e.kind = "accepted" /\ e.sid = s)
      BY <1>5, SendFacts DEF AcceptTell, Log
    <2>3. Takes(p, Idle) /\ ~TellsAccepted(Idle) /\ ~TellsRejected(Idle)
      BY <1>1, <2>1, ReturnTakes DEF Idle, TellsAccepted, TellsRejected
    <2>4. \A q \in Procs : job'[q] = job[q] \/ (~TellsAccepted(job'[q]) /\ ~TellsRejected(job'[q]))
      BY <2>3 DEF Takes, Watching, TellsAccepted, TellsRejected
    <2> QED
      BY <2>1, <2>2, <2>4 DEF Outgoing
  <1>6. CASE RejectTell(p)
    <2>1. TellsRejected(job[p]) /\ Goto(p, "read") /\ UNCHANGED state
      BY <1>6 DEF RejectTell, At, TellsRejected
    <2>2. \A e \in log' : e \in log \/ (e.kind = "rejected" /\ e.sid = s)
      BY <1>6, SendFacts DEF RejectTell, Log
    <2>3. PICK j \in Job : Takes(p, j) /\ j.pc = "read"
      BY <1>1, <2>1, GotoTakes DEF Stays, Pcs
    <2>4. \A q \in Procs : job'[q] = job[q] \/ (~TellsAccepted(job'[q]) /\ ~TellsRejected(job'[q]))
      BY <2>3 DEF Takes, Watching, TellsAccepted, TellsRejected
    <2> QED
      BY <2>1, <2>2, <2>4 DEF Outgoing
  <1> QED
    BY <1>3, <1>4, <1>5, <1>6

(* What TellEnded adds to the log. *)
LEMMA TellEndedFacts ==
    ASSUME NEW p \in Procs, TellEnded(p)
    PROVE  /\ log \subseteq log'
           /\ \A e \in log' : e \in log \/ e.kind \in {"ended", "cancelled"}
  <1>1. PICK ended \in SendToUser("ended", Peer(job[p].sid, job[p].user), job[p].sid),
             push \in Attempt(CancelPush(job[p])) : log' = log \cup ended \cup push
    BY DEF TellEnded, Log
  <1>2. \A e \in push : e.kind = "cancelled"
    BY <1>1, EventFacts DEF Attempt, CancelPush
  <1> QED
    BY <1>1, <1>2, SendFacts

LEMMA EndStepOutgoing ==
    ASSUME IInv, NEW p \in Procs,
           \/ EndCas(p) \/ EndTell(p) \/ DeleteRead(p) \/ DeleteDel(p) \/ DisconnectGet(p) \/ DisconnectCas(p)
           \/ DisconnectTell(p) \/ ClearUserCall(p)
    PROVE  Outgoing
  <1>1. TypeOK /\ job[p] \in Job /\ job[p].sid \in Sessions
    BY AtJob DEF IInv, EndCas, EndTell, DeleteRead, DeleteDel, DisconnectGet, DisconnectCas, DisconnectTell,
                 ClearUserCall, MarkEnded, At, Pcs
  <1>2. CASE EndCas(p) \/ DisconnectCas(p)
    <2>1. PICK op \in {"end", "disconnect"}, next \in {"tell", "read"} : MarkEnded(p, op, next)
      BY <1>2 DEF EndCas, DisconnectCas
    <2>2. \A s \in Sessions : state'[s] = state[s] \/ state'[s] = "ended"
      BY <1>1, <2>1 DEF MarkEnded, UpdateCallState, TypeOK
    <2>3. Goto(p, next) /\ UNCHANGED log /\ job[p].op = op
      BY <2>1 DEF MarkEnded, At
    <2> QED
      BY <1>1, <2>2, <2>3, NeutralGoto DEF Pcs
  <1>3. CASE EndTell(p)
    <2>1. Goto(p, "read") /\ UNCHANGED state /\ TellEnded(p)
      BY <1>3 DEF EndTell
    <2> QED
      BY <1>1, <2>1, TellEndedFacts, NeutralGoto DEF Pcs, Kinds
  <1>4. CASE DisconnectTell(p)
    <2>1. Return(p) /\ UNCHANGED state /\ TellEnded(p)
      BY <1>4 DEF DisconnectTell
    <2> QED
      BY <1>1, <2>1, TellEndedFacts, NeutralReturn DEF Kinds
  <1>5. CASE DeleteRead(p)
    <2>1. UNCHANGED <<state, log>>
      BY <1>5 DEF DeleteRead
    <2>2. Goto(p, "del") \/ (Goto(p, "tell") /\ job[p].op = "disconnect") \/ Return(p)
      BY <1>5 DEF DeleteRead, AfterDelete, Goto, Return
    <2> QED
      BY <1>1, <2>1, <2>2, NeutralGoto, NeutralReturn DEF Pcs
  <1>6. CASE DeleteDel(p)
    <2> DEFINE j == IF job[p].op = "disconnect" THEN [job[p] EXCEPT !.pc = "tell"] ELSE Idle
    <2>1. ~TellsAccepted(j) /\ ~TellsRejected(j)
      BY <1>1 DEF TellsAccepted, TellsRejected, Job, Idle
    <2>2. /\ UNCHANGED log /\ job' = [Watchers(Parties(job[p].sid), None) EXCEPT ![p] = j]
          /\ state' = IF Exists(job[p].sid) THEN [state EXCEPT ![job[p].sid] = "deleted"] ELSE state
      BY <1>6 DEF DeleteDel, AfterDelete
    <2> HIDE DEF j
    <2>3. Takes(p, j)
      BY <1>1, <2>2, Touching
    <2>4. \A s \in Sessions : state'[s] = state[s] \/ state'[s] = "deleted"
      BY <1>1, <2>2 DEF TypeOK
    <2> QED
      BY <1>1, <2>1, <2>2, <2>3, <2>4, Neutral
  <1>7. CASE DisconnectGet(p)
    <2>1. UNCHANGED <<state, log>>
      BY <1>7 DEF DisconnectGet
    <2>2. CASE Exists(job[p].sid)
      <3> DEFINE j == [job[p] EXCEPT !.pc = "cas", !.seen = state[job[p].sid]]
      <3>1. job' = [job EXCEPT ![p] = j]
        BY <1>1, <1>7, <2>2 DEF DisconnectGet, TypeOK
      <3>2. j.pc = "cas"
        BY <1>1 DEF Job
      <3> HIDE DEF j
      <3> QED
        BY <1>1, <2>1, <3>1, <3>2, Alone, Neutral DEF TellsAccepted, TellsRejected
    <2>3. CASE ~Exists(job[p].sid)
      BY <1>1, <1>7, <2>1, <2>3, NeutralGoto DEF DisconnectGet, Pcs
    <2> QED
      BY <2>2, <2>3
  <1>8. CASE ClearUserCall(p)
    <2>1. job' = [Watchers({job[p].user}, None) EXCEPT ![p] = Idle] /\ UNCHANGED <<state, log>>
      BY <1>8 DEF ClearUserCall
    <2>2. Takes(p, Idle) /\ ~TellsAccepted(Idle) /\ ~TellsRejected(Idle)
      BY <1>1, <2>1, Touching DEF Idle, TellsAccepted, TellsRejected
    <2> QED
      BY <1>1, <2>1, <2>2, Neutral
  <1> QED
    BY <1>2, <1>3, <1>4, <1>5, <1>6, <1>7, <1>8

LEMMA ReconnectStepOutgoing ==
    ASSUME IInv, NEW p \in Procs, ReconnectGet(p) \/ ReconnectTell(p) \/ ForwardTell(p)
    PROVE  Outgoing
  <1>1. TypeOK /\ job[p] \in Job /\ job[p].sid \in Sessions
    BY AtJob DEF IInv, ReconnectGet, ReconnectTell, ForwardTell, At, Pcs
  <1>2. CASE ReconnectGet(p)
    <2>1. UNCHANGED <<state, log>> /\ job[p].op = "reconnect"
      BY <1>2 DEF ReconnectGet, At
    <2>2. CASE state[job[p].sid] = "ringing"
      <3> DEFINE j == [job[p] EXCEPT !.pc = "tell", !.seen = "ringing"]
      <3>1. job' = [job EXCEPT ![p] = j]
        BY <1>1, <1>2, <2>2 DEF ReconnectGet, TypeOK, Exists, Live
      <3>2. j.op = "reconnect"
        BY <1>1, <2>1 DEF Job
      <3> HIDE DEF j
      <3> QED
        BY <1>1, <2>1, <3>1, <3>2, Alone, Neutral DEF TellsAccepted, TellsRejected
    <2>3. CASE state[job[p].sid] # "ringing"
      <3>1. Goto(p, "clear") \/ Return(p)
        BY <1>2, <2>3 DEF ReconnectGet
      <3> QED
        BY <1>1, <2>1, <3>1, NeutralGoto, NeutralReturn DEF Pcs
    <2> QED
      BY <2>2, <2>3
  <1>3. CASE ReconnectTell(p)
    <2>1. UNCHANGED state /\ Return(p)
      BY <1>3 DEF ReconnectTell
    <2>2. \A e \in log' : e \in log \/ e.kind \in {"ring", "ringing"}
      BY <1>3, SendFacts DEF ReconnectTell, Log
    <2> QED
      BY <1>1, <2>1, <2>2, NeutralReturn DEF Kinds
  <1>4. CASE ForwardTell(p)
    <2>1. TellsAccepted(job[p]) /\ Return(p) /\ UNCHANGED state
      BY <1>4 DEF ForwardTell, At, TellsAccepted
    <2>2. \A e \in log' : e \in log \/ (e.kind = "webrtc" /\ e.sid = job[p].sid)
      BY <1>4, SendFacts DEF ForwardTell, Log
    <2>3. Takes(p, Idle) /\ ~TellsAccepted(Idle) /\ ~TellsRejected(Idle)
      BY <1>1, <2>1, ReturnTakes DEF Idle, TellsAccepted, TellsRejected
    <2>4. \A q \in Procs : job'[q] = job[q] \/ (~TellsAccepted(job'[q]) /\ ~TellsRejected(job'[q]))
      BY <2>3 DEF Takes, Watching, TellsAccepted, TellsRejected
    <2> QED
      BY <2>1, <2>2, <2>4 DEF Outgoing
  <1> QED
    BY <1>2, <1>3, <1>4

LEMMA FaultOutgoing ==
    ASSUME IInv, \/ \E p \in Procs : Abort(p)
                 \/ \E s \in Sessions : ExpireSession(s)
                 \/ \E u \in Users : ExpireMapping(u)
    PROVE  Outgoing
  <1>1. TypeOK
    BY DEF IInv
  <1>2. ASSUME NEW p \in Procs, Abort(p)
        PROVE  Outgoing
    <2>1. Return(p) /\ UNCHANGED <<state, log>>
      BY <1>2 DEF Abort, CreateFails
    <2> QED
      BY <1>1, <2>1, NeutralReturn
  <1>3. ASSUME NEW s \in Sessions, ExpireSession(s)
        PROVE  Outgoing
    <2>1. UNCHANGED <<job, log>> /\ \A r \in Sessions : state'[r] = state[r] \/ state'[r] = "expired"
      BY <1>1, <1>3 DEF ExpireSession, TypeOK
    <2> QED
      BY <2>1 DEF Outgoing
  <1>4. ASSUME NEW u \in Users, ExpireMapping(u)
        PROVE  Outgoing
    <2> DEFINE changed == {w \in {u} : userCall[w] # None}
    <2>1. UNCHANGED <<state, log>> /\ \A q \in Procs : job'[q] = Touch(job[q], changed)
      BY <1>4 DEF ExpireMapping, Watchers
    <2> HIDE DEF changed
    <2>2. \A q \in Procs : job[q] \in Job \cup {Idle}
      BY <1>1 DEF TypeOK
    <2>3. \A q \in Procs : job'[q] = job[q] \/ Watching(job'[q])
      BY <2>1, <2>2, TouchKeeps
    <2> QED
      BY <2>1, <2>3 DEF Outgoing, Watching, TellsAccepted, TellsRejected
  <1> QED
    BY <1>2, <1>3, <1>4

LEMMA OutcomeInit == Init => OutcomeInv
  <1> SUFFICES ASSUME Init
               PROVE  OutcomeInv
    OBVIOUS
  <1>1. \A p \in Procs : ~TellsAccepted(job[p]) /\ ~TellsRejected(job[p])
    BY DEF Init, Idle, TellsAccepted, TellsRejected
  <1> QED
    BY <1>1 DEF Init, OutcomeInv, Accepted, Rejected

LEMMA OutcomeNext ==
    ASSUME IInv, TypeOK', OutcomeInv, [Next]_vars
    PROVE  OutcomeInv'
  <1>1. CASE Next
    <2>1. Outgoing
      BY <1>1, RequestOutgoing, StartStepOutgoing, AnswerStepOutgoing, EndStepOutgoing, ReconnectStepOutgoing,
         FaultOutgoing DEF Next, Step
    <2> QED
      BY <2>1, OutcomeKept DEF IInv
  <1>2. CASE UNCHANGED vars
    BY <1>2 DEF vars, OutcomeInv, Accepted, Rejected
  <1> QED
    BY <1>1, <1>2

(* A caller that was told "rejected" is never told "accepted", and no media signaling is forwarded for
   its call: accept and reject compete for one move out of "ringing", and whoever lost it tells
   nobody, also when commands and messages fail (call.go:223-234, 287-298, 429-432). *)
THEOREM SettledAlways == Spec => []SettledOnce
  <1>1. TypeOK /\ OutcomeInv => SettledOnce
    <2> SUFFICES ASSUME TypeOK, OutcomeInv, NEW e \in log, e.kind = "rejected", NEW f \in log,
                        f.sid = e.sid, f.kind \in {"accepted", "webrtc"}
                 PROVE  FALSE
      BY DEF SettledOnce
    <2>1. e.sid \in Sessions
      BY DEF TypeOK, Event
    <2>2. Accepted(e.sid) /\ Rejected(e.sid)
      BY DEF Accepted, Rejected
    <2> QED
      BY <2>1, <2>2 DEF OutcomeInv
  <1>2. IInv => TypeOK
    BY DEF IInv
  <1>3. Spec => []OutcomeInv
    <2>1. IInv /\ IInv' /\ OutcomeInv /\ [Next]_vars => OutcomeInv'
      BY OutcomeNext DEF IInv
    <2> QED
      BY <2>1, OutcomeInit, Invariance, PTL DEF Spec
  <1> QED
    BY <1>1, <1>2, <1>3, Invariance, PTL

-----------------------------------------------------------------------------
(* Leaving a session.  What the job a goroutine goes on with must satisfy for DepartInv to hold after
   the step: Departed, read with the log and the states the step leaves. *)
Leaves(j) ==
    /\ j.pc \in {"read", "del"} => j.op \in Closing
    /\ j.op \in Closing => state[j.sid] # "unborn" /\ j.sid \in Sessions
    /\ j.op = "reject" => j.user = meta[j.sid].callee
    /\ j.op \in {"end", "disconnect"} => j.user \in Parties(j.sid)
    /\ j.op \in Closing /\ (j.op = "reject" => j.pc # "cas") => Occurs("left", j.user, j.sid) \subseteq log'
    /\ j.op = "disconnect" /\ j.pc = "tell" => state'[j.sid] \in Gone
    /\ ~MayFail /\ j.pc \in {"read", "del"} =>
        /\ j.op = "reject" => Occurs("rejected", meta[j.sid].caller, j.sid) \subseteq log'
        /\ j.op = "end" => Occurs("ended", Peer(j.sid, j.user), j.sid) \subseteq log'
Proceeds(p) == \E j : Takes(p, j) /\ Leaves(j)

LEMMA LeavesDeparts ==
    ASSUME Frame, NEW j, Leaves(j)
    PROVE  Departed(j)'
  <1>1. j.op \in Closing => meta'[j.sid] = meta[j.sid] /\ Parties(j.sid)' = Parties(j.sid)
                            /\ Peer(j.sid, j.user)' = Peer(j.sid, j.user)
    BY DEF Frame, Leaves, Parties, Peer
  <1>2. \A kind, u, s : Logged(kind, u, s)' <=> Occurs(kind, u, s) \subseteq log'
    BY DEF Logged, Occurs
  <1> QED
    BY <1>1, <1>2 DEF Leaves, Departed, Closing

(* A job that another goroutine's step leaves alone. *)
LEMMA OthersLeave ==
    ASSUME IInv, Frame, NEW q \in Procs, Departed(job[q])
    PROVE  Leaves(job[q])
  <1>1. job[q] \in Job \cup {Idle}
    BY DEF IInv, TypeOK
  <1>2. job[q].op \in Closing => state[job[q].sid] # "unborn" /\ job[q].sid \in Sessions
    BY <1>1 DEF IInv, HandlerInv, Sound, Closing, Idle, Watching, Job
  <1> QED
    BY <1>2 DEF Departed, Leaves, Logged, Frame, Closing

LEMMA DepartKept ==
    ASSUME IInv, DepartInv, Frame, NEW p \in Procs, Proceeds(p)
    PROVE  DepartInv'
  <1> SUFFICES ASSUME NEW q \in Procs
               PROVE  Departed(job[q])'
    BY DEF DepartInv
  <1>1. \A j : Leaves(j) => Departed(j)'
    BY LeavesDeparts
  <1>2. PICK k : k = job'[q]
    OBVIOUS
  <1>3. Leaves(k)
    <2>1. CASE q = p
      BY <1>2, <2>1 DEF Proceeds, Takes
    <2>2. CASE q # p /\ Watching(job'[q])
      BY <1>2, <2>2 DEF Watching, Leaves, Closing
    <2>3. CASE q # p /\ job'[q] = job[q]
      BY <1>2, <2>3, OthersLeave DEF DepartInv
    <2> QED
      BY <2>1, <2>2, <2>3 DEF Proceeds, Takes
  <1>4. Departed(k)'
    BY <1>1, <1>3
  <1> QED
    BY <1>2, <1>4 DEF Departed, Peer, Logged

(* A handler that goes on, returns, or begins. *)
LEMMA StaysProceeds ==
    ASSUME IInv, DepartInv, NEW p \in Procs, job[p] \in Job, NEW next \in Pcs, Stays(p, next), log \subseteq log',
           next \in {"read", "del"} => job[p].op \in Closing,
           job[p].op = "reject" /\ job[p].pc = "cas" => Occurs("left", job[p].user, job[p].sid) \subseteq log',
           job[p].op = "disconnect" /\ next = "tell" => state'[job[p].sid] \in Gone,
           ~MayFail /\ next \in {"read", "del"} =>
                /\ job[p].op = "reject" => Occurs("rejected", meta[job[p].sid].caller, job[p].sid) \subseteq log'
                /\ job[p].op = "end" => Occurs("ended", Peer(job[p].sid, job[p].user), job[p].sid) \subseteq log'
    PROVE  Proceeds(p)
  <1>1. PICK j \in Job : Takes(p, j) /\ j.op = job[p].op /\ j.pc = next /\ j.user = job[p].user /\ j.sid = job[p].sid
    BY DEF Stays
  <1>2. Departed(job[p])
    BY DEF DepartInv
  <1>3. job[p].op \in Closing => state[job[p].sid] # "unborn" /\ job[p].sid \in Sessions
    BY DEF IInv, HandlerInv, Sound, Closing, Idle, Watching, Job
  <1>4. job[p].op \in Closing /\ (job[p].op = "reject" => job[p].pc # "cas")
            => Occurs("left", job[p].user, job[p].sid) \subseteq log'
    BY <1>2 DEF Departed, Logged
  <1>5. Leaves(j)
    BY <1>1, <1>2, <1>3, <1>4 DEF Leaves, Departed, Closing
  <1> QED
    BY <1>1, <1>5 DEF Proceeds

LEMMA IdleProceeds ==
    ASSUME NEW p \in Procs, Takes(p, Idle)
    PROVE  Proceeds(p)
  <1>1. Leaves(Idle)
    BY DEF Leaves, Idle, Closing
  <1> QED
    BY <1>1 DEF Proceeds

LEMMA ReturnProceeds ==
    ASSUME TypeOK, NEW p \in Procs, Return(p)
    PROVE  Proceeds(p)
  BY ReturnTakes, IdleProceeds

LEMMA BeginProceeds ==
    ASSUME TypeOK, NEW p \in Procs, NEW op \in Ops, NEW pc \in Pcs \ {"read", "del", "tell"}, NEW u \in Users,
           NEW s \in Sessions, NEW seen, Begin(p, Handler(op, pc, u, s, seen)),
           op \in Closing => state[s] # "unborn",
           op = "reject" => u = meta[s].callee /\ pc = "cas",
           op \in {"end", "disconnect"} => u \in Parties(s) /\ Occurs("left", u, s) \subseteq log'
    PROVE  Proceeds(p)
  <1> DEFINE j == Handler(op, pc, u, s, seen)
  <1>1. j.op = op /\ j.pc = pc /\ j.user = u /\ j.sid = s
    BY DEF Handler, Idle
  <1>2. job' = [job EXCEPT ![p] = j]
    BY DEF Begin
  <1> HIDE DEF j
  <1>3. Takes(p, j)
    BY <1>2, Alone
  <1>4. Leaves(j)
    BY <1>1 DEF Leaves, Closing
  <1> QED
    BY <1>3, <1>4 DEF Proceeds

LEMMA RequestProceeds ==
    ASSUME IInv, NEW p \in Procs, Request(p)
    PROVE  Proceeds(p)
  <1>1. TypeOK
    BY DEF IInv
  <1>2. ASSUME NEW u \in Users, NEW v \in Users, NEW s \in Sessions, NEW online \in BOOLEAN,
               NEW device \in Devices, StartCall(p, u, v, s, online, device)
        PROVE  Proceeds(p)
    <2> DEFINE j == [Handler("start", "caller", u, s, "unborn") EXCEPT !.online = online]
    <2>1. j.op = "start" /\ j.pc = "caller"
      BY DEF Handler, Idle
    <2>2. job' = [job EXCEPT ![p] = j]
      BY <1>2 DEF StartCall, Begin
    <2> HIDE DEF j
    <2>3. Takes(p, j) /\ Leaves(j)
      BY <1>1, <2>1, <2>2, Alone DEF Leaves, Closing
    <2> QED
      BY <2>3 DEF Proceeds
  <1>3. ASSUME NEW u \in Users, NEW s \in Sessions,
               AcceptCall(p, u, s) \/ RejectCall(p, u, s) \/ EndCall(p, u, s)
        PROVE  Proceeds(p)
    <2>1. state[s] # "unborn"
      BY <1>3 DEF AcceptCall, RejectCall, EndCall, Exists, Live
    <2>2. PICK op \in {"accept", "reject", "end"} :
                /\ Begin(p, Handler(op, "cas", u, s, state[s]))
                /\ op = "reject" => u = meta[s].callee
                /\ op = "end" => u \in Parties(s) /\ Occurs("left", u, s) \subseteq log'
      BY <1>3 DEF AcceptCall, RejectCall, EndCall, Log
    <2> QED
      BY <1>1, <2>1, <2>2, BeginProceeds DEF Ops, Pcs
  <1>4. ASSUME NEW u \in Users, HandleDisconnect(p, u) \/ HandleReconnect(p, u)
        PROVE  Proceeds(p)
    <2>1. userCall[u] \in Sessions
      BY <1>1, <1>4 DEF HandleDisconnect, HandleReconnect, FindCall, TypeOK
    <2>2. u \in Parties(userCall[u]) /\ state[userCall[u]] # "unborn"
      BY <2>1, NoneAssumption DEF IInv, MappingHasSession, Live
    <2>3. PICK op \in {"disconnect", "reconnect"} :
                /\ Begin(p, Handler(op, "get", u, userCall[u], "unborn"))
                /\ op = "disconnect" => Occurs("left", u, userCall[u]) \subseteq log'
      BY <1>4 DEF HandleDisconnect, HandleReconnect, FindCall, Log
    <2> QED
      BY <1>1, <2>1, <2>2, <2>3, BeginProceeds DEF Ops, Pcs
  <1>5. ASSUME NEW u \in Users, NEW s \in Sessions, ForwardWebRTC(p, u, s)
        PROVE  Proceeds(p)
    <2> DEFINE j == Handler("forward", "tell", u, s, "accepted")
    <2>1. j.op = "forward" /\ j.pc = "tell"
      BY DEF Handler, Idle
    <2>2. job' = [job EXCEPT ![p] = j]
      BY <1>5 DEF ForwardWebRTC, Begin
    <2> HIDE DEF j
    <2>3. Takes(p, j) /\ Leaves(j)
      BY <1>1, <2>1, <2>2, Alone DEF Leaves, Closing
    <2> QED
      BY <2>3 DEF Proceeds
  <1> QED
    BY <1>2, <1>3, <1>4, <1>5 DEF Request

LEMMA StartProceeds ==
    ASSUME IInv, DepartInv, NEW p \in Procs,
           \/ CheckCaller(p) \/ CheckCallee(p) \/ CreateExec(p) \/ CreateAborted(p)
           \/ SendRing(p) \/ SendRinging(p)
    PROVE  Proceeds(p)
  <1>1. TypeOK /\ job[p] \in Job /\ job[p].op = "start"
    BY AtJob DEF IInv, CheckCaller, CheckCallee, CheckFree, CreateExec, CreateAborted, SendRing, SendRinging, At,
                 Pcs
  <1>2. ASSUME NEW next \in {"callee", "exec", "ringing"}, Goto(p, next), log \subseteq log'
        PROVE  Proceeds(p)
    <2>1. Stays(p, next)
      BY <1>1, <1>2, GotoTakes DEF Pcs
    <2> QED
      BY <1>1, <1>2, <2>1, StaysProceeds DEF Pcs
  <1>3. CASE CheckCaller(p) \/ CheckCallee(p) \/ CreateAborted(p)
    <2>1. (Return(p) \/ Goto(p, "callee") \/ Goto(p, "exec")) /\ UNCHANGED log
      BY <1>3 DEF CheckCaller, CheckCallee, CheckFree, CreateAborted, CreateFails
    <2> QED
      BY <1>1, <1>2, <2>1, ReturnProceeds
  <1>4. CASE CreateExec(p)
    <2> DEFINE j == [job[p] EXCEPT !.pc = "ring"]
    <2>1. j.pc = "ring" /\ j.op = "start"
      BY <1>1 DEF Job
    <2>2. job' = [Watchers(Parties(job[p].sid), job[p].sid) EXCEPT ![p] = j]
      BY <1>4 DEF CreateExec
    <2> HIDE DEF j
    <2>3. Takes(p, j)
      BY <1>1, <2>2, Touching
    <2>4. Leaves(j)
      BY <2>1 DEF Leaves, Closing
    <2> QED
      BY <2>3, <2>4 DEF Proceeds
  <1>5. CASE SendRing(p)
    <2>1. Goto(p, "ringing") /\ log \subseteq log'
      BY <1>5 DEF SendRing, Log
    <2> QED
      BY <1>2, <2>1
  <1>6. CASE SendRinging(p)
    BY <1>1, <1>6, ReturnProceeds DEF SendRinging
  <1> QED
    BY <1>3, <1>4, <1>5, <1>6

(* Without faults a send puts its event into the log. *)
LEMMA Sent ==
    ASSUME ~MayFail, NEW kind, NEW u, NEW s, NEW sends \in SendToUser(kind, u, s)
    PROVE  sends = Occurs(kind, u, s)
  BY DEF SendToUser, Attempt

LEMMA EndedSent ==
    ASSUME NEW p \in Procs, TellEnded(p)
    PROVE  ~MayFail => Occurs("ended", Peer(job[p].sid, job[p].user), job[p].sid) \subseteq log'
  BY Sent DEF TellEnded, Log

LEMMA AnswerProceeds ==
    ASSUME IInv, DepartInv, NEW p \in Procs,
           \/ AcceptCas(p) \/ AcceptTell(p) \/ RejectCas(p) \/ RejectTell(p)
           \/ ReconnectGet(p) \/ ReconnectTell(p) \/ ForwardTell(p)
    PROVE  Proceeds(p)
  <1>1. TypeOK /\ job[p] \in Job
    BY AtJob DEF IInv, AcceptCas, AcceptTell, RejectCas, RejectTell, ReconnectGet, ReconnectTell, ForwardTell,
                 At, Pcs
  <1>2. CASE AcceptCas(p)
    <2>1. job[p].op = "accept" /\ (Goto(p, "tell") \/ Return(p)) /\ UNCHANGED log
      BY <1>2 DEF AcceptCas, At
    <2>2. Goto(p, "tell") => Stays(p, "tell")
      BY <1>1, GotoTakes DEF Pcs
    <2> QED
      BY <1>1, <2>1, <2>2, ReturnProceeds, StaysProceeds DEF Pcs
  <1>3. CASE RejectCas(p)
    <2>1. /\ job[p].op = "reject"
          /\ \/ Goto(p, "tell") /\ Occurs("left", job[p].user, job[p].sid) \subseteq log'
             \/ Return(p)
          /\ log \subseteq log'
      BY <1>3 DEF RejectCas, At, Log
    <2>2. Goto(p, "tell") => Stays(p, "tell")
      BY <1>1, GotoTakes DEF Pcs
    <2> QED
      BY <1>1, <2>1, <2>2, ReturnProceeds, StaysProceeds DEF Pcs
  <1>4. CASE RejectTell(p)
    <2>1. job[p].op = "reject" /\ job[p].pc = "tell" /\ Goto(p, "read") /\ log \subseteq log'
      BY <1>4 DEF RejectTell, At, Log
    <2>2. ~MayFail => Occurs("rejected", meta[job[p].sid].caller, job[p].sid) \subseteq log'
      BY <1>4, Sent DEF RejectTell, Log
    <2>3. Stays(p, "read")
      BY <1>1, <2>1, GotoTakes DEF Pcs
    <2> QED
      BY <1>1, <2>1, <2>2, <2>3, StaysProceeds DEF Pcs, Closing
  <1>5. CASE ReconnectGet(p)
    <2>1. job[p].op = "reconnect" /\ UNCHANGED log
      BY <1>5 DEF ReconnectGet, At
    <2>2. CASE state[job[p].sid] = "ringing"
      <3> DEFINE j == [job[p] EXCEPT !.pc = "tell", !.seen = "ringing"]
      <3>1. job' = [job EXCEPT ![p] = j]
        BY <1>1, <1>5, <2>2 DEF ReconnectGet, TypeOK, Exists, Live
      <3>2. j.op = "reconnect" /\ j.pc = "tell"
        BY <1>1, <2>1 DEF Job
      <3> HIDE DEF j
      <3>3. Takes(p, j) /\ Leaves(j)
        BY <1>1, <3>1, <3>2, Alone DEF Leaves, Closing
      <3> QED
        BY <3>3 DEF Proceeds
    <2>3. CASE state[job[p].sid] # "ringing"
      <3>1. Goto(p, "clear") \/ Return(p)
        BY <1>5, <2>3 DEF ReconnectGet
      <3>2. Goto(p, "clear") => Stays(p, "clear")
        BY <1>1, GotoTakes DEF Pcs
      <3> QED
        BY <1>1, <2>1, <3>1, <3>2, ReturnProceeds, StaysProceeds DEF Pcs
    <2> QED
      BY <2>2, <2>3
  <1>6. CASE AcceptTell(p) \/ ReconnectTell(p) \/ ForwardTell(p)
    BY <1>1, <1>6, ReturnProceeds DEF AcceptTell, ReconnectTell, ForwardTell
  <1> QED
    BY <1>2, <1>3, <1>4, <1>5, <1>6

LEMMA EndProceeds ==
    ASSUME IInv, DepartInv, NEW p \in Procs,
           \/ EndCas(p) \/ EndTell(p) \/ DeleteRead(p) \/ DeleteDel(p) \/ DisconnectGet(p) \/ DisconnectCas(p)
           \/ DisconnectTell(p) \/ ClearUserCall(p)
    PROVE  Proceeds(p)
  <1>1. TypeOK /\ job[p] \in Job /\ job[p].sid \in Sessions
    BY AtJob DEF IInv, EndCas, EndTell, DeleteRead, DeleteDel, DisconnectGet, DisconnectCas, DisconnectTell,
                 ClearUserCall, MarkEnded, At, Pcs
  <1>2. Departed(job[p]) /\ Sound(job[p])
    BY DEF DepartInv, IInv, HandlerInv
  <1>3. \A next \in Pcs : Goto(p, next) => Stays(p, next)
    BY <1>1, GotoTakes
  <1>4. CASE EndCas(p)
    <2>1. job[p].op = "end" /\ Goto(p, "tell") /\ UNCHANGED log
      BY <1>4 DEF EndCas, MarkEnded, At
    <2> QED
      BY <1>1, <1>3, <2>1, StaysProceeds DEF Pcs
  <1>5. CASE DisconnectCas(p)
    <2>1. job[p].op = "disconnect" /\ Goto(p, "read") /\ UNCHANGED log
      BY <1>5 DEF DisconnectCas, MarkEnded, At
    <2> QED
      BY <1>1, <1>3, <2>1, StaysProceeds DEF Pcs, Closing
  <1>6. CASE EndTell(p)
    <2>1. job[p].op = "end" /\ Goto(p, "read") /\ TellEnded(p)
      BY <1>6 DEF EndTell, At
    <2>2. ~MayFail => Occurs("ended", Peer(job[p].sid, job[p].user), job[p].sid) \subseteq log'
      BY <2>1, EndedSent
    <2> QED
      BY <1>1, <1>3, <2>1, <2>2, StaysProceeds, TellEndedFacts DEF Pcs, Closing
  <1>7. CASE DeleteRead(p)
    <2>1. job[p].pc = "read" /\ UNCHANGED <<state, log>> /\ job[p].op \in Closing
      BY <1>2, <1>7 DEF DeleteRead, Departed
    <2>2. CASE Exists(job[p].sid)
      <3>1. Goto(p, "del")
        BY <1>7, <2>2 DEF DeleteRead
      <3>2. ~MayFail =>
                /\ job[p].op = "reject" => Occurs("rejected", meta[job[p].sid].caller, job[p].sid) \subseteq log'
                /\ job[p].op = "end" => Occurs("ended", Peer(job[p].sid, job[p].user), job[p].sid) \subseteq log'
        BY <1>2, <2>1 DEF Departed, Logged
      <3> QED
        BY <1>1, <1>3, <2>1, <3>1, <3>2, StaysProceeds DEF Pcs
    <2>3. CASE ~Exists(job[p].sid)
      <3>1. state'[job[p].sid] \in Gone
        BY <1>1, <1>2, <2>1, <2>3 DEF Sound, TypeOK, States, Live, Absent, Gone, Exists, Idle, Watching, Job
      <3>2. IF job[p].op = "disconnect" THEN Goto(p, "tell") ELSE Return(p)
        BY <1>7, <2>3 DEF DeleteRead, AfterDelete, Goto, Return
      <3> QED
        BY <1>1, <1>3, <2>1, <3>1, <3>2, ReturnProceeds, StaysProceeds DEF Pcs
    <2> QED
      BY <2>2, <2>3
  <1>8. CASE DeleteDel(p)
    <2> DEFINE j == IF job[p].op = "disconnect" THEN [job[p] EXCEPT !.pc = "tell"] ELSE Idle
    <2>1. \/ j = Idle
          \/ /\ job[p].op = "disconnect" /\ j.op = "disconnect" /\ j.pc = "tell"
             /\ j.user = job[p].user /\ j.sid = job[p].sid
      BY <1>1 DEF Job
    <2>2. /\ UNCHANGED log /\ job' = [Watchers(Parties(job[p].sid), None) EXCEPT ![p] = j]
          /\ state' = IF Exists(job[p].sid) THEN [state EXCEPT ![job[p].sid] = "deleted"] ELSE state
          /\ job[p].pc = "del"
      BY <1>8 DEF DeleteDel, AfterDelete
    <2> HIDE DEF j
    <2>3. Takes(p, j)
      BY <1>1, <2>2, Touching
    <2>4. state[job[p].sid] # "unborn"
      BY <1>1, <1>2, <2>2 DEF Sound, Idle, Watching, Job
    <2>5. state'[job[p].sid] \in Gone
      BY <1>1, <2>2, <2>4 DEF TypeOK, States, Live, Absent, Gone, Exists
    <2>6. Leaves(j)
      <3>1. CASE j = Idle
        BY <3>1 DEF Leaves, Idle, Closing
      <3>2. CASE j # Idle
        <4>1. /\ job[p].op = "disconnect" /\ j.op = "disconnect" /\ j.pc = "tell"
              /\ j.user = job[p].user /\ j.sid = job[p].sid
          BY <2>1, <3>2
        <4>2. j.user \in Parties(j.sid) /\ Occurs("left", j.user, j.sid) \subseteq log'
          BY <1>2, <2>2, <4>1 DEF Departed, Logged, Closing
        <4> QED
          BY <1>1, <2>4, <2>5, <4>1, <4>2 DEF Leaves, Closing
      <3> QED
        BY <3>1, <3>2
    <2> QED
      BY <2>3, <2>6 DEF Proceeds
  <1>9. CASE DisconnectGet(p)
    <2>1. UNCHANGED <<state, log>> /\ job[p].op = "disconnect" /\ job[p].pc = "get"
      BY <1>9 DEF DisconnectGet, At
    <2>2. CASE Exists(job[p].sid)
      <3> DEFINE j == [job[p] EXCEPT !.pc = "cas", !.seen = state[job[p].sid]]
      <3>1. job' = [job EXCEPT ![p] = j]
        BY <1>1, <1>9, <2>2 DEF DisconnectGet, TypeOK
      <3>2. j.pc = "cas" /\ j.op = "disconnect" /\ j.user = job[p].user /\ j.sid = job[p].sid
        BY <1>1, <2>1 DEF Job
      <3> HIDE DEF j
      <3>3. j.user \in Parties(j.sid) /\ Occurs("left", j.user, j.sid) \subseteq log'
        BY <1>2, <2>1, <3>2 DEF Departed, Logged, Closing
      <3>4. Takes(p, j) /\ Leaves(j)
        BY <1>1, <2>2, <3>1, <3>2, <3>3, Alone DEF Leaves, Closing, Exists, Live
      <3> QED
        BY <3>4 DEF Proceeds
    <2>3. CASE ~Exists(job[p].sid)
      <3>1. Goto(p, "clear")
        BY <1>9, <2>3 DEF DisconnectGet
      <3> QED
        BY <1>1, <1>3, <2>1, <3>1, StaysProceeds DEF Pcs
    <2> QED
      BY <2>2, <2>3
  <1>10. CASE DisconnectTell(p)
    BY <1>1, <1>10, ReturnProceeds DEF DisconnectTell
  <1>11. CASE ClearUserCall(p)
    <2>1. job' = [Watchers({job[p].user}, None) EXCEPT ![p] = Idle]
      BY <1>11 DEF ClearUserCall
    <2> QED
      BY <1>1, <2>1, Touching, IdleProceeds
  <1> QED
    BY <1>4, <1>5, <1>6, <1>7, <1>8, <1>9, <1>10, <1>11

LEMMA StepProceeds ==
    ASSUME IInv, DepartInv, NEW p \in Procs, Request(p) \/ Step(p)
    PROVE  Proceeds(p)
  BY RequestProceeds, StartProceeds, AnswerProceeds, EndProceeds DEF Step

(* The watches that an expiring mapping touches are no concern of a closing handler. *)
LEMMA ExpireDeparts ==
    ASSUME IInv, DepartInv, Frame, (\E s \in Sessions : ExpireSession(s)) \/ (\E u \in Users : ExpireMapping(u))
    PROVE  /\ \A q \in Procs : job'[q] = job[q] \/ (Watching(job[q]) /\ Watching(job'[q]))
           /\ DepartInv'
  <1>1. \A q \in Procs : job'[q] = job[q] \/ (Watching(job[q]) /\ Watching(job'[q]))
    <2>1. CASE \E s \in Sessions : ExpireSession(s)
      BY <2>1 DEF ExpireSession
    <2>2. ASSUME NEW u \in Users, ExpireMapping(u)
          PROVE  \A q \in Procs : job'[q] = job[q] \/ (Watching(job[q]) /\ Watching(job'[q]))
      <3> DEFINE changed == {w \in {u} : userCall[w] # None}
      <3>1. \A q \in Procs : job'[q] = Touch(job[q], changed) /\ job[q] \in Job \cup {Idle}
        BY <2>2 DEF ExpireMapping, Watchers, IInv, TypeOK
      <3> HIDE DEF changed
      <3> QED
        BY <3>1, TouchKeeps
    <2> QED
      BY <2>1, <2>2
  <1>2. ASSUME NEW q \in Procs
        PROVE  Proceeds(q)
    <2>1. PICK k : k = job'[q]
      OBVIOUS
    <2>2. Takes(q, k)
      BY <1>1, <2>1 DEF Takes
    <2>3. Leaves(k)
      <3>1. CASE Watching(job'[q])
        BY <2>1, <3>1 DEF Watching, Leaves, Closing
      <3>2. CASE job'[q] = job[q]
        BY <2>1, <3>2, OthersLeave DEF DepartInv
      <3> QED
        BY <1>1, <3>1, <3>2
    <2> QED
      BY <2>2, <2>3 DEF Proceeds
  <1>3. CASE Procs = {}
    BY <1>1, <1>3 DEF DepartInv
  <1>4. CASE Procs # {}
    <2>1. PICK q \in Procs : TRUE
      BY <1>4
    <2>2. Proceeds(q)
      BY <1>2
    <2> QED
      BY <1>1, <2>2, DepartKept
  <1> QED
    BY <1>1, <1>3, <1>4

LEMMA DepartInit == Init => DepartInv
  BY DEF Init, DepartInv, Departed, Closing, Idle

LEMMA DepartNext ==
    ASSUME IInv, DepartInv, [Next]_vars
    PROVE  DepartInv'
  <1>1. ASSUME NEW p \in Procs, Request(p) \/ Step(p)
        PROVE  DepartInv'
    BY <1>1, RequestFrame, StepFrame, StepProceeds, DepartKept
  <1>2. ASSUME NEW p \in Procs, Abort(p)
        PROVE  DepartInv'
    <2>1. Return(p)
      BY <1>2 DEF Abort, CreateFails
    <2> QED
      BY <1>2, <2>1, AbortFrame, ReturnProceeds, DepartKept DEF IInv
  <1>3. CASE (\E s \in Sessions : ExpireSession(s)) \/ (\E u \in Users : ExpireMapping(u))
    BY <1>3, ExpireFrame, ExpireDeparts
  <1>4. CASE UNCHANGED vars
    BY <1>4 DEF vars, DepartInv, Departed, Logged, Parties, Peer
  <1> QED
    BY <1>1, <1>2, <1>3, <1>4 DEF Next

(* Whatever fails and expires, only a handler that works for a party of a session, and after that party
   left it, deletes the session; a disconnect tells the peer only when the session is gone
   (call.go:300-308, 374-389, 489-503, session.go:343-362). *)
THEOREM DepartAlways == Spec => []DepartInv
  <1>1. IInv /\ DepartInv /\ [Next]_vars => DepartInv'
    BY DepartNext
  <1> QED
    BY <1>1, DepartInit, Invariance, PTL DEF Spec

-----------------------------------------------------------------------------
(* Hanging up.  A closing handler returns only from a session that is gone. *)
HangsUp(p) == job[p].op \in {"end", "disconnect"} /\ job'[p] = Idle => state'[job[p].sid] \in Gone

LEMMA StepHangsUp ==
    ASSUME IInv, DepartInv, NEW p \in Procs, Request(p) \/ Step(p)
    PROVE  HangsUp(p)
  <1> SUFFICES ASSUME job[p].op \in {"end", "disconnect"}, job'[p] = Idle
               PROVE  state'[job[p].sid] \in Gone
    BY DEF HangsUp
  <1>1. TypeOK /\ job[p] \in Job /\ job[p].sid \in Sessions /\ job[p] # Idle /\ ~Watching(job[p])
    BY DEF IInv, TypeOK, Job, Idle, Watching
  <1>2. Departed(job[p]) /\ Sound(job[p]) /\ state[job[p].sid] # "unborn"
    BY <1>1 DEF DepartInv, IInv, HandlerInv, Sound
  <1>3. \A next \in Pcs : ~Goto(p, next)
    <2>1. \A next \in Pcs : Goto(p, next) => Stays(p, next)
      BY <1>1, GotoTakes
    <2>2. \A next \in Pcs : ~Stays(p, next)
      BY DEF Stays, Takes, Job, Idle, Pcs
    <2> QED
      BY <2>1, <2>2
  <1>4. ~Request(p)
    BY <1>1 DEF Request, StartCall, AcceptCall, RejectCall, EndCall, ForwardWebRTC, HandleDisconnect,
                HandleReconnect, FindCall
  <1>5. \/ DeleteRead(p) \/ DeleteDel(p) \/ DisconnectGet(p) \/ DisconnectTell(p) \/ ClearUserCall(p)
    <2>1. ~EndCas(p) /\ ~EndTell(p) /\ ~DisconnectCas(p)
      BY <1>3 DEF EndCas, EndTell, DisconnectCas, MarkEnded, Pcs
    <2> QED
      BY <1>4, <2>1 DEF Step, CheckCaller, CheckCallee, CheckFree, CreateExec, CreateAborted, SendRing, SendRinging,
                        AcceptCas, AcceptTell, RejectCas, RejectTell, ReconnectGet, ReconnectTell, ForwardTell, At
  <1>6. CASE DeleteRead(p)
    <2>1. ~Exists(job[p].sid) /\ UNCHANGED state
      BY <1>3, <1>6 DEF DeleteRead, Pcs
    <2> QED
      BY <1>1, <1>2, <2>1 DEF TypeOK, States, Live, Absent, Gone, Exists
  <1>7. CASE DeleteDel(p)
    <2>1. state' = IF Exists(job[p].sid) THEN [state EXCEPT ![job[p].sid] = "deleted"] ELSE state
      BY <1>7 DEF DeleteDel
    <2> QED
      BY <1>1, <1>2, <2>1 DEF TypeOK, States, Live, Absent, Gone, Exists
  <1>8. CASE DisconnectGet(p)
    <2>1. Exists(job[p].sid)
      BY <1>3, <1>8 DEF DisconnectGet, Pcs
    <2>2. job'[p].pc = "cas"
      BY <1>1, <1>8, <2>1 DEF DisconnectGet, TypeOK, Job
    <2> QED
      BY <2>2 DEF Idle
  <1>9. CASE DisconnectTell(p)
    BY <1>2, <1>9 DEF DisconnectTell, At, Departed
  <1>10. CASE ClearUserCall(p)
    BY <1>1, <1>2, <1>10 DEF ClearUserCall, Sound
  <1> QED
    BY <1>5, <1>6, <1>7, <1>8, <1>9, <1>10

LEMMA NextHangsUp ==
    ASSUME IInv, DepartInv, ~MayFail, [Next]_vars
    PROVE  \A q \in Procs : HangsUp(q)
  <1> SUFFICES ASSUME NEW q \in Procs
               PROVE  HangsUp(q)
    OBVIOUS
  <1>1. job'[q] = job[q] \/ Watching(job'[q]) => HangsUp(q)
    BY DEF HangsUp, Idle, Watching
  <1>2. ASSUME NEW p \in Procs, Request(p) \/ Step(p)
        PROVE  HangsUp(q)
    <2>1. q = p \/ job'[q] = job[q] \/ Watching(job'[q])
      BY <1>2, StepProceeds DEF Proceeds, Takes
    <2> QED
      BY <1>1, <1>2, <2>1, StepHangsUp
  <1>3. \A p \in Procs : ~Abort(p)
    BY DEF Abort
  <1>4. CASE (\E s \in Sessions : ExpireSession(s)) \/ (\E u \in Users : ExpireMapping(u))
    BY <1>1, <1>4, ExpireFrame, ExpireDeparts
  <1>5. CASE UNCHANGED vars
    BY <1>1, <1>5 DEF vars
  <1> QED
    BY <1>2, <1>3, <1>4, <1>5 DEF Next

(* Without failures, a hang-up or a disconnect never returns while its call is alive: a script that
   lost its race changes nothing of it, for the deletion that follows does not look at the state
   (call.go:364-372, session.go:389-391).  Sessions may expire. *)
THEOREM HangupAlways ==
    ASSUME ~MayFail
    PROVE  Spec => HangupTakesEffect
  <1>1. IInv /\ DepartInv /\ [Next]_vars =>
            [\A p \in Procs : job[p].op \in {"end", "disconnect"} /\ job'[p] = Idle
                => state'[job[p].sid] \in Gone]_vars
    BY NextHangsUp DEF HangsUp
  <1> QED
    BY <1>1, Invariance, DepartAlways, PTL DEF Spec, HangupTakesEffect

-----------------------------------------------------------------------------
(* Both parties learn.  Only DeleteDel deletes, and a disconnect at its last step only tells. *)
LEMMA OnlyDelDeletes ==
    ASSUME IInv, NEW p \in Procs, Request(p) \/ Step(p), NEW s \in Sessions, state'[s] # state[s],
           state'[s] \in Gone
    PROVE  DeleteDel(p) /\ s = job[p].sid
  <1>1. TypeOK
    BY DEF IInv
  <1>2. ASSUME NEW old, NEW new \in Live, NEW r, UpdateCallState(r, old, new)
        PROVE  FALSE
    BY <1>1, <1>2 DEF UpdateCallState, TypeOK, Live, Gone
  <1>3. state' # state
    OBVIOUS
  <1>4. ~Request(p)
    BY <1>3 DEF Request, StartCall, AcceptCall, RejectCall, EndCall, ForwardWebRTC, HandleDisconnect,
                HandleReconnect
  <1>5. ~CheckCaller(p) /\ ~CheckCallee(p) /\ ~CreateAborted(p)
    BY <1>3 DEF CheckCaller, CheckCallee, CheckFree, CreateAborted, CreateFails
  <1>6. ~CreateExec(p)
    BY <1>1 DEF CreateExec, TypeOK, Gone
  <1>7. ~AcceptCas(p) /\ ~RejectCas(p) /\ ~EndCas(p) /\ ~DisconnectCas(p)
    BY <1>2, <1>3 DEF AcceptCas, RejectCas, EndCas, DisconnectCas, MarkEnded, Live
  <1>8. DeleteDel(p)
    BY <1>3, <1>4, <1>5, <1>6, <1>7 DEF Step, SendRing, SendRinging, AcceptTell, RejectTell, EndTell, DeleteRead,
        DisconnectGet, DisconnectTell, ClearUserCall, ReconnectGet, ReconnectTell, ForwardTell
  <1> QED
    BY <1>1, <1>8 DEF DeleteDel, TypeOK

LEMMA TellerTells ==
    ASSUME IInv, NEW p \in Procs, Request(p) \/ Step(p), At(p, "disconnect", "tell")
    PROVE  DisconnectTell(p)
  <1>1. job[p] # Idle
    BY DEF At, Idle
  <1>2. ~Request(p)
    BY <1>1 DEF Request, StartCall, AcceptCall, RejectCall, EndCall, ForwardWebRTC, HandleDisconnect,
                HandleReconnect, FindCall
  <1> QED
    BY <1>2 DEF Step, CheckCaller, CheckCallee, CheckFree, CreateExec, CreateAborted, SendRing, SendRinging,
                AcceptCas, AcceptTell, RejectCas, RejectTell, EndCas, EndTell, DeleteRead, DeleteDel,
                DisconnectGet, DisconnectCas, MarkEnded, ClearUserCall, ReconnectGet, ReconnectTell, ForwardTell, At

(* What BothLearn asks for one party of one session. *)
Learned(u, s) ==
    \/ \E e \in log : e.user = u /\ e.sid = s /\ e.kind \in {"left", "ended", "rejected"}
    \/ \E p \in Procs : At(p, "disconnect", "tell") /\ job[p].sid = s /\ job[p].user # u

LEMMA EventTells ==
    ASSUME NEW kind \in {"left", "ended", "rejected"} \cap Recorded, NEW u, NEW s, Occurs(kind, u, s) \subseteq log'
    PROVE  Learned(u, s)'
  <1>1. [kind |-> kind, user |-> u, sid |-> s] \in log'
    BY DEF Occurs
  <1> QED
    BY <1>1 DEF Learned

LEMMA DeleteTells ==
    ASSUME IInv, DepartInv, ~MayFail, {"left", "ended", "rejected"} \subseteq Recorded,
           NEW p \in Procs, DeleteDel(p), NEW s, s = job[p].sid, NEW u \in Parties(s)
    PROVE  Learned(u, s)'
  <1>1. TypeOK /\ job[p] \in Job /\ s \in Sessions /\ job[p].pc = "del"
    BY AtJob DEF IInv, DeleteDel, Pcs
  <1>2. Departed(job[p]) /\ job[p].op \in Closing
    BY <1>1 DEF DepartInv, Departed
  <1>3. /\ UNCHANGED log
        /\ job' = [Watchers(Parties(job[p].sid), None)
                    EXCEPT ![p] = IF job[p].op = "disconnect" THEN [job[p] EXCEPT !.pc = "tell"] ELSE Idle]
    BY DEF DeleteDel, AfterDelete
  <1>4. Occurs("left", job[p].user, s) \subseteq log'
    BY <1>1, <1>2, <1>3 DEF Departed, Logged, Closing
  <1>5. u = job[p].user => Learned(u, s)'
    BY <1>4, EventTells
  <1>6. CASE job[p].op = "reject"
    <2>1. job[p].user = meta[s].callee /\ Occurs("rejected", meta[s].caller, s) \subseteq log'
      BY <1>1, <1>2, <1>3, <1>6 DEF Departed, Logged
    <2>2. u = meta[s].caller => Learned(u, s)'
      BY <2>1, EventTells
    <2> QED
      BY <1>5, <2>1, <2>2 DEF Parties
  <1>7. CASE job[p].op = "end"
    <2>1. job[p].user \in Parties(s) /\ Occurs("ended", Peer(s, job[p].user), s) \subseteq log'
      BY <1>1, <1>2, <1>3, <1>7 DEF Departed, Logged
    <2>2. u = Peer(s, job[p].user) => Learned(u, s)'
      BY <2>1, EventTells
    <2> QED
      BY <1>5, <2>1, <2>2 DEF Parties, Peer
  <1>8. CASE job[p].op = "disconnect"
    <2> DEFINE j == [job[p] EXCEPT !.pc = "tell"]
    <2>1. j.op = "disconnect" /\ j.pc = "tell" /\ j.user = job[p].user /\ j.sid = s
      BY <1>1, <1>8 DEF Job
    <2>2. job' = [Watchers(Parties(job[p].sid), None) EXCEPT ![p] = j]
      BY <1>3, <1>8
    <2> HIDE DEF j
    <2>3. job'[p] = j
      BY <2>2 DEF Watchers
    <2>4. u # job[p].user => Learned(u, s)'
      BY <2>1, <2>3 DEF Learned, At
    <2> QED
      BY <1>5, <2>4
  <1> QED
    BY <1>2, <1>6, <1>7, <1>8 DEF Closing

LEMMA LearnNext ==
    ASSUME IInv, DepartInv, BothLearn, ~MayFail, {"left", "ended", "rejected"} \subseteq Recorded, [Next]_vars
    PROVE  BothLearn'
  <1>1. CASE Next
    <2>1. Frame
      BY <1>1, NextFrame
    <2> SUFFICES ASSUME NEW s \in Sessions, NEW u \in Parties(s)', state'[s] = "deleted"
                 PROVE  Learned(u, s)'
      BY DEF BothLearn, Learned
    <2>2. \/ \E p \in Procs : Request(p) \/ Step(p)
          \/ (\E r \in Sessions : ExpireSession(r)) \/ (\E w \in Users : ExpireMapping(w))
      BY <1>1 DEF Next, Abort
    <2>3. CASE state[s] = "deleted"
      <3>1. u \in Parties(s)
        BY <2>1, <2>3 DEF Frame, Parties
      <3>2. CASE \E e \in log : e.user = u /\ e.sid = s /\ e.kind \in {"left", "ended", "rejected"}
        BY <2>1, <3>2 DEF Frame, Learned
      <3>3. ASSUME NEW p \in Procs, At(p, "disconnect", "tell"), job[p].sid = s, job[p].user # u
            PROVE  Learned(u, s)'
        <4>1. CASE job'[p] = job[p]
          BY <3>3, <4>1 DEF Learned, At
        <4>2. CASE DisconnectTell(p)
          <5>1. Occurs("ended", Peer(s, job[p].user), s) \subseteq log'
            BY <3>3, <4>2, EndedSent DEF DisconnectTell
          <5>2. job[p].user \in Parties(s)
            BY <3>3 DEF DepartInv, Departed, At
          <5>3. u = Peer(s, job[p].user)
            BY <3>1, <3>3, <5>2 DEF Parties, Peer
          <5>4. Occurs("ended", u, s) \subseteq log'
            BY <5>1, <5>3
          <5> QED
            BY <5>4, EventTells
        <4>3. job'[p] = job[p] \/ DisconnectTell(p)
          <5>1. ~Watching(job[p])
            BY <3>3 DEF At, Watching
          <5>2. ASSUME NEW q \in Procs, Request(q) \/ Step(q)
                PROVE  job'[p] = job[p] \/ DisconnectTell(p)
            BY <3>3, <5>1, <5>2, StepProceeds, TellerTells DEF Proceeds, Takes
          <5> QED
            BY <2>1, <2>2, <5>1, <5>2, ExpireDeparts
        <4> QED
          BY <4>1, <4>2, <4>3
      <3> QED
        BY <2>3, <3>1, <3>2, <3>3 DEF BothLearn
    <2>4. CASE state[s] # "deleted"
      <3>1. PICK p \in Procs : DeleteDel(p) /\ s = job[p].sid
        <4>1. (\A r \in Sessions : ~ExpireSession(r)) /\ (\A w \in Users : ~ExpireMapping(w))
          BY <2>4 DEF ExpireSession, ExpireMapping, IInv, TypeOK
        <4> QED
          BY <2>2, <2>4, <4>1, OnlyDelDeletes DEF Gone
      <3>2. u \in Parties(s)
        BY <3>1 DEF DeleteDel, Parties
      <3> QED
        BY <3>1, <3>2, DeleteTells
    <2> QED
      BY <2>3, <2>4
  <1>2. CASE UNCHANGED vars
    BY <1>2 DEF vars, BothLearn, Parties, At
  <1> QED
    BY <1>1, <1>2

(* Without failures, once a session is deleted each of its parties left it, was told that it is over, or
   is about to be told by the disconnect that deleted it, however hang-ups, disconnects and
   rejections of one call race (call.go:300-308, 374-389, 489-503).  Sessions may expire; the log
   must record what the property speaks of. *)
THEOREM BothLearnAlways ==
    ASSUME ~MayFail, {"left", "ended", "rejected"} \subseteq Recorded
    PROVE  Spec => []BothLearn
  <1>1. Init => BothLearn
    BY DEF Init, BothLearn
  <1>2. IInv /\ DepartInv /\ BothLearn /\ [Next]_vars => BothLearn'
    BY LearnNext
  <1> QED
    BY <1>1, <1>2, Invariance, DepartAlways, PTL DEF Spec

-----------------------------------------------------------------------------
(* Expiry is the only way an accepted call, or any other, ends without a party leaving it: were Redis to
   keep the sessions of live calls, as README.md:1014 says it does, nobody would lose a call, also
   when commands fail and servers crash (session.go:220-224). *)
THEOREM PersistAlways ==
    ASSUME ~MayExpire, "left" \in Recorded
    PROVE  Spec => AcceptedCallPersists
  <1> DEFINE Left(s) == \E e \in log : e.kind = "left" /\ e.sid = s
  <1>1. ASSUME IInv, DepartInv, [Next]_vars, NEW s \in Sessions, state[s] = "accepted", state'[s] \in Gone
        PROVE  Left(s)
    <2>1. PICK p \in Procs : DeleteDel(p) /\ s = job[p].sid
      <3>1. state'[s] # state[s]
        BY <1>1 DEF Gone
      <3>2. \A q \in Procs : ~Abort(q)
        BY <3>1 DEF Abort, CreateFails
      <3>3. PICK q \in Procs : Request(q) \/ Step(q)
        BY <1>1, <3>1, <3>2 DEF Next, vars, ExpireSession, ExpireMapping
      <3> QED
        BY <1>1, <3>1, <3>3, OnlyDelDeletes
    <2>2. Departed(job[p]) /\ job[p].pc = "del"
      BY <1>1, <2>1 DEF DepartInv, DeleteDel
    <2>3. Occurs("left", job[p].user, s) \subseteq log
      BY <2>1, <2>2 DEF Departed, Logged, Closing
    <2>4. [kind |-> "left", user |-> job[p].user, sid |-> s] \in log
      BY <2>3 DEF Occurs
    <2> QED
      BY <2>4
  <1>2. IInv /\ DepartInv /\ [Next]_vars =>
            [\A s \in Sessions : state[s] = "accepted" /\ state'[s] \in Gone
                => \E e \in log : e.kind = "left" /\ e.sid = s]_vars
    BY <1>1
  <1> QED
    BY <1>2, Invariance, DepartAlways, PTL DEF Spec, AcceptedCallPersists
=============================================================================
