----------------------- MODULE CallSessionsRefinement -----------------------
(* Every step of the handlers is a step of the registry or leaves the registry as it is. *)
EXTENDS CallSessionsSafety

USE NoneAssumption

-----------------------------------------------------------------------------
(* The registry sees neither goroutines nor messages, nor the session of a call under construction. *)
LEMMA Stutter ==
    ASSUME UNCHANGED <<state, userCall>>,
           \A s \in Sessions : state[s] = "unborn" \/ meta'[s] = meta[s]
    PROVE  UNCHANGED Registry!vars
  <1>1. \A s \in Sessions : Pair(s)' = Pair(s) /\ Phase(s)' = Phase(s)
    BY DEF Pair, Phase, Parties
  <1> QED
    BY <1>1 DEF Registry!vars

(* The cases of a registry step in terms of the keys in Redis. *)
LEMMA PhaseStep ==
    ASSUME TypeOK, UNCHANGED meta, NEW s \in Sessions, state[s] # "unborn", NEW new \in States \ {"unborn"},
           state' = [state EXCEPT ![s] = new]
    PROVE  /\ [r \in Sessions |-> Pair(r)]' = [r \in Sessions |-> Pair(r)]
           /\ [r \in Sessions |-> Phase(r)]' =
                [[r \in Sessions |-> Phase(r)] EXCEPT ![s] = IF new \in Gone THEN "gone" ELSE new]
  <1>1. \A r \in Sessions : state'[r] = IF r = s THEN new ELSE state[r]
    BY DEF TypeOK
  <1>2. \A r \in Sessions : Pair(r)' = Pair(r)
    BY <1>1 DEF Pair, Parties
  <1>3. \A r \in Sessions : Phase(r)' = IF r = s THEN IF new \in Gone THEN "gone" ELSE new ELSE Phase(r)
    BY <1>1 DEF Phase
  <1> QED
    BY <1>2, <1>3

(* CreateExec claims two free users. *)
LEMMA ExecClaims ==
    ASSUME IInv, NEW p \in Procs, CreateExec(p)
    PROVE  Registry!Next
  <1> DEFINE s == job[p].sid
             a == meta[s].caller
             b == meta[s].callee
  <1>1. /\ s \in Sessions /\ state[s] = "unborn"
        /\ a \in Users /\ b \in Users
        /\ userCall[a] = None /\ userCall[b] = None
        /\ Parties(s) = {a, b}
    BY CreateExecFree DEF Parties
  <1>2. a # b
    <2>1. Watching(job[p])
      BY DEF CreateExec, At, Watching
    <2> QED
      BY <2>1 DEF IInv, WatchInv, Undisturbed
  <1>3. /\ state' = [state EXCEPT ![s] = "ringing"]
        /\ UNCHANGED meta
        /\ userCall' = [u \in Users |-> IF u \in {a, b} THEN s ELSE userCall[u]]
    BY <1>1 DEF CreateExec, WriteUserCalls
  <1>4. state \in [Sessions -> States] /\ userCall \in [Users -> Sessions \cup {None}]
    BY DEF IInv, TypeOK
  <1>5. \A r : Parties(r)' = Parties(r)
    BY <1>3 DEF Parties
  <1> HIDE DEF s, a, b
  <1>6. \A r \in Sessions : /\ Phase(r)' = IF r = s THEN "ringing" ELSE Phase(r)
                            /\ Pair(r)' = IF r = s THEN {a, b} ELSE Pair(r)
    BY <1>1, <1>3, <1>4, <1>5 DEF Phase, Pair, Gone
  <1>7. userCall' = [userCall EXCEPT ![a] = s, ![b] = s]
    BY <1>3, <1>4
  <1>8. Phase(s) = "unborn"
    BY <1>1 DEF Phase, Gone
  <1>9. Registry!Claim(s, a, b)
    BY <1>1, <1>2, <1>6, <1>7, <1>8 DEF Registry!Claim
  <1> QED
    BY <1>1, <1>9 DEF Registry!Next

(* The Lua script answers, refuses or finishes a call, or does nothing. *)
LEMMA ScriptAdvances ==
    ASSUME IInv, UNCHANGED <<meta, userCall>>, NEW s \in Sessions, NEW old \in States, NEW new,
           \/ old = "ringing" /\ new \in {"accepted", "rejected"}
           \/ new = "ended",
           UpdateCallState(s, old, new)
    PROVE  Registry!Next \/ UNCHANGED Registry!vars
  <1>1. CASE ~(state[s] = old /\ Exists(s)) \/ old = new
    <2>1. state' = state
      BY <1>1 DEF UpdateCallState, IInv, TypeOK
    <2> QED
      BY <2>1, Stutter
  <1>2. CASE state[s] = old /\ Exists(s) /\ old # new
    <2>1. /\ state' = [state EXCEPT ![s] = new]
          /\ new \in {"accepted", "rejected", "ended"}
          /\ Phase(s) = old /\ old \in Live
      BY <1>2 DEF UpdateCallState, Exists, Phase, Gone, Live
    <2>2. /\ [r \in Sessions |-> Pair(r)]' = [r \in Sessions |-> Pair(r)]
          /\ [r \in Sessions |-> Phase(r)]' = [[r \in Sessions |-> Phase(r)] EXCEPT ![s] = new]
      <3>1. new \in States \ {"unborn"} /\ new \notin Gone /\ state[s] # "unborn"
        BY <1>2, <2>1 DEF States, Live, Gone
      <3> QED
        BY <2>1, <3>1, PhaseStep DEF IInv
    <2>3. Registry!Advance(s, old, new)
      BY <2>1, <2>2 DEF Registry!Advance
    <2>4. CASE new = "ended"
      <3>1. old \in {"ringing", "accepted", "rejected"}
        BY <1>2, <2>1, <2>4 DEF Live
      <3>2. Registry!Finish(s)
        BY <2>3, <2>4, <3>1 DEF Registry!Finish
      <3> QED
        BY <3>2 DEF Registry!Next
    <2>5. CASE new # "ended"
      BY <2>3, <2>5 DEF Registry!Answer, Registry!Refuse, Registry!Next
    <2> QED
      BY <2>4, <2>5
  <1> QED
    BY <1>1, <1>2

(* A session goes by a cleanup or by expiry. *)
LEMMA GoneRemoves ==
    ASSUME IInv, UNCHANGED meta, NEW s \in Sessions, Exists(s), NEW gone \in Gone,
           state' = [state EXCEPT ![s] = gone],
           UNCHANGED userCall \/ WriteUserCalls(Parties(s), None)
    PROVE  Registry!Next
  <1>1. state[s] # "unborn" /\ gone \in States \ {"unborn"} /\ state[s] \in Live
    BY DEF Exists, Live, Gone, States, Absent
  <1>2. /\ [r \in Sessions |-> Pair(r)]' = [r \in Sessions |-> Pair(r)]
        /\ [r \in Sessions |-> Phase(r)]' = [[r \in Sessions |-> Phase(r)] EXCEPT ![s] = "gone"]
    BY <1>1, PhaseStep DEF IInv
  <1>3. Phase(s) \in Registry!Live /\ Pair(s) = Parties(s)
    BY <1>1 DEF Phase, Pair, Live, Gone, Registry!Live
  <1>4. Registry!Remove(s)
    BY <1>2, <1>3 DEF Registry!Remove, WriteUserCalls
  <1> QED
    BY <1>4 DEF Registry!Next

(* Mappings of users who were in a call that is gone are removed. *)
LEMMA CleanupFrees ==
    ASSUME IInv, UNCHANGED <<state, meta>>, NEW s \in Sessions, state[s] \in Gone,
           NEW U \in SUBSET Parties(s), WriteUserCalls(U, None)
    PROVE  Registry!Next
  <1>1. Phase(s) = "gone" /\ Pair(s) = Parties(s)
    BY DEF Phase, Pair, Gone
  <1>2. \A r \in Sessions : Pair(r)' = Pair(r) /\ Phase(r)' = Phase(r)
    BY DEF Pair, Phase, Parties
  <1>3. Registry!Free(s, U)
    BY <1>1, <1>2 DEF Registry!Free, WriteUserCalls
  <1> QED
    BY <1>1, <1>3 DEF Registry!Next

-----------------------------------------------------------------------------
(* The handlers, by what they do to the registry. *)
LEMMA StartStutters ==
    ASSUME IInv, NEW p \in Procs,
           \/ Request(p)
           \/ CheckCaller(p) \/ CheckCallee(p) \/ CreateAborted(p)
           \/ Abort(p)
    PROVE  UNCHANGED Registry!vars
  <1>1. UNCHANGED <<state, userCall>>
    BY DEF Request, StartCall, AcceptCall, RejectCall, EndCall, ForwardWebRTC, HandleDisconnect,
           HandleReconnect, CheckCaller, CheckCallee, CreateAborted, CheckFree, CreateFails, Abort
  <1>2. \A s \in Sessions : state[s] = "unborn" \/ meta'[s] = meta[s]
    <2>1. CASE UNCHANGED meta
      BY <2>1
    <2>2. CASE \E u, v \in Users, s \in Sessions, online \in BOOLEAN, device \in Devices :
                   StartCall(p, u, v, s, online, device)
      BY <2>2 DEF StartCall, IInv, TypeOK
    <2>3. CASE CreateFails(p) /\ Watching(job[p])
      <3>1. state[job[p].sid] = "unborn"
        BY <2>3 DEF IInv, WatchInv, Undisturbed
      <3> QED
        BY <2>3, <3>1 DEF CreateFails, IInv, TypeOK
    <2>4. CASE Request(p)
      BY <2>1, <2>2, <2>4
         DEF Request, AcceptCall, RejectCall, EndCall, ForwardWebRTC, HandleDisconnect, HandleReconnect
    <2>5. CASE CheckCaller(p) \/ CheckCallee(p) \/ CreateAborted(p)
      BY <2>1, <2>3, <2>5 DEF CheckCaller, CheckCallee, CheckFree, CreateAborted, At, Watching
    <2>6. CASE Abort(p)
      BY <2>1, <2>3, <2>6 DEF Abort
    <2> QED
      BY <2>4, <2>5, <2>6
  <1> QED
    BY <1>1, <1>2, Stutter

LEMMA TellStutters ==
    ASSUME NEW p \in Procs,
           \/ SendRing(p) \/ SendRinging(p) \/ AcceptTell(p) \/ RejectTell(p) \/ EndTell(p)
           \/ DeleteRead(p) \/ DisconnectGet(p) \/ DisconnectTell(p)
           \/ ReconnectGet(p) \/ ReconnectTell(p) \/ ForwardTell(p)
    PROVE  UNCHANGED Registry!vars
  <1>1. UNCHANGED <<state, meta, userCall>>
    BY DEF SendRing, SendRinging, AcceptTell, RejectTell, EndTell, DeleteRead, DisconnectGet,
           DisconnectTell, ReconnectGet, ReconnectTell, ForwardTell
  <1> QED
    BY <1>1, Stutter

LEMMA CasRefines ==
    ASSUME IInv, NEW p \in Procs,
           AcceptCas(p) \/ RejectCas(p) \/ EndCas(p) \/ DisconnectCas(p)
    PROVE  Registry!Next \/ UNCHANGED Registry!vars
  <1>1. job[p].sid \in Sessions /\ job[p].seen \in States
    <2>1. job[p] \in Job
      BY AtJob DEF AcceptCas, RejectCas, EndCas, DisconnectCas, MarkEnded, At, Pcs, IInv
    <2> QED
      BY <2>1 DEF Job
  <1>2. CASE AcceptCas(p) \/ RejectCas(p)
    <2>1. "ringing" \in States
      BY DEF States, Live
    <2>2. PICK new \in {"accepted", "rejected"} : UpdateCallState(job[p].sid, "ringing", new)
      BY <1>2 DEF AcceptCas, RejectCas
    <2>3. UNCHANGED <<meta, userCall>>
      BY <1>2 DEF AcceptCas, RejectCas
    <2> QED
      BY <1>1, <2>1, <2>2, <2>3, ScriptAdvances
  <1>3. CASE EndCas(p) \/ DisconnectCas(p)
    <2>1. /\ UNCHANGED <<meta, userCall>>
          /\ UpdateCallState(job[p].sid, job[p].seen, "ended") \/ UNCHANGED state
      BY <1>3 DEF EndCas, DisconnectCas, MarkEnded
    <2>2. CASE UNCHANGED state
      BY <2>1, <2>2, Stutter
    <2> QED
      BY <1>1, <2>1, <2>2, ScriptAdvances
  <1> QED
    BY <1>2, <1>3

LEMMA DeleteRefines ==
    ASSUME IInv, NEW p \in Procs, DeleteDel(p) \/ ClearUserCall(p)
    PROVE  Registry!Next
  <1> DEFINE s == job[p].sid
  <1>1. /\ job[p] # Idle /\ ~Watching(job[p]) /\ s \in Sessions
        /\ Sound(job[p])
    BY AtJob DEF DeleteDel, ClearUserCall, Pcs, Watching, IInv, HandlerInv
  <1>2. CASE DeleteDel(p)
    <2>1. state[s] # "unborn" /\ state[s] \in States
      BY <1>1 DEF Sound, IInv, TypeOK
    <2>2. UNCHANGED meta /\ WriteUserCalls(Parties(s), None)
      BY <1>2 DEF DeleteDel
    <2>3. CASE Exists(s)
      <3>1. state' = [state EXCEPT ![s] = "deleted"]
        BY <1>2, <2>3 DEF DeleteDel
      <3> QED
        BY <1>1, <2>2, <2>3, <3>1, GoneRemoves DEF Gone
    <2>4. CASE ~Exists(s)
      <3>1. state' = state /\ state[s] \in Gone
        BY <1>2, <2>1, <2>4 DEF DeleteDel, Exists, States, Absent, Gone
      <3> QED
        BY <1>1, <2>2, <3>1, CleanupFrees
    <2> QED
      BY <2>3, <2>4
  <1>3. CASE ClearUserCall(p)
    <2>1. state[s] \in Gone /\ {job[p].user} \in SUBSET Parties(s)
      BY <1>1, <1>3 DEF Sound, ClearUserCall
    <2> QED
      BY <1>1, <1>3, <2>1, CleanupFrees DEF ClearUserCall
  <1> QED
    BY <1>2, <1>3

LEMMA ExpiryRefines ==
    ASSUME IInv, \/ \E s \in Sessions : ExpireSession(s)
                 \/ \E u \in Users : ExpireMapping(u)
    PROVE  Registry!Next
  <1>1. ASSUME NEW s \in Sessions, ExpireSession(s)
        PROVE  Registry!Next
    BY <1>1, GoneRemoves DEF ExpireSession, Gone
  <1>2. ASSUME NEW u \in Users, ExpireMapping(u)
        PROVE  Registry!Next
    <2>1. PICK s \in Sessions : s = userCall[u] /\ ~Exists(s)
      BY <1>2 DEF ExpireMapping, IInv, TypeOK
    <2>2. state[s] \in Gone /\ {u} \in SUBSET Parties(s)
      BY <1>2, <2>1 DEF ExpireMapping, IInv, MappingHasSession, Exists, Gone
    <2> QED
      BY <1>2, <2>2, CleanupFrees DEF ExpireMapping
  <1> QED
    BY <1>1, <1>2

-----------------------------------------------------------------------------
LEMMA InitRefines == Init => Registry!Init
  <1> SUFFICES ASSUME Init
               PROVE  Registry!Init
    OBVIOUS
  <1>1. \A s \in Sessions : Phase(s) = "unborn" /\ Pair(s) = {}
    BY DEF Init, Phase, Pair, Gone
  <1> QED
    BY <1>1 DEF Init, Registry!Init

LEMMA StepRefines == IInv /\ [Next]_vars => [Registry!Next]_(Registry!vars)
  <1> SUFFICES ASSUME IInv, [Next]_vars
               PROVE  Registry!Next \/ UNCHANGED Registry!vars
    OBVIOUS
  <1>1. ASSUME NEW p \in Procs, Request(p) \/ Step(p) \/ Abort(p)
        PROVE  Registry!Next \/ UNCHANGED Registry!vars
    BY <1>1, StartStutters, TellStutters, ExecClaims, CasRefines, DeleteRefines DEF Step
  <1>2. CASE UNCHANGED vars
    BY <1>2, Stutter DEF vars
  <1> QED
    BY <1>1, <1>2, ExpiryRefines DEF Next

(* The handlers of the servers, whatever fails between two of their Redis commands, implement the
   call registry. *)
THEOREM Refinement == Spec => RegistrySpec
  BY InitRefines, StepRefines, Invariance, PTL DEF Spec, RegistrySpec, Registry!Spec

(* A mapping goes from one call to another only through "no call". *)
THEOREM NeverOverwrittenAlways == Spec => NeverOverwritten
  <1> DEFINE Kept == \A u \in Users : userCall'[u] \in {userCall[u], None} \/ userCall[u] = None
  <1>1. IInv /\ [Next]_vars => [Kept]_vars
    <2> SUFFICES ASSUME IInv, [Next]_vars, NEW u \in Users
                 PROVE  userCall'[u] \in {userCall[u], None} \/ userCall[u] = None
      OBVIOUS
    <2>1. userCall \in [Users -> Sessions \cup {None}]
      BY DEF IInv, TypeOK
    <2>2. CASE UNCHANGED Registry!vars
      BY <2>2 DEF Registry!vars
    <2>3. CASE Registry!Next
      BY <2>1, <2>3 DEF Registry!Next, Registry!Claim, Registry!Answer, Registry!Refuse,
         Registry!Finish, Registry!Advance, Registry!Remove, Registry!Free
    <2> QED
      BY <2>2, <2>3, StepRefines
  <1> QED
    BY <1>1, Invariance, PTL DEF Spec, NeverOverwritten
=============================================================================
