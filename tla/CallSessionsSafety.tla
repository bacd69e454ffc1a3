------------------------- MODULE CallSessionsSafety -------------------------
(* The inductive invariant of CallSessions and the safety properties that follow from it. *)
EXTENDS CallSessionsProofs

USE NoneAssumption

-----------------------------------------------------------------------------
(* Steps after which handler p is at a point where it watches nothing, and at most a session that
   was live moved to another live state. *)
LEMMA Quiet ==
    ASSUME IInv, TypeOK', NEW p \in Procs, NEW j \in Job \cup {Idle},
           job' = [job EXCEPT ![p] = j],
           UNCHANGED <<meta, userCall>>,
           \A s \in Sessions : state'[s] = state[s] \/ (state[s] \in Live /\ state'[s] \in Live),
           ~Watching(j), Sound(j)
    PROVE  IInv'
  <1> USE DEF IInv
  <1>1. \A q \in Procs : job'[q] = IF q = p THEN j ELSE job[q]
    BY DEF TypeOK
  <1>2. \A s \in Sessions : /\ state'[s] = "unborn" <=> state[s] = "unborn"
                            /\ state'[s] \in Gone <=> state[s] \in Gone
                            /\ state'[s] \in Live <=> state[s] \in Live
                            /\ state'[s] = "expired" <=> state[s] = "expired"
    BY DEF Live, Gone
  <1>3. \A s : Parties(s)' = Parties(s)
    BY DEF Parties
  <1>4. \A i : i \in Job => i.sid \in Sessions
    BY DEF Job
  <1>5. \A i : Watching(i) => i # Idle
    BY DEF Watching, Idle
  <1>6. WatchInv'
    <2> SUFFICES ASSUME NEW q \in Procs, Watching(job'[q])
                 PROVE  Undisturbed(q)'
      BY DEF WatchInv
    <2>1. q # p /\ job'[q] = job[q] /\ job[q].sid \in Sessions
      BY <1>1, <1>4, <1>5 DEF TypeOK
    <2>2. \A r \in Procs : Watching(job'[r]) => r # p /\ job'[r] = job[r]
      BY <1>1
    <2> QED
      BY <2>1, <2>2, <1>2, <1>3 DEF WatchInv, Undisturbed
  <1>7. StoredParties'
    BY <1>2, <1>3 DEF StoredParties
  <1>8. HandlerInv'
    <2> SUFFICES ASSUME NEW q \in Procs
                 PROVE  Sound(job[q])'
      BY DEF HandlerInv
    <2>1. Sound(job'[q])
      BY <1>1 DEF HandlerInv
    <2>2. job'[q] # Idle => job'[q].sid \in Sessions
      BY <1>4 DEF TypeOK
    <2> QED
      BY <2>1, <2>2, <1>2, <1>3 DEF Sound
  <1>9. MappingHasSession'
    BY <1>2, <1>3 DEF MappingHasSession, TypeOK
  <1>10. LiveMapped'
    BY <1>2, <1>3 DEF LiveMapped, Exists
  <1> QED
    BY <1>6, <1>7, <1>8, <1>9, <1>10

(* ExpireSession: a live session goes, its mappings stay. *)
LEMMA ExpireSessionSafe ==
    ASSUME IInv, TypeOK', NEW s \in Sessions, ExpireSession(s)
    PROVE  IInv'
  <1> USE DEF IInv
  <1>1. /\ UNCHANGED <<meta, userCall, job>>
        /\ state[s] \in Live /\ state'[s] = "expired"
        /\ \A r \in Sessions \ {s} : state'[r] = state[r]
    BY DEF ExpireSession, Exists, TypeOK
  <1>2. \A r : Parties(r)' = Parties(r)
    BY <1>1 DEF Parties
  <1>3. \A p \in Procs : job[p] # Idle => job[p].sid \in Sessions
    BY DEF TypeOK, Job
  <1>4. \A p \in Procs : Watching(job[p]) => job[p] # Idle
    BY DEF Watching, Idle
  <1>5. WatchInv'
    BY <1>1, <1>2, <1>3, <1>4 DEF WatchInv, Undisturbed, Live
  <1>6. StoredParties'
    BY <1>1, <1>2 DEF StoredParties, Live
  <1>7. HandlerInv'
    BY <1>1, <1>2, <1>3 DEF HandlerInv, Sound, Gone
  <1>8. MappingHasSession'
    BY <1>1, <1>2 DEF MappingHasSession, TypeOK
  <1>9. LiveMapped'
    BY <1>1, <1>2 DEF LiveMapped, Exists, Live, Gone
  <1> QED
    BY <1>5, <1>6, <1>7, <1>8, <1>9

-----------------------------------------------------------------------------
(* Writes to the mappings. *)

(* Touching a job changes nothing but its dirty flag, and that only while it watches. *)
LEMMA TouchKeeps ==
    ASSUME NEW j \in Job \cup {Idle}, NEW U
    PROVE  /\ ~Watching(j) => Touch(j, U) = j
           /\ Watching(j) => Touch(j, U).sid = j.sid /\ Touch(j, U).pc = j.pc
           /\ Watching(Touch(j, U)) <=> Watching(j)
           /\ Watching(j) /\ ~Touch(j, U).dirty => Touch(j, U) = j /\ Parties(j.sid) \cap U = {}
  <1>1. CASE ~Watching(j)
    BY <1>1 DEF Touch
  <1>2. CASE Watching(j)
    <2>1. j \in Job
      BY <1>2 DEF Watching, Idle
    <2>2. CASE Parties(j.sid) \cap U = {}
      BY <1>2, <2>2 DEF Touch
    <2>3. CASE Parties(j.sid) \cap U # {}
      <3>1. Touch(j, U) = [j EXCEPT !.dirty = TRUE]
        BY <1>2, <2>3 DEF Touch
      <3> QED
        BY <1>2, <2>1, <2>3, <3>1 DEF Job, Watching
    <2> QED
      BY <2>2, <2>3
  <1> QED
    BY <1>1, <1>2

(* What a goroutine read between its WATCH and its EXEC survives any write, or the write makes it dirty. *)
LEMMA WatchAfterWrite ==
    ASSUME IInv, TypeOK', UNCHANGED meta, NEW U, NEW v, WriteUserCalls(U, v),
           \A q \in Procs : \/ job'[q] = Touch(job[q], {u \in U : userCall[u] # v})
                            \/ ~Watching(job'[q]),
           \A q \in Procs : Watching(job[q]) /\ Watching(job'[q]) => state'[job[q].sid] = "unborn"
    PROVE  WatchInv'
  <1> USE DEF IInv
  <1> DEFINE changed == {u \in U : userCall[u] # v}
  <1>1. \A q \in Procs : job[q] \in Job \cup {Idle}
    BY DEF TypeOK
  <1>2. ASSUME NEW q \in Procs, Watching(job'[q])
        PROVE  /\ Watching(job[q])
               /\ job'[q].sid = job[q].sid /\ job'[q].pc = job[q].pc
               /\ ~job'[q].dirty => job'[q] = job[q] /\ Parties(job[q].sid) \cap changed = {}
    <2>1. job'[q] = Touch(job[q], changed)
      BY <1>2
    <2> HIDE DEF changed
    <2> QED
      BY <1>1, <1>2, <2>1, TouchKeeps
  <1>3. \A u \in Users : u \notin changed => userCall'[u] = userCall[u]
    BY DEF WriteUserCalls
  <1>4. \A s : Parties(s)' = Parties(s)
    BY DEF Parties
  <1> SUFFICES ASSUME NEW q \in Procs, Watching(job'[q])
               PROVE  Undisturbed(q)'
    BY DEF WatchInv
  <1> DEFINE s == job[q].sid
  <1>5. Watching(job[q]) /\ job'[q].sid = s /\ state'[s] = "unborn"
    BY <1>2
  <1>6. Parties(s)' \subseteq Users
    BY <1>4, <1>5 DEF WatchInv, Undisturbed
  <1>7. \A r \in Procs \ {q} : Watching(job'[r]) => job'[r].sid # s
    BY <1>2, <1>5 DEF WatchInv, Undisturbed
  <1>8. ASSUME ~job'[q].dirty
        PROVE  /\ job'[q] = job[q]
               /\ userCall'[meta[s].caller] = userCall[meta[s].caller]
               /\ userCall'[meta[s].callee] = userCall[meta[s].callee]
    <2>1. job'[q] = job[q] /\ Parties(s) \cap changed = {}
      BY <1>2, <1>8
    <2>2. Parties(s) \subseteq Users
      BY <1>5 DEF WatchInv, Undisturbed
    <2> HIDE DEF changed, s
    <2> QED
      BY <1>3, <2>1, <2>2 DEF Parties
  <1>9. ~job'[q].dirty /\ job'[q].pc \in {"callee", "exec"} => userCall'[meta[s].caller] = None
    BY <1>5, <1>8 DEF WatchInv, Undisturbed
  <1>10. ~job'[q].dirty /\ job'[q].pc = "exec" => userCall'[meta[s].callee] = None
    BY <1>5, <1>8 DEF WatchInv, Undisturbed
  <1>11. (meta[s].caller # meta[s].callee)'
    BY <1>5 DEF WatchInv, Undisturbed
  <1> QED
    BY <1>5, <1>6, <1>7, <1>9, <1>10, <1>11 DEF Undisturbed

(* DeleteDel, ClearUserCall and ExpireMapping: the mappings of parties U of a session that is gone,
   or goes in this step, are removed, whatever they hold. *)
LEMMA FreeSafe ==
    ASSUME IInv, TypeOK', UNCHANGED meta, NEW s \in Sessions, NEW U \in SUBSET Parties(s),
           state[s] # "unborn",
           \/ Exists(s) /\ U = Parties(s) /\ state'[s] = "deleted"
           \/ ~Exists(s) /\ state'[s] = state[s],
           \A r \in Sessions \ {s} : state'[r] = state[r],
           WriteUserCalls(U, None),
           \A q \in Procs : \/ job'[q] = Watchers(U, None)[q]
                            \/ ~Watching(job'[q]) /\ Sound(job'[q])
    PROVE  IInv'
  <1> USE DEF IInv
  <1>0. \A q \in Procs : \/ job'[q] = Touch(job[q], {u \in U : userCall[u] # None})
                         \/ ~Watching(job'[q]) /\ Sound(job'[q])
    BY DEF Watchers
  <1>1. /\ \A r \in Sessions : state[r] = "unborn" <=> state'[r] = "unborn"
        /\ \A r \in Sessions : state[r] \in Gone => state'[r] = state[r]
        /\ \A r \in Sessions : state'[r] \in Live => r # s /\ state'[r] = state[r]
        /\ state'[s] \in Gone
    BY DEF Exists, Live, Gone, TypeOK, States, Absent
  <1>2. \A r : Parties(r)' = Parties(r)
    BY DEF Parties
  <1>3. \A u \in Users : userCall'[u] = IF u \in U THEN None ELSE userCall[u]
    BY DEF WriteUserCalls
  <1>4. WatchInv'
    <2>1. \A q \in Procs : Watching(job[q]) => state'[job[q].sid] = "unborn"
      <3> SUFFICES ASSUME NEW q \in Procs, Watching(job[q])
                   PROVE  state'[job[q].sid] = "unborn"
        OBVIOUS
      <3>1. job[q].sid \in Sessions
        BY DEF TypeOK, Job, Idle, Watching
      <3> QED
        BY <1>1, <3>1 DEF WatchInv, Undisturbed
    <2> QED
      BY <1>0, <2>1, WatchAfterWrite
  <1>5. StoredParties'
    BY <1>1, <1>2 DEF StoredParties
  <1>6. HandlerInv'
    <2> SUFFICES ASSUME NEW q \in Procs
                 PROVE  Sound(job[q])'
      BY DEF HandlerInv
    <2>1. job[q] \in Job \cup {Idle} /\ job'[q] \in Job \cup {Idle}
      BY DEF TypeOK
    <2>2. Watching(job'[q]) \/ Sound(job'[q])
      <3> DEFINE changed == {u \in U : userCall[u] # None}
      <3>1. job'[q] = Touch(job[q], changed) \/ Sound(job'[q])
        BY <1>0
      <3> HIDE DEF changed
      <3>2. CASE job'[q] = Touch(job[q], changed) /\ ~Watching(job[q])
        BY <2>1, <3>2, TouchKeeps DEF HandlerInv
      <3>3. CASE job'[q] = Touch(job[q], changed) /\ Watching(job[q])
        BY <2>1, <3>3, TouchKeeps
      <3> QED
        BY <3>1, <3>2, <3>3
    <2>3. CASE Watching(job'[q])
      BY <2>3 DEF Sound
    <2>4. job'[q] # Idle => job'[q].sid \in Sessions
      BY <2>1 DEF Job
    <2>5. CASE Sound(job'[q])
      BY <1>1, <1>2, <2>4, <2>5 DEF Sound
    <2> QED
      BY <2>2, <2>3, <2>5
  <1>7. MappingHasSession'
    <2> SUFFICES ASSUME NEW u \in Users, userCall'[u] # None
                 PROVE  /\ u \in Parties(userCall'[u])
                        /\ state'[userCall'[u]] \in Live \cup {"expired"}
      BY <1>2 DEF MappingHasSession
    <2>1. userCall'[u] = userCall[u] /\ u \notin U /\ userCall[u] \in Sessions
      BY <1>3 DEF TypeOK
    <2>2. u \in Parties(userCall[u]) /\ state[userCall[u]] \in Live \cup {"expired"}
      BY <2>1 DEF MappingHasSession
    <2>3. userCall[u] # s \/ ~Exists(s)
      BY <2>1, <2>2 DEF Exists
    <2> QED
      BY <1>1, <2>1, <2>2, <2>3 DEF Exists, Gone
  <1>8. LiveMapped'
    <2> SUFFICES ASSUME NEW r \in Sessions, NEW u \in Parties(r), state'[r] \in Live
                 PROVE  \/ userCall'[u] = r
                        \/ \E s3 \in Sessions : state'[s3] \in Gone /\ u \in Parties(s3)
      BY <1>2 DEF LiveMapped, Exists
    <2>1. r # s /\ state[r] \in Live /\ u \in Users
      BY <1>1 DEF StoredParties, Live
    <2>2. CASE u \in U
      BY <1>1, <2>2
    <2>3. CASE u \notin U
      BY <1>1, <1>3, <2>1, <2>3 DEF LiveMapped, Exists
    <2> QED
      BY <2>2, <2>3
  <1> QED
    BY <1>4, <1>5, <1>6, <1>7, <1>8

-----------------------------------------------------------------------------
(* call.start. *)

LEMMA StartCallSafe ==
    ASSUME IInv, TypeOK', NEW p \in Procs, NEW u \in Users, NEW v \in Users, NEW s \in Sessions,
           NEW online \in BOOLEAN, NEW device \in Devices, StartCall(p, u, v, s, online, device)
    PROVE  IInv'
  <1> USE DEF IInv
  <1> DEFINE j == [Handler("start", "caller", u, s, "unborn") EXCEPT !.online = online]
  <1>1. j.op = "start" /\ j.pc = "caller" /\ j.sid = s
    BY DEF Handler, Idle
  <1>2. job' = [job EXCEPT ![p] = j]
    BY DEF StartCall, Begin
  <1> HIDE DEF j
  <1>3. \A q \in Procs : job'[q] = IF q = p THEN j ELSE job[q]
    BY <1>2 DEF TypeOK
  <1>4. /\ UNCHANGED <<state, userCall>>
        /\ state[s] = "unborn" /\ meta[s] = NoMeta
        /\ meta' = [meta EXCEPT ![s] = [caller |-> u, callee |-> v, device |-> device]]
    BY DEF StartCall
  <1>5. /\ Parties(s)' = {u, v} /\ (meta[s].caller # meta[s].callee)'
        /\ \A r \in Sessions \ {s} : meta'[r] = meta[r] /\ Parties(r)' = Parties(r)
    BY <1>4 DEF StartCall, MayStart, Parties, TypeOK
  <1>6. \A q \in Procs : Watching(job[q]) => job[q].sid \in Sessions \ {s}
    <2> SUFFICES ASSUME NEW q \in Procs, Watching(job[q])
                 PROVE  job[q].sid \in Sessions \ {s}
      OBVIOUS
    <2>1. job[q].sid \in Sessions /\ Parties(job[q].sid) \subseteq Users
      BY DEF TypeOK, Job, Idle, Watching, WatchInv, Undisturbed
    <2>2. ~(Parties(s) \subseteq Users)
      BY <1>4 DEF Parties, NoMeta
    <2> QED
      BY <2>1, <2>2
  <1>7. WatchInv'
    <2> SUFFICES ASSUME NEW q \in Procs, Watching(job'[q])
                 PROVE  Undisturbed(q)'
      BY DEF WatchInv
    <2>1. CASE q = p
      BY <1>1, <1>3, <1>4, <1>5, <1>6, <2>1 DEF Undisturbed
    <2>2. CASE q # p
      BY <1>1, <1>3, <1>4, <1>5, <1>6, <2>2 DEF WatchInv, Undisturbed
    <2> QED
      BY <2>1, <2>2
  <1>8. StoredParties'
    BY <1>4, <1>5 DEF StoredParties
  <1>9. HandlerInv'
    <2> SUFFICES ASSUME NEW q \in Procs
                 PROVE  Sound(job[q])'
      BY DEF HandlerInv
    <2>1. CASE q = p
      BY <1>1, <1>3, <2>1 DEF Sound, Watching
    <2>2. CASE q # p
      <3>1. job'[q] = job[q] /\ Sound(job[q])
        BY <1>3, <2>2 DEF HandlerInv
      <3>2. job[q] # Idle => job[q].sid \in Sessions
        BY DEF TypeOK, Job
      <3> QED
        BY <1>4, <1>5, <3>1, <3>2 DEF Sound, Gone
    <2> QED
      BY <2>1, <2>2
  <1>10. MappingHasSession'
    BY <1>4, <1>5 DEF MappingHasSession, TypeOK, Live
  <1>11. LiveMapped'
    <2> SUFFICES ASSUME NEW r \in Sessions, NEW w \in Parties(r)', state[r] \in Live
                 PROVE  (\/ userCall[w] = r
                         \/ \E s3 \in Sessions : state[s3] \in Gone /\ w \in Parties(s3))'
      BY <1>4 DEF LiveMapped, Exists
    <2>1. r # s /\ w \in Parties(r)
      BY <1>4, <1>5 DEF Live
    <2>2. \A s3 \in Sessions : state[s3] \in Gone => Parties(s3)' = Parties(s3)
      BY <1>4, <1>5 DEF Gone
    <2> QED
      BY <1>4, <2>1, <2>2 DEF LiveMapped, Exists
  <1> QED
    BY <1>7, <1>8, <1>9, <1>10, <1>11

LEMMA CreateFailsSafe ==
    ASSUME IInv, TypeOK', NEW p \in Procs, Watching(job[p]), CreateFails(p)
    PROVE  IInv'
  <1> USE DEF IInv
  <1> DEFINE s == job[p].sid
  <1>1. /\ s \in Sessions /\ state[s] = "unborn"
        /\ \A q \in Procs \ {p} : Watching(job[q]) => job[q].sid # s
    BY DEF TypeOK, Job, Idle, Watching, WatchInv, Undisturbed
  <1> HIDE DEF s
  <1>2. /\ UNCHANGED <<state, userCall>>
        /\ meta' = [meta EXCEPT ![s] = NoMeta]
        /\ \A q \in Procs : job'[q] = IF q = p THEN Idle ELSE job[q]
    BY DEF CreateFails, Return, TypeOK, s
  <1>3. \A r \in Sessions \ {s} : meta'[r] = meta[r] /\ Parties(r)' = Parties(r)
    BY <1>2 DEF Parties, TypeOK
  <1>4. \A q \in Procs : job[q] # Idle => job[q].sid \in Sessions
    BY DEF TypeOK, Job
  <1>5. ~Watching(Idle) /\ \A q \in Procs : Watching(job[q]) => job[q] # Idle
    BY DEF Watching, Idle
  <1>6. WatchInv'
    <2> SUFFICES ASSUME NEW q \in Procs, Watching(job'[q])
                 PROVE  Undisturbed(q)'
      BY DEF WatchInv
    <2>1. q # p /\ job'[q] = job[q] /\ job[q].sid \in Sessions \ {s}
      BY <1>1, <1>2, <1>4, <1>5
    <2>2. \A o \in Procs : Watching(job'[o]) => job'[o] = job[o]
      BY <1>2, <1>5
    <2> QED
      BY <1>2, <1>3, <2>1, <2>2 DEF WatchInv, Undisturbed
  <1>7. StoredParties'
    BY <1>1, <1>2, <1>3 DEF StoredParties
  <1>8. HandlerInv'
    <2> SUFFICES ASSUME NEW q \in Procs
                 PROVE  Sound(job[q])'
      BY DEF HandlerInv
    <2>1. CASE job'[q] = Idle \/ Watching(job'[q])
      BY <2>1 DEF Sound
    <2>2. CASE job'[q] # Idle /\ ~Watching(job'[q])
      <3>1. job'[q] = job[q] /\ Sound(job[q]) /\ job[q].sid \in Sessions \ {s}
        BY <1>1, <1>2, <1>4, <2>2 DEF HandlerInv, Sound
      <3> QED
        BY <1>2, <1>3, <3>1 DEF Sound
    <2> QED
      BY <2>1, <2>2
  <1>9. MappingHasSession'
    BY <1>1, <1>2, <1>3 DEF MappingHasSession, TypeOK, Live
  <1>10. LiveMapped'
    BY <1>1, <1>2, <1>3 DEF LiveMapped, Exists, Live, Gone
  <1> QED
    BY <1>6, <1>7, <1>8, <1>9, <1>10

(* A GET that finds its user free: from then on the watch guards what was read. *)
LEMMA CheckFreeSafe ==
    ASSUME IInv, TypeOK', NEW p \in Procs, NEW u, userCall[u] = None,
           NEW next \in {"callee", "exec"}, Watching(job[p]),
           Goto(p, next), UNCHANGED <<state, meta, userCall>>,
           \/ next = "callee" /\ u = meta[job[p].sid].caller
           \/ next = "exec" /\ u = meta[job[p].sid].callee /\ job[p].pc = "callee"
    PROVE  IInv'
  <1> USE DEF IInv
  <1>1. job[p] \in Job
    BY DEF TypeOK, Watching, Idle
  <1> DEFINE j == [job[p] EXCEPT !.pc = next]
  <1>2. Watching(j) /\ j.sid = job[p].sid /\ j.pc = next /\ j.dirty = job[p].dirty
    BY <1>1 DEF Watching, Job
  <1>3. \A q \in Procs : job'[q] = IF q = p THEN j ELSE job[q]
    BY DEF Goto, TypeOK
  <1> HIDE DEF j
  <1>4. \A r : Parties(r)' = Parties(r)
    BY DEF Parties
  <1>5. \A q \in Procs : Watching(job'[q]) <=> Watching(job[q])
    BY <1>2, <1>3
  <1>6. WatchInv'
    <2> SUFFICES ASSUME NEW q \in Procs, Watching(job'[q])
                 PROVE  Undisturbed(q)'
      BY DEF WatchInv
    <2>1. \A o \in Procs : job'[o].sid = job[o].sid /\ job'[o].dirty = job[o].dirty
      BY <1>2, <1>3
    <2>2. Watching(job[q])
      BY <1>5
    <2>3. CASE q = p
      BY <1>2, <1>3, <1>4, <1>5, <2>1, <2>2, <2>3 DEF WatchInv, Undisturbed
    <2>4. CASE q # p
      BY <1>3, <1>4, <1>5, <2>1, <2>2, <2>4 DEF WatchInv, Undisturbed
    <2> QED
      BY <2>3, <2>4
  <1>7. StoredParties'
    BY <1>4 DEF StoredParties
  <1>8. HandlerInv'
    BY <1>2, <1>3, <1>4 DEF HandlerInv, Sound
  <1>9. MappingHasSession'
    BY <1>4 DEF MappingHasSession
  <1>10. LiveMapped'
    BY <1>4 DEF LiveMapped, Exists
  <1> QED
    BY <1>6, <1>7, <1>8, <1>9, <1>10

(* EXEC of a transaction that nobody disturbed: both parties are still free. *)
LEMMA CreateExecFree ==
    ASSUME IInv, NEW p \in Procs, CreateExec(p)
    PROVE  /\ job[p] \in Job /\ job[p].sid \in Sessions
           /\ state[job[p].sid] = "unborn"
           /\ Parties(job[p].sid) \subseteq Users
           /\ \A u \in Parties(job[p].sid) : userCall[u] = None
           /\ \A q \in Procs \ {p} : Watching(job[q]) => job[q].sid # job[p].sid
  <1>1. Watching(job[p]) /\ job[p].pc = "exec" /\ ~job[p].dirty
    BY DEF CreateExec, At, Watching
  <1>2. job[p] \in Job /\ job[p].sid \in Sessions
    BY <1>1 DEF IInv, TypeOK, Watching, Idle, Job
  <1> QED
    BY <1>1, <1>2 DEF IInv, WatchInv, Undisturbed, Parties

LEMMA CreateExecSafe ==
    ASSUME IInv, TypeOK', NEW p \in Procs, CreateExec(p)
    PROVE  IInv'
  <1> USE DEF IInv
  <1> DEFINE s == job[p].sid
             j == [job[p] EXCEPT !.pc = "ring"]
             changed == {u \in Parties(s) : userCall[u] # s}
  <1>1. /\ job[p] \in Job /\ s \in Sessions
        /\ state[s] = "unborn"
        /\ Parties(s) \subseteq Users
        /\ \A u \in Parties(s) : userCall[u] = None
        /\ \A q \in Procs \ {p} : Watching(job[q]) => job[q].sid # s
    BY CreateExecFree
  <1>2. /\ UNCHANGED meta
        /\ state' = [state EXCEPT ![s] = "ringing"]
        /\ WriteUserCalls(Parties(s), s)
        /\ \A q \in Procs : job'[q] = IF q = p THEN j ELSE Touch(job[q], changed)
    BY DEF CreateExec, Watchers
  <1>3. j \in Job /\ ~Watching(j) /\ j.sid = s /\ j.op = "start" /\ j.pc = "ring"
    BY <1>1 DEF Job, Watching, Pcs, CreateExec, At
  <1> HIDE DEF j, s, changed
  <1>4. /\ state'[s] = "ringing"
        /\ \A r \in Sessions \ {s} : state'[r] = state[r]
    BY <1>1, <1>2 DEF TypeOK
  <1>5. \A u \in Users : userCall'[u] = IF u \in Parties(s) THEN s ELSE userCall[u]
    BY <1>2 DEF WriteUserCalls
  <1>6. \A r : Parties(r)' = Parties(r)
    BY <1>2 DEF Parties
  <1>7. WatchInv'
    <2>1. \A q \in Procs : \/ job'[q] = Touch(job[q], {u \in Parties(s) : userCall[u] # s})
                           \/ ~Watching(job'[q])
      BY <1>2, <1>3 DEF changed
    <2>2. ASSUME NEW q \in Procs, Watching(job[q]), Watching(job'[q])
          PROVE  state'[job[q].sid] = "unborn"
      <3>1. job[q].sid \in Sessions
        BY <2>2 DEF TypeOK, Job, Idle, Watching
      <3>2. q # p
        BY <1>2, <1>3, <2>2
      <3> QED
        BY <1>1, <1>4, <2>2, <3>1, <3>2 DEF WatchInv, Undisturbed
    <2> QED
      BY <1>2, <2>1, <2>2, WatchAfterWrite
  <1>8. StoredParties'
    BY <1>1, <1>4, <1>6 DEF StoredParties
  <1>9. HandlerInv'
    <2> SUFFICES ASSUME NEW q \in Procs
                 PROVE  Sound(job[q])'
      BY DEF HandlerInv
    <2>1. CASE q = p
      BY <1>2, <1>3, <1>4, <2>1 DEF Sound
    <2>2. CASE q # p /\ ~Watching(job[q])
      <3>1. job'[q] = job[q] /\ Sound(job[q]) /\ (job[q] # Idle => job[q].sid \in Sessions)
        <4>1. job[q] \in Job \cup {Idle}
          BY DEF TypeOK
        <4>2. job'[q] = job[q]
          BY <1>2, <2>2, <4>1, TouchKeeps
        <4> QED
          BY <4>1, <4>2 DEF HandlerInv, Job
      <3>2. job[q] # Idle => job[q].sid # s
        BY <1>1, <2>2, <3>1 DEF Sound
      <3> QED
        BY <1>4, <1>6, <3>1, <3>2 DEF Sound
    <2>3. CASE q # p /\ Watching(job[q])
      <3>1. Watching(job'[q])
        <4>1. job[q] \in Job \cup {Idle}
          BY DEF TypeOK
        <4> QED
          BY <1>2, <2>3, <4>1, TouchKeeps
      <3> QED
        BY <3>1 DEF Sound
    <2> QED
      BY <2>1, <2>2, <2>3
  <1>10. MappingHasSession'
    <2> SUFFICES ASSUME NEW u \in Users, userCall'[u] # None
                 PROVE  /\ u \in Parties(userCall'[u])
                        /\ state'[userCall'[u]] \in Live \cup {"expired"}
      BY <1>6 DEF MappingHasSession
    <2>1. CASE u \in Parties(s)
      BY <1>4, <1>5, <2>1 DEF Live
    <2>2. CASE u \notin Parties(s)
      <3>1. userCall'[u] = userCall[u] /\ userCall[u] \in Sessions /\ userCall[u] # s
        BY <1>5, <2>2 DEF TypeOK, MappingHasSession
      <3> QED
        BY <1>4, <3>1 DEF MappingHasSession
    <2> QED
      BY <2>1, <2>2
  <1>11. LiveMapped'
    <2> SUFFICES ASSUME NEW r \in Sessions, NEW u \in Parties(r), state'[r] \in Live
                 PROVE  \/ userCall'[u] = r
                        \/ \E s3 \in Sessions : state'[s3] \in Gone /\ u \in Parties(s3)
      BY <1>6 DEF LiveMapped, Exists
    <2>1. CASE r = s
      BY <1>1, <1>5, <2>1
    <2>2. CASE r # s
      <3>1. state[r] \in Live /\ u \in Users
        BY <1>4, <2>2 DEF StoredParties, Live
      <3>2. \A s3 \in Sessions : state[s3] \in Gone => state'[s3] \in Gone
        BY <1>1, <1>4 DEF Gone
      <3>3. CASE userCall[u] = r
        BY <1>1, <1>5, <3>1, <3>3
      <3>4. CASE \E s3 \in Sessions : state[s3] \in Gone /\ u \in Parties(s3)
        BY <3>2, <3>4
      <3> QED
        BY <3>1, <3>3, <3>4 DEF LiveMapped, Exists
    <2> QED
      BY <2>1, <2>2
  <1> QED
    BY <1>7, <1>8, <1>9, <1>10, <1>11

-----------------------------------------------------------------------------
(* The steps of handlers that watch nothing. *)

LEMMA ReturnSafe ==
    ASSUME IInv, TypeOK', NEW p \in Procs, Return(p), UNCHANGED <<meta, userCall>>,
           \A s \in Sessions : state'[s] = state[s] \/ (state[s] \in Live /\ state'[s] \in Live)
    PROVE  IInv'
  <1>1. job' = [job EXCEPT ![p] = Idle] /\ ~Watching(Idle) /\ Sound(Idle)
    BY DEF Return, Watching, Sound, Idle
  <1> QED
    BY <1>1, Quiet

LEMMA MoveSafe ==
    ASSUME IInv, TypeOK', NEW p \in Procs, job[p] \in Job, ~Watching(job[p]),
           NEW next \in {"ring", "ringing", "get", "cas", "read", "del", "tell"},
           NEW seen \in States,
           job' = [job EXCEPT ![p] = [job[p] EXCEPT !.pc = next, !.seen = seen]],
           UNCHANGED <<meta, userCall>>,
           \A s \in Sessions : state'[s] = state[s] \/ (state[s] \in Live /\ state'[s] \in Live)
    PROVE  IInv'
  <1> DEFINE j == [job[p] EXCEPT !.pc = next, !.seen = seen]
  <1>1. /\ j \in Job
        /\ j.pc = next /\ j.op = job[p].op /\ j.sid = job[p].sid /\ j.user = job[p].user
    BY DEF Job, Pcs
  <1>2. Sound(job[p]) /\ job[p] # Idle
    BY IdleIsNoJob DEF IInv, HandlerInv
  <1> HIDE DEF j
  <1>3. ~Watching(j) /\ Sound(j)
    BY <1>1, <1>2 DEF Watching, Sound
  <1>4. job' = [job EXCEPT ![p] = j]
    BY DEF j
  <1> QED
    BY <1>1, <1>3, <1>4, Quiet

LEMMA GotoSafe ==
    ASSUME IInv, TypeOK', NEW p \in Procs, job[p] \in Job, ~Watching(job[p]),
           NEW next \in {"ring", "ringing", "get", "cas", "read", "del", "tell"},
           Goto(p, next), UNCHANGED <<meta, userCall>>,
           \A s \in Sessions : state'[s] = state[s] \/ (state[s] \in Live /\ state'[s] \in Live)
    PROVE  IInv'
  <1>1. job[p].seen \in States
    BY DEF Job
  <1>2. job' = [job EXCEPT ![p] = [job[p] EXCEPT !.pc = next, !.seen = job[p].seen]]
    <2>1. [job[p] EXCEPT !.pc = next, !.seen = job[p].seen] = [job[p] EXCEPT !.pc = next]
      BY DEF Job
    <2> QED
      BY <2>1 DEF Goto
  <1> QED
    BY <1>1, <1>2, MoveSafe

(* A handler that finds its session gone goes on to clear the mapping it came from. *)
LEMMA ToClearSafe ==
    ASSUME IInv, TypeOK', NEW p \in Procs, job[p] \in Job, Goto(p, "clear"),
           job[p].op \in {"disconnect", "reconnect"}, ~Exists(job[p].sid),
           UNCHANGED <<state, meta, userCall>>
    PROVE  IInv'
  <1> DEFINE j == [job[p] EXCEPT !.pc = "clear"]
  <1>1. /\ j \in Job
        /\ j.pc = "clear" /\ j.op = job[p].op /\ j.sid = job[p].sid /\ j.user = job[p].user
    BY DEF Job, Pcs
  <1>2. Sound(job[p]) /\ job[p] # Idle /\ ~Watching(job[p])
    BY IdleIsNoJob DEF IInv, HandlerInv, Watching
  <1>3. state[job[p].sid] \in Gone
    BY <1>2 DEF Sound, Exists, IInv, TypeOK, Job, States, Absent, Gone
  <1>4. job' = [job EXCEPT ![p] = j]
    BY DEF Goto
  <1> HIDE DEF j
  <1>5. ~Watching(j) /\ Sound(j)
    BY <1>1, <1>2, <1>3 DEF Watching, Sound
  <1> QED
    BY <1>1, <1>4, <1>5, Quiet

LEMMA UpdateLive ==
    ASSUME TypeOK, NEW s \in Sessions, NEW old, NEW new \in Live, UpdateCallState(s, old, new)
    PROVE  \A r \in Sessions : state'[r] = state[r] \/ (state[r] \in Live /\ state'[r] \in Live)
  BY DEF UpdateCallState, TypeOK, Exists

LEMMA RequestSafe ==
    ASSUME IInv, TypeOK', NEW p \in Procs, Request(p)
    PROVE  IInv'
  <1>1. ASSUME NEW u \in Users, NEW v \in Users, NEW s \in Sessions, NEW online \in BOOLEAN,
               NEW device \in Devices, StartCall(p, u, v, s, online, device)
        PROVE  IInv'
    BY <1>1, StartCallSafe
  <1>2. ASSUME NEW op \in Ops \ {"start"}, NEW pc \in Pcs \ {"clear"}, NEW u \in Users, NEW s \in Sessions,
               NEW seen \in States, Begin(p, Handler(op, pc, u, s, seen)),
               UNCHANGED <<state, meta, userCall>>, state[s] # "unborn",
               op \in {"disconnect", "reconnect"} => u \in Parties(s)
        PROVE  IInv'
    <2> DEFINE j == Handler(op, pc, u, s, seen)
    <2>1. j \in Job /\ j.op = op /\ j.pc = pc /\ j.user = u /\ j.sid = s
      BY HandlerType DEF Handler, Idle
    <2>2. job' = [job EXCEPT ![p] = j]
      BY <1>2 DEF Begin
    <2> HIDE DEF j
    <2>3. ~Watching(j) /\ Sound(j)
      BY <1>2, <2>1 DEF Watching, Sound
    <2> QED
      BY <1>2, <2>1, <2>2, <2>3, Quiet
  <1>3. ASSUME NEW u \in Users, NEW s \in Sessions,
               AcceptCall(p, u, s) \/ RejectCall(p, u, s) \/ EndCall(p, u, s)
        PROVE  IInv'
    <2>1. state[s] \in States /\ state[s] # "unborn"
      BY <1>3 DEF AcceptCall, RejectCall, EndCall, Exists, Live, IInv, TypeOK
    <2>2. PICK op \in {"accept", "reject", "end"} : Begin(p, Handler(op, "cas", u, s, state[s]))
      BY <1>3 DEF AcceptCall, RejectCall, EndCall
    <2>3. UNCHANGED <<state, meta, userCall>>
      BY <1>3 DEF AcceptCall, RejectCall, EndCall
    <2> QED
      BY <1>2, <2>1, <2>2, <2>3 DEF Ops, Pcs
  <1>4. ASSUME NEW u \in Users, NEW s \in Sessions, ForwardWebRTC(p, u, s)
        PROVE  IInv'
    <2>1. /\ Begin(p, Handler("forward", "tell", u, s, "accepted"))
          /\ state[s] = "accepted" /\ UNCHANGED <<state, meta, userCall>>
      BY <1>4 DEF ForwardWebRTC
    <2> QED
      BY <1>2, <2>1 DEF Ops, Pcs, States, Live
  <1>5. ASSUME NEW u \in Users, HandleDisconnect(p, u) \/ HandleReconnect(p, u)
        PROVE  IInv'
    <2>1. userCall[u] # None /\ UNCHANGED <<state, meta, userCall>>
      BY <1>5 DEF HandleDisconnect, HandleReconnect, FindCall
    <2>2. PICK op \in {"disconnect", "reconnect"} : Begin(p, Handler(op, "get", u, userCall[u], "unborn"))
      BY <1>5 DEF HandleDisconnect, HandleReconnect, FindCall
    <2>3. userCall[u] \in Sessions /\ u \in Parties(userCall[u]) /\ state[userCall[u]] # "unborn"
      BY <2>1 DEF IInv, TypeOK, MappingHasSession, Live
    <2> QED
      BY <1>2, <2>1, <2>2, <2>3 DEF Ops, Pcs, States, Absent
  <1> QED
    BY <1>1, <1>3, <1>4, <1>5 DEF Request

LEMMA StartStepSafe ==
    ASSUME IInv, TypeOK', NEW p \in Procs,
           \/ CheckCaller(p) \/ CheckCallee(p) \/ CreateExec(p) \/ CreateAborted(p)
           \/ SendRing(p) \/ SendRinging(p)
    PROVE  IInv'
  <1>1. ASSUME NEW u, NEW pc, NEW next, CheckFree(p, pc, u, next),
               \/ pc = "caller" /\ next = "callee" /\ u = meta[job[p].sid].caller
               \/ pc = "callee" /\ next = "exec" /\ u = meta[job[p].sid].callee
        PROVE  IInv'
    <2>1. Watching(job[p]) /\ job[p].pc = pc
      BY <1>1 DEF CheckFree, At, Watching
    <2>2. CASE userCall[u] # None
      BY <1>1, <2>1, <2>2, CreateFailsSafe DEF CheckFree
    <2>3. CASE userCall[u] = None
      <3>1. Goto(p, next) /\ UNCHANGED <<state, meta, userCall>>
        BY <1>1, <2>3 DEF CheckFree
      <3> QED
        BY <1>1, <2>1, <2>3, <3>1, CheckFreeSafe
    <2> QED
      BY <2>2, <2>3
  <1>2. CASE CreateExec(p)
    BY <1>2, CreateExecSafe
  <1>3. CASE CreateAborted(p)
    BY <1>3, CreateFailsSafe DEF CreateAborted, At, Watching
  <1>4. CASE SendRing(p)
    <2>1. job[p] \in Job /\ ~Watching(job[p])
      BY <1>4, AtJob DEF SendRing, At, Pcs, Watching, IInv
    <2> QED
      BY <1>4, <2>1, GotoSafe DEF SendRing
  <1>5. CASE SendRinging(p)
    BY <1>5, ReturnSafe DEF SendRinging
  <1> QED
    BY <1>1, <1>2, <1>3, <1>4, <1>5 DEF CheckCaller, CheckCallee

LEMMA AnswerStepSafe ==
    ASSUME IInv, TypeOK', NEW p \in Procs,
           AcceptCas(p) \/ AcceptTell(p) \/ RejectCas(p) \/ RejectTell(p)
    PROVE  IInv'
  <1>1. job[p] \in Job /\ job[p].sid \in Sessions /\ ~Watching(job[p])
    BY AtJob DEF AcceptCas, AcceptTell, RejectCas, RejectTell, At, Pcs, Watching, IInv
  <1>2. CASE AcceptCas(p) \/ RejectCas(p)
    <2>1. PICK new \in {"accepted", "rejected"} : UpdateCallState(job[p].sid, "ringing", new)
      BY <1>2 DEF AcceptCas, RejectCas
    <2>2. \A r \in Sessions : state'[r] = state[r] \/ (state[r] \in Live /\ state'[r] \in Live)
      BY <1>1, <2>1, UpdateLive DEF IInv, Live
    <2>3. UNCHANGED <<meta, userCall>> /\ (Goto(p, "tell") \/ Return(p))
      BY <1>2 DEF AcceptCas, RejectCas
    <2> QED
      BY <1>1, <2>2, <2>3, GotoSafe, ReturnSafe
  <1>3. CASE AcceptTell(p)
    BY <1>3, ReturnSafe DEF AcceptTell
  <1>4. CASE RejectTell(p)
    BY <1>1, <1>4, GotoSafe DEF RejectTell
  <1> QED
    BY <1>2, <1>3, <1>4

LEMMA EndStepSafe ==
    ASSUME IInv, TypeOK', NEW p \in Procs,
           \/ EndCas(p) \/ EndTell(p) \/ DeleteRead(p) \/ DisconnectGet(p) \/ DisconnectCas(p)
           \/ DisconnectTell(p)
    PROVE  IInv'
  <1>1. job[p] \in Job /\ job[p].sid \in Sessions
    BY AtJob DEF EndCas, EndTell, DeleteRead, DisconnectGet, DisconnectCas, DisconnectTell, MarkEnded,
                 At, Pcs, IInv
  <1>2. ~Watching(job[p])
    BY DEF EndCas, EndTell, DeleteRead, DisconnectGet, DisconnectCas, DisconnectTell, MarkEnded, At,
           Watching
  <1>3. CASE EndCas(p) \/ DisconnectCas(p)
    <2>1. PICK op \in {"end", "disconnect"}, next \in {"tell", "read"} : MarkEnded(p, op, next)
      BY <1>3 DEF EndCas, DisconnectCas
    <2>2. \A r \in Sessions : state'[r] = state[r] \/ (state[r] \in Live /\ state'[r] \in Live)
      BY <1>1, <2>1, UpdateLive DEF MarkEnded, IInv, Live
    <2> QED
      BY <1>1, <1>2, <2>1, <2>2, GotoSafe DEF MarkEnded
  <1>4. CASE EndTell(p)
    BY <1>1, <1>2, <1>4, GotoSafe DEF EndTell
  <1>5. CASE DisconnectTell(p)
    BY <1>5, ReturnSafe DEF DisconnectTell
  <1>6. CASE DeleteRead(p)
    <2>1. UNCHANGED <<state, meta, userCall>>
      BY <1>6 DEF DeleteRead
    <2>2. Goto(p, "del") \/ Goto(p, "tell") \/ Return(p)
      BY <1>6 DEF DeleteRead, AfterDelete, Goto, Return
    <2> QED
      BY <1>1, <1>2, <2>1, <2>2, GotoSafe, ReturnSafe
  <1>7. CASE DisconnectGet(p)
    <2>1. UNCHANGED <<state, meta, userCall>> /\ job[p].op = "disconnect"
      BY <1>7 DEF DisconnectGet, At
    <2>2. CASE Exists(job[p].sid)
      <3>1. job' = [job EXCEPT ![p] = [job[p] EXCEPT !.pc = "cas", !.seen = state[job[p].sid]]]
        BY <1>7, <2>2 DEF DisconnectGet, IInv, TypeOK
      <3>2. state[job[p].sid] \in States
        BY <1>1 DEF IInv, TypeOK
      <3> QED
        BY <1>1, <1>2, <2>1, <3>1, <3>2, MoveSafe
    <2>3. CASE ~Exists(job[p].sid)
      BY <1>1, <1>7, <2>1, <2>3, ToClearSafe DEF DisconnectGet
    <2> QED
      BY <2>2, <2>3
  <1> QED
    BY <1>3, <1>4, <1>5, <1>6, <1>7

LEMMA ReconnectStepSafe ==
    ASSUME IInv, TypeOK', NEW p \in Procs, ReconnectGet(p) \/ ReconnectTell(p) \/ ForwardTell(p)
    PROVE  IInv'
  <1>1. job[p] \in Job /\ job[p].sid \in Sessions /\ ~Watching(job[p])
    BY AtJob DEF ReconnectGet, ReconnectTell, ForwardTell, At, Pcs, Watching, IInv
  <1>2. CASE ReconnectGet(p)
    <2>1. UNCHANGED <<state, meta, userCall>> /\ job[p].op = "reconnect"
      BY <1>2 DEF ReconnectGet, At
    <2>2. CASE state[job[p].sid] = "ringing"
      <3>1. job' = [job EXCEPT ![p] = [job[p] EXCEPT !.pc = "tell", !.seen = "ringing"]]
        BY <1>2, <2>2 DEF ReconnectGet, IInv, TypeOK, Exists, Live
      <3> QED
        BY <1>1, <2>1, <3>1, MoveSafe DEF States, Live
    <2>3. CASE state[job[p].sid] # "ringing" /\ ~Exists(job[p].sid)
      <3>1. Goto(p, "clear") \/ Return(p)
        BY <1>2, <2>3 DEF ReconnectGet
      <3> QED
        BY <1>1, <2>1, <2>3, <3>1, ToClearSafe, ReturnSafe
    <2>4. CASE state[job[p].sid] # "ringing" /\ Exists(job[p].sid)
      BY <1>2, <2>1, <2>4, ReturnSafe DEF ReconnectGet
    <2> QED
      BY <2>2, <2>3, <2>4
  <1>3. CASE ReconnectTell(p)
    BY <1>3, ReturnSafe DEF ReconnectTell
  <1>4. CASE ForwardTell(p)
    BY <1>4, ReturnSafe DEF ForwardTell
  <1> QED
    BY <1>2, <1>3, <1>4

(* The three ways a mapping disappears. *)
LEMMA DeleteDelSafe ==
    ASSUME IInv, TypeOK', NEW p \in Procs, DeleteDel(p)
    PROVE  IInv'
  <1> DEFINE s == job[p].sid
             j == IF job[p].op = "disconnect" THEN [job[p] EXCEPT !.pc = "tell"] ELSE Idle
             U == Parties(s)
  <1>1. job[p] \in Job /\ job[p] # Idle /\ s \in Sessions /\ ~Watching(job[p])
    BY AtJob DEF DeleteDel, Pcs, Watching, IInv
  <1>2. Sound(job[p]) /\ state[s] # "unborn"
    BY <1>1 DEF IInv, HandlerInv, Sound
  <1>3. ~Watching(j) /\ Sound(j)
    <2>1. CASE job[p].op = "disconnect"
      <3>1. j.op = "disconnect" /\ j.pc = "tell" /\ j.sid = s /\ j.user = job[p].user
        BY <1>1, <2>1 DEF Job
      <3> QED
        BY <1>1, <1>2, <2>1, <3>1 DEF Sound, Watching
    <2>2. CASE job[p].op # "disconnect"
      BY <2>2 DEF Sound, Watching, Idle
    <2> QED
      BY <2>1, <2>2
  <1>4. \A q \in Procs : job'[q] = IF q = p THEN j ELSE Watchers(U, None)[q]
    BY DEF DeleteDel, AfterDelete, Watchers
  <1>5. /\ UNCHANGED meta /\ WriteUserCalls(U, None) /\ U \subseteq Parties(s)
        /\ state' = IF Exists(s) THEN [state EXCEPT ![s] = "deleted"] ELSE state
    BY DEF DeleteDel
  <1>6. /\ \/ Exists(s) /\ U = Parties(s) /\ state'[s] = "deleted"
           \/ ~Exists(s) /\ state'[s] = state[s]
        /\ \A r \in Sessions \ {s} : state'[r] = state[r]
    BY <1>1, <1>5 DEF IInv, TypeOK
  <1> HIDE DEF s, j, U
  <1> QED
    BY <1>1, <1>2, <1>3, <1>4, <1>5, <1>6, FreeSafe

LEMMA ClearUserCallSafe ==
    ASSUME IInv, TypeOK', NEW p \in Procs, ClearUserCall(p)
    PROVE  IInv'
  <1> DEFINE s == job[p].sid
             U == {job[p].user}
  <1>1. job[p] \in Job /\ job[p] # Idle /\ s \in Sessions
    BY AtJob DEF ClearUserCall, Pcs, IInv
  <1>2. ~Watching(job[p])
    BY DEF ClearUserCall, Watching
  <1>3. state[s] \in Gone /\ U \subseteq Parties(s)
    BY <1>1, <1>2 DEF ClearUserCall, IInv, HandlerInv, Sound
  <1>4. ~Watching(Idle) /\ Sound(Idle)
    BY DEF Watching, Sound, Idle
  <1>5. \A q \in Procs : job'[q] = IF q = p THEN Idle ELSE Watchers(U, None)[q]
    BY DEF ClearUserCall, Watchers
  <1>6. UNCHANGED <<state, meta>> /\ WriteUserCalls(U, None) /\ state[s] # "unborn" /\ ~Exists(s)
    BY <1>3 DEF ClearUserCall, Gone, Exists, Live
  <1> HIDE DEF s, U
  <1> QED
    BY <1>1, <1>3, <1>4, <1>5, <1>6, FreeSafe

LEMMA ExpireMappingSafe ==
    ASSUME IInv, TypeOK', NEW u \in Users, ExpireMapping(u)
    PROVE  IInv'
  <1> DEFINE U == {u}
  <1>1. PICK s \in Sessions : s = userCall[u] /\ ~Exists(s)
    BY DEF ExpireMapping, IInv, TypeOK
  <1>2. U \subseteq Parties(s) /\ state[s] # "unborn"
    BY <1>1 DEF IInv, MappingHasSession, Live
  <1>3. \A q \in Procs : job'[q] = Watchers(U, None)[q]
    BY DEF ExpireMapping
  <1>4. UNCHANGED <<state, meta>> /\ WriteUserCalls(U, None)
    BY DEF ExpireMapping
  <1> HIDE DEF U
  <1> QED
    BY <1>1, <1>2, <1>3, <1>4, FreeSafe

LEMMA AbortSafe ==
    ASSUME IInv, TypeOK', NEW p \in Procs, Abort(p)
    PROVE  IInv'
  <1>1. CASE Watching(job[p])
    BY <1>1, CreateFailsSafe DEF Abort
  <1>2. CASE ~Watching(job[p])
    BY <1>2, ReturnSafe DEF Abort
  <1> QED
    BY <1>1, <1>2

-----------------------------------------------------------------------------
LEMMA InitSafe == Init => IInv
  <1> SUFFICES ASSUME Init
               PROVE  IInv
    OBVIOUS
  <1>1. \A p \in Procs : job[p] = Idle /\ ~Watching(job[p])
    BY DEF Init, Watching, Idle
  <1>2. TypeOK
    BY InitType
  <1>3. WatchInv /\ HandlerInv
    BY <1>1 DEF WatchInv, Undisturbed, HandlerInv, Sound
  <1>4. StoredParties /\ MappingHasSession /\ LiveMapped
    BY DEF Init, StoredParties, MappingHasSession, LiveMapped, Exists, Live
  <1> QED
    BY <1>2, <1>3, <1>4 DEF IInv

LEMMA NextSafe == IInv /\ [Next]_vars => IInv'
  <1> SUFFICES ASSUME IInv, [Next]_vars
               PROVE  IInv'
    OBVIOUS
  <1>1. TypeOK'
    BY NextType DEF IInv
  <1>2. ASSUME NEW p \in Procs, Request(p) \/ Step(p) \/ Abort(p)
        PROVE  IInv'
    <2>1. CASE Request(p)
      BY <1>1, <2>1, RequestSafe
    <2>2. CASE Step(p)
      BY <1>1, <2>2, StartStepSafe, AnswerStepSafe, EndStepSafe, ReconnectStepSafe, DeleteDelSafe,
         ClearUserCallSafe DEF Step
    <2>3. CASE Abort(p)
      BY <1>1, <2>3, AbortSafe
    <2> QED
      BY <1>2, <2>1, <2>2, <2>3
  <1>3. ASSUME NEW s \in Sessions, ExpireSession(s)
        PROVE  IInv'
    BY <1>1, <1>3, ExpireSessionSafe
  <1>4. ASSUME NEW u \in Users, ExpireMapping(u)
        PROVE  IInv'
    BY <1>1, <1>4, ExpireMappingSafe
  <1>5. CASE UNCHANGED vars
    <2> USE <1>5 DEF vars
    <2>1. WatchInv'
      BY DEF IInv, WatchInv, Undisturbed, Parties
    <2>2. HandlerInv'
      BY DEF IInv, HandlerInv, Sound, Parties
    <2>3. StoredParties' /\ MappingHasSession' /\ LiveMapped'
      BY DEF IInv, StoredParties, MappingHasSession, LiveMapped, Parties, Exists
    <2> QED
      BY <1>1, <2>1, <2>2, <2>3 DEF IInv
  <1> QED
    BY <1>2, <1>3, <1>4, <1>5 DEF Next

(* The inductive invariant holds in every state of every behaviour. *)
THEOREM Invariance == Spec => []IInv
  BY InitSafe, NextSafe, PTL DEF Spec

(* Two live calls never share a user, unless that user also was a party of a call that is gone. *)
THEOREM ExclusiveAlways == Spec => []Exclusive
  <1>1. IInv => Exclusive
    BY DEF IInv, LiveMapped, Exclusive
  <1> QED
    BY <1>1, Invariance, PTL

(* Every mapping names a session that is stored, or that expired before it, and of which the user is
   a party: deleting a session leaves no mapping to it behind. *)
THEOREM MappingAlways == Spec => []MappingHasSession
  <1>1. IInv => MappingHasSession
    BY DEF IInv
  <1> QED
    BY <1>1, Invariance, PTL
=============================================================================
