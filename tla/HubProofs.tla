------------------------------- MODULE HubProofs -------------------------------
(***************************************************************************)
(* What holds of the connections of a user for any number of connections   *)
(* and servers, with or without overlapping handshakes and prompt kicks.   *)
(***************************************************************************)
EXTENDS Hub, TLAPS

(* A connection that has a goroutine, and a loop that is unregistering one. *)
Connection == [server : Servers, pc : Progress \ {"none"}, open : BOOLEAN]
Unregistering == [conn : Conns, pc : {"unsubscribe", "release", "disconnect"}]

(* The loop unregisters a client of its own server that is in no map, and nothing is subscribed on
   its behalf once it has unsubscribed: the loop is the only one that fills the map. *)
LoopInv ==
    \A s \in Servers : ~LoopAt(s, "wait") =>
        /\ On(loop[s].conn, "unregister")
        /\ conn[loop[s].conn].server = s
        /\ clients[s] = None
        /\ ~LoopAt(s, "unsubscribe") => s \notin subscribed

(* No command fails, be it because the client left. *)
Undisturbed == ~MayAbandon /\ ~MayFail

(* Inductive: the two fault-free properties rest on LoopInv, which is why they survive the end of an
   unregistration. *)
HubInv ==
    /\ TypeOK
    /\ NoUntrackedConnection
    /\ LoopInv
    /\ ~MayFail => SubscribedWithClient
    /\ Undisturbed => SlotBacked

-----------------------------------------------------------------------------
(* What one step makes of the connections. *)

(* A record is closed, and so is the client d in conn; no other field, no other client changes. *)
LEMMA ClosedRecord ==
    ASSUME NEW r \in Connection \cup {NoConn}
    PROVE  /\ [r EXCEPT !.open = FALSE] \in Connection \cup {NoConn}
           /\ [r EXCEPT !.open = FALSE].server = r.server
           /\ [r EXCEPT !.open = FALSE].pc = r.pc
           /\ ~[r EXCEPT !.open = FALSE].open
  <1>1. CASE r \in Connection
    BY <1>1 DEF Connection
  <1>2. CASE r = NoConn
    <2> DEFINE Wide == [server : Servers \cup {None}, pc : Progress, open : BOOLEAN]
    <2>1. r \in Wide
      BY <1>2 DEF NoConn, Progress
    <2>2. /\ [r EXCEPT !.open = FALSE] \in Wide
          /\ [r EXCEPT !.open = FALSE].server = None
          /\ [r EXCEPT !.open = FALSE].pc = "none"
          /\ [r EXCEPT !.open = FALSE].open = FALSE
      BY <1>2, <2>1 DEF NoConn
    <2>3. ASSUME NEW w \in Wide, w.server = None, w.pc = "none", w.open = FALSE
          PROVE  w = NoConn
      BY <2>3 DEF NoConn
    <2> QED
      <3> DEFINE cut == [r EXCEPT !.open = FALSE]
      <3>1. cut = NoConn
        <4> HIDE DEF cut, Wide
        <4> QED
          BY <2>2, <2>3 DEF cut
      <3> HIDE DEF cut
      <3> QED
        BY <1>2, <3>1 DEF NoConn, cut
  <1> QED
    BY <1>1, <1>2

LEMMA ClosedValue ==
    ASSUME TypeOK, NEW d \in Conns \cup {None}
    PROVE  /\ Closed(d) \in [Conns -> Connection \cup {NoConn}]
           /\ \A c \in Conns :
                /\ Closed(d)[c].server = conn[c].server
                /\ Closed(d)[c].pc = conn[c].pc
                /\ Closed(d)[c].open => conn[c].open /\ c # d
                /\ c # d => Closed(d)[c] = conn[c]
  <1>1. conn \in [Conns -> Connection \cup {NoConn}]
    BY DEF TypeOK, Connection
  <1>2. CASE d = None
    BY <1>1, <1>2, HubNoneAssumption DEF Closed
  <1>3. CASE d \in Conns
    <2> DEFINE r == conn[d]
               cut == [r EXCEPT !.open = FALSE]
    <2>1. r \in Connection \cup {NoConn}
      BY <1>1, <1>3
    <2>2. Closed(d) = [conn EXCEPT ![d] = cut]
      BY <1>3, HubNoneAssumption DEF Closed
    <2>3. /\ cut \in Connection \cup {NoConn}
          /\ cut.server = r.server /\ cut.pc = r.pc /\ ~cut.open
      BY <2>1, ClosedRecord
    <2>4. Closed(d) \in [Conns -> Connection \cup {NoConn}]
      <3> HIDE DEF cut, r
      <3> QED
        BY <1>1, <1>3, <2>2, <2>3
    <2>5. Closed(d)[d] = cut /\ \A c \in Conns \ {d} : Closed(d)[c] = conn[c]
      <3> HIDE DEF cut, r
      <3> QED
        BY <1>1, <1>3, <2>2
    <2> HIDE DEF cut
    <2> QED
      BY <1>3, <2>3, <2>4, <2>5
  <1> QED
    BY <1>2, <1>3

LEMMA Fields ==
    ASSUME NEW r \in Connection \cup {NoConn}, r.pc # "none"
    PROVE  r \in Connection /\ r.server \in Servers /\ r.pc \in Progress /\ r.open \in BOOLEAN
  BY DEF Connection, NoConn, Progress

(* g is f but for c, which moves to progress pc. *)
Moves(g, f, c, pc) == g = [f EXCEPT ![c].pc = pc]

LEMMA MoveValue ==
    ASSUME NEW f \in [Conns -> Connection \cup {NoConn}], NEW c \in Conns, f[c].pc # "none",
           NEW pc \in Progress \ {"none"}, NEW g, Moves(g, f, c, pc)
    PROVE  /\ g \in [Conns -> Connection \cup {NoConn}]
           /\ g[c].pc = pc /\ g[c].server = f[c].server /\ (g[c].open <=> f[c].open)
           /\ \A e \in Conns \ {c} : g[e] = f[e]
  <1> DEFINE r == f[c]
             moved == [r EXCEPT !.pc = pc]
  <1>1. r \in Connection
    BY DEF NoConn
  <1>2. /\ moved \in Connection /\ moved.pc = pc /\ moved.server = r.server
        /\ moved.open <=> r.open
    BY <1>1 DEF Connection
  <1>3. g = [f EXCEPT ![c] = moved]
    BY DEF Moves
  <1> HIDE DEF moved
  <1>4. g \in [Conns -> Connection \cup {NoConn}] /\ g[c] = moved /\ \A e \in Conns \ {c} : g[e] = f[e]
    BY <1>2, <1>3
  <1> QED
    BY <1>2, <1>4

(* A move of c, after d, if any, was closed. *)
LEMMA MoveToValue ==
    ASSUME TypeOK, NEW c \in Conns, NEW d \in Conns \cup {None}, conn[c].pc # "none",
           NEW pc \in Progress \ {"none"}, NEW g, Moves(g, Closed(d), c, pc)
    PROVE  /\ g \in [Conns -> Connection \cup {NoConn}]
           /\ g[c].pc = pc
           /\ \A e \in Conns : g[e].server = conn[e].server
           /\ \A e \in Conns : g[e].open => conn[e].open /\ e # d
           /\ \A e \in Conns \ {c} : g[e].pc = conn[e].pc
  <1> DEFINE f == Closed(d)
  <1>1. f \in [Conns -> Connection \cup {NoConn}]
    BY ClosedValue
  <1>2. \A e \in Conns : f[e].server = conn[e].server /\ f[e].pc = conn[e].pc
    BY ClosedValue
  <1>3. ASSUME NEW e \in Conns, f[e].open
        PROVE  conn[e].open /\ e # d
    BY <1>3, ClosedValue
  <1>4. Moves(g, f, c, pc)
    OBVIOUS
  <1> HIDE DEF f
  <1>5. f[c].pc # "none"
    BY <1>2
  <1>6. /\ g \in [Conns -> Connection \cup {NoConn}]
        /\ g[c].pc = pc /\ g[c].server = f[c].server /\ (g[c].open <=> f[c].open)
        /\ \A e \in Conns \ {c} : g[e] = f[e]
    BY <1>1, <1>4, <1>5, MoveValue
  <1>7. ASSUME NEW e \in Conns, g[e].open
        PROVE  conn[e].open /\ e # d
    <2>1. f[e].open
      BY <1>6, <1>7, Zenon
    <2> QED
      BY <1>3, <2>1, Zenon
  <1> QED
    BY <1>2, <1>6, <1>7, Zenon

LEMMA OverValue ==
    ASSUME TypeOK, NEW c \in Conns, Over(c)
    PROVE  /\ conn' \in [Conns -> Connection \cup {NoConn}]
           /\ conn'[c] = NoConn
           /\ \A e \in Conns \ {c} : conn'[e] = conn[e]
  BY DEF TypeOK, Connection, Over

-----------------------------------------------------------------------------
(* A step that leaves the maps, the subscriptions and the loops alone, registers nobody, takes no
   client from a loop, and leaves a reason for the slot. *)
Handshakes(c) == conn[c].pc \in {"upgrade", "register"}

LEMMA Quiet ==
    ASSUME HubInv, UNCHANGED <<clients, subscribed, loop>>,
           slot' \in Servers \cup {None},
           conn' \in [Conns -> Connection \cup {NoConn}],
           pending' \in [Servers -> 0..MaxPending],
           newest' \in Conns \cup {None},
           \A c \in Conns : Beating(c)' => Beating(c) /\ conn'[c].server = conn[c].server,
           \A c \in Conns : On(c, "unregister") => On(c, "unregister")' /\ conn'[c].server = conn[c].server,
           Undisturbed => \A s \in Servers : slot' = s =>
              \/ /\ slot = s
                 /\ \A c \in Conns : Handshakes(c) /\ conn[c].server = s
                                      => Handshakes(c)' /\ conn'[c].server = s
              \/ \E c \in Conns : Handshakes(c)' /\ conn'[c].server = s
    PROVE  HubInv'
  <1> USE DEF HubInv
  <1>1. TypeOK'
    BY DEF TypeOK, Connection
  <1>2. NoUntrackedConnection'
    BY DEF NoUntrackedConnection
  <1>3. LoopInv'
    <2> SUFFICES ASSUME NEW s \in Servers, ~LoopAt(s, "wait")
                 PROVE  /\ On(loop[s].conn, "unregister")'
                        /\ conn'[loop[s].conn].server = s
      BY DEF LoopInv, LoopAt, On
    <2>1. loop[s].conn \in Conns
      BY DEF TypeOK, LoopAt, Waiting
    <2> QED
      BY <2>1 DEF LoopInv
  <1>4. ~MayFail => SubscribedWithClient'
    BY DEF SubscribedWithClient, LoopAt
  <1>5. Undisturbed => SlotBacked'
    BY DEF SlotBacked, Handshakes
  <1>6. (~MayFail)' = ~MayFail /\ Undisturbed' = Undisturbed
    BY DEF Undisturbed
  <1> QED
    BY <1>1, <1>2, <1>3, <1>4, <1>5, <1>6

LEMMA QuietMove ==
    ASSUME HubInv, NEW c \in Conns, NEW d \in Conns \cup {None},
           conn[c].pc \in Handshake \cup {"running"},
           NEW pc \in Handshake \cup {"register", "leaving"},
           Moves(conn', Closed(d), c, pc),
           UNCHANGED <<clients, subscribed, loop, newest>>,
           pending' \in [Servers -> 0..MaxPending],
           \/ slot' = slot /\ (Handshakes(c) => pc \in {"upgrade", "register"})
           \/ slot' = conn[c].server /\ pc = "upgrade"
    PROVE  HubInv'
  <1>1. TypeOK
    BY DEF HubInv
  <1>2. conn[c].pc # "none" /\ conn[c].pc # "unregister" /\ pc \in Progress \ {"none"} /\ pc # "running"
    BY DEF Handshake, Progress
  <1>3. /\ conn' \in [Conns -> Connection \cup {NoConn}]
        /\ conn'[c].pc = pc
        /\ \A e \in Conns : conn'[e].server = conn[e].server
        /\ \A e \in Conns : conn'[e].open => conn[e].open /\ e # d
        /\ \A e \in Conns \ {c} : conn'[e].pc = conn[e].pc
    BY <1>1, <1>2, MoveToValue
  <1>4. slot' \in Servers \cup {None} /\ newest' \in Conns \cup {None}
    BY <1>1 DEF TypeOK, NoConn
  <1>5. ASSUME NEW e \in Conns, Beating(e)'
        PROVE  Beating(e) /\ conn'[e].server = conn[e].server
    <2>1. e # c
      BY <1>2, <1>3, <1>5 DEF Beating, On
    <2> QED
      BY <1>3, <1>5, <2>1 DEF Beating, On
  <1>6. ASSUME NEW e \in Conns, On(e, "unregister")
        PROVE  On(e, "unregister")' /\ conn'[e].server = conn[e].server
    BY <1>2, <1>3, <1>6 DEF On
  <1>7. ASSUME NEW s \in Servers, slot' = s
        PROVE  \/ /\ slot = s
                  /\ \A e \in Conns : Handshakes(e) /\ conn[e].server = s
                                       => Handshakes(e)' /\ conn'[e].server = s
               \/ \E e \in Conns : Handshakes(e)' /\ conn'[e].server = s
    BY <1>3, <1>7 DEF Handshakes
  <1> QED
    BY <1>3, <1>4, <1>5, <1>6, <1>7, Quiet

LEMMA QuietOver ==
    ASSUME HubInv, NEW c \in Conns, conn[c].pc \in Handshake \cup {"leaving"}, Over(c),
           UNCHANGED <<clients, subscribed, pending, loop, newest>>,
           slot' = slot \/ slot' = None,
           \/ ~Undisturbed
           \/ ~Handshakes(c)
           \/ slot' # conn[c].server
    PROVE  HubInv'
  <1>1. TypeOK
    BY DEF HubInv
  <1>2. conn[c].pc # "unregister"
    BY DEF Handshake
  <1>3. /\ conn' \in [Conns -> Connection \cup {NoConn}]
        /\ conn'[c] = NoConn
        /\ \A e \in Conns \ {c} : conn'[e] = conn[e]
    BY <1>1, OverValue
  <1>4. /\ slot' \in Servers \cup {None} /\ newest' \in Conns \cup {None}
        /\ pending' \in [Servers -> 0..MaxPending]
    BY <1>1 DEF TypeOK
  <1>5. ASSUME NEW e \in Conns, Beating(e)'
        PROVE  Beating(e) /\ conn'[e].server = conn[e].server
    <2>1. e # c
      BY <1>3, <1>5 DEF Beating, On, NoConn
    <2> QED
      BY <1>3, <1>5, <2>1 DEF Beating, On
  <1>6. ASSUME NEW e \in Conns, On(e, "unregister")
        PROVE  On(e, "unregister")' /\ conn'[e].server = conn[e].server
    BY <1>2, <1>3, <1>6 DEF On
  <1>7. ASSUME Undisturbed, NEW s \in Servers, slot' = s
        PROVE  /\ slot = s
               /\ \A e \in Conns : Handshakes(e) /\ conn[e].server = s
                                    => Handshakes(e)' /\ conn'[e].server = s
    BY <1>3, <1>7, HubNoneAssumption DEF Handshakes
  <1> QED
    BY <1>3, <1>4, <1>5, <1>6, <1>7, Quiet

-----------------------------------------------------------------------------
(* The steps of a handshake. *)

LEMMA ConnectSafe ==
    ASSUME HubInv, NEW c \in Conns, NEW s \in Servers, Connect(c, s)
    PROVE  HubInv'
  <1> DEFINE first == [server |-> s, open |-> TRUE, pc |-> IF slot = None THEN "upgrade" ELSE "lookup"]
  <1>1. TypeOK /\ conn[c].pc = "none"
    BY DEF HubInv, Connect, On
  <1>2. /\ first \in Connection /\ first.server = s
        /\ first.pc = IF slot = None THEN "upgrade" ELSE "lookup"
    BY DEF Connection, Progress, Handshake
  <1>3. /\ conn' = [conn EXCEPT ![c] = first]
        /\ slot' = IF slot = None THEN s ELSE slot
        /\ newest' = c
        /\ UNCHANGED <<clients, subscribed, pending, loop>>
    BY DEF Connect
  <1> HIDE DEF first
  <1>4. /\ conn' \in [Conns -> Connection \cup {NoConn}]
        /\ conn'[c] = first
        /\ \A e \in Conns \ {c} : conn'[e] = conn[e]
    BY <1>1, <1>2, <1>3 DEF TypeOK, Connection
  <1>5. /\ slot' \in Servers \cup {None} /\ newest' \in Conns \cup {None}
        /\ pending' \in [Servers -> 0..MaxPending]
    BY <1>1, <1>3 DEF TypeOK
  <1>6. ASSUME NEW e \in Conns, Beating(e)'
        PROVE  Beating(e) /\ conn'[e].server = conn[e].server
    <2>1. e # c
      BY <1>2, <1>4, <1>6 DEF Beating, On
    <2> QED
      BY <1>4, <1>6, <2>1 DEF Beating, On
  <1>7. ASSUME NEW e \in Conns, On(e, "unregister")
        PROVE  On(e, "unregister")' /\ conn'[e].server = conn[e].server
    BY <1>1, <1>4, <1>7 DEF On
  <1>8. ASSUME NEW r \in Servers, slot' = r
        PROVE  \/ /\ slot = r
                  /\ \A e \in Conns : Handshakes(e) /\ conn[e].server = r
                                       => Handshakes(e)' /\ conn'[e].server = r
               \/ \E e \in Conns : Handshakes(e)' /\ conn'[e].server = r
    BY <1>1, <1>2, <1>3, <1>4, <1>8, HubNoneAssumption DEF Handshakes
  <1> QED
    BY <1>3, <1>4, <1>5, <1>6, <1>7, <1>8, Quiet

LEMMA RequestSafe ==
    ASSUME HubInv, NEW c \in Conns, Request(c)
    PROVE  HubInv'
  <1>0. TypeOK /\ None \in Conns \cup {None}
    BY DEF HubInv
  <1>1. CASE KickLookup(c)
    <2>1. PICK pc \in {"take", "local", "remote"} : MoveTo(c, pc)
      BY <1>1 DEF KickLookup
    <2>2. Moves(conn', Closed(None), c, pc)
      BY <2>1 DEF MoveTo, Moves, Closed
    <2> QED
      BY <1>0, <1>1, <2>2, QuietMove DEF KickLookup, On, Handshake, Handshakes, TypeOK
  <1>2. CASE KickLocal(c)
    <2> DEFINE d == clients[conn[c].server]
    <2>1. conn[c].server \in Servers
      BY <1>0, <1>2, Fields DEF KickLocal, On, TypeOK, Connection
    <2>2. d \in Conns \cup {None}
      BY <1>0, <2>1 DEF TypeOK
    <2>3. Moves(conn', Closed(d), c, "force")
      BY <1>2 DEF KickLocal, Moves
    <2> HIDE DEF d
    <2> QED
      BY <1>0, <1>2, <2>2, <2>3, QuietMove DEF KickLocal, On, Handshake, Handshakes, TypeOK
  <1>3. CASE KickRemote(c)
    <2>1. Moves(conn', Closed(None), c, "force")
      BY <1>3 DEF KickRemote, MoveTo, Moves, Closed
    <2>2. pending' \in [Servers -> 0..MaxPending]
      BY <1>0, <1>3, HubBoundAssumption DEF KickRemote, TypeOK
    <2> QED
      BY <1>0, <1>3, <2>1, <2>2, QuietMove DEF KickRemote, On, Handshake, Handshakes
  <1>4. CASE ForceAcquire(c)
    <2>1. Moves(conn', Closed(None), c, "upgrade")
      BY <1>4 DEF ForceAcquire, MoveTo, Moves, Closed
    <2> QED
      BY <1>0, <1>4, <2>1, QuietMove DEF ForceAcquire, On, Handshake, TypeOK
  <1>5. CASE Upgrade(c)
    <2>1. Moves(conn', Closed(None), c, "register")
      BY <1>5 DEF Upgrade, MoveTo, Moves, Closed
    <2> QED
      BY <1>0, <1>5, <2>1, QuietMove DEF Upgrade, On, Handshake, TypeOK
  <1>6. CASE UpgradeFails(c)
    <2>1. conn[c].server \in Servers
      BY <1>0, <1>6, Fields DEF UpgradeFails, On, TypeOK, Connection
    <2> QED
      BY <1>6, <2>1, QuietOver, HubNoneAssumption DEF UpgradeFails, Undisturbed, ReleaseWebSocket, On, Handshake
  <1> QED
    BY <1>1, <1>2, <1>3, <1>4, <1>5, <1>6 DEF Request

LEMMA RequestFailsSafe ==
    ASSUME HubInv, NEW c \in Conns, RequestFails(c)
    PROVE  HubInv'
  BY QuietOver DEF RequestFails, Undisturbed

-----------------------------------------------------------------------------
(* Connections that are closed, and slots that expire. *)

LEMMA ReadPumpEndsSafe ==
    ASSUME HubInv, NEW c \in Conns, ReadPumpEnds(c)
    PROVE  HubInv'
  <1> DEFINE r == conn[c]
             left == [r EXCEPT !.pc = "leaving", !.open = FALSE]
  <1>1. conn \in [Conns -> Connection \cup {NoConn}] /\ r.pc = "running"
    BY DEF HubInv, TypeOK, Connection, ReadPumpEnds, On
  <1>2. r \in Connection
    BY <1>1 DEF NoConn
  <1>3. left \in Connection /\ left.pc = "leaving" /\ left.server = r.server
    BY <1>2 DEF Connection, Progress
  <1>4. conn' = [conn EXCEPT ![c] = left] /\ UNCHANGED <<slot, clients, subscribed, pending, loop, newest>>
    BY DEF ReadPumpEnds
  <1> HIDE DEF left
  <1>5. /\ conn' \in [Conns -> Connection \cup {NoConn}]
        /\ conn'[c] = left
        /\ \A e \in Conns \ {c} : conn'[e] = conn[e]
    BY <1>1, <1>3, <1>4
  <1>6. /\ slot' \in Servers \cup {None} /\ newest' \in Conns \cup {None}
        /\ pending' \in [Servers -> 0..MaxPending]
    BY <1>4 DEF HubInv, TypeOK
  <1>7. ASSUME NEW e \in Conns, Beating(e)'
        PROVE  Beating(e) /\ conn'[e].server = conn[e].server
    <2>1. e # c
      BY <1>3, <1>5, <1>7 DEF Beating, On
    <2> QED
      BY <1>5, <1>7, <2>1 DEF Beating, On
  <1>8. ASSUME NEW e \in Conns, On(e, "unregister")
        PROVE  On(e, "unregister")' /\ conn'[e].server = conn[e].server
    BY <1>1, <1>5, <1>8 DEF On
  <1>9. ASSUME NEW e \in Conns, Handshakes(e)
        PROVE  Handshakes(e)' /\ conn'[e].server = conn[e].server
    BY <1>1, <1>5, <1>9 DEF Handshakes
  <1> QED
    BY <1>4, <1>5, <1>6, <1>7, <1>8, <1>9, Quiet

LEMMA HandleDisconnectMessageSafe ==
    ASSUME HubInv, NEW s \in Servers, HandleDisconnectMessage(s)
    PROVE  HubInv'
  <1>1. TypeOK
    BY DEF HubInv
  <1>2. PICK d \in Conns \cup {None} : conn' = Closed(d)
    BY <1>1 DEF HandleDisconnectMessage, TypeOK, Closed
  <1>3. conn' \in [Conns -> Connection \cup {NoConn}]
    BY <1>1, <1>2, ClosedValue
  <1>4. \A e \in Conns : conn'[e].server = conn[e].server /\ conn'[e].pc = conn[e].pc
    BY <1>1, <1>2, ClosedValue
  <1>5. \A e \in Conns : conn'[e].open => conn[e].open
    BY <1>1, <1>2, ClosedValue
  <1>6. pending' \in [Servers -> 0..MaxPending]
    BY <1>1, HubBoundAssumption DEF HandleDisconnectMessage, TypeOK
  <1>7. UNCHANGED <<slot, clients, subscribed, loop, newest>>
    BY DEF HandleDisconnectMessage
  <1>8. slot' \in Servers \cup {None} /\ newest' \in Conns \cup {None}
    BY <1>1, <1>7 DEF TypeOK
  <1>9. \A e \in Conns : Beating(e)' => Beating(e) /\ conn'[e].server = conn[e].server
    BY <1>4, <1>5 DEF Beating, On
  <1>10. \A e \in Conns : On(e, "unregister") => On(e, "unregister")' /\ conn'[e].server = conn[e].server
    BY <1>4 DEF On
  <1>11. \A e \in Conns : Handshakes(e) => Handshakes(e)' /\ conn'[e].server = conn[e].server
    BY <1>4 DEF Handshakes
  <1> QED
    BY <1>3, <1>6, <1>7, <1>8, <1>9, <1>10, <1>11, Quiet

LEMMA IdleSafe ==
    ASSUME HubInv, UNCHANGED <<conn, clients, subscribed, pending, loop, newest>>,
           slot' = slot \/ slot' = None
    PROVE  HubInv'
  <1>1. /\ conn' \in [Conns -> Connection \cup {NoConn}]
        /\ slot' \in Servers \cup {None} /\ newest' \in Conns \cup {None}
        /\ pending' \in [Servers -> 0..MaxPending]
    BY DEF HubInv, TypeOK, Connection
  <1>2. \A e \in Conns : (Beating(e)' <=> Beating(e)) /\ (On(e, "unregister")' <=> On(e, "unregister"))
    BY DEF Beating, On
  <1>3. \A e \in Conns : Handshakes(e)' <=> Handshakes(e)
    BY DEF Handshakes
  <1> QED
    BY <1>1, <1>2, <1>3, HubNoneAssumption, Quiet

-----------------------------------------------------------------------------
(* The hub's loop.  The proofs of its steps name the parts of the invariant, which differ. *)

LEMMA Typed ==
    TypeOK <=>
    /\ slot \in Servers \cup {None}
    /\ conn \in [Conns -> Connection \cup {NoConn}]
    /\ clients \in [Servers -> Conns \cup {None}]
    /\ subscribed \subseteq Servers
    /\ pending \in [Servers -> 0..MaxPending]
    /\ loop \in [Servers -> Unregistering \cup {Waiting}]
    /\ newest \in Conns \cup {None}
  BY DEF TypeOK, Connection, Unregistering

LEMMA AtServer ==
    ASSUME TypeOK, NEW c \in Conns, conn[c].pc # "none"
    PROVE  conn[c].server \in Servers
  BY Fields DEF TypeOK, Connection

LEMMA HandleRegisterSafe ==
    ASSUME HubInv, NEW s \in Servers, NEW c \in Conns, HandleRegister(s, c)
    PROVE  HubInv'
  <1> DEFINE d == clients[s]
  <1>1. /\ TypeOK /\ NoUntrackedConnection /\ LoopInv
        /\ ~MayFail => SubscribedWithClient
        /\ Undisturbed => SlotBacked
    BY DEF HubInv
  <1>2. d \in Conns \cup {None}
    BY <1>1, Typed
  <1>3. /\ Moves(conn', Closed(d), c, "running")
        /\ clients' = [clients EXCEPT ![s] = c]
        /\ subscribed' = subscribed \cup {s} \/ (MayFail /\ subscribed' = subscribed)
        /\ UNCHANGED <<slot, pending, loop, newest>>
        /\ loop[s].pc = "wait" /\ conn[c].pc = "register" /\ conn[c].server = s
    BY DEF HandleRegister, Moves, On, Waiting
  <1>4. /\ conn' \in [Conns -> Connection \cup {NoConn}]
        /\ conn'[c].pc = "running"
        /\ \A e \in Conns : conn'[e].server = conn[e].server
        /\ \A e \in Conns : conn'[e].open => conn[e].open /\ e # d
        /\ \A e \in Conns \ {c} : conn'[e].pc = conn[e].pc
    <2>1. conn[c].pc # "none" /\ "running" \in Progress \ {"none"}
      BY <1>3 DEF Progress
    <2> HIDE DEF d
    <2> QED
      BY <1>1, <1>2, <1>3, <2>1, MoveToValue
  <1>5. clients'[s] = c /\ \A r \in Servers \ {s} : clients'[r] = clients[r]
    BY <1>1, <1>3, Typed
  <1>6. TypeOK'
    BY <1>1, <1>3, <1>4, Typed DEF TypeOK, Connection
  <1>7. NoUntrackedConnection'
    <2> SUFFICES ASSUME NEW e \in Conns, e # c, Beating(e)'
                 PROVE  clients'[conn'[e].server] = e
      BY <1>3, <1>4, <1>5 DEF NoUntrackedConnection
    <2>1. Beating(e) /\ e # d /\ conn[e].pc = "running"
      BY <1>4 DEF Beating, On
    <2>2. clients[conn[e].server] = e /\ conn[e].server \in Servers
      BY <1>1, <2>1, AtServer DEF NoUntrackedConnection
    <2> QED
      BY <1>4, <1>5, <2>1, <2>2
  <1>8. LoopInv'
    <2> SUFFICES ASSUME NEW r \in Servers, loop[r].pc # "wait"
                 PROVE  /\ conn'[loop[r].conn].pc = "unregister"
                        /\ conn'[loop[r].conn].server = r
                        /\ clients'[r] = None
                        /\ loop[r].pc # "unsubscribe" => r \notin subscribed'
      BY <1>3 DEF LoopInv, LoopAt, On
    <2>1. PICK e \in Conns : e = loop[r].conn
      BY <1>1, Typed DEF Unregistering, Waiting
    <2>2. /\ conn[e].pc = "unregister" /\ conn[e].server = r /\ clients[r] = None
          /\ loop[r].pc # "unsubscribe" => r \notin subscribed
      BY <1>1, <2>1 DEF LoopInv, LoopAt, On
    <2>3. e # c /\ r # s
      BY <1>3, <2>2
    <2>4. conn'[e].pc = "unregister" /\ conn'[e].server = r
      BY <1>4, <2>2, <2>3
    <2>5. clients'[r] = None /\ (loop[r].pc # "unsubscribe" => r \notin subscribed')
      BY <1>3, <1>5, <2>2, <2>3
    <2> QED
      BY <2>1, <2>4, <2>5
  <1>9. ASSUME ~MayFail
        PROVE  SubscribedWithClient'
    BY <1>1, <1>3, <1>5, <1>9, HubNoneAssumption DEF SubscribedWithClient, LoopAt
  <1>10. ASSUME Undisturbed
         PROVE  SlotBacked'
    <2> SUFFICES ASSUME NEW r \in Servers \ {s}, slot = r
                 PROVE  \/ clients'[r] # None
                        \/ loop[r].pc \in {"unsubscribe", "release"}
                        \/ \E e \in Conns : conn'[e].server = r /\ conn'[e].pc \in {"upgrade", "register"}
      BY <1>3, <1>5, HubNoneAssumption DEF SlotBacked
    <2>1. \/ clients[r] # None
          \/ loop[r].pc \in {"unsubscribe", "release"}
          \/ \E e \in Conns : conn[e].server = r /\ conn[e].pc \in {"upgrade", "register"}
      BY <1>1, <1>10 DEF SlotBacked
    <2> QED
      BY <1>3, <1>4, <1>5, <2>1
  <1>11. (~MayFail)' = ~MayFail /\ Undisturbed' = Undisturbed
    BY DEF Undisturbed
  <1> QED
    BY <1>6, <1>7, <1>8, <1>9, <1>10, <1>11 DEF HubInv

(* A step that registers nobody and touches the map, the subscription and the loop of s only. *)
LEMMA LoopStepSafe ==
    ASSUME HubInv, TypeOK', NEW s \in Servers,
           \A r \in Servers \ {s} :
                loop'[r] = loop[r] /\ clients'[r] = clients[r] /\ (r \in subscribed' <=> r \in subscribed),
           \A e \in Conns : conn'[e].pc = "running" /\ conn'[e].open =>
                /\ conn'[e] = conn[e]
                /\ conn[e].server = s => clients'[s] = clients[s],
           \A e \in Conns : conn[e].pc = "unregister" /\ conn[e].server # s => conn'[e] = conn[e],
           loop'[s].pc # "wait" =>
                /\ conn'[loop'[s].conn].pc = "unregister"
                /\ conn'[loop'[s].conn].server = s
                /\ clients'[s] = None
                /\ loop'[s].pc # "unsubscribe" => s \notin subscribed',
           ~MayFail /\ loop'[s].pc = "wait" => (s \in subscribed' <=> clients'[s] # None),
           Undisturbed =>
                /\ slot' = slot \/ slot' = None
                /\ \A e \in Conns : Handshakes(e) => conn'[e] = conn[e]
                /\ slot' = s =>
                    \/ loop'[s].pc \in {"unsubscribe", "release"}
                    \/ \E e \in Conns : Handshakes(e) /\ conn[e].server = s
    PROVE  HubInv'
  <1>1. /\ TypeOK /\ NoUntrackedConnection /\ LoopInv
        /\ ~MayFail => SubscribedWithClient
        /\ Undisturbed => SlotBacked
    BY DEF HubInv
  <1>2. NoUntrackedConnection'
    <2> SUFFICES ASSUME NEW e \in Conns, conn'[e].pc = "running", conn'[e].open
                 PROVE  clients'[conn'[e].server] = e
      BY DEF NoUntrackedConnection, Beating, On
    <2>1. conn'[e] = conn[e] /\ (conn[e].server = s => clients'[s] = clients[s])
      OBVIOUS
    <2>2. clients[conn[e].server] = e
      BY <1>1, <2>1 DEF NoUntrackedConnection, Beating, On
    <2>3. conn[e].server \in Servers
      BY <1>1, <2>1, AtServer
    <2> QED
      BY <2>1, <2>2, <2>3
  <1>3. LoopInv'
    <2> SUFFICES ASSUME NEW r \in Servers \ {s}, loop'[r].pc # "wait"
                 PROVE  /\ conn'[loop'[r].conn].pc = "unregister"
                        /\ conn'[loop'[r].conn].server = r
                        /\ clients'[r] = None
                        /\ loop'[r].pc # "unsubscribe" => r \notin subscribed'
      BY DEF LoopInv, LoopAt, On
    <2>1. loop'[r] = loop[r] /\ clients'[r] = clients[r] /\ (r \in subscribed' <=> r \in subscribed)
      OBVIOUS
    <2>2. PICK e \in Conns : e = loop[r].conn
      BY <1>1, <2>1, Typed DEF Unregistering, Waiting
    <2>3. /\ conn[e].pc = "unregister" /\ conn[e].server = r /\ clients[r] = None
          /\ loop[r].pc # "unsubscribe" => r \notin subscribed
      BY <1>1, <2>1, <2>2 DEF LoopInv, LoopAt, On
    <2>4. conn'[e] = conn[e]
      BY <2>3
    <2> QED
      BY <2>1, <2>2, <2>3, <2>4
  <1>4. ASSUME ~MayFail
        PROVE  SubscribedWithClient'
    BY <1>1, <1>4 DEF SubscribedWithClient, LoopAt
  <1>5. ASSUME Undisturbed
        PROVE  SlotBacked'
    <2> SUFFICES ASSUME NEW r \in Servers, slot' = r
                 PROVE  \/ clients'[r] # None
                        \/ loop'[r].pc \in {"unsubscribe", "release"}
                        \/ \E e \in Conns : conn'[e].server = r /\ conn'[e].pc \in {"upgrade", "register"}
      BY DEF SlotBacked
    <2>1. CASE r = s
      BY <1>5, <2>1 DEF Handshakes
    <2>2. CASE r # s
      <3>1. slot = r
        BY <1>5, HubNoneAssumption
      <3>2. \/ clients[r] # None
            \/ loop[r].pc \in {"unsubscribe", "release"}
            \/ \E e \in Conns : conn[e].server = r /\ conn[e].pc \in {"upgrade", "register"}
        BY <1>1, <1>5, <3>1 DEF SlotBacked
      <3>3. loop'[r] = loop[r] /\ clients'[r] = clients[r]
        BY <2>2
      <3> QED
        BY <1>5, <3>2, <3>3 DEF Handshakes
    <2> QED
      BY <2>1, <2>2
  <1>6. (~MayFail)' = ~MayFail /\ Undisturbed' = Undisturbed
    BY DEF Undisturbed
  <1> QED
    BY <1>2, <1>3, <1>4, <1>5, <1>6 DEF HubInv

LEMMA HandleUnregisterSafe ==
    ASSUME HubInv, NEW s \in Servers, NEW c \in Conns, HandleUnregister(s, c)
    PROVE  HubInv'
  <1>1. TypeOK
    BY DEF HubInv
  <1>2. CASE clients[s] # c
    <2>1. Over(c) /\ conn[c].pc = "leaving" /\ UNCHANGED <<slot, clients, subscribed, pending, loop, newest>>
      BY <1>2 DEF HandleUnregister, On
    <2> QED
      BY <2>1, QuietOver DEF Handshakes
  <1>3. CASE clients[s] = c
    <2> DEFINE mine == [conn |-> c, pc |-> "unsubscribe"]
    <2>1. /\ clients' = [clients EXCEPT ![s] = None]
          /\ loop' = [loop EXCEPT ![s] = mine]
          /\ Moves(conn', Closed(None), c, "unregister")
          /\ UNCHANGED <<slot, subscribed, pending, newest>>
          /\ conn[c].pc = "leaving" /\ conn[c].server = s
      BY <1>3 DEF HandleUnregister, MoveTo, Moves, Closed, On
    <2>2. mine \in Unregistering /\ mine.pc = "unsubscribe" /\ mine.conn = c
      BY DEF Unregistering
    <2> HIDE DEF mine
    <2>3. /\ conn' \in [Conns -> Connection \cup {NoConn}]
          /\ conn'[c].pc = "unregister" /\ conn'[c].server = s
      <3>1. conn[c].pc # "none" /\ "unregister" \in Progress \ {"none"} /\ None \in Conns \cup {None}
        BY <2>1 DEF Progress
      <3> QED
        BY <1>1, <2>1, <3>1, MoveToValue
    <2>4. \A e \in Conns \ {c} : conn'[e] = conn[e]
      BY <1>1, <2>1, Typed DEF Moves, Closed
    <2>5. /\ clients'[s] = None /\ loop'[s] = mine
          /\ \A r \in Servers \ {s} : clients'[r] = clients[r] /\ loop'[r] = loop[r]
      BY <1>1, <2>1, Typed
    <2>6. TypeOK'
      BY <1>1, <2>1, <2>2, <2>3, Typed DEF TypeOK, Connection, Unregistering
    <2>7. ASSUME NEW e \in Conns, conn'[e].pc = "running", conn'[e].open
          PROVE  conn'[e] = conn[e] /\ conn[e].server # s
      <3>1. e # c
        BY <2>3, <2>7
      <3>2. conn'[e] = conn[e]
        BY <2>4, <3>1
      <3>3. clients[conn[e].server] = e
        BY <2>7, <3>2 DEF HubInv, NoUntrackedConnection, Beating, On
      <3> QED
        BY <1>3, <3>1, <3>2, <3>3
    <2>8. ASSUME NEW e \in Conns, conn[e].pc = "unregister" \/ Handshakes(e)
          PROVE  conn'[e] = conn[e]
      BY <2>1, <2>4, <2>8 DEF Handshakes
    <2> QED
      BY <2>1, <2>2, <2>3, <2>5, <2>6, <2>7, <2>8, LoopStepSafe
  <1> QED
    BY <1>2, <1>3

(* What holds of a loop that is unregistering. *)
LEMMA LoopFacts ==
    ASSUME HubInv, NEW s \in Servers, loop[s].pc # "wait"
    PROVE  /\ loop[s] \in Unregistering
           /\ loop[s].conn \in Conns
           /\ conn[loop[s].conn].pc = "unregister" /\ conn[loop[s].conn].server = s
           /\ clients[s] = None
           /\ loop[s].pc # "unsubscribe" => s \notin subscribed
  <1>1. loop[s] \in Unregistering /\ loop[s].conn \in Conns
    BY Typed DEF HubInv, Unregistering, Waiting
  <1> QED
    BY <1>1 DEF HubInv, LoopInv, LoopAt, On

LEMMA UnsubscribeSafe ==
    ASSUME HubInv, NEW s \in Servers, Unsubscribe(s)
    PROVE  HubInv'
  <1> DEFINE mine == [loop[s] EXCEPT !.pc = "release"]
  <1>1. TypeOK
    BY DEF HubInv
  <1>2. /\ loop[s].pc = "unsubscribe" /\ subscribed' = subscribed \ {s}
        /\ UNCHANGED <<slot, conn, clients, newest>>
    BY DEF Unsubscribe, LoopAt
  <1>3. PICK j \in Unregistering : j = loop[s] /\ j.conn \in Conns
    BY <1>2, LoopFacts
  <1> DEFINE next == [j EXCEPT !.pc = "release"]
  <1>4. next \in Unregistering /\ next.pc = "release" /\ next.conn = j.conn
    BY <1>3 DEF Unregistering
  <1>5. loop' = [loop EXCEPT ![s] = next]
    BY <1>3 DEF Unsubscribe, LoopTo
  <1> HIDE DEF next
  <1>6. loop'[s] = next /\ \A r \in Servers \ {s} : loop'[r] = loop[r]
    BY <1>1, <1>5, Typed
  <1>7. TypeOK'
    <2>1. pending' \in [Servers -> 0..MaxPending]
      BY <1>1, HubBoundAssumption DEF Unsubscribe, TypeOK
    <2> QED
      BY <1>1, <1>2, <1>4, <1>5, <2>1, Typed DEF TypeOK, Connection, Unregistering
  <1>8. /\ conn'[next.conn].pc = "unregister" /\ conn'[next.conn].server = s
        /\ clients'[s] = None /\ s \notin subscribed'
    BY <1>2, <1>3, <1>4, LoopFacts
  <1> QED
    BY <1>2, <1>4, <1>6, <1>7, <1>8, LoopStepSafe

LEMMA ReleaseSlotSafe ==
    ASSUME HubInv, NEW s \in Servers, ReleaseSlot(s)
    PROVE  HubInv'
  <1>1. TypeOK
    BY DEF HubInv
  <1>2. /\ loop[s].pc = "release" /\ UNCHANGED <<conn, clients, subscribed, pending, newest>>
        /\ slot' = slot \/ slot' = None
        /\ Undisturbed => slot' # s
    BY HubNoneAssumption DEF ReleaseSlot, Undisturbed, ReleaseWebSocket, LoopAt
  <1>3. PICK j \in Unregistering : j = loop[s] /\ j.conn \in Conns
    BY <1>2, LoopFacts
  <1> DEFINE next == [j EXCEPT !.pc = "disconnect"]
  <1>4. next \in Unregistering /\ next.pc = "disconnect" /\ next.conn = j.conn
    BY <1>3 DEF Unregistering
  <1>5. loop' = [loop EXCEPT ![s] = next]
    BY <1>3 DEF ReleaseSlot, LoopTo
  <1> HIDE DEF next
  <1>6. loop'[s] = next /\ \A r \in Servers \ {s} : loop'[r] = loop[r]
    BY <1>1, <1>5, Typed
  <1>7. TypeOK'
    BY <1>1, <1>2, <1>4, <1>5, Typed DEF TypeOK, Connection, Unregistering
  <1>8. /\ conn'[next.conn].pc = "unregister" /\ conn'[next.conn].server = s
        /\ clients'[s] = None /\ s \notin subscribed'
    BY <1>2, <1>3, <1>4, LoopFacts
  <1> QED
    BY <1>2, <1>4, <1>6, <1>7, <1>8, LoopStepSafe

LEMMA UnregisterDoneSafe ==
    ASSUME HubInv, NEW s \in Servers, UnregisterDone(s)
    PROVE  HubInv'
  <1>1. TypeOK
    BY DEF HubInv
  <1>2. /\ loop[s].pc = "disconnect" /\ loop' = [loop EXCEPT ![s] = Waiting]
        /\ UNCHANGED <<slot, clients, subscribed, pending, newest>>
    BY DEF UnregisterDone, LoopAt
  <1>3. PICK c \in Conns : /\ c = loop[s].conn /\ conn[c].pc = "unregister" /\ conn[c].server = s
                           /\ clients[s] = None /\ s \notin subscribed
    BY <1>2, LoopFacts
  <1>4. Over(c)
    BY <1>3 DEF UnregisterDone
  <1>5. /\ conn' \in [Conns -> Connection \cup {NoConn}]
        /\ conn'[c] = NoConn
        /\ \A e \in Conns \ {c} : conn'[e] = conn[e]
    BY <1>1, <1>4, OverValue
  <1>6. loop'[s].pc = "wait" /\ \A r \in Servers \ {s} : loop'[r] = loop[r]
    BY <1>1, <1>2, Typed DEF Waiting
  <1>7. TypeOK'
    BY <1>1, <1>2, <1>5, Typed DEF TypeOK, Connection, Unregistering
  <1>8. \A e \in Conns : conn'[e].pc = "running" => conn'[e] = conn[e]
    BY <1>5 DEF NoConn
  <1>9. \A e \in Conns : Handshakes(e) \/ conn[e].server # s => conn'[e] = conn[e]
    BY <1>3, <1>5 DEF Handshakes
  <1>10. Undisturbed /\ slot = s => \E e \in Conns : Handshakes(e) /\ conn[e].server = s
    BY <1>2, <1>3 DEF HubInv, SlotBacked, Handshakes
  <1> QED
    BY <1>2, <1>3, <1>6, <1>7, <1>8, <1>9, <1>10, LoopStepSafe

LEMMA CrashSafe ==
    ASSUME HubInv, NEW s \in Servers, Crash(s)
    PROVE  HubInv'
  <1>1. TypeOK
    BY DEF HubInv
  <1>2. /\ MayFail /\ UNCHANGED <<slot, newest>>
        /\ clients' = [clients EXCEPT ![s] = None] /\ subscribed' = subscribed \ {s}
        /\ pending' = [pending EXCEPT ![s] = 0] /\ loop' = [loop EXCEPT ![s] = Waiting]
    BY DEF Crash
  <1>3. \A e \in Conns : conn'[e] = IF conn[e].server = s THEN NoConn ELSE conn[e]
    BY DEF Crash
  <1>4. conn' \in [Conns -> Connection \cup {NoConn}]
    <2>1. \A e \in Conns : conn[e] \in Connection \cup {NoConn}
      BY <1>1, Typed
    <2> QED
      BY <2>1 DEF Crash
  <1>5. /\ clients'[s] = None /\ loop'[s].pc = "wait"
        /\ \A r \in Servers \ {s} : clients'[r] = clients[r] /\ loop'[r] = loop[r]
    BY <1>1, <1>2, Typed DEF Waiting
  <1>6. TypeOK'
    BY <1>1, <1>2, <1>4, HubBoundAssumption, Typed DEF TypeOK, Connection, Unregistering
  <1>7. ASSUME NEW e \in Conns, conn'[e].pc = "running"
        PROVE  conn'[e] = conn[e] /\ conn[e].server # s
    BY <1>3, <1>7 DEF NoConn
  <1> QED
    BY <1>2, <1>3, <1>5, <1>6, <1>7, LoopStepSafe DEF Undisturbed

-----------------------------------------------------------------------------
LEMMA HubInvNext ==
    ASSUME HubInv, [Next]_vars
    PROVE  HubInv'
  <1>1. ASSUME NEW c \in Conns, NEW s \in Servers, Connect(c, s)
        PROVE  HubInv'
    BY <1>1, ConnectSafe
  <1>2. ASSUME NEW c \in Conns, Request(c) \/ RequestFails(c) \/ ReadPumpEnds(c)
        PROVE  HubInv'
    BY <1>2, RequestSafe, RequestFailsSafe, ReadPumpEndsSafe
  <1>3. ASSUME NEW s \in Servers, Loop(s)
        PROVE  HubInv'
    BY <1>3, HandleRegisterSafe, HandleUnregisterSafe, UnsubscribeSafe, ReleaseSlotSafe, UnregisterDoneSafe
       DEF Loop
  <1>4. ASSUME NEW s \in Servers, HandleDisconnectMessage(s) \/ Crash(s)
        PROVE  HubInv'
    BY <1>4, HandleDisconnectMessageSafe, CrashSafe
  <1>5. CASE SlotExpires \/ UNCHANGED vars
    BY <1>5, IdleSafe DEF SlotExpires, vars
  <1> QED
    BY <1>1, <1>2, <1>3, <1>4, <1>5 DEF Next

LEMMA HubInvInit ==
    ASSUME Init
    PROVE  HubInv
  <1>1. TypeOK
    BY HubBoundAssumption, Typed DEF Init
  <1>2. NoUntrackedConnection /\ LoopInv
    BY DEF Init, NoUntrackedConnection, Beating, On, NoConn, LoopInv, LoopAt, Waiting
  <1>3. SubscribedWithClient /\ SlotBacked
    BY HubNoneAssumption DEF Init, SubscribedWithClient, SlotBacked, LoopAt, Waiting
  <1> QED
    BY <1>1, <1>2, <1>3 DEF HubInv

(* HubInv holds in every state, for any number of connections and servers. *)
THEOREM HubInvariance == Spec => []HubInv
  BY HubInvInit, HubInvNext, PTL DEF Spec

(* The slot, the maps and the loops have the types of the Go variables and Redis values. *)
THEOREM HubTypeCorrect == Spec => []TypeOK
  <1>1. HubInv => TypeOK
    BY DEF HubInv
  <1> QED
    BY <1>1, HubInvariance, PTL

(* handleRegister and handleUnregister never let an open connection drop out of the hub's map
   (handler.go:117-124, 167-175), whatever fails and whatever crashes. *)
THEOREM TrackedAlways == Spec => []NoUntrackedConnection
  <1>1. HubInv => NoUntrackedConnection
    BY DEF HubInv
  <1> QED
    BY <1>1, HubInvariance, PTL

(* While no command fails and no server crashes, a hub that waits is subscribed exactly while it has
   a client (handler.go:127-137, 177-183). *)
THEOREM SubscribedAlways ==
    ASSUME ~MayFail
    PROVE  Spec => []SubscribedWithClient
  <1>1. HubInv => SubscribedWithClient
    BY DEF HubInv
  <1> QED
    BY <1>1, HubInvariance, PTL

(* If, moreover, no client abandons its handshake, which would cancel the release of its slot, the slot
   is never left behind (handler.go:186, 331-335). *)
THEOREM SlotBackedAlways ==
    ASSUME Undisturbed
    PROVE  Spec => []SlotBacked
  <1>1. HubInv => SlotBacked
    BY DEF HubInv
  <1> QED
    BY <1>1, HubInvariance, PTL

-----------------------------------------------------------------------------
(* How far a connection goes in one step. *)

(* A request that goes on or fails concerns no client. *)
LEMMA RequestMoves ==
    ASSUME HubInv, NEW c \in Conns, Request(c) \/ RequestFails(c)
    PROVE  /\ conn[c].pc \in Handshake /\ clients' = clients
           /\ conn'[c].pc \in Handshake \cup {"register", "none"}
           /\ conn'[c].pc # "none" => conn'[c].server = conn[c].server
           /\ \A e \in Conns \ {c} : /\ conn'[e].pc = conn[e].pc /\ conn'[e].server = conn[e].server
                                     /\ conn'[e].open => conn[e].open
  <1>1. TypeOK /\ None \in Conns \cup {None}
    BY DEF HubInv
  <1>2. conn[c].pc \in Handshake /\ clients' = clients
    BY DEF Request, RequestFails, KickLookup, KickLocal, KickRemote, ForceAcquire, Upgrade, UpgradeFails, On,
           Handshake
  <1>3. ASSUME NEW d \in Conns \cup {None}, NEW pc \in Handshake \cup {"register"}, Moves(conn', Closed(d), c, pc)
        PROVE  /\ conn'[c].pc = pc
               /\ \A e \in Conns : conn'[e].server = conn[e].server /\ (conn'[e].open => conn[e].open)
               /\ \A e \in Conns \ {c} : conn'[e].pc = conn[e].pc
    <2>1. conn[c].pc # "none" /\ pc \in Progress \ {"none"}
      BY <1>2 DEF Handshake, Progress
    <2> QED
      BY <1>1, <1>3, <2>1, MoveToValue
  <1>4. CASE KickLookup(c) \/ KickRemote(c) \/ ForceAcquire(c) \/ Upgrade(c)
    <2>1. PICK pc \in Handshake \cup {"register"} : MoveTo(c, pc)
      BY <1>4 DEF KickLookup, KickRemote, ForceAcquire, Upgrade, Handshake
    <2>2. Moves(conn', Closed(None), c, pc)
      BY <2>1 DEF MoveTo, Moves, Closed
    <2> QED
      BY <1>1, <1>2, <1>3, <2>2
  <1>5. CASE KickLocal(c)
    <2> DEFINE d == clients[conn[c].server]
    <2>1. conn[c].server \in Servers
      BY <1>1, <1>2, AtServer DEF Handshake
    <2>2. d \in Conns \cup {None}
      BY <1>1, <2>1, Typed
    <2>3. Moves(conn', Closed(d), c, "force") /\ "force" \in Handshake
      BY <1>5 DEF KickLocal, Moves, Handshake
    <2> HIDE DEF d
    <2> QED
      BY <1>2, <1>3, <2>2, <2>3
  <1>6. CASE UpgradeFails(c) \/ RequestFails(c)
    <2>1. Over(c)
      BY <1>6 DEF UpgradeFails, RequestFails
    <2>2. conn'[c] = NoConn /\ \A e \in Conns \ {c} : conn'[e] = conn[e]
      BY <1>1, <2>1, OverValue
    <2> QED
      BY <1>2, <2>2 DEF NoConn
  <1> QED
    BY <1>4, <1>5, <1>6 DEF Request

LEMMA ConnectMoves ==
    ASSUME HubInv, NEW c \in Conns, NEW s \in Servers, Connect(c, s)
    PROVE  /\ conn[c].pc = "none" /\ clients' = clients
           /\ conn'[c].pc \in Handshake
           /\ \A e \in Conns \ {c} : conn'[e] = conn[e]
  <1> DEFINE first == [server |-> s, open |-> TRUE, pc |-> IF slot = None THEN "upgrade" ELSE "lookup"]
  <1>1. conn' = [conn EXCEPT ![c] = first] /\ first.pc \in Handshake
    BY DEF Connect, Handshake
  <1> HIDE DEF first
  <1>2. conn'[c] = first /\ \A e \in Conns \ {c} : conn'[e] = conn[e]
    BY <1>1, Typed DEF HubInv
  <1> QED
    BY <1>1, <1>2 DEF Connect, On

LEMMA RegisterMoves ==
    ASSUME HubInv, NEW c \in Conns, NEW s \in Servers, HandleRegister(s, c)
    PROVE  /\ conn[c].pc = "register" /\ conn[c].server = s /\ conn'[c].pc = "running"
           /\ \A e \in Conns : conn'[e].server = conn[e].server /\ (conn'[e].open => conn[e].open)
           /\ \A e \in Conns \ {c} : conn'[e].pc = conn[e].pc
           /\ clients'[s] = c /\ \A t \in Servers \ {s} : clients'[t] = clients[t]
  <1>1. PICK d \in Conns \cup {None} : d = clients[s]
    BY Typed DEF HubInv
  <1>2. conn[c].pc = "register" /\ conn[c].server = s /\ Moves(conn', Closed(d), c, "running")
    BY <1>1 DEF HandleRegister, On, Moves
  <1>3. conn[c].pc # "none" /\ "running" \in Progress \ {"none"}
    BY <1>2 DEF Progress
  <1>4. clients' = [clients EXCEPT ![s] = c]
    BY DEF HandleRegister
  <1> QED
    BY <1>2, <1>3, <1>4, MoveToValue, Typed DEF HubInv

(* The steps that bring no connection to the hub, and what they make of one: nobody runs, waits to be
   registered or is in a map who did not and was not before. *)
Onward ==
    \/ \E c \in Conns : Request(c) \/ RequestFails(c) \/ ReadPumpEnds(c)
    \/ \E s \in Servers :
        \/ \E c \in Conns : HandleUnregister(s, c)
        \/ Unsubscribe(s) \/ ReleaseSlot(s) \/ UnregisterDone(s)
        \/ HandleDisconnectMessage(s) \/ Crash(s)
    \/ SlotExpires

Served(c) == conn[c].pc \in {"running", "leaving"}
Further(e) ==
    /\ conn'[e].pc = "running" => conn[e].pc = "running" /\ (conn'[e].open => conn[e].open)
    /\ conn'[e].pc \in Handshake \cup {"register"} => conn[e].pc \in Handshake \cup {"register"}
    /\ Served(e)' => Served(e)
    /\ conn'[e].pc # "none" => conn'[e].server = conn[e].server
    /\ \A s \in Servers : clients'[s] = e => clients[s] = e /\ (Served(e) /\ conn[e].server = s => Served(e)')

LEMMA OnwardMoves ==
    ASSUME HubInv, Onward, NEW e \in Conns
    PROVE  Further(e)
  <1> USE DEF Further, Served, Handshake
  <1>1. /\ TypeOK /\ None \in Conns \cup {None} /\ conn \in [Conns -> Connection \cup {NoConn}]
        /\ clients \in [Servers -> Conns \cup {None}]
    BY Typed DEF HubInv
  <1>2. ASSUME conn'[e].pc = conn[e].pc, conn'[e].server = conn[e].server, conn'[e].open => conn[e].open,
               clients' = clients
        PROVE  Further(e)
    BY <1>2
  <1>3. ASSUME NEW c \in Conns, Over(c), ~Served(c), clients' = clients
        PROVE  Further(e)
    <2>1. conn'[c] = NoConn /\ \A d \in Conns \ {c} : conn'[d] = conn[d]
      BY <1>1, <1>3, OverValue
    <2> QED
      BY <1>3, <2>1 DEF NoConn
  <1>4. ASSUME NEW c \in Conns, Request(c) \/ RequestFails(c)
        PROVE  Further(e)
    BY <1>4, RequestMoves
  <1>5. ASSUME NEW c \in Conns, ReadPumpEnds(c)
        PROVE  Further(e)
    <2> DEFINE r == conn[c]
               left == [r EXCEPT !.pc = "leaving", !.open = FALSE]
    <2>1. r \in Connection /\ r.pc = "running"
      BY <1>1, <1>5 DEF ReadPumpEnds, On, NoConn
    <2>2. left.pc = "leaving" /\ left.server = r.server /\ conn' = [conn EXCEPT ![c] = left] /\ clients' = clients
      BY <1>5, <2>1 DEF Connection, ReadPumpEnds
    <2> HIDE DEF left
    <2>3. conn'[c] = left /\ \A d \in Conns \ {c} : conn'[d] = conn[d]
      BY <1>1, <2>2
    <2> QED
      BY <2>1, <2>2, <2>3
  <1>6. ASSUME NEW s \in Servers, NEW c \in Conns, HandleUnregister(s, c)
        PROVE  Further(e)
    <2>1. conn[c].pc = "leaving" /\ conn[c].server = s
      BY <1>6 DEF HandleUnregister, On
    <2>2. CASE clients[s] = c
      <3>1. Moves(conn', Closed(None), c, "unregister") /\ clients' = [clients EXCEPT ![s] = None]
        BY <1>6, <2>2 DEF HandleUnregister, MoveTo, Moves, Closed
      <3>2. conn[c].pc # "none" /\ "unregister" \in Progress \ {"none"}
        BY <2>1 DEF Progress
      <3>3. /\ conn'[c].pc = "unregister"
            /\ \A a \in Conns : conn'[a].server = conn[a].server /\ (conn'[a].open => conn[a].open)
            /\ \A a \in Conns \ {c} : conn'[a].pc = conn[a].pc
        BY <1>1, <3>1, <3>2, MoveToValue
      <3>4. clients'[s] = None /\ \A t \in Servers \ {s} : clients'[t] = clients[t]
        BY <1>1, <3>1
      <3> QED
        BY <2>1, <2>2, <3>3, <3>4, HubNoneAssumption
    <2>3. CASE clients[s] # c
      <3>1. Over(c) /\ clients' = clients
        BY <1>6, <2>3 DEF HandleUnregister
      <3>2. conn'[c] = NoConn /\ \A d \in Conns \ {c} : conn'[d] = conn[d]
        BY <1>1, <3>1, OverValue
      <3> QED
        BY <2>1, <2>3, <3>1, <3>2 DEF NoConn
    <2> QED
      BY <2>2, <2>3
  <1>7. ASSUME NEW s \in Servers, Unsubscribe(s) \/ ReleaseSlot(s)
        PROVE  Further(e)
    BY <1>2, <1>7 DEF Unsubscribe, ReleaseSlot
  <1>8. ASSUME NEW s \in Servers, UnregisterDone(s)
        PROVE  Further(e)
    <2>1. PICK c \in Conns : c = loop[s].conn /\ conn[c].pc = "unregister"
      BY <1>8, LoopFacts DEF UnregisterDone, LoopAt
    <2> QED
      BY <1>3, <1>8, <2>1 DEF UnregisterDone
  <1>9. ASSUME NEW s \in Servers, HandleDisconnectMessage(s)
        PROVE  Further(e)
    <2>1. PICK d \in Conns \cup {None} : conn' = Closed(d)
      BY <1>1, <1>9 DEF HandleDisconnectMessage, TypeOK, Closed
    <2>2. conn'[e].pc = conn[e].pc /\ conn'[e].server = conn[e].server /\ (conn'[e].open => conn[e].open)
      BY <1>1, <2>1, ClosedValue
    <2> QED
      BY <1>2, <1>9, <2>2 DEF HandleDisconnectMessage
  <1>10. ASSUME NEW s \in Servers, Crash(s)
         PROVE  Further(e)
    <2>1. conn'[e] = (IF conn[e].server = s THEN NoConn ELSE conn[e]) /\ clients' = [clients EXCEPT ![s] = None]
      BY <1>10 DEF Crash
    <2>2. clients'[s] = None /\ \A t \in Servers \ {s} : clients'[t] = clients[t]
      BY <1>1, <2>1
    <2> QED
      BY <2>1, <2>2, HubNoneAssumption DEF NoConn
  <1>11. CASE SlotExpires
    BY <1>2, <1>11 DEF SlotExpires
  <1> QED
    BY <1>4, <1>5, <1>6, <1>7, <1>8, <1>9, <1>10, <1>11 DEF Onward

LEMMA StepsOfNext ==
    ASSUME Next
    PROVE  \/ \E c \in Conns, s \in Servers : Connect(c, s)
           \/ \E c \in Conns, s \in Servers : HandleRegister(s, c)
           \/ Onward
  BY DEF Next, Loop, Onward

(* Who runs ran before, or was registered by this step. *)
LEMMA RunsOn ==
    ASSUME HubInv, Next, NEW e \in Conns, conn'[e].pc = "running"
    PROVE  conn[e].pc \in {"running", "register"} /\ conn'[e].server = conn[e].server
  BY StepsOfNext, ConnectMoves, RegisterMoves, OnwardMoves DEF Further, Handshake

(* Who is in a map is a client of its server, and served or about to be unregistered. *)
MapInv == \A s \in Servers, c \in Conns : clients[s] = c => conn[c].server = s /\ Served(c)

LEMMA MapInvNext ==
    ASSUME HubInv, MapInv, [Next]_vars
    PROVE  MapInv'
  <1> SUFFICES ASSUME NEW t \in Servers, NEW e \in Conns, clients'[t] = e
               PROVE  conn'[e].server = t /\ Served(e)'
    BY DEF MapInv
  <1>1. ASSUME NEW c \in Conns, NEW s \in Servers, Connect(c, s)
        PROVE  conn'[e].server = t /\ Served(e)'
    BY <1>1, ConnectMoves DEF MapInv, Served
  <1>2. ASSUME NEW c \in Conns, NEW s \in Servers, HandleRegister(s, c)
        PROVE  conn'[e].server = t /\ Served(e)'
    BY <1>2, RegisterMoves DEF MapInv, Served
  <1>3. CASE Onward
    <2>1. Further(e) /\ clients[t] = e
      BY <1>3, OnwardMoves DEF Further
    <2>2. conn[e].server = t /\ Served(e)
      BY <2>1 DEF MapInv
    <2> QED
      BY <2>1, <2>2 DEF Further, Served
  <1>4. CASE UNCHANGED vars
    BY <1>4 DEF MapInv, Served, vars
  <1> QED
    BY <1>1, <1>2, <1>3, <1>4, StepsOfNext

(* What SendToUser and the kicks find in the map of a server is a client of this server, which runs or
   has yet to be unregistered (handler.go:117-124, 167-175). *)
THEOREM MapAlways == Spec => []MapInv
  <1>1. Init => MapInv
    BY HubNoneAssumption DEF Init, MapInv
  <1>2. HubInv /\ MapInv /\ [Next]_vars => MapInv'
    BY MapInvNext
  <1> QED
    BY <1>1, <1>2, HubInvariance, PTL DEF Spec
=============================================================================
