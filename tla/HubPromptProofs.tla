----------------------------- MODULE HubPromptProofs -----------------------------
(***************************************************************************)
(* What holds of the connections of a user who starts one handshake at a   *)
(* time, on servers whose pause after a kick is long enough, for any       *)
(* number of connections and servers.                                      *)
(***************************************************************************)
EXTENDS HubProofs

(* A connection whose request is still handled, and one that the slot stands for: from when its
   request took the slot, to when the loop releases it. *)
Newcomer(c) == conn[c].pc \in Handshake \cup {"register"}

Holder(c) ==
    \/ conn[c].pc \in {"upgrade", "register", "running", "leaving"}
    \/ \E s \in Servers : loop[s].conn = c /\ loop[s].pc \in {"unsubscribe", "release"}

(* There is one newcomer, the newest connection. *)
NewcomerInv ==
    \A c \in Conns : Newcomer(c) => newest = c

(* There is one holder, and the slot names its server. *)
HolderInv ==
    \A c \in Conns : Holder(c) =>
        /\ slot = conn[c].server
        /\ \A d \in Conns : Holder(d) => d = c

(* A kick reaches the connection it is for: a client of this server while the newcomer goes for it,
   and a client of another until the disconnect message is handled.  No message outlives the pause.
   A newcomer that found nobody to kick finds the slot still free. *)
LeavingClosed == \A c \in Conns : conn[c].pc = "leaving" => ~conn[c].open
TakeFree == \A c \in Conns : conn[c].pc = "take" => slot = None
LocalKick == \A c, d \in Conns : conn[c].pc = "local" /\ Beating(d) => conn[d].server = conn[c].server
RemoteKick == \A c, d \in Conns : conn[c].pc = "force" /\ Beating(d) => pending[conn[d].server] > 0
KickPending == \A s \in Servers : pending[s] > 0 => \E c \in Conns : conn[c].pc = "force"
KickInv == LeavingClosed /\ TakeFree /\ LocalKick /\ RemoteKick /\ KickPending

(* Inductive, given that the pause outlasts the unregistration of whoever was kicked. *)
PromptInv ==
    /\ HubInv
    /\ NewcomerInv
    /\ HolderInv
    /\ KickInv

(* The assumption under which the constants allow no overlap, no late kick and no failure. *)
Orderly == Prompt /\ ~Overlap /\ Undisturbed

-----------------------------------------------------------------------------
(* The facts about types, maps and subscriptions that the steps need. *)
LEMMA MapFacts ==
    ASSUME PromptInv, Orderly, NEW d \in Conns, Beating(d)
    PROVE  /\ conn[d].server \in Servers
           /\ clients[conn[d].server] = d
           /\ loop[conn[d].server].pc = "wait"
           /\ conn[d].server \in subscribed
           /\ Holder(d) /\ slot = conn[d].server
  <1>1. HubInv /\ TypeOK
    BY DEF PromptInv, HubInv
  <1>2. conn[d].server \in Servers
    BY <1>1, AtServer DEF Beating, On
  <1>3. clients[conn[d].server] = d
    BY <1>1 DEF HubInv, NoUntrackedConnection
  <1>4. loop[conn[d].server].pc = "wait"
    BY <1>1, <1>2, <1>3, LoopFacts, HubNoneAssumption
  <1>5. conn[d].server \in subscribed
    BY <1>1, <1>2, <1>3, <1>4, HubNoneAssumption DEF HubInv, SubscribedWithClient, LoopAt, Orderly, Undisturbed
  <1>6. Holder(d)
    BY DEF Beating, On, Holder
  <1> QED
    BY <1>2, <1>3, <1>4, <1>5, <1>6 DEF PromptInv, HolderInv

(* A loop works on nobody but a client that waits for the end of its unregistration. *)
LEMMA LoopOf ==
    ASSUME PromptInv, NEW c \in Conns, NEW s \in Servers, loop[s].conn = c
    PROVE  conn[c].pc = "unregister" /\ conn[c].server = s
  <1>1. loop[s].pc # "wait"
    BY HubNoneAssumption, Typed DEF PromptInv, HubInv, Waiting, Unregistering
  <1> QED
    BY <1>1, LoopFacts DEF PromptInv

(* A step after which nobody holds the slot who did not, and the slot is the same. *)
LEMMA HolderKept ==
    ASSUME PromptInv, slot' = slot,
           \A c \in Conns : Holder(c)' => Holder(c) /\ conn'[c].server = conn[c].server
    PROVE  HolderInv'
  BY DEF PromptInv, HolderInv

(* A step that begins no handshake and ends no kick. *)
LEMMA KicksKept ==
    ASSUME PromptInv, newest' = newest, slot' = slot \/ slot' = None,
           \A c \in Conns : Newcomer(c)' => conn'[c].pc = conn[c].pc /\ conn'[c].server = conn[c].server,
           \A c \in Conns : conn[c].pc = "force" => conn'[c].pc = "force",
           \A c \in Conns : conn'[c].pc = "leaving" => ~conn'[c].open,
           \A d \in Conns : Beating(d)' =>
                /\ Beating(d) /\ conn'[d].server = conn[d].server
                /\ pending[conn[d].server] > 0 => pending'[conn[d].server] > 0,
           \A s \in Servers : pending'[s] > 0 => pending[s] > 0
    PROVE  NewcomerInv' /\ KickInv'
  <1> USE DEF PromptInv, KickInv
  <1>1. NewcomerInv'
    BY DEF NewcomerInv, Newcomer
  <1>2. LeavingClosed'
    BY DEF LeavingClosed
  <1>3. LocalKick'
    BY DEF LocalKick, Newcomer, Handshake
  <1>4. RemoteKick'
    BY DEF RemoteKick, Newcomer, Handshake
  <1>5. KickPending'
    BY DEF KickPending
  <1>6. TakeFree'
    BY DEF TakeFree, Newcomer, Handshake
  <1> QED
    BY <1>1, <1>2, <1>3, <1>4, <1>5, <1>6

(* A step of newcomer c, which may close client d. *)
LEMMA NewcomerMoves ==
    ASSUME PromptInv, NEW c \in Conns, Newcomer(c), NEW d \in Conns \cup {None},
           NEW pc \in Handshake \cup {"register", "running"}, Moves(conn', Closed(d), c, pc),
           UNCHANGED <<newest, loop>>
    PROVE  /\ NewcomerInv' /\ LeavingClosed'
           /\ conn'[c].pc = pc
           /\ \A e \in Conns : Newcomer(e)' => e = c
           /\ \A e \in Conns : conn'[e].server = conn[e].server /\ (conn'[e].open => conn[e].open /\ e # d)
           /\ \A e \in Conns \ {c} : conn'[e].pc = conn[e].pc /\ (Holder(e)' <=> Holder(e))
           /\ \A e \in Conns \ {c} : Beating(e)' => Beating(e) /\ e # d
           /\ Holder(c)' => pc \in {"upgrade", "register", "running"}
  <1>1. TypeOK /\ conn[c].pc # "none" /\ pc \in Progress \ {"none"} /\ newest = c
    BY DEF PromptInv, HubInv, NewcomerInv, Newcomer, Handshake, Progress
  <1>2. /\ conn'[c].pc = pc
        /\ \A e \in Conns : conn'[e].server = conn[e].server
        /\ \A e \in Conns : conn'[e].open => conn[e].open /\ e # d
        /\ \A e \in Conns \ {c} : conn'[e].pc = conn[e].pc
    BY <1>1, MoveToValue
  <1>3. \A e \in Conns : Newcomer(e)' => e = c
    BY <1>1, <1>2 DEF PromptInv, NewcomerInv, Newcomer
  <1>4. NewcomerInv'
    BY <1>1, <1>3 DEF NewcomerInv
  <1>5. LeavingClosed'
    BY <1>2 DEF PromptInv, KickInv, LeavingClosed, Handshake
  <1>6. \A e \in Conns \ {c} : Holder(e)' <=> Holder(e)
    BY <1>2 DEF Holder
  <1>7. \A e \in Conns \ {c} : Beating(e)' => Beating(e) /\ e # d
    BY <1>2 DEF Beating, On
  <1>8. Holder(c)' => pc \in {"upgrade", "register", "running"}
    <2>1. \A s \in Servers : loop'[s].conn # c
      BY LoopOf DEF Newcomer, Handshake
    <2> QED
      BY <1>2, <2>1 DEF Holder, Handshake
  <1> QED
    BY <1>2, <1>3, <1>4, <1>5, <1>6, <1>7, <1>8

-----------------------------------------------------------------------------
(* The steps of a handshake. *)

LEMMA ConnectOrderly ==
    ASSUME PromptInv, Orderly, NEW c \in Conns, NEW s \in Servers, Connect(c, s)
    PROVE  NewcomerInv' /\ HolderInv' /\ KickInv'
  <1> DEFINE first == [server |-> s, open |-> TRUE, pc |-> IF slot = None THEN "upgrade" ELSE "lookup"]
  <1>1. /\ conn \in [Conns -> Connection \cup {NoConn}] /\ conn[c].pc = "none"
        /\ \A d \in Conns : ~Newcomer(d)
    BY DEF PromptInv, HubInv, TypeOK, Connection, Connect, On, Orderly, Newcomer
  <1>2. /\ conn' = [conn EXCEPT ![c] = first]
        /\ slot' = IF slot = None THEN s ELSE slot
        /\ newest' = c /\ UNCHANGED <<pending, loop>>
    BY DEF Connect
  <1>3. first.server = s /\ first.pc = IF slot = None THEN "upgrade" ELSE "lookup"
    OBVIOUS
  <1> HIDE DEF first
  <1>4. conn'[c] = first /\ \A e \in Conns \ {c} : conn'[e] = conn[e]
    BY <1>1, <1>2
  <1>5. NewcomerInv'
    BY <1>1, <1>2, <1>4 DEF NewcomerInv, Newcomer
  <1>6. HolderInv'
    <2>1. \A e \in Conns \ {c} : (Holder(e)' <=> Holder(e)) /\ conn'[e].server = conn[e].server
      BY <1>2, <1>4 DEF Holder
    <2>2. CASE slot = None
      <3>1. \A e \in Conns : ~Holder(e)
        <4> SUFFICES ASSUME NEW e \in Conns, Holder(e)
                     PROVE  FALSE
          OBVIOUS
        <4>1. conn[e].server = None /\ conn[e].pc # "none"
          BY <2>2, LoopOf DEF PromptInv, HolderInv, Holder
        <4> QED
          BY <4>1, AtServer, HubNoneAssumption DEF PromptInv, HubInv
      <3> QED
        BY <1>2, <1>3, <1>4, <2>1, <2>2, <3>1 DEF HolderInv
    <2>3. CASE slot # None
      <3>1. ~Holder(c)'
        BY <1>1, <1>2, <1>3, <1>4, <2>3, LoopOf DEF Holder
      <3> QED
        BY <1>2, <2>1, <2>3, <3>1, HolderKept
    <2> QED
      BY <2>2, <2>3
  <1>7. KickInv'
    <2>1. /\ \A e \in Conns : conn'[e].pc \notin {"local", "force", "leaving"} \/ e # c
          /\ ~Beating(c)'
      BY <1>3, <1>4 DEF Beating, On
    <2>2. \A e \in Conns \ {c} : (Beating(e)' <=> Beating(e))
      BY <1>4 DEF Beating, On
    <2>3. LeavingClosed' /\ LocalKick'
      BY <1>4, <2>1, <2>2 DEF PromptInv, KickInv, LeavingClosed, LocalKick
    <2>4. RemoteKick'
      BY <1>2, <1>4, <2>1, <2>2 DEF PromptInv, KickInv, RemoteKick
    <2>5. KickPending'
      BY <1>1, <1>2, <1>4 DEF PromptInv, KickInv, KickPending
    <2>6. TakeFree'
      BY <1>1, <1>3, <1>4 DEF TakeFree, Newcomer, Handshake
    <2> QED
      BY <2>3, <2>4, <2>5, <2>6 DEF KickInv
  <1> QED
    BY <1>5, <1>6, <1>7

LEMMA KickLookupOrderly ==
    ASSUME PromptInv, Orderly, NEW c \in Conns, KickLookup(c)
    PROVE  NewcomerInv' /\ HolderInv' /\ KickInv'
  <1>1. /\ conn[c].pc = "lookup" /\ Newcomer(c) /\ None \in Conns \cup {None}
        /\ UNCHANGED <<slot, clients, subscribed, pending, loop, newest>>
    BY DEF KickLookup, On, Newcomer, Handshake
  <1>2. PICK pc \in {"take", "local", "remote"} :
            /\ MoveTo(c, pc)
            /\ pc = IF slot = None THEN "take" ELSE IF slot = conn[c].server THEN "local" ELSE "remote"
    BY DEF KickLookup
  <1>3. Moves(conn', Closed(None), c, pc) /\ pc \in Handshake \cup {"register", "running"}
    BY <1>2 DEF MoveTo, Moves, Closed, Handshake
  <1>4. /\ NewcomerInv' /\ LeavingClosed'
        /\ conn'[c].pc = pc /\ ~Holder(c)'
        /\ \A e \in Conns : Newcomer(e)' => e = c
        /\ \A e \in Conns : conn'[e].server = conn[e].server
        /\ \A e \in Conns \ {c} : conn'[e].pc = conn[e].pc /\ (Holder(e)' <=> Holder(e))
        /\ \A e \in Conns \ {c} : Beating(e)' => Beating(e)
    BY <1>1, <1>2, <1>3, NewcomerMoves
  <1>5. HolderInv'
    <2>1. ~Holder(c)'
      BY <1>4
    <2> QED
      BY <1>1, <1>4, <2>1, HolderKept
  <1>6. LocalKick' /\ RemoteKick'
    <2> SUFFICES ASSUME NEW e \in Conns, NEW d \in Conns, Newcomer(e)', Beating(d)'
                 PROVE  /\ conn'[e].pc = "local" => conn'[d].server = conn'[e].server
                        /\ conn'[e].pc = "force" => pending'[conn'[d].server] > 0
      BY DEF LocalKick, RemoteKick, Newcomer, Handshake
    <2>1. e = c /\ d # c
      BY <1>2, <1>4 DEF Beating, On
    <2>2. Beating(d)
      BY <1>4, <2>1
    <2>3. slot = conn[d].server /\ slot # None
      BY <2>2, MapFacts, HubNoneAssumption
    <2> QED
      BY <1>2, <1>4, <2>1, <2>3
  <1>7. KickPending'
    <2>1. \A e \in Conns : conn[e].pc # "force"
      BY <1>1 DEF PromptInv, NewcomerInv, Newcomer, Handshake
    <2> QED
      BY <1>1, <2>1 DEF PromptInv, KickInv, KickPending
  <1>8. TakeFree'
    BY <1>1, <1>2, <1>4 DEF TakeFree, Newcomer, Handshake
  <1> QED
    BY <1>4, <1>5, <1>6, <1>7, <1>8 DEF KickInv

LEMMA KickLocalOrderly ==
    ASSUME PromptInv, Orderly, NEW c \in Conns, KickLocal(c)
    PROVE  NewcomerInv' /\ HolderInv' /\ KickInv'
  <1> DEFINE d == clients[conn[c].server]
  <1>1. /\ conn[c].pc = "local" /\ Newcomer(c)
        /\ UNCHANGED <<slot, clients, subscribed, pending, loop, newest>>
    BY DEF KickLocal, On, Newcomer, Handshake
  <1>2. d \in Conns \cup {None}
    <2>1. TypeOK /\ conn[c].server \in Servers
      BY <1>1, AtServer DEF PromptInv, HubInv
    <2> QED
      BY <2>1, Typed
  <1>3. Moves(conn', Closed(d), c, "force") /\ "force" \in Handshake \cup {"register", "running"}
    BY DEF KickLocal, Moves, Handshake
  <1>4. /\ NewcomerInv' /\ LeavingClosed'
        /\ conn'[c].pc = "force" /\ ~Holder(c)'
        /\ \A e \in Conns : Newcomer(e)' => e = c
        /\ \A e \in Conns : conn'[e].server = conn[e].server
        /\ \A e \in Conns \ {c} : conn'[e].pc = conn[e].pc /\ (Holder(e)' <=> Holder(e))
        /\ \A e \in Conns \ {c} : Beating(e)' => Beating(e) /\ e # d
    <2> HIDE DEF d
    <2> QED
      BY <1>1, <1>2, <1>3, NewcomerMoves
  <1>5. HolderInv'
    <2>1. ~Holder(c)'
      BY <1>4
    <2> QED
      BY <1>1, <1>4, <2>1, HolderKept
  <1>6. \A e \in Conns : ~Beating(e)'
    <2> SUFFICES ASSUME NEW e \in Conns, Beating(e)'
                 PROVE  FALSE
      OBVIOUS
    <2>1. Beating(e) /\ e # d
      BY <1>4 DEF Beating, On
    <2>2. conn[e].server = conn[c].server
      BY <1>1, <2>1 DEF PromptInv, KickInv, LocalKick
    <2> QED
      BY <2>1, <2>2, MapFacts
  <1>7. TakeFree' /\ LocalKick' /\ RemoteKick' /\ KickPending'
    BY <1>4, <1>6 DEF TakeFree, LocalKick, RemoteKick, KickPending, Newcomer, Handshake
  <1> QED
    BY <1>4, <1>5, <1>7 DEF KickInv

LEMMA KickRemoteOrderly ==
    ASSUME PromptInv, Orderly, NEW c \in Conns, KickRemote(c)
    PROVE  NewcomerInv' /\ HolderInv' /\ KickInv'
  <1>1. /\ conn[c].pc = "remote" /\ Newcomer(c) /\ None \in Conns \cup {None}
        /\ pending' = [s \in Servers |-> IF s \in subscribed THEN pending[s] + 1 ELSE pending[s]]
        /\ UNCHANGED <<slot, clients, subscribed, loop, newest>>
        /\ pending \in [Servers -> 0..MaxPending]
    BY DEF KickRemote, On, Newcomer, Handshake, PromptInv, HubInv, TypeOK, Orderly, Undisturbed
  <1>2. Moves(conn', Closed(None), c, "force") /\ "force" \in Handshake \cup {"register", "running"}
    BY DEF KickRemote, MoveTo, Moves, Closed, Handshake
  <1>3. /\ NewcomerInv' /\ LeavingClosed'
        /\ conn'[c].pc = "force" /\ ~Holder(c)'
        /\ \A e \in Conns : Newcomer(e)' => e = c
        /\ \A e \in Conns : conn'[e].server = conn[e].server
        /\ \A e \in Conns \ {c} : conn'[e].pc = conn[e].pc /\ (Holder(e)' <=> Holder(e))
        /\ \A e \in Conns \ {c} : Beating(e)' => Beating(e)
    BY <1>1, <1>2, NewcomerMoves
  <1>4. HolderInv'
    <2>1. ~Holder(c)'
      BY <1>3
    <2> QED
      BY <1>1, <1>3, <2>1, HolderKept
  <1>5. TakeFree' /\ LocalKick'
    BY <1>3 DEF TakeFree, LocalKick, Newcomer, Handshake
  <1>6. RemoteKick'
    <2> SUFFICES ASSUME NEW d \in Conns, Beating(d)'
                 PROVE  pending'[conn'[d].server] > 0
      BY DEF RemoteKick
    <2>1. Beating(d)
      BY <1>3 DEF Beating, On
    <2>2. conn[d].server \in Servers /\ conn[d].server \in subscribed
      BY <2>1, MapFacts
    <2> QED
      BY <1>1, <1>3, <2>2, HubBoundAssumption
  <1>7. KickPending'
    BY <1>3 DEF KickPending
  <1> QED
    BY <1>3, <1>4, <1>5, <1>6, <1>7 DEF KickInv

(* Once everybody who was kicked is gone nobody holds the slot, and if there was nobody to kick nobody
   holds it either. *)
LEMMA NobodyHolds ==
    ASSUME PromptInv, Orderly, NEW c \in Conns, ForceAcquire(c), NEW e \in Conns \ {c}, Holder(e)
    PROVE  FALSE
  <1>1. CASE conn[c].pc = "take"
    <2>1. conn[e].server = None /\ conn[e].pc # "none"
      BY <1>1, LoopOf DEF PromptInv, HolderInv, Holder, KickInv, TakeFree
    <2> QED
      BY <2>1, AtServer, HubNoneAssumption DEF PromptInv, HubInv
  <1>2. CASE conn[c].pc = "force"
    <2>1. KicksDone
      BY <1>2 DEF ForceAcquire, On, Orderly
    <2>2. conn[e].pc \notin {"upgrade", "register"}
      BY <1>2 DEF PromptInv, NewcomerInv, Newcomer, Handshake
    <2>3. \A s \in Servers : loop[s].pc \notin {"unsubscribe", "release"}
      BY <2>1 DEF KicksDone
    <2>4. conn[e].pc = "running" /\ conn[e].open
      BY <2>1, <2>2, <2>3 DEF KicksDone, Holder, PromptInv, KickInv, LeavingClosed
    <2>5. conn[e].server \in Servers
      BY <2>4, AtServer DEF PromptInv, HubInv
    <2>6. pending[conn[e].server] > 0
      BY <1>2, <2>4 DEF PromptInv, KickInv, RemoteKick, Beating, On
    <2> QED
      BY <2>1, <2>5, <2>6 DEF KicksDone
  <1> QED
    BY <1>1, <1>2 DEF ForceAcquire, On

LEMMA ForceAcquireOrderly ==
    ASSUME PromptInv, Orderly, NEW c \in Conns, ForceAcquire(c)
    PROVE  NewcomerInv' /\ HolderInv' /\ KickInv'
  <1>1. /\ conn[c].pc \in {"take", "force"} /\ Newcomer(c) /\ None \in Conns \cup {None}
        /\ slot' = conn[c].server
        /\ UNCHANGED <<clients, subscribed, pending, loop, newest>>
    BY DEF ForceAcquire, On, Newcomer, Handshake
  <1>2. Moves(conn', Closed(None), c, "upgrade") /\ "upgrade" \in Handshake \cup {"register", "running"}
    BY DEF ForceAcquire, MoveTo, Moves, Closed, Handshake
  <1>3. /\ NewcomerInv' /\ LeavingClosed'
        /\ conn'[c].pc = "upgrade"
        /\ \A e \in Conns : Newcomer(e)' => e = c
        /\ \A e \in Conns : conn'[e].server = conn[e].server
        /\ \A e \in Conns \ {c} : conn'[e].pc = conn[e].pc /\ (Holder(e)' <=> Holder(e))
    BY <1>1, <1>2, NewcomerMoves
  <1>4. \A e \in Conns \ {c} : ~Holder(e)
    BY NobodyHolds
  <1>5. HolderInv'
    BY <1>1, <1>3, <1>4 DEF HolderInv
  <1>6. TakeFree' /\ LocalKick' /\ RemoteKick'
    BY <1>3 DEF TakeFree, LocalKick, RemoteKick, Newcomer, Handshake
  <1>7. KickPending'
    <2>1. CASE conn[c].pc = "take"
      <3>1. \A e \in Conns : conn[e].pc # "force"
        BY <1>1, <2>1 DEF PromptInv, NewcomerInv, Newcomer, Handshake
      <3> QED
        BY <1>1, <3>1 DEF PromptInv, KickInv, KickPending
    <2>2. CASE conn[c].pc = "force"
      BY <1>1, <2>2 DEF ForceAcquire, On, Orderly, KickPending, KicksDone
    <2> QED
      BY <1>1, <2>1, <2>2
  <1> QED
    BY <1>3, <1>5, <1>6, <1>7 DEF KickInv

(* No kick is on its way when the newcomer has the slot. *)
LEMMA NoKick ==
    ASSUME PromptInv, NEW c \in Conns, conn[c].pc \in {"upgrade", "register"}
    PROVE  \A s \in Servers : ~(pending[s] > 0)
  BY DEF PromptInv, NewcomerInv, Newcomer, KickInv, KickPending, Handshake

LEMMA UpgradeOrderly ==
    ASSUME PromptInv, Orderly, NEW c \in Conns, Upgrade(c)
    PROVE  NewcomerInv' /\ HolderInv' /\ KickInv'
  <1>1. /\ conn[c].pc = "upgrade" /\ Newcomer(c) /\ None \in Conns \cup {None}
        /\ UNCHANGED <<slot, clients, subscribed, pending, loop, newest>>
    BY DEF Upgrade, On, Newcomer, Handshake
  <1>2. Moves(conn', Closed(None), c, "register") /\ "register" \in Handshake \cup {"register", "running"}
    BY DEF Upgrade, MoveTo, Moves, Closed
  <1>3. /\ NewcomerInv' /\ LeavingClosed'
        /\ conn'[c].pc = "register"
        /\ \A e \in Conns : Newcomer(e)' => e = c
        /\ \A e \in Conns : conn'[e].server = conn[e].server
        /\ \A e \in Conns \ {c} : conn'[e].pc = conn[e].pc /\ (Holder(e)' <=> Holder(e))
    BY <1>1, <1>2, NewcomerMoves
  <1>4. HolderInv'
    <2>1. Holder(c)
      BY <1>1 DEF Holder
    <2> QED
      BY <1>1, <1>3, <2>1, HolderKept
  <1>5. TakeFree' /\ LocalKick' /\ RemoteKick'
    BY <1>3 DEF TakeFree, LocalKick, RemoteKick, Newcomer, Handshake
  <1>6. KickPending'
    BY <1>1, NoKick DEF KickPending
  <1> QED
    BY <1>3, <1>4, <1>5, <1>6 DEF KickInv

LEMMA UpgradeFailsOrderly ==
    ASSUME PromptInv, Orderly, NEW c \in Conns, UpgradeFails(c)
    PROVE  NewcomerInv' /\ HolderInv' /\ KickInv'
  <1>1. /\ conn[c].pc = "upgrade" /\ Over(c) /\ TypeOK
        /\ slot' = slot \/ slot' = None
        /\ UNCHANGED <<clients, subscribed, pending, loop, newest>>
    BY DEF UpgradeFails, ReleaseWebSocket, On, PromptInv, HubInv
  <1>2. conn'[c] = NoConn /\ \A e \in Conns \ {c} : conn'[e] = conn[e]
    BY <1>1, OverValue
  <1>3. \A e \in Conns : ~Holder(e)'
    <2>1. \A e \in Conns \ {c} : ~Holder(e)
      BY <1>1 DEF PromptInv, HolderInv, Holder
    <2> QED
      BY <1>1, <1>2, <2>1, LoopOf DEF Holder, NoConn
  <1>4. HolderInv'
    BY <1>3 DEF HolderInv
  <1>5. \A s \in Servers : ~(pending'[s] > 0)
    BY <1>1, NoKick
  <1>6. NewcomerInv' /\ KickInv'
    <2>1. \A e \in Conns : Newcomer(e)' => conn'[e].pc = conn[e].pc /\ conn'[e].server = conn[e].server
      BY <1>2 DEF Newcomer, NoConn, Handshake
    <2>2. \A e \in Conns : conn'[e].pc = "leaving" => ~conn'[e].open
      BY <1>2 DEF NoConn, PromptInv, KickInv, LeavingClosed
    <2>3. \A e \in Conns : Beating(e)' => Beating(e) /\ conn'[e].server = conn[e].server
      BY <1>2 DEF NoConn, Beating, On
    <2>4. \A e \in Conns : conn[e].pc = "force" => conn'[e].pc = "force"
      BY <1>1, <1>2
    <2> QED
      BY <1>1, <2>1, <2>2, <2>3, <2>4, KicksKept
  <1> QED
    BY <1>4, <1>6

LEMMA HandleRegisterOrderly ==
    ASSUME PromptInv, Orderly, NEW s \in Servers, NEW c \in Conns, HandleRegister(s, c)
    PROVE  NewcomerInv' /\ HolderInv' /\ KickInv'
  <1> DEFINE d == clients[s]
  <1>1. /\ conn[c].pc = "register" /\ Newcomer(c)
        /\ UNCHANGED <<slot, pending, loop, newest>>
    BY DEF HandleRegister, On, Newcomer
  <1>2. d \in Conns \cup {None}
    BY Typed DEF PromptInv, HubInv
  <1>3. Moves(conn', Closed(d), c, "running") /\ "running" \in Handshake \cup {"register", "running"}
    BY DEF HandleRegister, Moves
  <1>4. /\ NewcomerInv' /\ LeavingClosed'
        /\ conn'[c].pc = "running"
        /\ \A e \in Conns : Newcomer(e)' => e = c
        /\ \A e \in Conns : conn'[e].server = conn[e].server
        /\ \A e \in Conns \ {c} : conn'[e].pc = conn[e].pc /\ (Holder(e)' <=> Holder(e))
    <2> HIDE DEF d
    <2> QED
      BY <1>1, <1>2, <1>3, NewcomerMoves
  <1>5. HolderInv'
    <2>1. Holder(c)
      BY <1>1 DEF Holder
    <2> QED
      BY <1>1, <1>4, <2>1, HolderKept
  <1>6. TakeFree' /\ LocalKick' /\ RemoteKick'
    BY <1>4 DEF TakeFree, LocalKick, RemoteKick, Newcomer, Handshake
  <1>7. KickPending'
    BY <1>1, NoKick DEF KickPending
  <1> QED
    BY <1>4, <1>5, <1>6, <1>7 DEF KickInv

-----------------------------------------------------------------------------
(* Connections that are closed or leave, and slots that expire. *)

LEMMA ReadPumpEndsOrderly ==
    ASSUME PromptInv, NEW c \in Conns, ReadPumpEnds(c)
    PROVE  NewcomerInv' /\ HolderInv' /\ KickInv'
  <1> DEFINE r == conn[c]
             left == [r EXCEPT !.pc = "leaving", !.open = FALSE]
  <1>1. conn \in [Conns -> Connection \cup {NoConn}] /\ r.pc = "running"
    BY DEF PromptInv, HubInv, TypeOK, Connection, ReadPumpEnds, On
  <1>2. left.pc = "leaving" /\ left.server = r.server /\ ~left.open
    <2>1. r \in Connection
      BY <1>1 DEF NoConn
    <2> QED
      BY <2>1 DEF Connection
  <1>3. conn' = [conn EXCEPT ![c] = left] /\ UNCHANGED <<slot, clients, subscribed, pending, loop, newest>>
    BY DEF ReadPumpEnds
  <1> HIDE DEF left
  <1>4. conn'[c] = left /\ \A e \in Conns \ {c} : conn'[e] = conn[e]
    BY <1>1, <1>3
  <1>5. HolderInv'
    <2>1. \A e \in Conns : Holder(e)' => Holder(e) /\ conn'[e].server = conn[e].server
      BY <1>1, <1>2, <1>3, <1>4 DEF Holder
    <2> QED
      BY <1>3, <2>1, HolderKept
  <1>6. NewcomerInv' /\ KickInv'
    <2>1. \A e \in Conns : Newcomer(e)' => conn'[e].pc = conn[e].pc /\ conn'[e].server = conn[e].server
      BY <1>2, <1>4 DEF Newcomer, Handshake
    <2>2. \A e \in Conns : conn'[e].pc = "leaving" => ~conn'[e].open
      BY <1>2, <1>4 DEF PromptInv, KickInv, LeavingClosed
    <2>3. \A e \in Conns : Beating(e)' => Beating(e) /\ conn'[e].server = conn[e].server
      BY <1>2, <1>4 DEF Beating, On
    <2>4. \A e \in Conns : conn[e].pc = "force" => conn'[e].pc = "force"
      BY <1>1, <1>4
    <2> QED
      BY <1>3, <2>1, <2>2, <2>3, <2>4, KicksKept
  <1> QED
    BY <1>5, <1>6

(* The message of the kick that is on its way closes the client of the server that gets it. *)
LEMMA HandleDisconnectMessageOrderly ==
    ASSUME PromptInv, Orderly, NEW s \in Servers, HandleDisconnectMessage(s)
    PROVE  NewcomerInv' /\ HolderInv' /\ KickInv'
  <1>1. TypeOK /\ pending \in [Servers -> 0..MaxPending]
    BY DEF PromptInv, HubInv, TypeOK
  <1>2. UNCHANGED <<slot, clients, subscribed, loop, newest>> /\ pending' = [pending EXCEPT ![s] = @ - 1]
    BY DEF HandleDisconnectMessage
  <1>3. PICK d \in Conns \cup {None} : conn' = Closed(d) /\ (s \in subscribed => d = clients[s])
    <2>1. clients[s] \in Conns \cup {None}
      BY <1>1, Typed
    <2> QED
      BY <2>1 DEF HandleDisconnectMessage, Closed
  <1>4. /\ \A e \in Conns : conn'[e].server = conn[e].server /\ conn'[e].pc = conn[e].pc
        /\ \A e \in Conns : conn'[e].open => conn[e].open /\ e # d
    BY <1>1, <1>3, ClosedValue
  <1>5. HolderInv'
    <2>1. \A e \in Conns : Holder(e)' => Holder(e)
      BY <1>2, <1>4 DEF Holder
    <2> QED
      BY <1>2, <1>4, <2>1, HolderKept
  <1>6. NewcomerInv' /\ KickInv'
    <2>1. \A e \in Conns : conn'[e].pc = "leaving" => ~conn'[e].open
      BY <1>4 DEF PromptInv, KickInv, LeavingClosed
    <2>2. ASSUME NEW e \in Conns, Beating(e)'
          PROVE  Beating(e) /\ conn[e].server # s
      <3>1. Beating(e) /\ e # d
        BY <1>4, <2>2 DEF Beating, On
      <3> QED
        BY <1>3, <3>1, MapFacts
    <2>3. \A e \in Conns : Beating(e)' =>
            /\ Beating(e) /\ conn'[e].server = conn[e].server
            /\ pending[conn[e].server] > 0 => pending'[conn[e].server] > 0
      BY <1>1, <1>2, <1>4, <2>2, MapFacts
    <2>4. \A t \in Servers : pending'[t] > 0 => pending[t] > 0
      BY <1>1, <1>2
    <2> QED
      BY <1>2, <1>4, <2>1, <2>3, <2>4, KicksKept
  <1> QED
    BY <1>5, <1>6

LEMMA SlotExpiresOrderly ==
    ASSUME PromptInv, Orderly, SlotExpires
    PROVE  NewcomerInv' /\ HolderInv' /\ KickInv'
  <1>1. UNCHANGED <<conn, clients, subscribed, pending, loop, newest>> /\ \A c \in Conns : ~Holding(c)
    BY DEF SlotExpires, Orderly, Undisturbed
  <1>2. HolderInv'
    <2>1. \A c \in Conns : ~Holder(c)
      BY <1>1, LoopOf DEF Holder, Holding
    <2>2. \A c \in Conns : ~Holder(c)'
      BY <1>1, <2>1 DEF Holder
    <2> QED
      BY <2>2 DEF HolderInv
  <1>3. NewcomerInv' /\ KickInv'
    BY <1>1 DEF SlotExpires, PromptInv, NewcomerInv, Newcomer, KickInv, LeavingClosed, TakeFree, LocalKick,
                RemoteKick, KickPending, Beating, On
  <1> QED
    BY <1>2, <1>3

-----------------------------------------------------------------------------
(* The hub's loop. *)

(* A step of a loop that is about no open connection and no newcomer. *)
LEMMA LoopKeepsKicks ==
    ASSUME PromptInv, NEW c \in Conns, conn[c].pc \in {"leaving", "unregister"},
           conn'[c].pc \in {"unregister", "none"}, UNCHANGED <<slot, pending, newest>>,
           \A e \in Conns \ {c} : conn'[e] = conn[e]
    PROVE  NewcomerInv' /\ KickInv'
  <1>1. \A e \in Conns : Newcomer(e)' => conn'[e].pc = conn[e].pc /\ conn'[e].server = conn[e].server
    BY DEF Newcomer, Handshake
  <1>2. \A e \in Conns : conn'[e].pc = "leaving" => ~conn'[e].open
    BY DEF PromptInv, KickInv, LeavingClosed
  <1>3. \A e \in Conns : Beating(e)' => Beating(e) /\ conn'[e].server = conn[e].server
    BY DEF Beating, On
  <1> QED
    BY <1>1, <1>2, <1>3, KicksKept

LEMMA HandleUnregisterOrderly ==
    ASSUME PromptInv, NEW s \in Servers, NEW c \in Conns, HandleUnregister(s, c)
    PROVE  NewcomerInv' /\ HolderInv' /\ KickInv'
  <1>1. /\ TypeOK /\ loop[s].pc = "wait" /\ conn[c].pc = "leaving" /\ conn[c].server = s
        /\ UNCHANGED <<slot, subscribed, pending, newest>>
    BY DEF PromptInv, HubInv, HandleUnregister, On, Waiting
  <1>2. CASE clients[s] # c
    <2>1. Over(c) /\ UNCHANGED loop
      BY <1>2 DEF HandleUnregister
    <2>2. conn'[c] = NoConn /\ \A e \in Conns \ {c} : conn'[e] = conn[e]
      BY <1>1, <2>1, OverValue
    <2>3. \A e \in Conns : Holder(e)' => Holder(e) /\ conn'[e].server = conn[e].server
      BY <1>1, <2>1, <2>2, LoopOf DEF Holder, NoConn
    <2>4. HolderInv'
      BY <1>1, <2>3, HolderKept
    <2>5. conn'[c].pc = "none"
      BY <2>2 DEF NoConn
    <2> QED
      BY <1>1, <2>2, <2>4, <2>5, LoopKeepsKicks
  <1>3. CASE clients[s] = c
    <2> DEFINE mine == [conn |-> c, pc |-> "unsubscribe"]
    <2>1. Moves(conn', Closed(None), c, "unregister") /\ loop' = [loop EXCEPT ![s] = mine]
      BY <1>3 DEF HandleUnregister, MoveTo, Moves, Closed
    <2>0. mine.conn = c
      OBVIOUS
    <2> HIDE DEF mine
    <2>2. conn'[c].pc = "unregister" /\ \A e \in Conns : conn'[e].server = conn[e].server
      <3>1. conn[c].pc # "none" /\ "unregister" \in Progress \ {"none"} /\ None \in Conns \cup {None}
        BY <1>1 DEF Progress
      <3> QED
        BY <1>1, <2>1, <3>1, MoveToValue
    <2>3. \A e \in Conns \ {c} : conn'[e] = conn[e]
      BY <1>1, <2>1, Typed DEF Moves, Closed
    <2>4. loop'[s].conn = c /\ \A t \in Servers \ {s} : loop'[t] = loop[t]
      BY <1>1, <2>0, <2>1, Typed
    <2>5. \A e \in Conns : Holder(e)' => Holder(e)
      BY <1>1, <2>2, <2>3, <2>4 DEF Holder
    <2>6. HolderInv'
      BY <1>1, <2>2, <2>5, HolderKept
    <2> QED
      BY <1>1, <2>2, <2>3, <2>6, LoopKeepsKicks
  <1> QED
    BY <1>2, <1>3

LEMMA UnsubscribeOrderly ==
    ASSUME PromptInv, Orderly, NEW s \in Servers, Unsubscribe(s)
    PROVE  NewcomerInv' /\ HolderInv' /\ KickInv'
  <1>1. /\ TypeOK /\ loop[s].pc = "unsubscribe"
        /\ UNCHANGED <<slot, conn, clients, newest>>
        /\ pending' \in {pending, [pending EXCEPT ![s] = 0]} /\ pending \in [Servers -> 0..MaxPending]
    BY DEF PromptInv, HubInv, TypeOK, Unsubscribe, LoopAt
  <1> DEFINE j == loop[s]
             next == [j EXCEPT !.pc = "release"]
  <1>2. loop' = [loop EXCEPT ![s] = next] /\ next.conn = loop[s].conn
    <2>1. j \in Unregistering
      BY <1>1, LoopFacts DEF PromptInv
    <2> QED
      BY <2>1 DEF Unsubscribe, LoopTo, Unregistering
  <1> HIDE DEF next
  <1>3. loop'[s].conn = loop[s].conn /\ \A t \in Servers \ {s} : loop'[t] = loop[t]
    BY <1>1, <1>2, Typed
  <1>4. \A e \in Conns : Holder(e)' => Holder(e)
    BY <1>1, <1>3 DEF Holder
  <1>5. HolderInv'
    BY <1>1, <1>4, HolderKept
  <1>6. NewcomerInv' /\ KickInv'
    <2>1. \A e \in Conns : Beating(e)' =>
            /\ Beating(e)
            /\ pending[conn[e].server] > 0 => pending'[conn[e].server] > 0
      <3> SUFFICES ASSUME NEW e \in Conns, Beating(e)'
                   PROVE  Beating(e) /\ pending'[conn[e].server] = pending[conn[e].server]
        OBVIOUS
      <3>1. Beating(e)
        BY <1>1 DEF Beating, On
      <3>2. conn[e].server # s /\ conn[e].server \in Servers
        BY <1>1, <3>1, MapFacts
      <3> QED
        BY <1>1, <3>1, <3>2
    <2>2. \A t \in Servers : pending'[t] > 0 => pending[t] > 0
      BY <1>1
    <2>3. \A e \in Conns : conn'[e].pc = "leaving" => ~conn'[e].open
      BY <1>1 DEF PromptInv, KickInv, LeavingClosed
    <2> QED
      BY <1>1, <2>1, <2>2, <2>3, KicksKept
  <1> QED
    BY <1>5, <1>6

(* The only holder gives the slot up. *)
LEMMA ReleaseSlotOrderly ==
    ASSUME PromptInv, Orderly, NEW s \in Servers, ReleaseSlot(s)
    PROVE  NewcomerInv' /\ HolderInv' /\ KickInv'
  <1>1. TypeOK /\ loop[s].pc = "release" /\ UNCHANGED <<conn, clients, subscribed, pending, newest>>
    BY DEF PromptInv, HubInv, ReleaseSlot, LoopAt
  <1> DEFINE j == loop[s]
             next == [j EXCEPT !.pc = "disconnect"]
  <1>2. loop' = [loop EXCEPT ![s] = next] /\ next.pc = "disconnect"
    <2>1. j \in Unregistering
      BY <1>1, LoopFacts DEF PromptInv
    <2> QED
      BY <2>1 DEF ReleaseSlot, LoopTo, Unregistering
  <1> HIDE DEF next
  <1>3. loop'[s].pc = "disconnect" /\ \A t \in Servers \ {s} : loop'[t] = loop[t]
    BY <1>1, <1>2, Typed
  <1>4. PICK c \in Conns : c = loop[s].conn
    BY <1>1, LoopFacts DEF PromptInv
  <1>5. \A e \in Conns \ {c} : ~Holder(e)
    BY <1>1, <1>4 DEF PromptInv, HolderInv, Holder
  <1>6. conn[c].pc = "unregister" /\ \A t \in Servers \ {s} : loop[t].conn # c
    BY <1>4, LoopOf
  <1>7. \A e \in Conns : ~Holder(e)'
    BY <1>1, <1>3, <1>5, <1>6 DEF Holder
  <1>8. HolderInv'
    BY <1>7 DEF HolderInv
  <1>9. NewcomerInv' /\ KickInv'
    BY <1>1 DEF ReleaseSlot, ReleaseWebSocket, PromptInv, NewcomerInv, Newcomer, KickInv, LeavingClosed, TakeFree,
                LocalKick, RemoteKick, KickPending, Beating, On
  <1> QED
    BY <1>8, <1>9

LEMMA UnregisterDoneOrderly ==
    ASSUME PromptInv, NEW s \in Servers, UnregisterDone(s)
    PROVE  NewcomerInv' /\ HolderInv' /\ KickInv'
  <1>1. /\ TypeOK /\ loop[s].pc = "disconnect" /\ loop' = [loop EXCEPT ![s] = Waiting]
        /\ UNCHANGED <<slot, clients, subscribed, pending, newest>>
    BY DEF PromptInv, HubInv, UnregisterDone, LoopAt
  <1>2. PICK c \in Conns : c = loop[s].conn /\ conn[c].pc = "unregister"
    BY <1>1, LoopFacts DEF PromptInv
  <1>3. Over(c)
    BY <1>2 DEF UnregisterDone
  <1>4. conn'[c] = NoConn /\ \A e \in Conns \ {c} : conn'[e] = conn[e]
    BY <1>1, <1>3, OverValue
  <1>5. loop'[s].pc = "wait" /\ \A t \in Servers \ {s} : loop'[t] = loop[t] /\ loop[t].conn # c
    BY <1>1, <1>2, Typed, LoopOf DEF Waiting
  <1>6. \A e \in Conns : Holder(e)' => Holder(e) /\ conn'[e].server = conn[e].server
    BY <1>4, <1>5 DEF Holder, NoConn
  <1>7. HolderInv'
    BY <1>1, <1>6, HolderKept
  <1>8. conn'[c].pc = "none"
    BY <1>4 DEF NoConn
  <1> QED
    BY <1>1, <1>2, <1>4, <1>7, <1>8, LoopKeepsKicks

-----------------------------------------------------------------------------
LEMMA PromptInvNext ==
    ASSUME PromptInv, Orderly, [Next]_vars
    PROVE  PromptInv'
  <1>1. HubInv'
    BY HubInvNext DEF PromptInv
  <1> SUFFICES NewcomerInv' /\ HolderInv' /\ KickInv'
    BY <1>1 DEF PromptInv
  <1>2. ASSUME NEW c \in Conns, NEW s \in Servers, Connect(c, s)
        PROVE  NewcomerInv' /\ HolderInv' /\ KickInv'
    BY <1>2, ConnectOrderly
  <1>3. ASSUME NEW c \in Conns, Request(c) \/ ReadPumpEnds(c)
        PROVE  NewcomerInv' /\ HolderInv' /\ KickInv'
    BY <1>3, KickLookupOrderly, KickLocalOrderly, KickRemoteOrderly, ForceAcquireOrderly, UpgradeOrderly,
       UpgradeFailsOrderly, ReadPumpEndsOrderly DEF Request
  <1>4. ASSUME NEW s \in Servers, Loop(s) \/ HandleDisconnectMessage(s)
        PROVE  NewcomerInv' /\ HolderInv' /\ KickInv'
    BY <1>4, HandleRegisterOrderly, HandleUnregisterOrderly, UnsubscribeOrderly, ReleaseSlotOrderly,
       UnregisterDoneOrderly, HandleDisconnectMessageOrderly DEF Loop
  <1>5. CASE Next
    <2>1. \/ \E c \in Conns, s \in Servers : Connect(c, s)
          \/ \E c \in Conns : Request(c) \/ RequestFails(c) \/ ReadPumpEnds(c)
          \/ \E s \in Servers : Loop(s) \/ HandleDisconnectMessage(s) \/ Crash(s)
          \/ SlotExpires
      BY <1>5 DEF Next
    <2>2. CASE \E c \in Conns : Request(c) \/ RequestFails(c) \/ ReadPumpEnds(c)
      <3>1. PICK c \in Conns : Request(c) \/ RequestFails(c) \/ ReadPumpEnds(c)
        BY <2>2
      <3>2. ~RequestFails(c)
        BY DEF RequestFails, Orderly, Undisturbed
      <3> QED
        BY <1>3, <3>1, <3>2, Zenon
    <2>3. CASE \E s \in Servers : Loop(s) \/ HandleDisconnectMessage(s) \/ Crash(s)
      <3>1. PICK s \in Servers : Loop(s) \/ HandleDisconnectMessage(s) \/ Crash(s)
        BY <2>3
      <3>2. ~Crash(s)
        BY DEF Crash, Orderly, Undisturbed
      <3> QED
        BY <1>4, <3>1, <3>2, Zenon
    <2> QED
      BY <1>2, <2>1, <2>2, <2>3, SlotExpiresOrderly, Zenon
  <1>6. CASE UNCHANGED vars
    <2>1. UNCHANGED <<slot, conn, pending, loop, newest>>
      BY <1>6 DEF vars
    <2>2. \A c \in Conns : /\ (Holder(c)' <=> Holder(c)) /\ (Newcomer(c)' <=> Newcomer(c))
                           /\ (Beating(c)' <=> Beating(c))
      BY <2>1 DEF Holder, Newcomer, Beating, On
    <2>3. HolderInv'
      BY <2>1, <2>2, HolderKept
    <2>4. NewcomerInv' /\ KickInv'
      BY <2>1, <2>2, KicksKept DEF PromptInv, KickInv, LeavingClosed
    <2> QED
      BY <2>3, <2>4
  <1> QED
    BY <1>5, <1>6

(* PromptInv holds in every state if handshakes do not overlap, nothing fails, and the pause after a
   kick is long enough. *)
THEOREM PromptInvariance ==
    ASSUME Orderly
    PROVE  Spec => []PromptInv
  <1>1. Init => PromptInv
    <2> SUFFICES ASSUME Init
                 PROVE  PromptInv
      OBVIOUS
    <2>1. \A c \in Conns : ~Newcomer(c) /\ ~Holder(c) /\ conn[c].pc = "none"
      BY HubNoneAssumption DEF Init, NoConn, Newcomer, Holder, Handshake, Waiting
    <2>2. \A s \in Servers : ~(pending[s] > 0)
      BY DEF Init
    <2> QED
      BY <2>1, <2>2, HubInvInit DEF PromptInv, NewcomerInv, HolderInv, KickInv, LeavingClosed, LocalKick,
                                    TakeFree, RemoteKick, KickPending
  <1>2. PromptInv /\ [Next]_vars => PromptInv'
    BY PromptInvNext
  <1> QED
    BY <1>1, <1>2, PTL DEF Spec

(* The slot names the server of every connection that is open: a user who is connected counts as
   online, and there where the connection is (handler.go:294-320, 397). *)
THEOREM OnlineAlways ==
    ASSUME Orderly
    PROVE  Spec => []OnlineWhenConnected
  <1>1. PromptInv => OnlineWhenConnected
    BY MapFacts DEF OnlineWhenConnected
  <1> QED
    BY <1>1, PromptInvariance, PTL

(* At most one connection of the user is open, at any time. *)
THEOREM OneConnection ==
    ASSUME Orderly
    PROVE  Spec => []SingleConnection
  <1>1. PromptInv => SingleConnection
    BY MapFacts DEF SingleConnection, PromptInv, HolderInv
  <1> QED
    BY <1>1, PromptInvariance, PTL

(* Who closes a connection is a newer one (handler.go:222-229, 380-393). *)
LEMMA NewestStays ==
    ASSUME PromptInv, Orderly, [Next]_vars, NEW c \in Conns, Beating(c), ~conn'[c].open, conn'[c].pc = "running"
    PROVE  c # newest
  <1> SUFFICES ASSUME newest = c
               PROVE  FALSE
    OBVIOUS
  <1>1. TypeOK /\ conn[c].pc = "running" /\ conn[c].open /\ \A e \in Conns : ~Newcomer(e)
    BY DEF PromptInv, HubInv, NewcomerInv, Newcomer, Handshake, Beating, On
  <1>2. \A e \in Conns : ~Request(e) /\ ~RequestFails(e) /\ (\A s \in Servers : ~HandleRegister(s, e))
    BY <1>1 DEF Request, KickLookup, KickLocal, KickRemote, ForceAcquire, Upgrade, UpgradeFails, RequestFails,
                HandleRegister, On, Newcomer, Handshake
  <1>3. \A s \in Servers : ~HandleDisconnectMessage(s)
    BY <1>1 DEF HandleDisconnectMessage, PromptInv, KickInv, KickPending, Newcomer, Handshake
  <1>4. ASSUME NEW e \in Conns, NEW s \in Servers, Connect(e, s)
        PROVE  FALSE
    <2>1. e # c /\ conn'[c] = conn[c]
      BY <1>1, <1>4 DEF Connect, On, TypeOK
    <2> QED
      BY <1>1, <2>1
  <1>5. ASSUME NEW e \in Conns, ReadPumpEnds(e)
        PROVE  FALSE
    <2>1. CASE e = c
      <3> DEFINE r == conn[c]
                 left == [r EXCEPT !.pc = "leaving", !.open = FALSE]
      <3>1. conn' = [conn EXCEPT ![c] = left] /\ c \in DOMAIN conn
        BY <1>1, <1>5, <2>1 DEF ReadPumpEnds, TypeOK
      <3>2. left.pc = "leaving"
        <4>1. r \in Connection
          BY <1>1, Typed DEF NoConn
        <4> QED
          BY <4>1 DEF Connection
      <3> HIDE DEF left
      <3> QED
        BY <3>1, <3>2
    <2>2. CASE e # c
      <3>1. conn'[c] = conn[c]
        BY <1>1, <1>5, <2>2 DEF ReadPumpEnds, TypeOK
      <3> QED
        BY <1>1, <3>1
    <2> QED
      BY <2>1, <2>2
  <1>6. ASSUME NEW s \in Servers, NEW e \in Conns, HandleUnregister(s, e)
        PROVE  FALSE
    <2>1. e # c /\ conn'[c] = conn[c]
      BY <1>1, <1>6 DEF HandleUnregister, On, Over, MoveTo, TypeOK
    <2> QED
      BY <1>1, <2>1
  <1>7. ASSUME NEW s \in Servers, UnregisterDone(s)
        PROVE  FALSE
    <2>1. PICK e \in Conns : e = loop[s].conn /\ conn[e].pc = "unregister"
      BY <1>7, LoopFacts DEF UnregisterDone, LoopAt, PromptInv
    <2>2. Over(e)
      BY <1>7, <2>1 DEF UnregisterDone
    <2>3. conn'[c] = conn[c]
      BY <1>1, <2>1, <2>2, OverValue
    <2> QED
      BY <1>1, <2>3
  <1>8. ASSUME NEW s \in Servers, Unsubscribe(s) \/ ReleaseSlot(s)
        PROVE  FALSE
    BY <1>1, <1>8 DEF Unsubscribe, ReleaseSlot
  <1>9. \A s \in Servers : ~Crash(s)
    BY DEF Crash, Orderly, Undisturbed
  <1>10. ~SlotExpires /\ ~UNCHANGED vars
    BY <1>1 DEF SlotExpires, vars
  <1> QED
    <2>1. Next
      BY <1>10
    <2>2. \A s \in Servers : ~Loop(s)
      BY <1>2, <1>6, <1>7, <1>8 DEF Loop
    <2> QED
      BY <1>2, <1>3, <1>4, <1>5, <1>9, <1>10, <2>1, <2>2 DEF Next

(* A kick never reaches the connection it was sent for: only for a newer one is a connection closed
   by the server (handler.go:222-229, 380-393). *)
THEOREM NewestSurvivesAlways ==
    ASSUME Orderly
    PROVE  Spec => NewestSurvives
  <1>1. PromptInv /\ [Next]_vars =>
            [\A c \in Conns : Beating(c) /\ ~conn'[c].open /\ conn'[c].pc = "running" => c # newest]_vars
    BY NewestStays
  <1> QED
    BY <1>1, PromptInvariance, PTL DEF Spec, NewestSurvives

(* An unregistration deletes no slot that a newer connection took: then nobody is left to unregister
   (session.go:91-95). *)
THEOREM StaleUnregisterAlways ==
    ASSUME Orderly
    PROVE  Spec => StaleUnregisterKeepsSlot
  <1>1. ASSUME PromptInv, NEW s \in Servers, LoopAt(s, "release"),
               NEW c \in Conns, conn[c].pc \in {"upgrade", "register"}
        PROVE  FALSE
    <2>1. PICK d \in Conns : d = loop[s].conn /\ conn[d].pc = "unregister"
      BY <1>1, LoopFacts DEF PromptInv, LoopAt
    <2>2. Holder(d) /\ Holder(c) /\ d # c
      BY <1>1, <2>1 DEF Holder, LoopAt
    <2> QED
      BY <1>1, <2>2 DEF PromptInv, HolderInv
  <1>2. PromptInv =>
            [\A s \in Servers : LoopAt(s, "release") /\ ~LoopAt(s, "release")' /\ slot = s /\ slot' = None =>
                ~ \E c \in Conns : conn[c].server = s /\ conn[c].pc \in {"upgrade", "register"}]_vars
    BY <1>1
  <1> QED
    BY <1>2, PromptInvariance, PTL DEF StaleUnregisterKeepsSlot
=============================================================================
