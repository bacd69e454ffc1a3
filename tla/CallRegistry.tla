---------------------------- MODULE CallRegistry ----------------------------
(***************************************************************************)
(* What the session store promises to the call logic, without Redis        *)
(* commands, goroutines or messages: a call claims its two parties at      *)
(* once, its phase only moves forward, a party is never handed from one    *)
(* call straight to another, and the claim on a party of a call that still *)
(* exists can be lost only by a user who also was in a call that is gone.  *)
(*                                                                         *)
(* The last clause is as strong as the code allows: a cleanup of an old    *)
(* call may hit the claim of a newer one (see CallSessions).               *)
(***************************************************************************)
EXTENDS FiniteSets

CONSTANTS
    Users,      \* user identifiers
    Sessions,   \* session identifiers
    None        \* no user, no session

VARIABLES
    phase,      \* phase[s]: how far call s has come
    pair,       \* pair[s]: the two users of call s, {} before it exists
    owner       \* owner[u]: the call that claims user u, or None

vars == <<phase, pair, owner>>

Live == {"ringing", "accepted", "rejected", "ended"}
Phases == {"unborn", "gone"} \cup Live

TypeOK ==
    /\ phase \in [Sessions -> Phases]
    /\ pair \in [Sessions -> SUBSET Users]
    /\ owner \in [Users -> Sessions \cup {None}]

Init ==
    /\ phase = [s \in Sessions |-> "unborn"]
    /\ pair = [s \in Sessions |-> {}]
    /\ owner = [u \in Users |-> None]

-----------------------------------------------------------------------------
(* A new call takes two users that no call claims. *)
Claim(s, a, b) ==
    /\ phase[s] = "unborn"
    /\ a # b
    /\ owner[a] = None /\ owner[b] = None
    /\ phase' = [phase EXCEPT ![s] = "ringing"]
    /\ pair' = [pair EXCEPT ![s] = {a, b}]
    /\ owner' = [owner EXCEPT ![a] = s, ![b] = s]

(* A call moves to a later phase. *)
Advance(s, from, to) ==
    /\ phase[s] = from
    /\ phase' = [phase EXCEPT ![s] = to]
    /\ UNCHANGED <<pair, owner>>

Answer(s) == Advance(s, "ringing", "accepted")
Refuse(s) == Advance(s, "ringing", "rejected")
Finish(s) == \E from \in {"ringing", "accepted", "rejected"} : Advance(s, from, "ended")

(* A call is removed: with it either both claims of its parties go (a cleanup) or none (expiry). *)
Remove(s) ==
    /\ phase[s] \in Live
    /\ phase' = [phase EXCEPT ![s] = "gone"]
    /\ owner' \in {owner, [u \in Users |-> IF u \in pair[s] THEN None ELSE owner[u]]}
    /\ UNCHANGED pair

(* Users who were in a call that is gone are set free. *)
Free(s, U) ==
    /\ phase[s] = "gone"
    /\ U \subseteq pair[s]
    /\ owner' = [u \in Users |-> IF u \in U THEN None ELSE owner[u]]
    /\ UNCHANGED <<phase, pair>>

Next ==
    \E s \in Sessions :
        \/ \E a, b \in Users : Claim(s, a, b)
        \/ Answer(s)
        \/ Refuse(s)
        \/ Finish(s)
        \/ Remove(s)
        \/ \E U \in SUBSET pair[s] : Free(s, U)

Spec == Init /\ [][Next]_vars
=============================================================================
