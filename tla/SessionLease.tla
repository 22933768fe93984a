---------------------------- MODULE SessionLease ----------------------------
(***************************************************************************)
(* What the session manager promises about the broker's ports, without     *)
(* saying how: a session is granted one port, keeps it while it is being   *)
(* set up, while it is live and while it is being closed, and gives it     *)
(* back exactly once; no port is ever granted to two sessions at a time,   *)
(* and a session that is over never comes back.                            *)
(***************************************************************************)
CONSTANTS Sessions, \* the CreateSession requests the broker ever sees
          Ports     \* the external ports it may hand out

VARIABLES phase,    \* phase[s]: how far session s has come
          lease     \* the set of <<port, session>> pairs granted and not returned

vars == <<phase, lease>>

Phases == {"new", "leased", "live", "closing", "over"}

Init ==
    /\ phase = [s \in Sessions |-> "new"]
    /\ lease = {}

(* A request is turned away before it was given a port. *)
Refuse(s) ==
    /\ phase[s] = "new"
    /\ phase' = [phase EXCEPT ![s] = "over"]
    /\ UNCHANGED lease

(* A request is given a port nobody holds. *)
Grant(s, p) ==
    /\ phase[s] = "new"
    /\ \A t \in Sessions : <<p, t>> \notin lease
    /\ phase' = [phase EXCEPT ![s] = "leased"]
    /\ lease' = lease \cup {<<p, s>>}

Open(s) ==
    /\ phase[s] = "leased"
    /\ phase' = [phase EXCEPT ![s] = "live"]
    /\ UNCHANGED lease

Close(s) ==
    /\ phase[s] = "live"
    /\ phase' = [phase EXCEPT ![s] = "closing"]
    /\ UNCHANGED lease

(* Setting up failed, or closing reached its end: the port goes back. *)
Return(s, p) ==
    /\ phase[s] \in {"leased", "closing"}
    /\ <<p, s>> \in lease
    /\ phase' = [phase EXCEPT ![s] = "over"]
    /\ lease' = lease \ {<<p, s>>}

Next ==
    \E s \in Sessions :
        \/ Refuse(s)
        \/ Open(s)
        \/ Close(s)
        \/ \E p \in Ports : Grant(s, p) \/ Return(s, p)

Spec == Init /\ [][Next]_vars

-----------------------------------------------------------------------------
TypeOK ==
    /\ phase \in [Sessions -> Phases]
    /\ lease \subseteq Ports \X Sessions

(***************************************************************************)
(* Exclusive: a port is held by at most one session, and a session holds   *)
(* exactly one port from its grant to its return and none before or after. *)
(***************************************************************************)
Exclusive ==
    /\ \A a, b \in lease : a[1] = b[1] <=> a[2] = b[2]
    /\ \A s \in Sessions :
          phase[s] \in {"leased", "live", "closing"} <=> \E p \in Ports : <<p, s>> \in lease
=============================================================================
