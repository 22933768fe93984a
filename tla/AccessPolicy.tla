---------------------------- MODULE AccessPolicy ----------------------------
(***************************************************************************)
(* What the broker promises about access, without saying how: a request    *)
(* becomes a session only on a grant it found in force, and a revocation   *)
(* that has returned has left no session of a grant made before it, but    *)
(* for requests that were being answered when it looked. There is one name *)
(* for each access here, one step for each decision, and no manager.       *)
(***************************************************************************)
EXTENDS Naturals

CONSTANTS Requests, Revocations,
          Accesses,   \* what may be granted: a user on a host
          Asked,      \* the access each request asks for
          Taken       \* the access each revocation takes away

VARIABLES grant,    \* the grant in force of each access, 0 for none
          granted,  \* grants made so far
          session,  \* how far each request has come
          basis,    \* the grant it rests on, while it is pending or live
          call,     \* where each revocation is
          upTo,     \* the last grant made before it
          excused   \* requests that were pending when it looked

vars == <<grant, granted, session, basis, call, upTo, excused>>

Init ==
    /\ grant = [a \in Accesses |-> 0]
    /\ granted = 0
    /\ session = [r \in Requests |-> "none"]
    /\ basis = [r \in Requests |-> 0]
    /\ call = [v \in Revocations |-> "none"]
    /\ upTo = [v \in Revocations |-> 0]
    /\ excused = [v \in Revocations |-> {}]

(* Access is granted, in place of an earlier grant if there is one. *)
Give(a) ==
    /\ granted' = granted + 1
    /\ grant' = [grant EXCEPT ![a] = granted + 1]
    /\ UNCHANGED <<session, basis, call, upTo, excused>>

(* A request finds a grant in force ... *)
Admit(r) ==
    /\ session[r] = "none"
    /\ grant[Asked[r]] # 0
    /\ session' = [session EXCEPT ![r] = "pending"]
    /\ basis' = [basis EXCEPT ![r] = grant[Asked[r]]]
    /\ UNCHANGED <<grant, granted, call, upTo, excused>>

(* ... and becomes a session, whatever has happened to the grant. *)
Open(r) ==
    /\ session[r] = "pending"
    /\ session' = [session EXCEPT ![r] = "live"]
    /\ UNCHANGED <<grant, granted, basis, call, upTo, excused>>

(* A request is refused, or a session ends, for whatever reason. *)
Close(r) ==
    /\ session[r] # "gone"
    /\ session' = [session EXCEPT ![r] = "gone"]
    /\ basis' = [basis EXCEPT ![r] = 0]
    /\ UNCHANGED <<grant, granted, call, upTo, excused>>

Withdraw(v) ==
    /\ call[v] = "none"
    /\ call' = [call EXCEPT ![v] = "withdrawn"]
    /\ grant' = [grant EXCEPT ![Taken[v]] = 0]
    /\ upTo' = [upTo EXCEPT ![v] = granted]
    /\ UNCHANGED <<granted, session, basis, excused>>

(* It looks for sessions, and cannot see those that are still pending. *)
Look(v) ==
    /\ call[v] = "withdrawn"
    /\ call' = [call EXCEPT ![v] = "looked"]
    /\ excused' = [excused EXCEPT ![v] = {r \in Requests : session[r] = "pending"}]
    /\ UNCHANGED <<grant, granted, session, basis, upTo>>

(* It is of the access that is taken away, by a grant made before that. *)
Rests(r, v) == Asked[r] = Taken[v] /\ basis[r] <= upTo[v]

Return(v) ==
    /\ call[v] = "looked"
    /\ \A r \in Requests : session[r] = "live" /\ Rests(r, v) => r \in excused[v]
    /\ call' = [call EXCEPT ![v] = "returned"]
    /\ UNCHANGED <<grant, granted, session, basis, upTo, excused>>

(* The broker goes down. Grants, sessions and revocations under way are gone; what had not *)
(* come to anything yet may or may not be.                                                 *)
Down ==
    /\ session' \in [Requests -> {"none", "gone"}]
    /\ \A r \in Requests : session'[r] = "none" => session[r] = "none"
    /\ call' \in [Revocations -> {"none", "gone"}]
    /\ \A v \in Revocations : call'[v] = "none" => call[v] = "none"
    /\ grant' = [a \in Accesses |-> 0]
    /\ basis' = [r \in Requests |-> 0]
    /\ upTo' = [v \in Revocations |-> 0]
    /\ excused' = [v \in Revocations |-> {}]
    /\ UNCHANGED granted

Next ==
    \/ \E a \in Accesses : Give(a)
    \/ \E r \in Requests : Admit(r) \/ Open(r) \/ Close(r)
    \/ \E v \in Revocations : Withdraw(v) \/ Look(v) \/ Return(v)
    \/ Down

Spec == Init /\ [][Next]_vars

-----------------------------------------------------------------------------
NamesKnown == Asked \in [Requests -> Accesses] /\ Taken \in [Revocations -> Accesses]

TypeOK ==
    /\ granted \in Nat
    /\ grant \in [Accesses -> 0 .. granted]
    /\ session \in [Requests -> {"none", "pending", "live", "gone"}]
    /\ basis \in [Requests -> 0 .. granted]
    /\ call \in [Revocations -> {"none", "withdrawn", "looked", "returned", "gone"}]
    /\ upTo \in [Revocations -> 0 .. granted]
    /\ excused \in [Revocations -> SUBSET Requests]

(***************************************************************************)
(* Honoured: from its return on, however long that is ago, a revocation    *)
(* leaves no session on a grant made before it, but for the excused ones;  *)
(* and from its look on no request can become another one: all that are    *)
(* pending on such a grant are excused.                                    *)
(***************************************************************************)
LeavesTo(v, r) ==
    /\ call[v] = "returned" /\ session[r] = "live" /\ Rests(r, v) => r \in excused[v]
    /\ call[v] \in {"looked", "returned"} /\ session[r] = "pending" /\ Rests(r, v) =>
          r \in excused[v]

Honoured == \A v \in Revocations, r \in Requests : LeavesTo(v, r)

(* Nothing is pending or live without a grant. *)
Founded == \A r \in Requests : session[r] \in {"pending", "live"} <=> basis[r] > 0
=============================================================================
