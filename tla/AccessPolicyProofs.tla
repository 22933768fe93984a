------------------------- MODULE AccessPolicyProofs -------------------------
(***************************************************************************)
(* What AccessPolicy promises, for any requests, revocations and accesses. *)
(***************************************************************************)
EXTENDS AccessPolicy, TLAPS

(* What a revocation took away can only have been granted anew. *)
Newer ==
    \A v \in Revocations :
        call[v] \in {"withdrawn", "looked", "returned"} =>
            grant[Taken[v]] = 0 \/ grant[Taken[v]] > upTo[v]

IndInv == TypeOK /\ Founded /\ Newer /\ Honoured

LEMMA GiveKeeps ==
  ASSUME NamesKnown, IndInv, NEW a \in Accesses, Give(a)
  PROVE  IndInv'
<1> USE DEF Give, IndInv
<1>1. /\ granted \in Nat /\ granted' = granted + 1
      /\ \A n \in 0 .. granted : n \in 0 .. granted' /\ n < granted'
  BY DEF TypeOK
<1>2. grant' \in [Accesses -> 0 .. granted']
  <2>1. grant \in [Accesses -> 0 .. granted'] /\ granted' \in 0 .. granted'
    BY <1>1 DEF TypeOK
  <2>2. QED  BY <1>1, <2>1
<1>3. basis' \in [Requests -> 0 .. granted'] /\ upTo' \in [Revocations -> 0 .. granted']
  BY <1>1 DEF TypeOK
<1>4. TypeOK'
  BY <1>1, <1>2, <1>3 DEF TypeOK
<1>5. Newer'
  BY <1>1 DEF Newer, TypeOK, NamesKnown
<1>6. Founded' /\ Honoured'
  BY DEF Founded, Honoured, LeavesTo, Rests
<1>7. QED  BY <1>4, <1>5, <1>6

(* A request rests on a grant that is in force, and so on a newer one than any revocation *)
(* of that access has taken away.                                                          *)
LEMMA RequestKeeps ==
  ASSUME NamesKnown, IndInv, NEW r \in Requests, Admit(r) \/ Open(r) \/ Close(r)
  PROVE  IndInv'
<1> USE DEF IndInv
<1>1. CASE Admit(r)
  <2>1. /\ grant[Asked[r]] \in 0 .. granted /\ grant[Asked[r]] # 0
        /\ session' = [session EXCEPT ![r] = "pending"]
        /\ basis' = [basis EXCEPT ![r] = grant[Asked[r]]]
        /\ UNCHANGED <<grant, granted, call, upTo, excused>>
    BY <1>1 DEF Admit, TypeOK, NamesKnown
  <2>2. TypeOK'  BY <2>1 DEF TypeOK
  <2>3. Newer'   BY <2>1 DEF Newer
  <2>4. Founded'
    <3>1. granted \in Nat /\ grant[Asked[r]] > 0  BY <2>1 DEF TypeOK
    <3>2. QED  BY <2>1, <3>1 DEF Founded, TypeOK
  <2>5. Honoured'
    <3> SUFFICES ASSUME NEW v \in Revocations, NEW q \in Requests PROVE LeavesTo(v, q)'
      BY DEF Honoured
    <3>0. LeavesTo(v, q)  BY DEF Honoured
    <3>1. CASE q = r
      <4>1. session'[q] = "pending" /\ basis'[q] = grant[Asked[q]]
        BY <2>1, <3>1 DEF TypeOK
      <4>2. ASSUME call[v] \in {"looked", "returned"} PROVE ~Rests(q, v)'
        <5>1. Asked[q] = Taken[v] => grant[Asked[q]] > upTo[v]
          BY <2>1, <3>1, <4>2 DEF Newer
        <5>2. grant[Asked[q]] \in Nat /\ upTo[v] \in Nat
          BY <2>1, <3>1 DEF TypeOK
        <5>3. QED  BY <2>1, <4>1, <5>1, <5>2 DEF Rests
      <4>3. QED  BY <2>1, <4>1, <4>2 DEF LeavesTo
    <3>2. CASE q # r
      <4>1. session'[q] = session[q] /\ basis'[q] = basis[q]
        BY <2>1, <3>2 DEF TypeOK
      <4>2. QED  BY <2>1, <3>0, <4>1 DEF LeavesTo, Rests
    <3>3. QED  BY <3>1, <3>2
  <2>6. QED  BY <2>2, <2>3, <2>4, <2>5
<1>2. CASE Open(r)
  <2>1. TypeOK'  BY <1>2 DEF Open, TypeOK
  <2>2. /\ session[r] = "pending" /\ session'[r] = "live"
        /\ \A q \in Requests \ {r} : session'[q] = session[q]
        /\ UNCHANGED <<grant, basis, call, upTo, excused>>
    BY <1>2 DEF Open, TypeOK
  <2>3. Newer'    BY <2>2 DEF Newer
  <2>4. Founded'  BY <2>2 DEF Founded
  <2>5. Honoured'
    <3> SUFFICES ASSUME NEW v \in Revocations, NEW q \in Requests PROVE LeavesTo(v, q)'
      BY DEF Honoured
    <3>0. LeavesTo(v, q)  BY DEF Honoured
    <3>1. CASE q = r   BY <2>2, <3>0, <3>1 DEF LeavesTo, Rests
    <3>2. CASE q # r   BY <2>2, <3>0, <3>2 DEF LeavesTo, Rests
    <3>3. QED  BY <3>1, <3>2
  <2>6. QED  BY <2>1, <2>3, <2>4, <2>5
<1>3. CASE Close(r)
  <2>1. TypeOK'
    <3>1. granted \in Nat /\ 0 \in 0 .. granted  BY DEF TypeOK
    <3>2. QED  BY <1>3, <3>1 DEF Close, TypeOK
  <2>2. Newer' /\ Founded'  BY <1>3 DEF Close, Newer, Founded, TypeOK
  <2>3. Honoured'  BY <1>3 DEF Close, Honoured, LeavesTo, Rests, TypeOK
  <2>4. QED  BY <2>1, <2>2, <2>3
<1>4. QED  BY <1>1, <1>2, <1>3, Admit(r) \/ Open(r) \/ Close(r)

(* When a revocation looks, a request that is pending becomes excused; when it returns, what *)
(* is live and rests on an older grant has been excused.                                     *)
LEMMA RevocationKeeps ==
  ASSUME NamesKnown, IndInv, NEW v \in Revocations, Withdraw(v) \/ Look(v) \/ Return(v)
  PROVE  IndInv'
<1> USE DEF IndInv
<1>1. CASE Withdraw(v)
  <2>1. granted \in Nat /\ 0 \in 0 .. granted /\ granted \in 0 .. granted  BY DEF TypeOK
  <2>2. TypeOK'  BY <1>1, <2>1 DEF Withdraw, TypeOK
  <2>3. Newer'   BY <1>1 DEF Withdraw, Newer, TypeOK, NamesKnown
  <2>4. Founded' BY <1>1 DEF Withdraw, Founded
  <2>5. Honoured'  BY <1>1 DEF Withdraw, Honoured, LeavesTo, Rests, TypeOK
  <2>6. QED  BY <2>2, <2>3, <2>4, <2>5
<1>2. CASE Look(v)
  <2>1. TypeOK'  BY <1>2 DEF Look, TypeOK
  <2>2. Newer' /\ Founded'  BY <1>2 DEF Look, Newer, Founded, TypeOK
  <2>3. Honoured'  BY <1>2 DEF Look, Honoured, LeavesTo, Rests, TypeOK
  <2>4. QED  BY <2>1, <2>2, <2>3
<1>3. CASE Return(v)
  <2>1. TypeOK'  BY <1>3 DEF Return, TypeOK
  <2>2. Newer' /\ Founded'  BY <1>3 DEF Return, Newer, Founded, TypeOK
  <2>3. Honoured'  BY <1>3 DEF Return, Honoured, LeavesTo, Rests, TypeOK
  <2>4. QED  BY <2>1, <2>2, <2>3
<1>4. QED  BY <1>1, <1>2, <1>3, Withdraw(v) \/ Look(v) \/ Return(v)

LEMMA DownKeeps ==
  ASSUME IndInv, Down
  PROVE  IndInv'
<1> USE DEF IndInv, Down
<1>1. granted \in Nat /\ 0 \in 0 .. granted  BY DEF TypeOK
<1>2. TypeOK'   BY <1>1 DEF TypeOK
<1>3. /\ \A r \in Requests : session'[r] \in {"none", "gone"} /\ basis'[r] = 0
      /\ \A v \in Revocations : call'[v] \in {"none", "gone"}
  OBVIOUS
<1>4. Founded'  BY <1>3 DEF Founded
<1>5. Newer' /\ Honoured'  BY <1>3 DEF Newer, Honoured, LeavesTo
<1>6. QED  BY <1>2, <1>4, <1>5

(***************************************************************************)
(* PolicyKept: a specification that AccessPolicy describes has no session  *)
(* without a grant it rests on, and a revocation that has returned leaves  *)
(* none on a grant made before it but for the requests that were pending   *)
(* when it looked: not then, and not at any time after.                    *)
(***************************************************************************)
THEOREM PolicyKept == ASSUME NamesKnown PROVE Spec => [](TypeOK /\ Founded /\ Honoured)
<1>1. Init => IndInv
  <2> SUFFICES ASSUME Init PROVE IndInv
    OBVIOUS
  <2>1. granted = 0 /\ 0 \in 0 .. granted  BY DEF Init
  <2>2. TypeOK  BY <2>1 DEF Init, TypeOK
  <2>3. Founded /\ Newer /\ Honoured  BY DEF Init, Founded, Newer, Honoured, LeavesTo
  <2>4. QED  BY <2>2, <2>3 DEF IndInv
<1>2. IndInv /\ [Next]_vars => IndInv'
  <2>1. IndInv /\ UNCHANGED vars => IndInv'
    BY DEF IndInv, TypeOK, Founded, Newer, Honoured, LeavesTo, Rests, vars
  <2>2. QED
    BY <2>1, GiveKeeps, RequestKeeps, RevocationKeeps, DownKeeps DEF Next
<1>3. IndInv => TypeOK /\ Founded /\ Honoured
  BY DEF IndInv
<1>4. QED  BY <1>1, <1>2, <1>3, PTL DEF Spec
=============================================================================
