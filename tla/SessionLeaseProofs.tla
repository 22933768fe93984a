------------------------- MODULE SessionLeaseProofs -------------------------
(***************************************************************************)
(* Proofs about SessionLease, for any sessions and any ports.              *)
(***************************************************************************)
EXTENDS SessionLease, TLAPS

Inv == TypeOK /\ Exclusive

LEMMA InvInit == Init => Inv
  BY DEF Init, Inv, TypeOK, Exclusive, Phases

(* A step that moves one session's phase and no lease. *)
LEMMA InvPhase ==
  ASSUME Inv, NEW s \in Sessions, Refuse(s) \/ Open(s) \/ Close(s)
  PROVE  Inv'
  BY DEF Inv, TypeOK, Exclusive, Phases, Refuse, Open, Close

LEMMA InvGrant ==
  ASSUME Inv, NEW s \in Sessions, NEW p \in Ports, Grant(s, p)
  PROVE  Inv'
<1> USE DEF Inv, TypeOK, Exclusive, Phases, Grant
<1>1. TypeOK'  OBVIOUS
<1>2. \A q \in Ports : <<q, s>> \notin lease  OBVIOUS
<1>3. \A a \in lease : a[1] # p /\ a[2] # s  BY <1>2
<1>4. \A a, b \in lease' : a[1] = b[1] <=> a[2] = b[2]  BY <1>3
<1>5. \A t \in Sessions :
         phase'[t] \in {"leased", "live", "closing"} <=> \E q \in Ports : <<q, t>> \in lease'
  <2> TAKE t \in Sessions
  <2>1. CASE t = s  BY <2>1
  <2>2. CASE t # s  BY <2>2
  <2>3. QED  BY <2>1, <2>2
<1>6. QED  BY <1>1, <1>4, <1>5

LEMMA InvReturn ==
  ASSUME Inv, NEW s \in Sessions, NEW p \in Ports, Return(s, p)
  PROVE  Inv'
<1> USE DEF Inv, TypeOK, Exclusive, Phases, Return
<1>1. TypeOK'  OBVIOUS
<1>2. \A q \in Ports : <<q, s>> \in lease => q = p
  BY \A a, b \in lease : a[1] = b[1] <=> a[2] = b[2]
<1>3. \A a, b \in lease' : a[1] = b[1] <=> a[2] = b[2]  OBVIOUS
<1>4. \A t \in Sessions :
         phase'[t] \in {"leased", "live", "closing"} <=> \E q \in Ports : <<q, t>> \in lease'
  <2> TAKE t \in Sessions
  <2>1. CASE t = s  BY <1>2, <2>1
  <2>2. CASE t # s  BY <2>2
  <2>3. QED  BY <2>1, <2>2
<1>5. QED  BY <1>1, <1>3, <1>4

(***************************************************************************)
(* NeverShared: a port is held by at most one session, and a session holds *)
(* one port exactly while it is leased, live or closing.                   *)
(***************************************************************************)
THEOREM NeverShared == Spec => []Exclusive
<1>1. Inv /\ [Next]_vars => Inv'
  <2> SUFFICES ASSUME Inv, [Next]_vars PROVE Inv'
    OBVIOUS
  <2>1. CASE UNCHANGED vars  BY <2>1 DEF vars, Inv, TypeOK, Exclusive
  <2>2. CASE Next            BY <2>2, InvPhase, InvGrant, InvReturn DEF Next
  <2>3. QED  BY <2>1, <2>2
<1>2. QED  BY <1>1, InvInit, PTL DEF Spec, Inv
=============================================================================
