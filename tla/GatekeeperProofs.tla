-------------------------- MODULE GatekeeperProofs --------------------------
(***************************************************************************)
(* The invariants of Gatekeeper, for any number of connections.            *)
(***************************************************************************)
EXTENDS Gatekeeper, TLAPS

(* A handler is counted from its start to its end. *)
CountsHandlers == \A c \in Conns : counted[c] = 1 <=> at[c] \in Handled

(* A connection in clientConns is between Track and removeConn; *)
(* one that is past Track is there, or was when Stop came.      *)
TracksConnections ==
    /\ \A c \in tracked \cup found : at[c] \notin {"none", "accepted"}
    /\ \A c \in tracked : at[c] # "done"
    /\ \A c \in Conns : at[c] \in Handled \cup {"tracked"} => c \in tracked \cup found

(* What Stop found is closed for good before it waits. *)
ClosesFound ==
    /\ stop = "none" => found = {}
    /\ stop \in {"waiting", "returned"} => found \cap open = {}

IndInv ==
    /\ TypeOK
    /\ TokenSpentOnce
    /\ CountsHandlers
    /\ TracksConnections
    /\ ClosesFound
    /\ StoppedNotServed

-----------------------------------------------------------------------------
LEMMA InitInv == Init => IndInv
<1> SUFFICES ASSUME Init PROVE IndInv
  OBVIOUS
<1>1. TypeOK
  BY DEF Init, TypeOK, Stages, Hellos
<1>2. TokenSpentOnce /\ ClosesFound /\ StoppedNotServed
  BY DEF Init, TokenSpentOnce, ClosesFound, StoppedNotServed
<1>3. CountsHandlers /\ TracksConnections
  BY DEF Init, CountsHandlers, TracksConnections, Handled
<1>4. QED
  BY <1>1, <1>2, <1>3 DEF IndInv

(* A step of the accept loop keeps the invariant. *)
LEMMA AcceptLoop ==
  ASSUME IndInv, Loop
  PROVE  IndInv'
<1> USE DEF IndInv, TypeOK, TokenSpentOnce, CountsHandlers, TracksConnections, ClosesFound,
            StoppedNotServed, Handled, Stages, Hellos, Sides, startVars, stopVars, bookVars, connVars
<1>1. CASE Listen
  BY <1>1 DEF Listen
<1>2. CASE Publish
  BY <1>2 DEF Publish
<1>3. CASE LoopEnds
  BY <1>3 DEF LoopEnds
<1>4. ASSUME NEW c \in Conns, Accept(c) PROVE IndInv'
  BY <1>4 DEF Accept, Move
<1>5. ASSUME NEW c \in Conns, Track(c) PROVE IndInv'
  BY <1>5 DEF Track, Move
<1>6. ASSUME NEW c \in Conns, Spawn(c) PROVE IndInv'
  BY <1>6 DEF Spawn, Move
<1> HIDE DEF IndInv
<1>7. QED
  BY Loop, <1>1, <1>2, <1>3, <1>4, <1>5, <1>6 DEF Loop

(* A step of a handler keeps the invariant. *)
LEMMA Handler ==
  ASSUME IndInv, NEW c \in Conns, Handle(c)
  PROVE  IndInv'
<1> USE DEF IndInv, TypeOK, TokenSpentOnce, CountsHandlers, TracksConnections, ClosesFound,
            StoppedNotServed, Handled, Stages, Hellos, Sides, startVars, stopVars, bookVars, connVars
<1>1. CASE Read(c)
  BY <1>1 DEF Read, Move
<1>2. CASE ReadFails(c)
  BY <1>2 DEF ReadFails, Move
<1>3. CASE Validate(c)
  BY <1>3 DEF Validate, Consume, Move
<1>4. CASE Refuse(c)
  BY <1>4 DEF Refuse, Move
<1>5. CASE Dial(c)
  BY <1>5 DEF Dial, Move
<1>6. CASE DialFails(c)
  BY <1>6 DEF DialFails, Move
<1>7. CASE ClientDone(c)
  BY <1>7 DEF ClientDone
<1>8. CASE ProxyDone(c)
  BY <1>8 DEF ProxyDone
<1>9. CASE Bridged(c)
  BY <1>9 DEF Bridged, Move
<1>10. CASE End(c)
  BY <1>10 DEF End, Move
<1> HIDE DEF IndInv
<1>11. QED
  BY Handle(c), <1>1, <1>2, <1>3, <1>4, <1>5, <1>6, <1>7, <1>8, <1>9, <1>10 DEF Handle

(* A step of Stop keeps the invariant. *)
LEMMA Stopping ==
  ASSUME IndInv, StopBegins \/ StopCloses \/ StopReturns
  PROVE  IndInv'
<1> USE DEF IndInv, TypeOK, TokenSpentOnce, CountsHandlers, TracksConnections, ClosesFound,
            StoppedNotServed, Handled, Stages, Hellos, Sides, startVars, stopVars, bookVars, connVars
<1>1. CASE StopBegins
  BY <1>1 DEF StopBegins
<1>2. CASE StopCloses
  BY <1>2 DEF StopCloses
<1>3. CASE StopReturns
  BY <1>3 DEF StopReturns
<1> HIDE DEF IndInv
<1>4. QED
  BY StopBegins \/ StopCloses \/ StopReturns, <1>1, <1>2, <1>3

(* A step of the environment keeps the invariant. *)
LEMMA Around ==
  ASSUME IndInv, TokenExpires \/ ProxyEnds
  PROVE  IndInv'
<1> USE DEF IndInv, TypeOK, TokenSpentOnce, CountsHandlers, TracksConnections, ClosesFound,
            StoppedNotServed, Handled, Stages, Hellos, Sides, startVars, stopVars, bookVars, connVars
<1>1. CASE TokenExpires
  BY <1>1 DEF TokenExpires
<1>2. CASE ProxyEnds
  BY <1>2 DEF ProxyEnds
<1> HIDE DEF IndInv
<1>3. QED
  BY TokenExpires \/ ProxyEnds, <1>1, <1>2

LEMMA StepInv == IndInv /\ [Next]_vars => IndInv'
<1> SUFFICES ASSUME IndInv, [Next]_vars PROVE IndInv'
  OBVIOUS
<1>1. CASE UNCHANGED vars
  BY <1>1 DEF vars, startVars, stopVars, bookVars, connVars, IndInv, TypeOK, TokenSpentOnce,
              CountsHandlers, TracksConnections, ClosesFound, StoppedNotServed
<1>2. CASE Next
  BY <1>2, AcceptLoop, Handler, Stopping, Around DEF Next
<1>3. QED
  BY <1>1, <1>2

LEMMA Inductive == Spec => []IndInv
<1>1. QED
  BY InitInv, StepInv, PTL DEF Spec

-----------------------------------------------------------------------------
(* Types, for any set of connections; in particular activeConns never goes *)
(* below zero: every Done of a handler follows its Add.                    *)
THEOREM TypeCorrect == Spec => []TypeOK
<1>1. IndInv => TypeOK
  BY DEF IndInv
<1>2. QED
  BY <1>1, Inductive, PTL

(* For any number of connections in any order the token admits one of them,     *)
(* the one it was made for: the lock around the test and the mark in            *)
(* Token.Validate.                                                              *)
THEOREM OneTimeToken == Spec => []TokenSpentOnce
<1>1. IndInv => TokenSpentOnce
  BY DEF IndInv
<1>2. QED
  BY <1>1, Inductive, PTL

(* Stop can reach every connection with a handler: Gatekeeper.clientConns. *)
THEOREM Reachable == Spec => []StopCanReach
<1>1. IndInv => StopCanReach
  BY DEF IndInv, TracksConnections, StopCanReach
<1>2. QED
  BY <1>1, Inductive, PTL

(* What Gatekeeper.Stop found is not bridged once Stop has returned, although *)
(* a handler may have escaped activeConns.Wait.                               *)
THEOREM NotServedAfterStop == Spec => []StoppedNotServed
<1>1. IndInv => StoppedNotServed
  BY DEF IndInv
<1>2. QED
  BY <1>1, Inductive, PTL
=============================================================================
