----------------------------- MODULE Gatekeeper -----------------------------
(***************************************************************************)
(* The gatekeeper of one session, with several connections: the accept     *)
(* loop, a handler per connection, the one-time token, and Stop.           *)
(*                                                                         *)
(* SessionManager has the same gatekeeper with one client; here its        *)
(* bookkeeping is in view: which connections it tracks and counts, which   *)
(* of them are closed by Stop and which are waited for.                    *)
(***************************************************************************)
EXTENDS Naturals

CONSTANT Conns  \* the connections that ever arrive

VARIABLES
    start,      \* Gatekeeper.Start
    closed,     \* Gatekeeper.closed
    listener,   \* the published listener: none, open, closed
    tracked,    \* Gatekeeper.clientConns
    counted,    \* what each connection has added to activeConns (never negative: Done panics)
    stop,       \* Gatekeeper.Stop
    found,      \* the connections Stop took over from clientConns
    at,         \* how far the connection has come
    hello,      \* what its client sends first, and from where
    open,       \* connections whose client socket the gatekeeper has not closed
    copying,    \* the directions bridge still copies
    token,      \* Token: fresh, expired, consumed
    admitted,   \* connections for which Validate returned nil
    proxyUp     \* the proxy accepts connections

startVars == <<start, closed, listener>>
stopVars  == <<stop, found>>
bookVars  == <<tracked, counted>>
connVars  == <<at, hello, open, copying>>
vars == <<startVars, stopVars, bookVars, connVars, token, admitted, proxyUp>>

Stages == {"none", "accepted", "tracked", "reading", "checking", "dialing", "bridging",
           "ending", "done"}
Hellos == {"silent", "unusable", "stranger", "wrong", "invited"}
Sides  == {"client", "proxy"}

TypeOK ==
    /\ start \in {"none", "bound", "accepting", "failed", "returned"}
    /\ closed \in BOOLEAN
    /\ listener \in {"none", "open", "closed"}
    /\ tracked \subseteq Conns
    /\ counted \in [Conns -> {0, 1}]
    /\ stop \in {"none", "closing", "waiting", "returned"}
    /\ found \subseteq Conns
    /\ at \in [Conns -> Stages]
    /\ hello \in [Conns -> Hellos]
    /\ open \subseteq Conns
    /\ copying \in [Conns -> SUBSET Sides]
    /\ token \in {"fresh", "expired", "consumed"}
    /\ admitted \subseteq Conns
    /\ proxyUp \in BOOLEAN

(* What the clients will send is open, but fixed. *)
Init ==
    /\ start = "none"
    /\ closed = FALSE
    /\ listener = "none"
    /\ tracked = {}
    /\ counted = [c \in Conns |-> 0]
    /\ stop = "none"
    /\ found = {}
    /\ at = [c \in Conns |-> "none"]
    /\ hello \in [Conns -> Hellos]
    /\ open = {}
    /\ copying = [c \in Conns |-> {}]
    /\ token = "fresh"
    /\ admitted = {}
    /\ proxyUp = TRUE

Move(c, stage) == at' = [at EXCEPT ![c] = stage]

-----------------------------------------------------------------------------
(* Start *)

Listen ==
    /\ start = "none"
    /\ start' \in {"bound", "failed"}
    /\ UNCHANGED <<closed, listener, stopVars, bookVars, connVars, token, admitted, proxyUp>>

(* closed is looked at and the listener published under one hold of g.mu. *)
Publish ==
    /\ start = "bound"
    /\ IF closed THEN start' = "returned" /\ UNCHANGED listener
                 ELSE start' = "accepting" /\ listener' = "open"
    /\ UNCHANGED <<closed, stopVars, bookVars, connVars, token, admitted, proxyUp>>

(* No connection is in the loop's hands. *)
LoopFree == \A c \in Conns : at[c] \notin {"accepted", "tracked"}

Accept(c) ==
    /\ start = "accepting"
    /\ LoopFree
    /\ listener = "open"
    /\ at[c] = "none"
    /\ Move(c, "accepted")
    /\ open' = open \cup {c}
    /\ UNCHANGED <<startVars, stopVars, bookVars, hello, copying, token, admitted, proxyUp>>

(* Accept fails: the listener was closed, and so is the gatekeeper. *)
LoopEnds ==
    /\ start = "accepting"
    /\ LoopFree
    /\ listener = "closed"
    /\ start' = "returned"
    /\ UNCHANGED <<closed, listener, stopVars, bookVars, connVars, token, admitted, proxyUp>>

(* g.clientConns grows. Mutant: the connection is not remembered. *)
TrackNot(c) ==
    /\ at[c] = "accepted"
    /\ Move(c, "tracked")
    /\ UNCHANGED <<startVars, stopVars, bookVars, hello, open, copying, token, admitted, proxyUp>>
Track(c) ==
    /\ at[c] = "accepted"
    /\ tracked' = tracked \cup {c}
    /\ Move(c, "tracked")
    /\ UNCHANGED <<startVars, stopVars, counted, hello, open, copying, token, admitted, proxyUp>>

(* activeConns.Add(1) and the handler's goroutine. Mutant: no Add. *)
SpawnUncounted(c) ==
    /\ at[c] = "tracked"
    /\ Move(c, "reading")
    /\ UNCHANGED <<startVars, stopVars, bookVars, hello, open, copying, token, admitted, proxyUp>>
Spawn(c) ==
    /\ at[c] = "tracked"
    /\ counted' = [counted EXCEPT ![c] = @ + 1]
    /\ Move(c, "reading")
    /\ UNCHANGED <<startVars, stopVars, tracked, hello, open, copying, token, admitted, proxyUp>>

-----------------------------------------------------------------------------
(* handleConnection *)

(* The first packet arrives, with a cookie, before the deadline ... *)
Read(c) ==
    /\ at[c] = "reading"
    /\ c \in open
    /\ hello[c] \notin {"silent", "unusable"}
    /\ Move(c, "checking")
    /\ UNCHANGED <<startVars, stopVars, bookVars, hello, open, copying, token, admitted, proxyUp>>

(* ... or it does not, or is malformed, or the connection is closed. *)
(* Mutant: there is no deadline.                                     *)
ReadFailsNoDeadline(c) ==
    /\ at[c] = "reading"
    /\ hello[c] # "silent" \/ c \notin open
    /\ Move(c, "ending")
    /\ UNCHANGED <<startVars, stopVars, bookVars, hello, open, copying, token, admitted, proxyUp>>
ReadFails(c) ==
    /\ at[c] = "reading"
    /\ Move(c, "ending")
    /\ UNCHANGED <<startVars, stopVars, bookVars, hello, open, copying, token, admitted, proxyUp>>

(* The right address, target and token; then the token itself, under its lock. *)
(* Mutant: it is not marked as consumed.                                       *)
ConsumeNot == token = "fresh" /\ UNCHANGED token
Consume == token = "fresh" /\ token' = "consumed"

Validate(c) ==
    /\ at[c] = "checking"
    /\ hello[c] = "invited"
    /\ Consume
    /\ admitted' = admitted \cup {c}
    /\ Move(c, "dialing")
    /\ UNCHANGED <<startVars, stopVars, bookVars, hello, open, copying, proxyUp>>

Refuse(c) ==
    /\ at[c] = "checking"
    /\ hello[c] # "invited" \/ token # "fresh"
    /\ Move(c, "ending")
    /\ UNCHANGED <<startVars, stopVars, bookVars, hello, open, copying, token, admitted, proxyUp>>

(* The proxy is dialled, gets the packet, OnConnected is called: both ways are copied. *)
Dial(c) ==
    /\ at[c] = "dialing"
    /\ proxyUp
    /\ Move(c, "bridging")
    /\ copying' = [copying EXCEPT ![c] = Sides]
    /\ UNCHANGED <<startVars, stopVars, bookVars, hello, open, token, admitted, proxyUp>>

DialFails(c) ==
    /\ at[c] = "dialing"
    /\ Move(c, "ending")
    /\ UNCHANGED <<startVars, stopVars, bookVars, hello, open, copying, token, admitted, proxyUp>>

(* The client closes its side, or Stop has closed the connection ... *)
ClientDone(c) ==
    /\ at[c] = "bridging"
    /\ "client" \in copying[c]
    /\ copying' = [copying EXCEPT ![c] = @ \ {"client"}]
    /\ UNCHANGED <<startVars, stopVars, bookVars, at, hello, open, token, admitted, proxyUp>>

(* ... the proxy closes its side, or is gone ... *)
ProxyDone(c) ==
    /\ at[c] = "bridging"
    /\ "proxy" \in copying[c]
    /\ copying' = [copying EXCEPT ![c] = @ \ {"proxy"}]
    /\ UNCHANGED <<startVars, stopVars, bookVars, at, hello, open, token, admitted, proxyUp>>

(* ... and bridge returns after both. *)
Bridged(c) ==
    /\ at[c] = "bridging"
    /\ copying[c] = {}
    /\ Move(c, "ending")
    /\ UNCHANGED <<startVars, stopVars, bookVars, hello, open, copying, token, admitted, proxyUp>>

(* The deferred calls: removeConn, Close, Done.                 *)
(* Mutants: no removeConn; Done only if the client was admitted. *)
EndUncounted(c) ==
    /\ at[c] = "ending"
    /\ tracked' = tracked \ {c}
    /\ counted' = [counted EXCEPT ![c] = IF c \in admitted THEN @ - 1 ELSE @]
    /\ open' = open \ {c}
    /\ Move(c, "done")
    /\ UNCHANGED <<startVars, stopVars, hello, copying, token, admitted, proxyUp>>
EndTracked(c) ==
    /\ at[c] = "ending"
    /\ counted' = [counted EXCEPT ![c] = @ - 1]
    /\ open' = open \ {c}
    /\ Move(c, "done")
    /\ UNCHANGED <<startVars, stopVars, tracked, hello, copying, token, admitted, proxyUp>>
End(c) ==
    /\ at[c] = "ending"
    /\ tracked' = tracked \ {c}
    /\ counted' = [counted EXCEPT ![c] = @ - 1]
    /\ open' = open \ {c}
    /\ Move(c, "done")
    /\ UNCHANGED <<startVars, stopVars, hello, copying, token, admitted, proxyUp>>

Handle(c) ==
    \/ Read(c) \/ ReadFails(c) \/ Validate(c) \/ Refuse(c)
    \/ Dial(c) \/ DialFails(c) \/ ClientDone(c) \/ ProxyDone(c) \/ Bridged(c) \/ End(c)

-----------------------------------------------------------------------------
(* Stop *)

(* Under g.mu: closed, and the tracked connections are taken over. *)
StopBegins ==
    /\ stop = "none"
    /\ closed' = TRUE
    /\ found' = tracked
    /\ tracked' = {}
    /\ stop' = "closing"
    /\ UNCHANGED <<start, listener, counted, connVars, token, admitted, proxyUp>>

(* The listener and the connections found are closed. *)
StopCloses ==
    /\ stop = "closing"
    /\ listener' = IF listener = "open" THEN "closed" ELSE listener
    /\ open' = open \ found
    /\ stop' = "waiting"
    /\ UNCHANGED <<start, closed, found, bookVars, at, hello, copying, token, admitted, proxyUp>>

(* activeConns.Wait() *)
StopReturns ==
    /\ stop = "waiting"
    /\ \A c \in Conns : counted[c] = 0
    /\ stop' = "returned"
    /\ UNCHANGED <<startVars, found, bookVars, connVars, token, admitted, proxyUp>>

-----------------------------------------------------------------------------
(* The environment *)

TokenExpires ==
    /\ token = "fresh"
    /\ token' = "expired"
    /\ UNCHANGED <<startVars, stopVars, bookVars, connVars, admitted, proxyUp>>

ProxyEnds ==
    /\ proxyUp
    /\ proxyUp' = FALSE
    /\ UNCHANGED <<startVars, stopVars, bookVars, connVars, token, admitted>>

Loop == Listen \/ Publish \/ LoopEnds \/ \E c \in Conns : Accept(c) \/ Track(c) \/ Spawn(c)

Next ==
    \/ Loop
    \/ \E c \in Conns : Handle(c)
    \/ StopBegins \/ StopCloses \/ StopReturns
    \/ TokenExpires \/ ProxyEnds

Spec == Init /\ [][Next]_vars

(***************************************************************************)
(* Fairness: goroutines are scheduled, reading and dialling have deadlines *)
(* and a closed socket ends a copy. Of the other ends only this is asked:  *)
(* a proxy told that its client is done, and a client told that its proxy  *)
(* is, hang up (bridge's CloseWrite tells them); and a client Stop did not *)
(* find leaves once the session ends: Stop waits for it and cannot make it.*)
(***************************************************************************)
ClientMustGo(c) == c \notin open \/ "proxy" \notin copying[c]
ProxyMustGo(c)  == ~proxyUp \/ "client" \notin copying[c]
Late(c)         == stop # "none" /\ c \notin found

Fairness ==
    /\ WF_vars(Listen \/ Publish \/ LoopEnds)
    /\ WF_vars(StopCloses) /\ WF_vars(StopReturns)
    /\ \A c \in Conns :
          /\ WF_vars(Track(c) \/ Spawn(c))
          /\ WF_vars(Read(c) \/ ReadFails(c))
          /\ WF_vars(Validate(c) \/ Refuse(c))
          /\ WF_vars(Dial(c) \/ DialFails(c))
          /\ WF_vars((ClientMustGo(c) \/ Late(c)) /\ ClientDone(c))
          /\ WF_vars(ProxyMustGo(c) /\ ProxyDone(c))
          /\ WF_vars(Bridged(c) \/ End(c))

FairSpec == Spec /\ Fairness

-----------------------------------------------------------------------------
(* Properties *)

Handled == {"reading", "checking", "dialing", "bridging", "ending"}

(* The token buys one connection, for the client it was made for: when two *)
(* handlers hold it at the same time, one gets past Validate.              *)
TokenSpentOnce ==
    \A c \in admitted :
        /\ token = "consumed"
        /\ hello[c] = "invited"
        /\ admitted = {c}

(* clientConns is what Stop has to go by: a connection with a handler is in it, *)
(* or was when Stop took it over, and a connection that is done never is.       *)
StopCanReach ==
    /\ \A c \in Conns : at[c] \in Handled => c \in tracked \cup found
    /\ \A c \in tracked : at[c] # "done"

(* Once Stop has returned, no connection it found is on its way to the proxy    *)
(* or bridged to it: the proxy is killed next. Handlers may still run: Add       *)
(* follows g.mu.Unlock, so Stop can find a connection that Wait does not count,  *)
(* but its handler has a closed socket to read. (A connection Stop did not find  *)
(* may be bridged, until the client leaves.)                                     *)
StoppedNotServed ==
    stop = "returned" => \A c \in found : at[c] \notin {"checking", "dialing", "bridging"}

(* Stop ends, whatever the clients it finds, and the one it misses, send. *)
StopEnds == (stop = "closing") ~> (stop = "returned")

(* When the proxy is gone, every connection is let go. *)
ConnectionsEnd ==
    \A c \in Conns : (at[c] # "none" /\ ~proxyUp) ~> (at[c] = "done")
=============================================================================
