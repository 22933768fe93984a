--------------------------- MODULE TokenProvider ---------------------------
(***************************************************************************)
(* The broker's access to Google Secret Manager. A caller needs an IAM     *)
(* token, which is had for an STS token, which is had for an Azure token.  *)
(* Each of the three is cached until shortly before it expires. One        *)
(* read-write lock guards the caches and is held for writing while a token *)
(* is fetched; the token that a fetch presents was read before the lock    *)
(* was taken, so callers queue with tokens in hand that grow older.        *)
(***************************************************************************)
EXTENDS Naturals, Sequences, FiniteSets

CONSTANTS Callers,   \* goroutines that read secrets
          Lifetimes, \* how long the tokens live that the services issue
          Buffer,    \* tokenRefreshBuffer (60 s)
          Timeout,   \* httpClient.Timeout (10 s)
          MaxTime    \* bound: time that passes

ASSUME TimesAssumption ==
    /\ Buffer \in Nat /\ Timeout \in Nat /\ MaxTime \in Nat
    /\ Lifetimes \subseteq Nat

(* The services issue tokens that outlive the buffer. *)
ASSUME LifetimeAssumption == \A l \in Lifetimes : l > Buffer

Azure  == 1
STS    == 2
IAM    == 3
Stages == Azure .. IAM

(* cachedToken: expiresAt as the provider knows it, and when the service refuses it. *)
Tokens  == [expiresAt : Nat, dies : Nat]
NoToken == [expiresAt |-> 0, dies |-> 0]

VARIABLES now,
          cache, \* azureToken, stsToken, iamToken
          at,    \* where each caller is
          stage, \* the token its current get...Token call is for
          have,  \* the token that call has in hand
          queue, \* the callers at mu.Lock(), in their order
          began  \* when the fetch that holds mu began

vars == <<now, cache, at, stage, have, queue, began>>

(* Mutant: a token is used until it expires. *)
FreshNoBuffer(t) == now < t.expiresAt
Fresh(t) == now + Buffer < t.expiresAt
Alive(t) == now < t.dies
Locked   == \E c \in Callers : at[c] = "fetching"

Init ==
    /\ now = 0
    /\ cache = [s \in Stages |-> NoToken]
    /\ at = [c \in Callers |-> "idle"]
    /\ stage = [c \in Callers |-> IAM]
    /\ have = [c \in Callers |-> NoToken]
    /\ queue = <<>>
    /\ began = 0

GetGoogleAccessToken(c) ==
    /\ at[c] = "idle"
    /\ at' = [at EXCEPT ![c] = "checking"]
    /\ UNCHANGED <<now, cache, stage, have, queue, began>>

(* A get...Token call returns: the last one to AccessSecret, which sends its request, *)
(* the others to the stage that asked, which has to wait for the lock.                *)
Return(c, token, waiting) ==
    /\ have' = [have EXCEPT ![c] = token]
    /\ IF stage[c] = IAM
       THEN /\ at' = [at EXCEPT ![c] = "reading"]
            /\ queue' = waiting
            /\ UNCHANGED stage
       ELSE /\ at' = [at EXCEPT ![c] = "waiting"]
            /\ queue' = Append(waiting, c)
            /\ stage' = [stage EXCEPT ![c] = @ + 1]

(* Under mu.RLock. *)
CacheHit(c) ==
    /\ at[c] = "checking" /\ ~Locked
    /\ Fresh(cache[stage[c]])
    /\ Return(c, cache[stage[c]], queue)
    /\ UNCHANGED <<now, cache, began>>

CacheMiss(c) ==
    /\ at[c] = "checking" /\ ~Locked
    /\ ~Fresh(cache[stage[c]])
    /\ IF stage[c] = Azure
       THEN /\ at' = [at EXCEPT ![c] = "waiting"]
            /\ queue' = Append(queue, c)
            /\ UNCHANGED stage
       ELSE /\ stage' = [stage EXCEPT ![c] = @ - 1]
            /\ UNCHANGED <<at, queue>>
    /\ UNCHANGED <<now, cache, have, began>>

(* mu.Lock() and the second check. *)
Locks(c) == queue # <<>> /\ c = Head(queue) /\ ~Locked

(* Mutant: the lock is kept when the second check finds a token. *)
RefreshedKeepsLock(c) ==
    /\ Locks(c)
    /\ Fresh(cache[stage[c]])
    /\ Return(c, cache[stage[c]], queue)
    /\ UNCHANGED <<now, cache, began>>
Refreshed(c) ==
    /\ Locks(c)
    /\ Fresh(cache[stage[c]])
    /\ Return(c, cache[stage[c]], Tail(queue))
    /\ UNCHANGED <<now, cache, began>>

(* Mutant: there is no second check. *)
BeginFetchAnyway(c) ==
    /\ Locks(c)
    /\ at' = [at EXCEPT ![c] = "fetching"]
    /\ queue' = Tail(queue)
    /\ began' = now
    /\ UNCHANGED <<now, cache, stage, have>>
BeginFetch(c) ==
    /\ Locks(c)
    /\ ~Fresh(cache[stage[c]])
    /\ at' = [at EXCEPT ![c] = "fetching"]
    /\ queue' = Tail(queue)
    /\ began' = now
    /\ UNCHANGED <<now, cache, stage, have>>

(* The service issued a token at some moment of the request. IMDS and IAM say when it  *)
(* expires; STS says how long it lives, which the provider counts from the answer on.  *)
Issued(c, moment, life) ==
    [expiresAt |-> (IF stage[c] = STS THEN now ELSE moment) + life, dies |-> moment + life]

FetchSucceeds(c) ==
    /\ at[c] = "fetching"
    /\ \E moment \in began .. now, life \in Lifetimes :
          LET token == Issued(c, moment, life) IN
          /\ stage[c] # Azure => moment < have[c].dies
          /\ cache' = [cache EXCEPT ![stage[c]] = token]
          /\ Return(c, token, queue)
    /\ began' = 0
    /\ UNCHANGED now

(* Mutant: the caller tries again. *)
FetchFailsAgain(c) ==
    /\ at[c] = "fetching"
    /\ at' = [at EXCEPT ![c] = "checking"]
    /\ stage' = [stage EXCEPT ![c] = IAM]
    /\ have' = [have EXCEPT ![c] = NoToken]
    /\ began' = 0
    /\ UNCHANGED <<now, cache, queue>>
(* A refused or broken request, an answer that is not understood, the caller's context, *)
(* the timeout: every call up to AccessSecret returns the error.                        *)
FetchFails(c) ==
    /\ at[c] = "fetching"
    /\ at' = [at EXCEPT ![c] = "idle"]
    /\ stage' = [stage EXCEPT ![c] = IAM]
    /\ have' = [have EXCEPT ![c] = NoToken]
    /\ began' = 0
    /\ UNCHANGED <<now, cache, queue>>

(* The Secret Manager's answer, or an error. *)
AccessSecret(c) ==
    /\ at[c] = "reading"
    /\ at' = [at EXCEPT ![c] = "idle"]
    /\ have' = [have EXCEPT ![c] = NoToken]
    /\ UNCHANGED <<now, cache, stage, queue, began>>

(* Only requests take time, and none takes longer than the timeout. *)
Tick ==
    /\ now < MaxTime
    /\ queue # <<>> => Locked
    /\ Locked => now < began + Timeout
    /\ now' = now + 1
    /\ UNCHANGED <<cache, at, stage, have, queue, began>>

Check(c) == CacheHit(c) \/ CacheMiss(c)
Lock(c)  == Refreshed(c) \/ BeginFetch(c)
Fetch(c) == FetchSucceeds(c) \/ FetchFails(c)

Next ==
    \/ Tick
    \/ \E c \in Callers :
          GetGoogleAccessToken(c) \/ Check(c) \/ Lock(c) \/ Fetch(c) \/ AccessSecret(c)

(* The scheduler and the timeout. Unlock lets in the readers that wait before another *)
(* writer, so one that finds the lock free again and again gets it.                   *)
Fairness ==
    \A c \in Callers :
        SF_vars(Check(c)) /\ WF_vars(Lock(c)) /\ WF_vars(Fetch(c)) /\ WF_vars(AccessSecret(c))

Spec == Init /\ [][Next]_vars /\ Fairness

-----------------------------------------------------------------------------
(* Properties *)

TypeOK ==
    /\ now \in Nat
    /\ cache \in [Stages -> Tokens]
    /\ at \in [Callers -> {"idle", "checking", "waiting", "fetching", "reading"}]
    /\ stage \in [Callers -> Stages]
    /\ have \in [Callers -> Tokens]
    /\ queue \in Seq(Callers)
    /\ began \in 0 .. now

(* The lock has one holder, who is not in its queue, and the queue has each waiting *)
(* caller once: a call never waits for a lock that it holds itself.                 *)
LockSound ==
    /\ \A c, d \in Callers : at[c] = "fetching" /\ at[d] = "fetching" => c = d
    /\ \A c \in Callers : at[c] = "waiting" <=> \E i \in 1 .. Len(queue) : queue[i] = c
    /\ \A i, j \in 1 .. Len(queue) : queue[i] = queue[j] => i = j

(* Callers that find a token stale at the same time fetch it once: a cached token is *)
(* replaced only if it was still stale when the lock had been waited for.            *)
RefreshOnce == [][\A s \in Stages : cache'[s] # cache[s] => ~Fresh(cache[s])]_vars

(* A request presents a token, to STS, to IAM or to the Secret Manager.   *)
Presents(c) ==
    \/ at[c] = "reading"
    \/ at[c] = "fetching" /\ stage[c] # Azure

(* tokenRefreshBuffer is enough: however long a caller queued for the lock with a token *)
(* in hand, and however late STS's answer came, the token is not expired when the       *)
(* request begins that presents it.                                                     *)
UsesLiveTokens ==
    [][\A c \in Callers : Presents(c)' /\ at'[c] # at[c] => Alive(have[c])']_vars

(* Every call ends, with a secret or an error: the three stages do not block each other. *)
CallsEnd == \A c \in Callers : at[c] = "checking" ~> at[c] = "idle"
=============================================================================
