------------------------- MODULE TokenProviderProofs -------------------------
(***************************************************************************)
(* The invariants of TokenProvider for any number of callers, and that a   *)
(* token they present, if it is dead, has been so for less time than all   *)
(* their fetches may outlast the buffer.                                   *)
(***************************************************************************)
EXTENDS TokenProvider, FiniteSetTheorems, TLAPS

(* How long i fetches may take. *)
Wait(i) == i * Timeout

(* By how much the fetches of all callers may outlast the buffer: with a 10 s timeout and a *)
(* 60 s buffer nothing up to six callers, and tokens.go has no bound on them.               *)
Overdue == IF Wait(Cardinality(Callers)) <= Buffer THEN 0 ELSE Wait(Cardinality(Callers)) - Buffer

Grace == Timeout + Overdue

(* How long the fetch that holds the lock may still take. *)
TimeLeft == IF Locked THEN began + Timeout - now ELSE 0

(* A fetch has not run out of its time, and the token it is for is stale until it ends. *)
FetchInTime ==
    \A c \in Callers : at[c] = "fetching" => now <= began + Timeout /\ ~Fresh(cache[stage[c]])

(* STS's tokens may die earlier than the provider thinks, by as long as its answer took. *)
CacheHonest == \A s \in Stages : cache[s].expiresAt <= cache[s].dies + Timeout

(* The token that a waiting caller will present outlives the fetches before its own, or *)
(* is dead by then for less than what is overdue.                                       *)
InTime ==
    \A i \in 1 .. Len(queue) :
        stage[queue[i]] # Azure => now + TimeLeft + Wait(i) < have[queue[i]].dies + Grace

LockInv == TypeOK /\ LockSound /\ FetchInTime

IndInv == LockInv /\ CacheHonest /\ InTime

-----------------------------------------------------------------------------
LEMMA Times ==
  /\ Buffer \in Nat /\ Timeout \in Nat
  /\ \A l \in Lifetimes : l \in Nat /\ l > Buffer
BY TimesAssumption, LifetimeAssumption

(* A position further back in the queue waits one fetch longer. *)
LEMMA Waits ==
  /\ \A i \in Nat : Wait(i) \in Nat /\ Wait(i + 1) = Wait(i) + Timeout
  /\ Wait(1) = Timeout
  /\ \A i, j \in Nat : i <= j => Wait(i) <= Wait(j)
<1>1. \A i \in Nat : i * Timeout \in Nat /\ (i + 1) * Timeout = i * Timeout + Timeout
  BY Times
<1>2. 1 * Timeout = Timeout
  BY Times
<1>3. ASSUME NEW i \in Nat, NEW j \in Nat, i <= j PROVE i * Timeout <= j * Timeout
  <2>1. PICK d \in Nat : j = i + d
    <3>1. j - i \in Nat /\ j = i + (j - i)
      BY <1>3
    <3>2. QED
      BY <3>1
  <2>2. (i + d) * Timeout = i * Timeout + d * Timeout /\ d * Timeout \in Nat
    BY Times
  <2>3. QED
    BY <1>1, <2>1, <2>2
<1>4. QED
  BY <1>1, <1>2, <1>3 DEF Wait

LEMMA Overdues ==
  ASSUME IsFiniteSet(Callers)
  PROVE  /\ Overdue \in Nat /\ Grace \in Nat
         /\ Wait(Cardinality(Callers)) <= Buffer + Overdue
<1>1. Cardinality(Callers) \in Nat
  BY FS_CardinalityType
<1>2. Wait(Cardinality(Callers)) \in Nat
  BY <1>1, Waits
<1>3. QED
  BY <1>2, Times DEF Overdue, Grace

(* The queue has each caller once, so there is room for one that is not in it. *)
LEMMA Room ==
  ASSUME IsFiniteSet(Callers), TypeOK, LockSound, NEW c \in Callers
  PROVE  /\ Cardinality(Callers) \in Nat /\ Len(queue) \in Nat
         /\ Len(queue) <= Cardinality(Callers)
         /\ at[c] # "waiting" => Len(queue) + 1 <= Cardinality(Callers)
<1>1. IsFiniteSet(Callers) /\ Cardinality(Callers) \in Nat
  BY FS_CardinalityType
<1>2. Len(queue) \in Nat /\ queue \in Seq(Callers)
  BY DEF TypeOK
<1>3. IsFiniteSet(1 .. Len(queue)) /\ Cardinality(1 .. Len(queue)) = Len(queue)
  BY <1>2, FS_Interval
<1>4. queue \in Injection(1 .. Len(queue), Callers)
  BY <1>2 DEF LockSound, Injection, IsInjective
<1>5. Len(queue) <= Cardinality(Callers)
  BY <1>1, <1>3, <1>4, FS_Injection
<1>6. ASSUME at[c] # "waiting" PROVE Len(queue) + 1 <= Cardinality(Callers)
  <2>1. queue \in Injection(1 .. Len(queue), Callers \ {c})
    BY <1>2, <1>4, <1>6 DEF LockSound, Injection
  <2>2. IsFiniteSet(Callers \ {c}) /\ Cardinality(Callers \ {c}) = Cardinality(Callers) - 1
    BY <1>1, FS_RemoveElement
  <2>3. Len(queue) <= Cardinality(Callers \ {c})
    BY <1>3, <2>1, <2>2, FS_Injection
  <2>4. QED
    BY <1>1, <1>2, <2>2, <2>3
<1>7. QED
  BY <1>1, <1>2, <1>5, <1>6

(* What a token is that a service has just issued. *)
LEMMA Issues ==
  ASSUME TypeOK, FetchInTime, NEW c \in Callers, at[c] = "fetching",
         NEW moment \in began .. now, NEW life \in Lifetimes
  PROVE  /\ Issued(c, moment, life) \in Tokens
         /\ Issued(c, moment, life).expiresAt <= Issued(c, moment, life).dies + Timeout
         /\ now + Buffer < Issued(c, moment, life).dies + Timeout
<1>1. now \in Nat /\ began \in Nat /\ began <= now /\ moment \in Nat /\ began <= moment /\ moment <= now
  BY DEF TypeOK
<1>2. now <= began + Timeout
  BY DEF FetchInTime
<1>3. life \in Nat /\ life > Buffer /\ Buffer \in Nat /\ Timeout \in Nat
  BY Times
<1>4. Issued(c, moment, life).dies = moment + life
  BY DEF Issued
<1>5. Issued(c, moment, life).expiresAt \in {now + life, moment + life}
  BY DEF Issued
<1>6. Issued(c, moment, life) \in Tokens
  BY <1>1, <1>3 DEF Issued, Tokens
<1>7. QED
  BY <1>1, <1>2, <1>3, <1>4, <1>5, <1>6

(* Return, with the queue that is left when the caller is out of it: the caller is at the   *)
(* end of the queue again, or reads.                                                        *)
LEMMA Returns ==
  ASSUME TypeOK, NEW c \in Callers, NEW token \in Tokens, NEW q \in Seq(Callers), Return(c, token, q),
         at[c] # "fetching" \/ \A d \in Callers : at[d] = "fetching" => d = c
  PROVE  /\ at' \in [Callers -> {"idle", "checking", "waiting", "fetching", "reading"}]
         /\ stage' \in [Callers -> Stages] /\ have' \in [Callers -> Tokens]
         /\ queue' \in Seq(Callers)
         /\ at'[c] # "fetching"
         /\ \A d \in Callers \ {c} : at'[d] = at[d] /\ stage'[d] = stage[d] /\ have'[d] = have[d]
         /\ have'[c] = token
         /\ \/ at'[c] = "reading" /\ queue' = q
            \/ at'[c] = "waiting" /\ queue' = Append(q, c)
<1>1. CASE stage[c] = IAM
  BY <1>1 DEF Return, TypeOK
<1>2. CASE stage[c] # IAM
  <2>1. stage[c] + 1 \in Stages
    BY <1>2 DEF TypeOK, Stages, IAM, Azure
  <2>2. at' = [at EXCEPT ![c] = "waiting"] /\ queue' = Append(q, c) /\ stage' = [stage EXCEPT ![c] = @ + 1]
        /\ have' = [have EXCEPT ![c] = token]
    BY <1>2 DEF Return
  <2>3. Append(q, c) \in Seq(Callers)
    OBVIOUS
  <2>4. QED
    BY <2>1, <2>2, <2>3 DEF TypeOK
<1>3. QED
  BY <1>1, <1>2

(* What a queue is that has each waiting caller once, and that it stays so. *)
QueueSound(q, a) ==
    /\ \A c \in Callers : a[c] = "waiting" <=> \E i \in 1 .. Len(q) : q[i] = c
    /\ \A i, j \in 1 .. Len(q) : q[i] = q[j] => i = j

LEMMA Appends ==
  ASSUME NEW q \in Seq(Callers), NEW a, NEW b, QueueSound(q, a), NEW c \in Callers,
         a[c] # "waiting", b[c] = "waiting", \A d \in Callers \ {c} : b[d] = a[d]
  PROVE  QueueSound(Append(q, c), b)
<1>1. /\ Len(Append(q, c)) = Len(q) + 1 /\ Len(q) \in Nat /\ Append(q, c)[Len(q) + 1] = c
      /\ \A i \in 1 .. Len(q) : Append(q, c)[i] = q[i] /\ q[i] # c
  BY DEF QueueSound
<1>2. \A i \in 1 .. Len(q) + 1 : i \in 1 .. Len(q) \/ i = Len(q) + 1
  BY <1>1
<1>3. Len(q) + 1 \in 1 .. Len(q) + 1 /\ \A i \in 1 .. Len(q) : i \in 1 .. Len(q) + 1
  BY <1>1
<1>4. ASSUME NEW d \in Callers
      PROVE  b[d] = "waiting" <=> \E i \in 1 .. Len(q) + 1 : Append(q, c)[i] = d
  <2>1. CASE d = c
    BY <1>1, <1>3, <2>1
  <2>2. CASE d # c
    BY <1>1, <1>2, <1>3, <2>2 DEF QueueSound
  <2>3. QED
    BY <2>1, <2>2
<1>5. ASSUME NEW i \in 1 .. Len(q) + 1, NEW j \in 1 .. Len(q) + 1, Append(q, c)[i] = Append(q, c)[j]
      PROVE  i = j
  BY <1>1, <1>2, <1>5 DEF QueueSound
<1>6. QED
  BY <1>1, <1>4, <1>5 DEF QueueSound

LEMMA Leaves ==
  ASSUME NEW q \in Seq(Callers), NEW a, NEW b, QueueSound(q, a), q # <<>>,
         b[Head(q)] # "waiting", \A d \in Callers \ {Head(q)} : b[d] = a[d]
  PROVE  /\ Tail(q) \in Seq(Callers)
         /\ QueueSound(Tail(q), b)
<1>1. /\ Tail(q) \in Seq(Callers) /\ Len(q) \in Nat \ {0} /\ Len(Tail(q)) = Len(q) - 1 /\ Head(q) = q[1]
      /\ \A i \in 1 .. Len(q) - 1 : Tail(q)[i] = q[i + 1] /\ i + 1 \in 1 .. Len(q)
  OBVIOUS
<1>2. \A i \in 1 .. Len(q) : i = 1 \/ (i - 1 \in 1 .. Len(q) - 1 /\ i = (i - 1) + 1)
  BY <1>1
<1>3. ASSUME NEW d \in Callers
      PROVE  b[d] = "waiting" <=> \E i \in 1 .. Len(q) - 1 : Tail(q)[i] = d
  <2>1. CASE d = Head(q)
    <3>1. ASSUME NEW i \in 1 .. Len(q) - 1, Tail(q)[i] = d PROVE FALSE
      <4>1. q[i + 1] = q[1] /\ i + 1 \in 1 .. Len(q) /\ 1 \in 1 .. Len(q)
        BY <1>1, <2>1, <3>1
      <4>2. i + 1 = 1
        BY <4>1 DEF QueueSound
      <4>3. QED
        BY <4>2
    <3>2. QED
      BY <2>1, <3>1
  <2>2. CASE d # Head(q)
    <3>1. b[d] = "waiting" <=> \E i \in 1 .. Len(q) : q[i] = d
      BY <2>2 DEF QueueSound
    <3>2. ASSUME NEW i \in 1 .. Len(q), q[i] = d
          PROVE  \E k \in 1 .. Len(q) - 1 : Tail(q)[k] = d
      <4>1. i # 1
        BY <1>1, <2>2, <3>2
      <4>2. i - 1 \in 1 .. Len(q) - 1 /\ i = (i - 1) + 1
        BY <1>2, <4>1
      <4>3. Tail(q)[i - 1] = q[i]
        BY <1>1, <4>2
      <4>4. QED
        BY <3>2, <4>2, <4>3
    <3>3. ASSUME NEW k \in 1 .. Len(q) - 1, Tail(q)[k] = d
          PROVE  \E i \in 1 .. Len(q) : q[i] = d
      <4>1. k + 1 \in 1 .. Len(q) /\ q[k + 1] = d
        BY <1>1, <3>3
      <4>2. QED
        BY <4>1
    <3>4. QED
      BY <3>1, <3>2, <3>3
  <2>3. QED
    BY <2>1, <2>2
<1>4. ASSUME NEW i \in 1 .. Len(q) - 1, NEW j \in 1 .. Len(q) - 1, Tail(q)[i] = Tail(q)[j]
      PROVE  i = j
  <2>1. i + 1 = j + 1
    BY <1>1, <1>4 DEF QueueSound
  <2>2. QED
    BY <2>1
<1>5. QED
  BY <1>1, <1>3, <1>4 DEF QueueSound

-----------------------------------------------------------------------------
(* The lock: what a step of each kind does to its holder and its queue, and to the types. *)

LEMMA InitLock == ASSUME Init PROVE IndInv
<1>1. TypeOK
  <2>1. NoToken \in Tokens /\ IAM \in Stages /\ <<>> \in Seq(Callers) /\ 0 \in 0 .. 0
    BY DEF NoToken, Tokens, IAM, Stages, Azure
  <2>2. QED
    BY <2>1 DEF Init, TypeOK
<1>2. LockSound
  BY DEF Init, LockSound
<1>3. FetchInTime /\ InTime
  BY DEF Init, FetchInTime, InTime
<1>4. CacheHonest
  BY Times DEF Init, CacheHonest, NoToken
<1>5. QED
  BY <1>1, <1>2, <1>3, <1>4 DEF IndInv, LockInv

(* A step that puts the returning caller behind the queue q, or lets it read. *)
LEMMA ReturnKeeps ==
  ASSUME LockInv, NEW c \in Callers, NEW token \in Tokens, NEW q \in Seq(Callers), Return(c, token, q),
         at[c] # "fetching" \/ \A d \in Callers : at[d] = "fetching" => d = c,
         NEW a, QueueSound(q, a), a[c] \notin {"waiting", "fetching"}, \A d \in Callers \ {c} : a[d] = at[d]
  PROVE  /\ LockSound' /\ queue' \in Seq(Callers)
         /\ at' \in [Callers -> {"idle", "checking", "waiting", "fetching", "reading"}]
         /\ stage' \in [Callers -> Stages] /\ have' \in [Callers -> Tokens]
<1>1. TypeOK /\ LockSound
  BY DEF LockInv
<1>2. /\ at' \in [Callers -> {"idle", "checking", "waiting", "fetching", "reading"}]
      /\ stage' \in [Callers -> Stages] /\ have' \in [Callers -> Tokens] /\ queue' \in Seq(Callers)
      /\ at'[c] # "fetching"
      /\ \A d \in Callers \ {c} : at'[d] = at[d]
      /\ \/ at'[c] = "reading" /\ queue' = q
         \/ at'[c] = "waiting" /\ queue' = Append(q, c)
  BY <1>1, Returns
<1>3. QueueSound(queue', at')
  <2>1. CASE at'[c] = "reading" /\ queue' = q
    BY <1>2, <2>1 DEF QueueSound
  <2>2. CASE at'[c] = "waiting" /\ queue' = Append(q, c)
    BY <1>2, <2>2, Appends
  <2>3. QED
    BY <1>2, <2>1, <2>2
<1>4. \A d, e \in Callers : at'[d] = "fetching" /\ at'[e] = "fetching" => d = e
  BY <1>1, <1>2 DEF LockSound
<1>5. QED
  BY <1>2, <1>3, <1>4 DEF LockSound, QueueSound

LEMMA LockStays ==
  ASSUME LockInv, [Next]_vars
  PROVE  LockInv'
<1>0. TypeOK /\ LockSound /\ FetchInTime
  BY DEF LockInv
<1>0a. /\ now \in Nat /\ began \in Nat /\ began <= now /\ Buffer \in Nat /\ Timeout \in Nat
       /\ queue \in Seq(Callers) /\ QueueSound(queue, at) /\ MaxTime \in Nat
       /\ NoToken \in Tokens /\ IAM \in Stages /\ 0 \in 0 .. now /\ now \in 0 .. now
  BY <1>0, TimesAssumption DEF TypeOK, LockSound, QueueSound, NoToken, Tokens, IAM, Stages, Azure
<1>1. CASE Tick
  <2>1. /\ now' = now + 1 /\ now' \in Nat /\ began \in 0 .. now'
        /\ UNCHANGED <<cache, at, stage, have, queue, began>>
    BY <1>0a, <1>1 DEF Tick
  <2>2. Locked => now < began + Timeout
    BY <1>1 DEF Tick
  <2>3. FetchInTime'
    <3>1. \A s \in Stages : cache[s].expiresAt \in Nat
      BY <1>0 DEF TypeOK, Tokens
    <3>2. ASSUME NEW c \in Callers, at[c] = "fetching"
          PROVE  now' <= began + Timeout /\ ~Fresh(cache[stage[c]])'
      <4>1. ~(now + Buffer < cache[stage[c]].expiresAt) /\ stage[c] \in Stages
        BY <1>0, <3>2 DEF FetchInTime, Fresh, TypeOK
      <4>2. now < began + Timeout
        BY <2>2, <3>2 DEF Locked
      <4>3. QED
        BY <1>0a, <2>1, <3>1, <4>1, <4>2 DEF Fresh
    <3>3. QED
      BY <2>1, <3>2 DEF FetchInTime
  <2>4. QED
    BY <1>0, <2>1, <2>3 DEF LockInv, TypeOK, LockSound
<1>2. ASSUME NEW c \in Callers, GetGoogleAccessToken(c) PROVE LockInv'
  BY <1>0, <1>2 DEF GetGoogleAccessToken, LockInv, TypeOK, LockSound, FetchInTime, Fresh
<1>3. ASSUME NEW c \in Callers, CacheHit(c) PROVE LockInv'
  <2>1. /\ ~Locked /\ at[c] = "checking" /\ Return(c, cache[stage[c]], queue)
        /\ UNCHANGED <<now, cache, began>>
    BY <1>3 DEF CacheHit
  <2>2. cache[stage[c]] \in Tokens
    BY <1>0 DEF TypeOK
  <2>3. /\ LockSound' /\ queue' \in Seq(Callers)
        /\ at' \in [Callers -> {"idle", "checking", "waiting", "fetching", "reading"}]
        /\ stage' \in [Callers -> Stages] /\ have' \in [Callers -> Tokens]
    BY <1>0a, <2>1, <2>2, ReturnKeeps
  <2>4. FetchInTime'
    BY <1>0, <1>0a, <2>1, <2>2, Returns DEF FetchInTime, Locked
  <2>5. QED
    BY <1>0, <2>1, <2>3, <2>4 DEF LockInv, TypeOK
<1>4. ASSUME NEW c \in Callers, CacheMiss(c) PROVE LockInv'
  <2>1. ~Locked /\ at[c] = "checking" /\ UNCHANGED <<now, cache, have, began>>
    BY <1>4 DEF CacheMiss
  <2>2. CASE stage[c] = Azure
    <3>1. at' = [at EXCEPT ![c] = "waiting"] /\ queue' = Append(queue, c) /\ stage' = stage
      BY <1>4, <2>2 DEF CacheMiss
    <3>2. QueueSound(queue', at') /\ queue' \in Seq(Callers)
      <4>1. at[c] # "waiting" /\ at'[c] = "waiting" /\ \A d \in Callers \ {c} : at'[d] = at[d]
        BY <1>0, <2>1, <3>1 DEF TypeOK
      <4>2. QueueSound(Append(queue, c), at')
        BY <1>0a, <4>1, Appends
      <4>3. Append(queue, c) \in Seq(Callers)
        BY <1>0a
      <4>4. QED
        BY <3>1, <4>2, <4>3
    <3>3. QED
      BY <1>0, <2>1, <3>1, <3>2 DEF LockInv, TypeOK, LockSound, QueueSound, FetchInTime, Locked
  <2>3. CASE stage[c] # Azure
    <3>1. stage' = [stage EXCEPT ![c] = @ - 1] /\ UNCHANGED <<at, queue>>
      BY <1>4, <2>3 DEF CacheMiss
    <3>2. stage[c] - 1 \in Stages
      BY <1>0, <2>3 DEF TypeOK, Stages, Azure, IAM
    <3>3. QED
      BY <1>0, <2>1, <3>1, <3>2 DEF LockInv, TypeOK, LockSound, FetchInTime, Locked
  <2>4. QED
    BY <2>2, <2>3
<1>5. ASSUME NEW c \in Callers, Locks(c)
      PROVE  /\ ~Locked /\ queue # <<>> /\ c = Head(queue) /\ at[c] = "waiting"
             /\ Tail(queue) \in Seq(Callers)
             /\ \A s : s # "waiting" => QueueSound(Tail(queue), [at EXCEPT ![c] = s])
  <2>1. ~Locked /\ queue # <<>> /\ c = Head(queue)
    BY <1>5 DEF Locks
  <2>2. 1 \in 1 .. Len(queue) /\ queue[1] = c
    BY <1>0a, <2>1
  <2>3. at[c] = "waiting"
    BY <1>0a, <2>2 DEF QueueSound
  <2>4. ASSUME NEW s, s # "waiting" PROVE QueueSound(Tail(queue), [at EXCEPT ![c] = s])
    <3>1. [at EXCEPT ![c] = s][c] = s /\ \A d \in Callers \ {c} : [at EXCEPT ![c] = s][d] = at[d]
      BY <1>0 DEF TypeOK
    <3>2. QED
      BY <1>0a, <2>1, <2>4, <3>1, Leaves
  <2>5. Tail(queue) \in Seq(Callers)
    BY <1>0a, <2>1
  <2>6. QED
    BY <2>1, <2>3, <2>4, <2>5
<1>6. ASSUME NEW c \in Callers, Refreshed(c) PROVE LockInv'
  <2>1. Locks(c) /\ Return(c, cache[stage[c]], Tail(queue)) /\ UNCHANGED <<now, cache, began>>
    BY <1>6 DEF Refreshed
  <2>2. cache[stage[c]] \in Tokens
    BY <1>0 DEF TypeOK
  <2>3. /\ LockSound' /\ queue' \in Seq(Callers)
        /\ at' \in [Callers -> {"idle", "checking", "waiting", "fetching", "reading"}]
        /\ stage' \in [Callers -> Stages] /\ have' \in [Callers -> Tokens]
    <3>1. QueueSound(Tail(queue), [at EXCEPT ![c] = "checking"])
      BY <1>5, <2>1
    <3>2. /\ [at EXCEPT ![c] = "checking"][c] = "checking"
          /\ \A d \in Callers \ {c} : [at EXCEPT ![c] = "checking"][d] = at[d]
      BY <1>0 DEF TypeOK
    <3>3. at[c] # "fetching" /\ Tail(queue) \in Seq(Callers)
      BY <1>5, <2>1
    <3>4. QED
      BY <2>1, <2>2, <3>1, <3>2, <3>3, ReturnKeeps
  <2>4. FetchInTime'
    BY <1>0, <1>5, <2>1, <2>2, Returns DEF FetchInTime, Locked
  <2>5. QED
    BY <1>0, <2>1, <2>3, <2>4 DEF LockInv, TypeOK
<1>7. ASSUME NEW c \in Callers, BeginFetch(c) PROVE LockInv'
  <2>1. /\ Locks(c) /\ ~Fresh(cache[stage[c]]) /\ at' = [at EXCEPT ![c] = "fetching"]
        /\ queue' = Tail(queue) /\ began' = now /\ UNCHANGED <<now, cache, stage, have>>
    BY <1>7 DEF BeginFetch
  <2>2. QueueSound(queue', at') /\ queue' \in Seq(Callers) /\ ~Locked
    BY <1>5, <2>1
  <2>3. LockSound'
    BY <1>0, <2>1, <2>2 DEF LockSound, QueueSound, Locked, TypeOK
  <2>4. FetchInTime'
    <3>1. now <= now + Timeout
      BY <1>0a
    <3>2. QED
      BY <1>0, <2>1, <2>2, <3>1 DEF FetchInTime, Fresh, Locked, TypeOK
  <2>5. QED
    BY <1>0, <1>0a, <2>1, <2>2, <2>3, <2>4 DEF LockInv, TypeOK
<1>8. ASSUME NEW c \in Callers, FetchSucceeds(c) PROVE LockInv'
  <2>1. at[c] = "fetching" /\ began' = 0 /\ now' = now
    BY <1>8 DEF FetchSucceeds
  <2>2. PICK moment \in began .. now, life \in Lifetimes :
           /\ cache' = [cache EXCEPT ![stage[c]] = Issued(c, moment, life)]
           /\ Return(c, Issued(c, moment, life), queue)
    BY <1>8 DEF FetchSucceeds
  <2>3. Issued(c, moment, life) \in Tokens
    BY <1>0, <2>1, Issues
  <2>4. \A d \in Callers : at[d] = "fetching" => d = c
    BY <1>0, <2>1 DEF LockSound
  <2>5. /\ LockSound' /\ queue' \in Seq(Callers)
        /\ at' \in [Callers -> {"idle", "checking", "waiting", "fetching", "reading"}]
        /\ stage' \in [Callers -> Stages] /\ have' \in [Callers -> Tokens]
    <3>1. /\ [at EXCEPT ![c] = "checking"][c] = "checking"
          /\ \A d \in Callers \ {c} : [at EXCEPT ![c] = "checking"][d] = at[d]
      BY <1>0 DEF TypeOK
    <3>2. QueueSound(queue, [at EXCEPT ![c] = "checking"])
      BY <1>0a, <2>1, <3>1 DEF QueueSound
    <3>3. QED
      BY <1>0a, <2>2, <2>3, <2>4, <3>1, <3>2, ReturnKeeps
  <2>6. \A d \in Callers : at'[d] # "fetching"
    BY <1>0, <1>0a, <2>2, <2>3, <2>4, Returns
  <2>7. cache' \in [Stages -> Tokens]
    BY <1>0, <2>2, <2>3 DEF TypeOK
  <2>8. QED
    BY <1>0, <1>0a, <2>1, <2>5, <2>6, <2>7 DEF LockInv, TypeOK, FetchInTime
<1>9. ASSUME NEW c \in Callers, FetchFails(c) PROVE LockInv'
  <2>1. \A d \in Callers : at[d] = "fetching" => d = c
    BY <1>0, <1>9 DEF LockSound, FetchFails
  <2>2. QED
    BY <1>0, <1>0a, <1>9, <2>1 DEF FetchFails, LockInv, TypeOK, LockSound, FetchInTime
<1>10. ASSUME NEW c \in Callers, AccessSecret(c) PROVE LockInv'
  BY <1>0, <1>0a, <1>10 DEF AccessSecret, LockInv, TypeOK, LockSound, FetchInTime, Fresh
<1>11. CASE UNCHANGED vars
  BY <1>0, <1>11 DEF vars, LockInv, TypeOK, LockSound, FetchInTime, Fresh
<1>12. QED
  BY <1>1, <1>2, <1>3, <1>4, <1>6, <1>7, <1>8, <1>9, <1>10, <1>11 DEF Next, Check, Lock, Fetch
-----------------------------------------------------------------------------
(* Time: every caller that waits has at most the others before it.         *)

(* A fresh token of the cache outlives the buffer, but for the time STS's answer took. *)
LEMMA FreshLives ==
  ASSUME TypeOK, CacheHonest, NEW s \in Stages, Fresh(cache[s])
  PROVE  now + Buffer < cache[s].dies + Timeout
<1>1. now \in Nat /\ cache[s].expiresAt \in Nat /\ cache[s].dies \in Nat
  BY DEF TypeOK, Tokens
<1>2. now + Buffer < cache[s].expiresAt /\ cache[s].expiresAt <= cache[s].dies + Timeout
  BY DEF Fresh, CacheHonest
<1>3. QED
  BY <1>1, <1>2, Times

(* A caller that goes to the end of the queue q with such a token is in time there. *)
LEMMA BackInTime ==
  ASSUME IsFiniteSet(Callers), TypeOK, NEW n \in Nat, n <= Cardinality(Callers), Cardinality(Callers) \in Nat,
         NEW token \in Tokens, now + Buffer < token.dies + Timeout
  PROVE  now + Wait(n) < token.dies + Grace
<1>1. Wait(n) \in Nat /\ Wait(n) <= Wait(Cardinality(Callers))
  BY Waits
<1>2. Wait(Cardinality(Callers)) <= Buffer + Overdue /\ Grace = Timeout + Overdue
  BY Overdues DEF Grace
<1>3. now \in Nat /\ token.dies \in Nat /\ Buffer \in Nat /\ Timeout \in Nat
      /\ Wait(Cardinality(Callers)) \in Nat /\ Overdue \in Nat
  BY Times, Waits, Overdues DEF TypeOK, Tokens
<1>4. QED
  BY <1>1, <1>2, <1>3

(* A step after which nobody fetches, and the callers of the queue are those of q and, it may *)
(* be, the one that returned.                                                                 *)
LEMMA ReturnInTime ==
  ASSUME IsFiniteSet(Callers), TypeOK, NEW c \in Callers, NEW token \in Tokens, NEW q \in Seq(Callers),
         Return(c, token, q), at[c] # "fetching" \/ \A d \in Callers : at[d] = "fetching" => d = c,
         now' = now, Cardinality(Callers) \in Nat, Len(q) + 1 <= Cardinality(Callers),
         \A d \in Callers : at[d] = "fetching" => d = c,
         now + Buffer < token.dies + Timeout,
         \A i \in 1 .. Len(q) :
            q[i] # c /\ (stage[q[i]] # Azure => now + Wait(i) < have[q[i]].dies + Grace)
  PROVE  InTime'
<1>1. /\ queue' \in Seq(Callers) /\ at'[c] # "fetching"
      /\ \A d \in Callers \ {c} : at'[d] = at[d] /\ stage'[d] = stage[d] /\ have'[d] = have[d]
      /\ have'[c] = token
      /\ queue' = q \/ queue' = Append(q, c)
  BY Returns
<1>2. ~Locked'
  BY <1>1 DEF Locked
<1>3. TimeLeft' = 0
  BY <1>2 DEF TimeLeft
<1>4. SUFFICES ASSUME NEW i \in 1 .. Len(queue'), stage'[queue'[i]] # Azure
               PROVE  now + Wait(i) < have'[queue'[i]].dies + Grace
  <2>1. \A i \in 1 .. Len(queue') : Wait(i) \in Nat /\ now \in Nat
    BY <1>1, Waits DEF TypeOK
  <2>2. \A i \in 1 .. Len(queue') : now' + TimeLeft' + Wait(i) = now + Wait(i)
    BY <1>3, <2>1
  <2>3. QED
    BY <2>2, <1>4 DEF InTime, Wait
<1>5. CASE i \in 1 .. Len(q)
  <2>1. queue'[i] = q[i] /\ q[i] \in Callers \ {c}
    BY <1>1, <1>5
  <2>2. QED
    BY <1>1, <1>4, <1>5, <2>1
<1>6. CASE i \notin 1 .. Len(q)
  <2>1. queue' = Append(q, c) /\ i = Len(q) + 1 /\ queue'[i] = c
    BY <1>1, <1>4, <1>6
  <2>2. Len(q) + 1 \in Nat
    OBVIOUS
  <2>3. now + Wait(Len(q) + 1) < token.dies + Grace
    BY <2>2, BackInTime
  <2>4. QED
    BY <1>1, <2>1, <2>3
<1>7. QED
  BY <1>5, <1>6

LEMMA TimeStays ==
  ASSUME IsFiniteSet(Callers), IndInv, [Next]_vars
  PROVE  CacheHonest' /\ InTime'
<1>0. TypeOK /\ LockSound /\ FetchInTime /\ CacheHonest /\ InTime
  BY DEF IndInv, LockInv
<1>0a. /\ now \in Nat /\ began \in Nat /\ began <= now /\ Buffer \in Nat /\ Timeout \in Nat
       /\ queue \in Seq(Callers) /\ Len(queue) \in Nat /\ Grace \in Nat
  BY <1>0, Times, Overdues DEF TypeOK
<1>0b. /\ \A i \in 1 .. Len(queue) : queue[i] \in Callers /\ at[queue[i]] = "waiting"
       /\ \A i \in 1 .. Len(queue) : Wait(i) \in Nat /\ have[queue[i]].dies \in Nat
  <2>1. ASSUME NEW i \in 1 .. Len(queue) PROVE queue[i] \in Callers /\ at[queue[i]] = "waiting"
    BY <1>0, <1>0a DEF LockSound
  <2>2. ASSUME NEW i \in 1 .. Len(queue) PROVE Wait(i) \in Nat
    BY <1>0a, Waits
  <2>3. ASSUME NEW c \in Callers PROVE have[c].dies \in Nat
    BY <1>0 DEF TypeOK, Tokens
  <2>4. QED
    BY <2>1, <2>2, <2>3
<1>1. CASE Tick
  <2>1. now' = now + 1 /\ UNCHANGED <<cache, at, stage, have, queue, began>> /\ (queue # <<>> => Locked)
    BY <1>1 DEF Tick
  <2>2. CASE queue = <<>>
    BY <1>0, <2>1, <2>2 DEF InTime, CacheHonest
  <2>3. CASE Locked
    <3>1. now' + TimeLeft' = now + TimeLeft
      BY <1>0a, <2>1, <2>3 DEF TimeLeft, Locked
    <3>2. QED
      BY <1>0, <2>1, <3>1 DEF InTime, CacheHonest
  <2>4. QED
    BY <2>1, <2>2, <2>3
<1>2. ASSUME UNCHANGED <<now, queue, began, cache>>,
             \A c \in Callers : at'[c] = "fetching" <=> at[c] = "fetching",
             \A c \in Callers : at[c] = "waiting" => stage'[c] = stage[c] /\ have'[c] = have[c]
      PROVE  CacheHonest' /\ InTime'
  <2>1. TimeLeft' = TimeLeft
    BY <1>2 DEF TimeLeft, Locked
  <2>2. QED
    BY <1>0, <1>0b, <1>2, <2>1 DEF InTime, CacheHonest
<1>3. ASSUME NEW c \in Callers, GetGoogleAccessToken(c) PROVE CacheHonest' /\ InTime'
  BY <1>0, <1>2, <1>3 DEF GetGoogleAccessToken, TypeOK
<1>4. ASSUME NEW c \in Callers, CacheHit(c) PROVE CacheHonest' /\ InTime'
  <2>1. /\ ~Locked /\ at[c] = "checking" /\ Fresh(cache[stage[c]]) /\ Return(c, cache[stage[c]], queue)
        /\ UNCHANGED <<now, cache, began>>
    BY <1>4 DEF CacheHit
  <2>2. cache[stage[c]] \in Tokens /\ stage[c] \in Stages
    BY <1>0 DEF TypeOK
  <2>3. now + Buffer < cache[stage[c]].dies + Timeout
    BY <1>0, <2>1, <2>2, FreshLives
  <2>4. Cardinality(Callers) \in Nat /\ Len(queue) + 1 <= Cardinality(Callers)
    BY <1>0, <2>1, Room
  <2>5. TimeLeft = 0
    BY <2>1 DEF TimeLeft
  <2>6. \A i \in 1 .. Len(queue) :
           queue[i] # c /\ (stage[queue[i]] # Azure => now + Wait(i) < have[queue[i]].dies + Grace)
    BY <1>0, <1>0a, <1>0b, <2>1, <2>5 DEF InTime
  <2>7. InTime'
    BY <1>0, <1>0a, <2>1, <2>2, <2>3, <2>4, <2>6, ReturnInTime DEF Locked
  <2>8. QED
    BY <1>0, <2>1, <2>7 DEF CacheHonest
<1>5. ASSUME NEW c \in Callers, CacheMiss(c) PROVE CacheHonest' /\ InTime'
  <2>1. ~Locked /\ at[c] = "checking" /\ UNCHANGED <<now, cache, have, began>>
    BY <1>5 DEF CacheMiss
  <2>2. CASE stage[c] = Azure
    <3>1. at' = [at EXCEPT ![c] = "waiting"] /\ queue' = Append(queue, c) /\ stage' = stage
      BY <1>5, <2>2 DEF CacheMiss
    <3>2. TimeLeft' = TimeLeft
      BY <1>0, <2>1, <3>1 DEF TimeLeft, Locked, TypeOK
    <3>3. \A i \in 1 .. Len(queue') : \/ i \in 1 .. Len(queue) /\ queue'[i] = queue[i]
                                      \/ queue'[i] = c
      BY <1>0a, <3>1
    <3>4. QED
      BY <1>0, <2>1, <2>2, <3>1, <3>2, <3>3 DEF InTime, CacheHonest
  <2>3. CASE stage[c] # Azure
    <3>1. stage' = [stage EXCEPT ![c] = @ - 1] /\ UNCHANGED <<at, queue>>
      BY <1>5, <2>3 DEF CacheMiss
    <3>2. QED
      BY <1>0, <1>2, <2>1, <3>1 DEF TypeOK
  <2>4. QED
    BY <2>2, <2>3
<1>6. ASSUME NEW c \in Callers, Locks(c)
      PROVE  /\ ~Locked /\ TimeLeft = 0 /\ Tail(queue) \in Seq(Callers) /\ Len(queue) >= 1
             /\ Len(Tail(queue)) = Len(queue) - 1 /\ c = queue[1] /\ at[c] = "waiting"
             /\ \A i \in 1 .. Len(queue) - 1 :
                   /\ i + 1 \in 1 .. Len(queue) /\ Tail(queue)[i] = queue[i + 1] /\ queue[i + 1] # c
                   /\ stage[queue[i + 1]] # Azure
                        => now + Timeout + Wait(i) < have[queue[i + 1]].dies + Grace
  <2>1. ~Locked /\ queue # <<>> /\ c = queue[1]
    BY <1>0a, <1>6 DEF Locks
  <2>2. TimeLeft = 0
    BY <2>1 DEF TimeLeft
  <2>3. /\ Tail(queue) \in Seq(Callers) /\ Len(queue) >= 1 /\ Len(Tail(queue)) = Len(queue) - 1
        /\ \A i \in 1 .. Len(queue) - 1 : i + 1 \in 1 .. Len(queue) /\ Tail(queue)[i] = queue[i + 1]
    BY <1>0a, <2>1
  <2>4. ASSUME NEW i \in 1 .. Len(queue) - 1
        PROVE  /\ queue[i + 1] # c
               /\ stage[queue[i + 1]] # Azure
                    => now + Timeout + Wait(i) < have[queue[i + 1]].dies + Grace
    <3>1. i + 1 \in 1 .. Len(queue) /\ 1 \in 1 .. Len(queue) /\ i \in Nat /\ i + 1 # 1
      BY <1>0a, <2>3
    <3>2. queue[i + 1] # c
      BY <1>0, <2>1, <3>1 DEF LockSound
    <3>3. stage[queue[i + 1]] # Azure => now + TimeLeft + Wait(i + 1) < have[queue[i + 1]].dies + Grace
      BY <1>0, <3>1 DEF InTime
    <3>4. now + TimeLeft + Wait(i + 1) = now + Timeout + Wait(i)
      <4>1. Wait(i + 1) = Wait(i) + Timeout /\ Wait(i) \in Nat
        BY <3>1, Waits
      <4>2. QED
        BY <1>0a, <2>2, <4>1
    <3>5. QED
      BY <3>2, <3>3, <3>4
  <2>5. at[c] = "waiting"
    <3>1. 1 \in 1 .. Len(queue)
      BY <1>0a, <2>3
    <3>2. QED
      BY <1>0b, <2>1, <3>1
  <2>6. QED
    BY <2>1, <2>2, <2>3, <2>4, <2>5
<1>7. ASSUME NEW c \in Callers, Refreshed(c) PROVE CacheHonest' /\ InTime'
  <2>1. /\ Locks(c) /\ Fresh(cache[stage[c]]) /\ Return(c, cache[stage[c]], Tail(queue))
        /\ UNCHANGED <<now, cache, began>>
    BY <1>7 DEF Refreshed
  <2>2. cache[stage[c]] \in Tokens /\ stage[c] \in Stages
    BY <1>0 DEF TypeOK
  <2>3. now + Buffer < cache[stage[c]].dies + Timeout
    BY <1>0, <2>1, <2>2, FreshLives
  <2>4. /\ Cardinality(Callers) \in Nat /\ Len(Tail(queue)) + 1 <= Cardinality(Callers)
        /\ Tail(queue) \in Seq(Callers) /\ ~Locked /\ at[c] = "waiting"
        /\ Len(Tail(queue)) = Len(queue) - 1
    BY <1>0, <1>0a, <1>6, <2>1, Room
  <2>5. ASSUME NEW i \in 1 .. Len(Tail(queue))
        PROVE  /\ Tail(queue)[i] # c
               /\ stage[Tail(queue)[i]] # Azure => now + Wait(i) < have[Tail(queue)[i]].dies + Grace
    <3>1. i \in 1 .. Len(queue) - 1 /\ i \in Nat
      BY <2>4
    <3>2. /\ Tail(queue)[i] = queue[i + 1] /\ queue[i + 1] # c /\ i + 1 \in 1 .. Len(queue)
          /\ stage[queue[i + 1]] # Azure => now + Timeout + Wait(i) < have[queue[i + 1]].dies + Grace
      BY <1>6, <2>1, <3>1
    <3>3. Wait(i) \in Nat /\ have[queue[i + 1]].dies \in Nat
      BY <1>0b, <3>1, <3>2, Waits
    <3>4. now + Timeout + Wait(i) < have[queue[i + 1]].dies + Grace
             => now + Wait(i) < have[queue[i + 1]].dies + Grace
      BY <1>0a, <3>3
    <3>5. QED
      BY <3>2, <3>4
  <2>6. InTime'
    BY <1>0, <2>1, <2>2, <2>3, <2>4, <2>5, ReturnInTime DEF Locked
  <2>7. QED
    BY <1>0, <2>1, <2>6 DEF CacheHonest
<1>8. ASSUME NEW c \in Callers, BeginFetch(c) PROVE CacheHonest' /\ InTime'
  <2>1. /\ Locks(c) /\ at' = [at EXCEPT ![c] = "fetching"]
        /\ queue' = Tail(queue) /\ began' = now /\ UNCHANGED <<now, cache, stage, have>>
    BY <1>8 DEF BeginFetch
  <2>2. now' + TimeLeft' = now + Timeout
    <3>1. Locked'
      BY <1>0, <2>1 DEF Locked, TypeOK
    <3>2. TimeLeft' = now + Timeout - now
      BY <2>1, <3>1 DEF TimeLeft
    <3>3. QED
      BY <1>0a, <2>1, <3>2
  <2>3. Len(queue') = Len(queue) - 1
    BY <1>6, <2>1
  <2>4. ASSUME NEW i \in 1 .. Len(queue'), stage'[queue'[i]] # Azure
        PROVE  now' + TimeLeft' + Wait(i) < have'[queue'[i]].dies + Grace
    BY <1>6, <2>1, <2>2, <2>3, <2>4
  <2>5. InTime'
    BY <2>4 DEF InTime, Wait
  <2>6. QED
    BY <1>0, <2>1, <2>5 DEF CacheHonest
<1>9. ASSUME NEW c \in Callers, at[c] = "fetching"
      PROVE  /\ \A d \in Callers : at[d] = "fetching" => d = c
             /\ \A i \in 1 .. Len(queue) :
                  queue[i] # c /\ (stage[queue[i]] # Azure => now + Wait(i) < have[queue[i]].dies + Grace)
  <2>1. TimeLeft = began + Timeout - now /\ now <= began + Timeout
    BY <1>0, <1>9 DEF TimeLeft, Locked, FetchInTime
  <2>2. TimeLeft \in Nat
    BY <1>0a, <2>1
  <2>3. ASSUME NEW i \in 1 .. Len(queue), stage[queue[i]] # Azure
        PROVE  now + Wait(i) < have[queue[i]].dies + Grace
    <3>1. now + TimeLeft + Wait(i) < have[queue[i]].dies + Grace
      BY <1>0, <2>3 DEF InTime
    <3>2. Wait(i) \in Nat /\ have[queue[i]].dies \in Nat
      BY <1>0b
    <3>3. QED
      BY <1>0a, <2>2, <3>1, <3>2
  <2>4. QED
    BY <1>0, <1>0b, <1>9, <2>3 DEF LockSound
<1>10. ASSUME NEW c \in Callers, FetchSucceeds(c) PROVE CacheHonest' /\ InTime'
  <2>1. at[c] = "fetching" /\ now' = now
    BY <1>10 DEF FetchSucceeds
  <2>2. PICK moment \in began .. now, life \in Lifetimes :
           /\ cache' = [cache EXCEPT ![stage[c]] = Issued(c, moment, life)]
           /\ Return(c, Issued(c, moment, life), queue)
    BY <1>10 DEF FetchSucceeds
  <2>3. /\ Issued(c, moment, life) \in Tokens
        /\ Issued(c, moment, life).expiresAt <= Issued(c, moment, life).dies + Timeout
        /\ now + Buffer < Issued(c, moment, life).dies + Timeout
    BY <1>0, <2>1, Issues
  <2>4. CacheHonest'
    BY <1>0, <2>2, <2>3 DEF CacheHonest, TypeOK
  <2>5. Cardinality(Callers) \in Nat /\ Len(queue) + 1 <= Cardinality(Callers)
    BY <1>0, <2>1, Room
  <2>6. InTime'
    BY <1>0, <1>0a, <1>9, <2>1, <2>2, <2>3, <2>5, ReturnInTime
  <2>7. QED
    BY <2>4, <2>6
<1>11. ASSUME NEW c \in Callers, FetchFails(c) PROVE CacheHonest' /\ InTime'
  <2>1. /\ at[c] = "fetching" /\ at' = [at EXCEPT ![c] = "idle"] /\ UNCHANGED <<now, cache, queue>>
        /\ stage' = [stage EXCEPT ![c] = IAM] /\ have' = [have EXCEPT ![c] = NoToken]
    BY <1>11 DEF FetchFails
  <2>2. ~Locked'
    BY <1>0, <1>9, <2>1 DEF Locked, TypeOK
  <2>3. TimeLeft' = 0
    BY <2>2 DEF TimeLeft
  <2>4. ASSUME NEW i \in 1 .. Len(queue), stage'[queue[i]] # Azure
        PROVE  now + 0 + Wait(i) < have'[queue[i]].dies + Grace
    <3>1. queue[i] \in Callers \ {c}
      BY <1>0b, <1>9, <2>1
    <3>2. stage'[queue[i]] = stage[queue[i]] /\ have'[queue[i]] = have[queue[i]]
      BY <1>0, <2>1, <3>1 DEF TypeOK
    <3>3. now + Wait(i) < have[queue[i]].dies + Grace
      BY <1>9, <2>1, <2>4, <3>2
    <3>4. now + 0 = now
      BY <1>0a
    <3>5. QED
      BY <3>2, <3>3, <3>4
  <2>5. QED
    BY <1>0, <2>1, <2>3, <2>4 DEF InTime, CacheHonest, Wait
<1>12. ASSUME NEW c \in Callers, AccessSecret(c) PROVE CacheHonest' /\ InTime'
  BY <1>0, <1>2, <1>12 DEF AccessSecret, TypeOK
<1>13. CASE UNCHANGED vars
  BY <1>2, <1>13 DEF vars
<1>14. QED
  BY <1>1, <1>3, <1>4, <1>5, <1>7, <1>8, <1>10, <1>11, <1>12, <1>13 DEF Next, Check, Lock, Fetch

-----------------------------------------------------------------------------
LEMMA LockInductive == Spec => []LockInv
<1>1. Init => LockInv
  BY InitLock DEF IndInv
<1>2. QED
  BY <1>1, LockStays, PTL DEF Spec

(* The variables of tokens.go stay in their sets. *)
THEOREM TypeCorrect == Spec => []TypeOK
<1>1. LockInv => TypeOK
  BY DEF LockInv
<1>2. QED
  BY <1>1, LockInductive, PTL

(* For any number of callers, mu has one holder and each waiting caller is in its queue *)
(* once: no get...Token call waits for a lock that it holds itself.                     *)
THEOREM LockStaysSound == Spec => []LockSound
<1>1. LockInv => LockSound
  BY DEF LockInv
<1>2. QED
  BY <1>1, LockInductive, PTL

(* For any number of callers, a cached token is replaced only when it is stale: who waited *)
(* for mu while another fetched uses what that one fetched.                                *)
THEOREM RefreshesOnce == Spec => RefreshOnce
<1>1. ASSUME LockInv, [Next]_vars, NEW s \in Stages, cache'[s] # cache[s] PROVE ~Fresh(cache[s])
  <2>1. TypeOK /\ FetchInTime
    BY <1>1 DEF LockInv
  <2>2. PICK c \in Callers : FetchSucceeds(c)
    BY <1>1 DEF Next, vars, Tick, GetGoogleAccessToken, Check, Lock, Fetch, CacheHit, CacheMiss, Refreshed,
                BeginFetch, FetchFails, AccessSecret
  <2>3. at[c] = "fetching" /\ s = stage[c]
    BY <1>1, <2>1, <2>2 DEF FetchSucceeds, TypeOK
  <2>4. QED
    BY <2>1, <2>3 DEF FetchInTime
<1>2. ASSUME LockInv, [Next]_vars PROVE [\A s \in Stages : cache'[s] # cache[s] => ~Fresh(cache[s])]_vars
  BY <1>1, <1>2
<1>3. QED
  BY <1>2, LockInductive, PTL DEF Spec, RefreshOnce

LEMMA TimeInductive == ASSUME IsFiniteSet(Callers) PROVE Spec => []IndInv
<1>1. ASSUME IndInv, [Next]_vars PROVE IndInv'
  BY <1>1, LockStays, TimeStays DEF IndInv
<1>2. QED
  BY <1>1, InitLock, PTL DEF Spec

(* A get...Token call reads its token, queues for mu behind the others and only then presents *)
(* it. ExpiredLessThan(d): tokens that are presented then died less than d ago, if they did.  *)
ExpiredLessThan(d) ==
    [][\A c \in Callers : Presents(c)' /\ at'[c] # at[c] => now' < have'[c].dies + d]_vars

(* However many callers there are, whatever the services answer and however late: a token is  *)
(* presented before it has been dead for as long as the fetches of all of them may outlast    *)
(* the buffer. With two callers, and with three, TLC finds one that late less one.            *)
THEOREM OverdueBounded == ASSUME IsFiniteSet(Callers) PROVE Spec => ExpiredLessThan(Overdue)
<1>1. ASSUME IndInv, [Next]_vars, NEW c \in Callers, Presents(c)', at'[c] # at[c]
      PROVE  now' < have'[c].dies + Overdue
  <2>0. TypeOK /\ LockSound /\ FetchInTime /\ CacheHonest /\ InTime
    BY <1>1 DEF IndInv, LockInv
  <2>0a. now \in Nat /\ Buffer \in Nat /\ Timeout \in Nat /\ Overdue \in Nat /\ Timeout <= Buffer + Overdue
        /\ Grace = Timeout + Overdue /\ queue \in Seq(Callers)
    <3>1. Cardinality(Callers) \in Nat /\ Len(queue) <= Cardinality(Callers) /\ Len(queue) \in Nat
          /\ (at[c] # "waiting" => Len(queue) + 1 <= Cardinality(Callers))
      BY <2>0, Room
    <3>2. 1 <= Cardinality(Callers)
      <4>1. CASE at[c] # "waiting"
        BY <3>1, <4>1
      <4>2. CASE at[c] = "waiting"
        BY <2>0, <3>1, <4>2 DEF LockSound
      <4>3. QED
        BY <4>1, <4>2
    <3>3. Wait(1) <= Wait(Cardinality(Callers)) /\ Wait(1) = Timeout /\ Wait(Cardinality(Callers)) <= Buffer + Overdue
      BY <3>1, <3>2, Waits, Overdues
    <3>4. Wait(Cardinality(Callers)) \in Nat
      BY <3>1, Waits
    <3>5. QED
      BY <2>0, <3>3, <3>4, Times, Overdues DEF TypeOK, Grace
  <2>1. at'[c] \in {"reading", "fetching"}
    BY <1>1 DEF Presents
  <2>2. ASSUME NEW token \in Tokens, have'[c] = token, now' = now, now + Buffer < token.dies + Timeout
        PROVE  now' < have'[c].dies + Overdue
    <3>1. token.dies \in Nat
      BY DEF Tokens
    <3>2. now < token.dies + Overdue
      BY <2>0a, <2>2, <3>1
    <3>3. QED
      BY <2>2, <3>2
  <2>3. CASE CacheHit(c) \/ Refreshed(c)
    <3>1. PICK q : Return(c, cache[stage[c]], q) /\ now' = now /\ Fresh(cache[stage[c]])
      BY <2>3 DEF CacheHit, Refreshed
    <3>2. cache[stage[c]] \in Tokens /\ stage[c] \in Stages /\ have'[c] = cache[stage[c]]
      BY <2>0, <3>1 DEF TypeOK, Return
    <3>3. now + Buffer < cache[stage[c]].dies + Timeout
      BY <2>0, <3>1, <3>2, FreshLives
    <3>4. QED
      BY <2>2, <3>1, <3>2, <3>3
  <2>4. CASE FetchSucceeds(c)
    <3>1. at[c] = "fetching" /\ now' = now
      BY <2>4 DEF FetchSucceeds
    <3>2. PICK moment \in began .. now, life \in Lifetimes : Return(c, Issued(c, moment, life), queue)
      BY <2>4 DEF FetchSucceeds
    <3>3. have'[c] = Issued(c, moment, life)
      BY <2>0, <3>2 DEF Return, TypeOK
    <3>4. QED
      BY <2>0, <2>2, <3>1, <3>3, Issues
  <2>5. CASE BeginFetch(c)
    <3>1. /\ queue # <<>> /\ c = Head(queue) /\ ~Locked
          /\ at' = [at EXCEPT ![c] = "fetching"] /\ UNCHANGED <<now, stage, have>>
      BY <2>5 DEF BeginFetch, Locks
    <3>2. 1 \in 1 .. Len(queue) /\ queue[1] = c /\ TimeLeft = 0
      BY <2>0a, <3>1 DEF TimeLeft
    <3>3. stage[c] # Azure
      BY <1>1, <2>0, <3>1 DEF Presents, TypeOK
    <3>4. now + TimeLeft + Wait(1) < have[c].dies + Grace
      BY <2>0, <3>2, <3>3 DEF InTime
    <3>5. now < have[c].dies + Overdue
      <4>1. have[c].dies \in Nat /\ Wait(1) = Timeout
        BY <2>0, Waits DEF TypeOK, Tokens
      <4>2. QED
        BY <2>0a, <3>2, <3>4, <4>1
    <3>6. QED
      BY <3>1, <3>5
  <2>6. \/ CacheHit(c) \/ Refreshed(c) \/ FetchSucceeds(c) \/ BeginFetch(c)
    <3>1. CASE UNCHANGED vars
      BY <1>1, <3>1 DEF vars
    <3>2. CASE Tick
      BY <1>1, <3>2 DEF Tick
    <3>3. ASSUME NEW d \in Callers, d # c,
                 \/ GetGoogleAccessToken(d) \/ Check(d) \/ Lock(d) \/ Fetch(d) \/ AccessSecret(d)
          PROVE  FALSE
      <4>1. \E s : at' = [at EXCEPT ![d] = s] \/ at' = at
        <5>1. CASE GetGoogleAccessToken(d) \/ AccessSecret(d) \/ FetchFails(d) \/ BeginFetch(d)
          BY <5>1 DEF GetGoogleAccessToken, AccessSecret, FetchFails, BeginFetch
        <5>2. CASE CacheMiss(d)
          BY <5>2 DEF CacheMiss
        <5>3. CASE CacheHit(d) \/ Refreshed(d) \/ FetchSucceeds(d)
          BY <5>3 DEF CacheHit, Refreshed, FetchSucceeds, Return
        <5>4. QED
          BY <3>3, <5>1, <5>2, <5>3 DEF Check, Lock, Fetch
      <4>2. at'[c] = at[c]
        BY <2>0, <3>3, <4>1 DEF TypeOK
      <4>3. QED
        BY <1>1, <4>2
    <3>4. CASE GetGoogleAccessToken(c) \/ AccessSecret(c) \/ FetchFails(c) \/ CacheMiss(c)
      <4>1. at'[c] \in {"checking", "idle", "waiting", at[c]}
        BY <2>0, <3>4 DEF GetGoogleAccessToken, AccessSecret, FetchFails, CacheMiss, TypeOK
      <4>2. QED
        BY <1>1, <2>1, <4>1
    <3>5. QED
      BY <1>1, <3>1, <3>2, <3>3, <3>4 DEF Next, Check, Lock, Fetch
  <2>7. QED
    BY <2>3, <2>4, <2>5, <2>6
<1>2. ASSUME IndInv, [Next]_vars
      PROVE  [\A c \in Callers : Presents(c)' /\ at'[c] # at[c] => now' < have'[c].dies + Overdue]_vars
  BY <1>1, <1>2
<1>3. QED
  BY <1>2, TimeInductive, PTL DEF Spec, ExpiredLessThan

(* With few callers, then, no token is expired when it is presented. *)
FewCallers == IsFiniteSet(Callers) /\ Cardinality(Callers) * Timeout <= Buffer
THEOREM LiveTokensUsed == ASSUME FewCallers PROVE Spec => UsesLiveTokens
<1>1. IsFiniteSet(Callers) /\ Overdue = 0
  BY DEF FewCallers, Overdue, Wait
<1>2. Spec => []TypeOK
  BY TypeCorrect
<1>3. Spec => ExpiredLessThan(Overdue)
  BY <1>1, OverdueBounded
<1>4. ASSUME TypeOK', [\A c \in Callers : Presents(c)' /\ at'[c] # at[c] => now' < have'[c].dies + Overdue]_vars
      PROVE  [\A c \in Callers : Presents(c)' /\ at'[c] # at[c] => Alive(have[c])']_vars
  <2>1. \A c \in Callers : have'[c].dies \in Nat
    BY <1>4 DEF TypeOK, Tokens
  <2>2. QED
    BY <1>1, <1>4, <2>1 DEF Alive
<1>5. QED
  BY <1>2, <1>3, <1>4, PTL DEF ExpiredLessThan, UsesLiveTokens
=============================================================================
