-------------------------- MODULE TransportProofs --------------------------
(***************************************************************************)
(* Proofs about Transport: for any calls, targets and retries, the calls    *)
(* use the pool as its interface says, and what is proved of the pool then  *)
(* holds of them (SlotPoolProofs); what waits holds no slot, and no path    *)
(* leaves one behind.                                                       *)
(***************************************************************************)
EXTENDS Transport, TLAPS

Proved == INSTANCE SlotPoolProofs

\* How far a call can be with its slot, by where it is.
Waits == {"idle", "slow", "parked", "taken", "held"}
Over == {"idle", "freeing", "released"}

Place(r) ==
    /\ stage[r] \in {"idle", "lock"} => pc[r] = "idle"
    /\ stage[r] \in {"login", "send"} => pc[r] \in Waits
    /\ stage[r] \in {"unlock", "drain", "close"} => pc[r] \in Over
    /\ stage[r] = "tried" /\ outcome[r] = "error" => pc[r] \in Over
    /\ stage[r] = "tried" /\ outcome[r] # "error" => pc[r] = "held"
    /\ stage[r] = "backoff" => pc[r] \in {"idle", "released"}
    /\ stage[r] = "body" => pc[r] = "held"

CallTypes ==
    /\ stage \in [Requests -> Stages]
    /\ attempt \in [Requests -> 0..MaxRetries]
    /\ outcome \in [Requests -> Outcomes]
    /\ ended \in [Requests -> BOOLEAN]
    /\ mutex \in [Targets -> Requests \cup {NoOne}]
    /\ cookie \in [Targets -> BOOLEAN]

CallInv == CallTypes /\ OneLogin /\ \A r \in Requests : Place(r)

\* What the pool's invariant says of the queue.
Queue ==
    /\ pc \in [Requests -> Proved!Status]
    /\ parked \in Seq(Requests)
    /\ \A i \in DOMAIN parked : pc[parked[i]] = "parked"

-----------------------------------------------------------------------------
(* The pool that is proved is the pool that is used *)

LEMMA SameCardinality ==
    /\ Proved!Cardinality(Targets) = Pool!Cardinality(Targets)
    /\ Proved!Cardinality(Targets) = Cardinality(Targets)
<1>1. Proved!Cardinality(Targets) = Pool!Cardinality(Targets)
      BY DEF Proved!Cardinality, Pool!Cardinality
<1>2. Proved!Cardinality(Targets) = Cardinality(Targets)
      BY DEF Proved!Cardinality, Cardinality
<1> QED
    BY <1>1, <1>2

LEMMA PoolAssumed ==
    ASSUME TransportAssumption
    PROVE  Proved!PoolAssumption
<1>1. \A S : IsFiniteSet(S) => Proved!IsFiniteSet(S)
      BY DEF IsFiniteSet, Proved!IsFiniteSet
<1> QED
    BY <1>1, SameCardinality DEF TransportAssumption, Proved!PoolAssumption

LEMMA SameTypes == Proved!TypeOK <=> Pool!TypeOK
<1>1. Proved!SharedCapacity = Pool!SharedCapacity
      BY SameCardinality DEF Proved!SharedCapacity, Pool!SharedCapacity
<1>2. Proved!Status = Pool!Status
      BY DEF Proved!Status, Pool!Status
<1> QED
    BY <1>1, <1>2 DEF Proved!TypeOK, Pool!TypeOK

LEMMA SameHolding == Proved!Holding = Pool!Holding
BY DEF Proved!Holding, Pool!Holding

LEMMA SameSpec == Pool!Spec => Proved!Spec
<1>1. Pool!Init => Proved!Init
      BY DEF Pool!Init, Proved!Init
<1>2. Proved!SharedCapacity = Pool!SharedCapacity
      BY SameCardinality DEF Proved!SharedCapacity, Pool!SharedCapacity
<1>3. ASSUME NEW r \in Requests PROVE Pool!Acquire(r) => Proved!Acquire(r)
      BY <1>2 DEF Pool!Acquire, Pool!AcquireFast, Pool!AcquireMiss, Pool!AcquireSlow, Pool!Park,
             Pool!PutReserved, Pool!PutShared, Pool!HasReserved, Pool!HasShared, Pool!MayPark,
             Proved!Acquire, Proved!AcquireFast, Proved!AcquireMiss, Proved!AcquireSlow,
             Proved!Park, Proved!PutReserved, Proved!PutShared, Proved!HasReserved,
             Proved!HasShared, Proved!MayPark
<1>4. \A s, i : Pool!SeqExt!RemoveAt(s, i) = Proved!SeqExt!RemoveAt(s, i)
      BY DEF Pool!SeqExt!RemoveAt, Proved!SeqExt!RemoveAt
<1>5. ASSUME NEW r \in Requests PROVE Pool!GiveUp(r) => Proved!GiveUp(r)
      BY <1>4 DEF Pool!GiveUp, Pool!GiveUpAtOnce, Pool!GiveUpParked,
             Proved!GiveUp, Proved!GiveUpAtOnce, Proved!GiveUpParked
<1>6. ASSUME NEW r \in Requests
      PROVE  /\ Pool!Hold(r) => Proved!Hold(r)
             /\ Pool!Release(r) => Proved!Release(r)
             /\ Pool!Forget(r) => Proved!Forget(r)
      BY DEF Pool!Hold, Pool!Release, Pool!FirstCall, Pool!Forget,
             Proved!Hold, Proved!Release, Proved!FirstCall, Proved!Forget
<1>7. ASSUME NEW r \in Requests PROVE Pool!Free(r) => Proved!Free(r)
      BY <1>4 DEF Pool!Free, Pool!FreeToParked, Pool!FreeToPool, Pool!IsNext, Pool!WaitsBehind,
             Proved!Free, Proved!FreeToParked, Proved!FreeToPool, Proved!IsNext,
             Proved!WaitsBehind
<1>8. [Pool!Next]_(Pool!vars) => [Proved!Next]_(Proved!vars)
      BY <1>3, <1>5, <1>6, <1>7 DEF Pool!Next, Proved!Next, Pool!vars, Proved!vars
<1> QED
    BY <1>1, <1>8, PTL DEF Pool!Spec, Proved!Spec

-----------------------------------------------------------------------------
(* What the pool's steps do to a request *)

\* Another's step leaves a request where it is, or hands it the slot it waits for.
Handed(q) == pc'[q] = pc[q] \/ (pc[q] = "parked" /\ pc'[q] = "taken")
Others(r) == \A q \in Requests \ {r} : Handed(q)

LEMMA PoolMoves ==
    ASSUME Queue, NEW r \in Requests
    PROVE  /\ Pool!Acquire(r) => /\ pc[r] \in {"idle", "slow"} /\ Others(r)
                                 /\ pc'[r] \in {"slow", "parked", "taken"}
           /\ Pool!GiveUp(r) => pc[r] \in {"slow", "parked"} /\ pc'[r] = "idle" /\ Others(r)
           /\ Pool!Hold(r) => pc[r] = "taken" /\ pc'[r] = "held" /\ Others(r)
           /\ Pool!Release(r) => pc[r] = "held" /\ pc'[r] = "freeing" /\ Others(r)
<1>1. pc \in [Requests -> Proved!Status]
      BY DEF Queue
<1>2. Pool!Acquire(r) => /\ pc[r] \in {"idle", "slow"} /\ Others(r)
                         /\ pc'[r] \in {"slow", "parked", "taken"}
      BY <1>1 DEF Pool!Acquire, Pool!AcquireFast, Pool!AcquireMiss, Pool!AcquireSlow,
             Pool!Park, Pool!PutReserved, Pool!PutShared, Others, Handed
<1>3. Pool!GiveUp(r) => pc[r] \in {"slow", "parked"} /\ pc'[r] = "idle" /\ Others(r)
      BY <1>1 DEF Pool!GiveUp, Pool!GiveUpAtOnce, Pool!GiveUpParked, Others, Handed
<1>4. /\ Pool!Hold(r) => pc[r] = "taken" /\ pc'[r] = "held" /\ Others(r)
      /\ Pool!Release(r) => pc[r] = "held" /\ pc'[r] = "freeing" /\ Others(r)
      BY <1>1 DEF Pool!Hold, Pool!Release, Pool!FirstCall, Others, Handed
<1> QED
    BY <1>2, <1>3, <1>4

LEMMA FreeMoves ==
    ASSUME Queue, NEW r \in Requests, Pool!Free(r)
    PROVE  pc[r] = "freeing" /\ pc'[r] = "released" /\ Others(r)
<1>1. pc \in [Requests -> Proved!Status] /\ pc[r] = "freeing"
      BY DEF Queue, Pool!Free, Pool!FreeToParked, Pool!FreeToPool
<1>2. CASE Pool!FreeToPool(r)
      BY <1>1, <1>2 DEF Pool!FreeToPool, Others, Handed
<1>3. CASE Pool!FreeToParked(r)
  <2>1. PICK i \in DOMAIN parked :
           pc' = [pc EXCEPT ![r] = "released", ![parked[i]] = "taken"]
        BY <1>3 DEF Pool!FreeToParked
  <2>2. pc[parked[i]] = "parked" /\ parked[i] # r
        BY <1>1 DEF Queue
  <2> QED
      BY <1>1, <2>1, <2>2 DEF Others, Handed
<1> QED
    BY <1>2, <1>3 DEF Pool!Free

LEMMA CallMoves ==
    ASSUME Queue, NEW r \in Requests
    PROVE  /\ Reset(r) => /\ pc'[r] = IF pc[r] = "released" THEN "idle" ELSE pc[r]
                          /\ Others(r)
           /\ DrainBody(r) => /\ pc'[r] = IF pc[r] = "held" THEN "freeing" ELSE pc[r]
                              /\ Others(r)
<1>1. pc \in [Requests -> Proved!Status]
      BY DEF Queue
<1>2. Reset(r) => /\ pc'[r] = IF pc[r] = "released" THEN "idle" ELSE pc[r]
                  /\ Others(r)
      BY <1>1 DEF Reset, Pool!Forget, poolVars, Others, Handed
<1>3. DrainBody(r) => /\ pc'[r] = IF pc[r] = "held" THEN "freeing" ELSE pc[r]
                      /\ Others(r)
      BY <1>1 DEF DrainBody, Pool!FirstCall, Pool!Release, poolVars, Others, Handed
<1> QED
    BY <1>2, <1>3

LEMMA Untouched ==
    ASSUME UNCHANGED poolVars
    PROVE  \A r : pc'[r] = pc[r] /\ Others(r)
BY DEF poolVars, Others, Handed

-----------------------------------------------------------------------------
(* The calls *)

LEMMA InitCalls ==
    ASSUME TransportAssumption, Init
    PROVE  CallInv
<1>1. CallTypes
      BY DEF Init, CallTypes, Stages, Outcomes, TransportAssumption
<1>2. \A r \in Requests : Place(r)
      BY DEF Init, Pool!Init, Place
<1>3. OneLogin
      BY DEF Init, OneLogin
<1> QED
    BY <1>1, <1>2, <1>3 DEF CallInv

LEMMA CallTypesStep ==
    ASSUME TransportAssumption, CallTypes, Next
    PROVE  CallTypes'
<1>0. /\ 0 \in 0..MaxRetries
      /\ \A a \in 0..MaxRetries : a < MaxRetries => a + 1 \in 0..MaxRetries
  <2>1. MaxRetries \in Nat
        BY DEF TransportAssumption
  <2> HIDE TransportAssumption
  <2> QED
      BY <2>1
<1> USE DEF CallTypes, Goto, Stages, Outcomes
<1>1. ASSUME NEW r \in Requests,
             AcquireStep(r) \/ HoldStep(r) \/ FreeStep(r) \/ Begin(r) \/ Succeed(r) \/ Sleep(r)
      PROVE  CallTypes'
      BY <1>1 DEF AcquireStep, HoldStep, FreeStep, Begin, Succeed, Sleep, callVars, authVars
<1>2. ASSUME NEW r \in Requests, AuthCached(r) \/ AuthLocked(r) \/ Unlock(r)
      PROVE  CallTypes'
  <2>1. CASE AuthCached(r)
        BY <2>1 DEF AuthCached, authVars
  <2>2. CASE AuthLocked(r)
        BY <2>2 DEF AuthLocked
  <2>3. CASE Unlock(r)
    <3>1. stage' \in [Requests -> Stages] /\ outcome' \in [Requests -> Outcomes]
          BY <2>3 DEF Unlock
    <3>2. mutex' \in [Targets -> Requests \cup {NoOne}]
          BY <2>3 DEF Unlock
    <3> QED
        BY <2>3, <3>1, <3>2 DEF Unlock
  <2> QED
      BY <1>2, <2>1, <2>2, <2>3
<1>3. ASSUME NEW r \in Requests, LoginAnswer(r) \/ LoginAbandoned(r)
      PROVE  CallTypes'
      BY <1>3 DEF LoginAnswer, LoginAbandoned, authVars
<1>4. ASSUME NEW r \in Requests, AttemptAbandoned(r) \/ AttemptFails(r) \/ AttemptAnswered(r)
      PROVE  CallTypes'
      BY <1>4 DEF AttemptAbandoned, AttemptFails, AttemptAnswered, authVars
<1>5. ASSUME NEW r \in Requests, Retry(r)
      PROVE  CallTypes'
  <2>1. attempt[r] + 1 \in 0..MaxRetries
    <3>1. attempt[r] < MaxRetries
          BY <1>5 DEF Retry, MayRetry
    <3>2. attempt[r] \in 0..MaxRetries
          OBVIOUS
    <3> QED
        BY <1>0, <3>1, <3>2
  <2> QED
      BY <1>5, <2>1 DEF Retry, authVars
<1>6. ASSUME NEW r \in Requests, WakeAndSend(r) \/ Return(r) \/ Expire(r)
      PROVE  CallTypes'
      BY <1>6 DEF WakeAndSend, Return, Expire, authVars
<1>7. ASSUME NEW r \in Requests, Finish(r)
      PROVE  CallTypes'
  <2>1. attempt' \in [Requests -> 0..MaxRetries]
        BY <1>0, <1>7 DEF Finish
  <2>2. stage' \in [Requests -> Stages] /\ outcome' \in [Requests -> Outcomes]
        BY <1>7 DEF Finish
  <2> QED
      BY <1>7, <2>1, <2>2 DEF Finish, authVars
<1>8. ASSUME NEW r \in Requests, WakeAndBreak(r) \/ Fail(r) \/ CloseBody(r)
      PROVE  CallTypes'
      BY <1>7, <1>8 DEF WakeAndBreak, Fail, CloseBody
<1>9. ASSUME NEW t \in Targets, CookieExpires(t)
      PROVE  CallTypes'
      BY <1>9 DEF CookieExpires, callVars
<1> QED
    BY <1>1, <1>2, <1>3, <1>4, <1>5, <1>6, <1>8, <1>9
    DEF Next, Authenticate, Answer, Abandon, Run

\* A step of one call, as the others see it.
LEMMA OthersKeep ==
    ASSUME CallInv, CallTypes', OneLogin', NEW r \in Requests, Others(r), Place(r)',
           \A q \in Requests \ {r} : stage'[q] = stage[q] /\ outcome'[q] = outcome[q]
    PROVE  CallInv'
<1>1. ASSUME NEW q \in Requests \ {r} PROVE Place(q)'
      BY DEF CallInv, Others, Handed, Place, Waits, Over
<1> QED
    BY <1>1 DEF CallInv

\* Whoever does not touch the login keeps it to one.
LEMMA LoginKept ==
    ASSUME OneLogin, UNCHANGED authVars,
           \A q \in Requests : /\ stage'[q] = "login" => stage[q] = "login"
                               /\ stage'[q] = "unlock" => stage[q] \in {"login", "unlock"}
    PROVE  OneLogin'
BY DEF OneLogin, authVars

LEMMA PoolSteps ==
    ASSUME CallInv, Queue, CallTypes', NEW r \in Requests,
           AcquireStep(r) \/ HoldStep(r) \/ FreeStep(r)
    PROVE  CallInv'
<1>1. UNCHANGED <<stage, outcome, mutex, cookie>>
      BY DEF AcquireStep, HoldStep, FreeStep, callVars, authVars
<1>2. OneLogin'
      BY <1>1 DEF CallInv, OneLogin
<1>3. Place(r)' /\ Others(r)
  <2>1. CASE AcquireStep(r)
    <3>1. /\ stage[r] \in {"login", "send"} /\ pc'[r] \in {"slow", "parked", "taken"}
          /\ Others(r)
          BY <2>1, PoolMoves DEF AcquireStep
    <3> QED
        BY <3>1, <1>1 DEF Place, Waits
  <2>2. CASE HoldStep(r)
    <3>1. pc[r] = "taken" /\ pc'[r] = "held" /\ Others(r)
          BY <2>2, PoolMoves DEF HoldStep
    <3> QED
        BY <3>1, <1>1 DEF CallInv, Place, Waits, Over
  <2>3. CASE FreeStep(r)
    <3>1. pc[r] = "freeing" /\ pc'[r] = "released" /\ Others(r)
          BY <2>3, FreeMoves DEF FreeStep
    <3> QED
        BY <3>1, <1>1 DEF CallInv, Place, Waits, Over
  <2> QED
      BY <2>1, <2>2, <2>3
<1> QED
    BY <1>1, <1>2, <1>3, OthersKeep

LEMMA AuthSteps ==
    ASSUME TransportAssumption, CallInv, Queue, CallTypes', NEW r \in Requests,
           Begin(r) \/ Authenticate(r) \/ Unlock(r) \/ LoginAnswer(r) \/ LoginAbandoned(r)
    PROVE  CallInv'
<1>0. CallTypes /\ OneLogin /\ Place(r) /\ TargetOf[r] \in Targets
      BY DEF CallInv, TransportAssumption
<1>1. /\ \A q \in Requests \ {r} : stage'[q] = stage[q] /\ outcome'[q] = outcome[q]
      /\ \E s \in Stages : stage' = [stage EXCEPT ![r] = s]
      BY <1>0 DEF CallTypes, Begin, Authenticate, AuthCached, AuthLocked, Unlock, LoginAnswer,
             LoginAbandoned, Goto, Stages
<1>2. CASE Begin(r) \/ AuthCached(r)
  <2>1. /\ stage[r] \in {"idle", "lock"} /\ stage'[r] \in {"lock", "send"}
        /\ UNCHANGED poolVars /\ UNCHANGED authVars
        BY <1>0, <1>2 DEF Begin, AuthCached, Goto, CallTypes
  <2>2. Place(r)' /\ Others(r)
        BY <2>1, <1>0, Untouched DEF Place, Waits
  <2>3. OneLogin'
        BY <2>1, <1>0, <1>1, LoginKept
  <2> QED
      BY <2>2, <2>3, <1>1, OthersKeep
<1>3. CASE AuthLocked(r)
  <2>1. /\ stage[r] = "lock" /\ stage'[r] = "login" /\ UNCHANGED <<poolVars, cookie>>
        /\ mutex[TargetOf[r]] = NoOne /\ ~cookie[TargetOf[r]]
        /\ mutex' = [mutex EXCEPT ![TargetOf[r]] = r]
        BY <1>0, <1>3 DEF AuthLocked, Goto, CallTypes
  <2>2. Place(r)' /\ Others(r)
        BY <2>1, <1>0, Untouched DEF Place, Waits
  <2>3. OneLogin'
    <3>1. ASSUME NEW q \in Requests \ {r}, stage'[q] \in {"login", "unlock"}
          PROVE  mutex'[TargetOf[q]] = q
      <4>1. mutex[TargetOf[q]] = q /\ q # NoOne
            BY <3>1, <1>0, <1>1 DEF OneLogin, TransportAssumption
      <4> QED
          BY <4>1, <2>1, <1>0 DEF CallTypes, TransportAssumption
    <3>2. mutex'[TargetOf[r]] = r
          BY <2>1, <1>0 DEF CallTypes
    <3> QED
        BY <3>1, <3>2, <2>1, <1>0, <1>1 DEF OneLogin
  <2> QED
      BY <2>2, <2>3, <1>1, OthersKeep
<1>4. CASE LoginAnswer(r)
  <2>1. /\ stage[r] = "login" /\ stage'[r] = "unlock" /\ Pool!Release(r) /\ UNCHANGED mutex
        /\ \/ cookie' = [cookie EXCEPT ![TargetOf[r]] = TRUE]
           \/ UNCHANGED cookie
        BY <1>0, <1>4 DEF LoginAnswer, Goto, CallTypes
  <2>2. Place(r)' /\ Others(r)
        BY <2>1, PoolMoves DEF Place, Over
  <2>3. OneLogin'
    <3>1. ASSUME NEW q \in Requests \ {r}, stage'[q] \in {"login", "unlock"}
          PROVE  /\ mutex'[TargetOf[q]] = q
                 /\ stage'[q] = "login" => ~cookie'[TargetOf[q]]
      <4>1. mutex[TargetOf[q]] = q /\ mutex[TargetOf[r]] = r
            BY <3>1, <1>0, <1>1, <2>1 DEF OneLogin
      <4>2. TargetOf[q] # TargetOf[r] /\ TargetOf[q] \in Targets
            BY <4>1 DEF TransportAssumption
      <4> QED
          BY <3>1, <4>1, <4>2, <2>1, <1>0, <1>1 DEF CallTypes, OneLogin
    <3>2. mutex'[TargetOf[r]] = r
          BY <2>1, <1>0 DEF OneLogin
    <3> QED
        BY <3>1, <3>2, <2>1 DEF OneLogin
  <2> QED
      BY <2>2, <2>3, <1>1, OthersKeep
<1>5. CASE LoginAbandoned(r)
  <2>1. /\ stage[r] = "login" /\ stage'[r] = "unlock" /\ Pool!GiveUp(r) /\ UNCHANGED authVars
        BY <1>0, <1>5 DEF LoginAbandoned, Goto, CallTypes
  <2>2. Place(r)' /\ Others(r)
        BY <2>1, PoolMoves DEF Place, Over
  <2>3. OneLogin'
        BY <2>1, <1>0, <1>1, LoginKept
  <2> QED
      BY <2>2, <2>3, <1>1, OthersKeep
<1>6. CASE Unlock(r)
  <2>1. /\ stage[r] = "unlock" /\ stage'[r] \in {"close", "send"} /\ Returned(r) /\ Reset(r)
        /\ mutex' = [mutex EXCEPT ![TargetOf[r]] = NoOne] /\ UNCHANGED cookie
        BY <1>0, <1>6 DEF Unlock, Goto, CallTypes
  <2>2. Place(r)' /\ Others(r)
    <3>1. pc[r] \in {"idle", "released"}
          BY <2>1, <1>0 DEF Place, Over, Returned
    <3>2. pc'[r] = "idle" /\ Others(r)
          BY <2>1, <3>1, CallMoves
    <3> QED
        BY <2>1, <3>2 DEF Place, Waits, Over
  <2>3. OneLogin'
    <3>1. ASSUME NEW q \in Requests \ {r}, stage'[q] \in {"login", "unlock"}
          PROVE  mutex'[TargetOf[q]] = q
      <4>1. mutex[TargetOf[q]] = q /\ mutex[TargetOf[r]] = r
            BY <3>1, <1>0, <1>1, <2>1 DEF OneLogin
      <4> QED
          BY <4>1, <2>1, <1>0 DEF CallTypes, TransportAssumption
    <3> QED
        BY <3>1, <2>1, <1>0, <1>1 DEF OneLogin
  <2> QED
      BY <2>2, <2>3, <1>1, OthersKeep
<1> QED
    BY <1>2, <1>3, <1>4, <1>5, <1>6 DEF Authenticate

LEMMA AttemptSteps ==
    ASSUME TransportAssumption, CallInv, Queue, CallTypes', NEW r \in Requests,
           AttemptAbandoned(r) \/ AttemptFails(r) \/ AttemptAnswered(r)
    PROVE  CallInv'
<1>0. CallTypes /\ OneLogin /\ Place(r)
      BY DEF CallInv
<1>1. /\ stage[r] = "send" /\ stage'[r] = "tried" /\ UNCHANGED authVars
      /\ \A q \in Requests \ {r} : stage'[q] = stage[q] /\ outcome'[q] = outcome[q]
      BY <1>0 DEF CallTypes, AttemptAbandoned, AttemptFails, AttemptAnswered, Goto
<1>2. OneLogin'
      BY <1>0, <1>1, LoginKept
<1>3. CASE AttemptAbandoned(r) \/ AttemptFails(r)
  <2>1. outcome'[r] = "error" /\ (Pool!GiveUp(r) \/ Pool!Release(r))
        BY <1>0, <1>3 DEF CallTypes, AttemptAbandoned, AttemptFails
  <2>2. pc'[r] \in Over /\ Others(r)
        BY <2>1, PoolMoves DEF Over
  <2>3. Place(r)'
        BY <2>1, <2>2, <1>1 DEF Place
  <2> QED
      BY <2>2, <2>3, <1>1, <1>2, OthersKeep
<1>4. CASE AttemptAnswered(r)
  <2>1. outcome'[r] # "error" /\ pc[r] = "held" /\ UNCHANGED poolVars
        BY <1>0, <1>4 DEF CallTypes, AttemptAnswered
  <2>2. Place(r)' /\ Others(r)
        BY <2>1, <1>1, Untouched DEF Place
  <2> QED
      BY <2>2, <1>1, <1>2, OthersKeep
<1> QED
    BY <1>3, <1>4

\* After an attempt: the slot of a response goes before anything is waited for.
LEMMA AfterAttempt ==
    ASSUME TransportAssumption, CallInv, Queue, CallTypes', NEW r \in Requests,
           \/ Retry(r) \/ Sleep(r) \/ WakeAndSend(r) \/ WakeAndBreak(r)
           \/ Fail(r) \/ Succeed(r) \/ CloseBody(r) \/ Return(r)
    PROVE  CallInv'
<1>0. CallTypes /\ OneLogin /\ Place(r)
      BY DEF CallInv
<1>1. /\ UNCHANGED authVars
      /\ \A q \in Requests \ {r} : stage'[q] = stage[q] /\ outcome'[q] = outcome[q]
      /\ stage'[r] \in {"drain", "backoff", "send", "close", "body", "idle"}
      BY <1>0 DEF CallTypes, Retry, Sleep, WakeAndSend, WakeAndBreak, Fail, Succeed, CloseBody,
             Return, Finish, Goto
<1>2. OneLogin'
      BY <1>0, <1>1, LoginKept
<1>3. SUFFICES Place(r)' /\ Others(r)
      BY <1>1, <1>2, OthersKeep
<1>4. CASE Retry(r) \/ Fail(r)
  <2>1. /\ stage[r] = "tried" /\ stage'[r] \in {"drain", "close"}
        /\ outcome[r] = "error" => pc[r] # "freeing"
        /\ DrainBody(r)
        BY <1>0, <1>4 DEF CallTypes, Retry, Fail, Settled, Returned, Finish, Goto
  <2>2. /\ pc'[r] = IF pc[r] = "held" THEN "freeing" ELSE pc[r]
        /\ Others(r)
        BY <2>1, CallMoves
  <2> QED
      BY <2>1, <2>2, <1>0 DEF Place, Over
<1>5. CASE Sleep(r)
      BY <1>5, <1>0, Untouched DEF Sleep, Returned, Goto, CallTypes, Place, Over
<1>6. CASE WakeAndSend(r)
  <2>1. stage[r] = "backoff" /\ stage'[r] = "send" /\ Reset(r)
        BY <1>0, <1>6 DEF WakeAndSend, Goto, CallTypes
  <2>2. pc'[r] = "idle" /\ Others(r)
        BY <2>1, <1>0, CallMoves DEF Place
  <2> QED
      BY <2>1, <2>2 DEF Place, Waits
<1>7. CASE WakeAndBreak(r) \/ CloseBody(r)
  <2>1. stage[r] \in {"backoff", "body"} /\ stage'[r] = "close" /\ DrainBody(r)
        BY <1>0, <1>7 DEF WakeAndBreak, CloseBody, Finish, Goto, CallTypes
  <2>2. /\ pc'[r] = IF pc[r] = "held" THEN "freeing" ELSE pc[r]
        /\ Others(r)
        BY <2>1, CallMoves
  <2> QED
      BY <2>1, <2>2, <1>0 DEF Place, Over
<1>8. CASE Succeed(r)
      BY <1>8, <1>0, Untouched DEF Succeed, Goto, CallTypes, Place
<1>9. CASE Return(r)
  <2>1. stage[r] = "close" /\ stage'[r] = "idle" /\ pc[r] # "freeing" /\ Reset(r)
        BY <1>0, <1>9 DEF Return, Returned, Goto, CallTypes
  <2>2. /\ pc'[r] = IF pc[r] = "released" THEN "idle" ELSE pc[r]
        /\ Others(r)
        BY <2>1, CallMoves
  <2>3. pc'[r] = "idle"
        BY <2>1, <2>2, <1>0 DEF Place, Over
  <2> QED
      BY <2>1, <2>2, <2>3 DEF Place
<1> QED
    BY <1>4, <1>5, <1>6, <1>7, <1>8, <1>9

LEMMA NextCalls ==
    ASSUME TransportAssumption, CallInv, Queue, [Next]_vars
    PROVE  CallInv'
<1>1. CASE UNCHANGED vars
      BY <1>1 DEF vars, CallInv, CallTypes, OneLogin, Place
<1>2. SUFFICES ASSUME Next PROVE CallInv'
      BY <1>1
<1>3. CallTypes'
      BY <1>2, CallTypesStep DEF CallInv
<1>4. ASSUME NEW r \in Requests, Expire(r) PROVE CallInv'
      BY <1>3, <1>4 DEF Expire, poolVars, authVars, CallInv, OneLogin, Place
<1>5. ASSUME NEW t \in Targets, CookieExpires(t) PROVE CallInv'
  <2>1. /\ UNCHANGED <<pc, stage, outcome, mutex>>
        /\ cookie' = [cookie EXCEPT ![t] = FALSE]
        BY <1>5 DEF CookieExpires, poolVars, callVars
  <2>2. \A s \in Targets : cookie'[s] => cookie[s]
        BY <2>1 DEF CallInv, CallTypes
  <2>3. OneLogin'
        BY <2>1, <2>2 DEF CallInv, OneLogin, TransportAssumption
  <2> QED
      BY <1>3, <2>1, <2>3 DEF CallInv, Place
<1>6. ASSUME NEW r \in Requests,
             Begin(r) \/ Authenticate(r) \/ Answer(r) \/ Abandon(r) \/ Run(r)
      PROVE  CallInv'
      BY <1>3, <1>6, PoolSteps, AuthSteps, AttemptSteps, AfterAttempt DEF Answer, Abandon, Run
<1> QED
    BY <1>2, <1>4, <1>5, <1>6 DEF Next

-----------------------------------------------------------------------------
(* Theorems *)

\* Whatever path a call takes, each of its steps is one of the pool's interface
\* or none of it: a slot is asked for once before it is given back once.
THEOREM CallsUsePool == Spec => UsesPool
<1>1. Init => Pool!Init
      BY DEF Init
<1>2. ASSUME NEW r \in Requests
      PROVE  /\ Reset(r) => Pool!Forget(r) \/ UNCHANGED poolVars
             /\ DrainBody(r) => Pool!Release(r) \/ UNCHANGED poolVars
      BY DEF Reset, DrainBody
<1>3. ASSUME NEW r \in Requests,
             Begin(r) \/ Authenticate(r) \/ Answer(r) \/ Abandon(r) \/ Run(r) \/ Expire(r)
      PROVE  Pool!Next \/ UNCHANGED poolVars
  <2>1. \/ Pool!Acquire(r) \/ Pool!GiveUp(r) \/ Pool!Hold(r) \/ Pool!Release(r)
        \/ Pool!Free(r) \/ Pool!Forget(r) \/ UNCHANGED poolVars
        BY <1>2, <1>3 DEF Begin, Authenticate, AuthCached, AuthLocked, Answer, LoginAnswer,
               AttemptFails, AttemptAnswered, Abandon, LoginAbandoned, AttemptAbandoned, Run,
               AcquireStep, HoldStep, FreeStep, Unlock, Retry, Sleep, WakeAndSend,
               WakeAndBreak, Fail, Succeed, CloseBody, Return, Expire
  <2> QED
      BY <2>1 DEF Pool!Next
<1>4. ASSUME NEW t \in Targets, CookieExpires(t) PROVE UNCHANGED poolVars
      BY <1>4 DEF CookieExpires
<1>5. [Next]_vars => [Pool!Next]_(Pool!vars)
  <2>1. CASE UNCHANGED vars
        BY <2>1 DEF vars, Pool!vars
  <2>2. CASE Next
        BY <2>2, <1>3, <1>4 DEF Next, poolVars, Pool!vars
  <2> QED
      BY <2>1, <2>2
<1> QED
    BY <1>1, <1>5, PTL DEF Spec, UsesPool, Pool!Spec

\* What is proved of the pool holds of the calls.
THEOREM PoolInvariant == Spec => []Proved!IInv
<1>1. Proved!PoolAssumption
      BY TransportAssumption, PoolAssumed
<1>2. Proved!Spec => []Proved!IInv
      BY <1>1, Proved!Invariance
<1> QED
    BY <1>2, CallsUsePool, SameSpec, PTL DEF UsesPool

\* Where each call is with its slot, in every reachable state.
THEOREM CallInvariant == Spec => []CallInv
<1>1. Init => CallInv
      BY TransportAssumption, InitCalls
<1>2. Proved!IInv => Queue
      BY DEF Proved!IInv, Proved!TypeOK, Proved!ParkedListed, Queue
<1>3. CallInv /\ Queue /\ [Next]_vars => CallInv'
      BY TransportAssumption, NextCalls
<1> QED
    BY <1>1, <1>2, <1>3, PoolInvariant, PTL DEF Spec

\* The variables keep their types; no call makes more retries than maxRetries.
THEOREM TypeCorrect == Spec => []TypeOK
<1>1. Proved!IInv /\ CallInv => TypeOK
      BY SameTypes DEF Proved!IInv, CallInv, CallTypes, TypeOK
<1> QED
    BY <1>1, PoolInvariant, CallInvariant, PTL

\* For any number of calls and targets: no slot is held by a goroutine that
\* waits for the mutex of a login or sleeps between attempts, and a body that is
\* being read keeps its slot.
THEOREM NoSlotHeld == Spec => []WaitsHoldNoSlot
<1>1. CallInv => WaitsHoldNoSlot
      BY DEF CallInv, Place, WaitsHoldNoSlot, Pool!Holding
<1> QED
    BY <1>1, CallInvariant, PTL

\* Every path out of a call gives back what it took.
THEOREM NothingLeaks == Spec => []NothingLeftBehind
<1>1. Proved!IInv /\ CallInv => NothingLeftBehind
      BY DEF Proved!IInv, Proved!HoldersHaveSlot, Proved!Holding, CallInv, Place,
             NothingLeftBehind
<1> QED
    BY <1>1, PoolInvariant, CallInvariant, PTL

\* The check of the cookie and the login are one critical section.
THEOREM LoginsExclude == Spec => []OneLogin
<1>1. CallInv => OneLogin
      BY DEF CallInv
<1> QED
    BY <1>1, CallInvariant, PTL
=============================================================================
