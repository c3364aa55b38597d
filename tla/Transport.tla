----------------------------- MODULE Transport -----------------------------
(***************************************************************************)
(* One upstream call, from http.Client.Do to the close of its body:         *)
(* authentication (arr/client/auth.go), the attempts and their retries      *)
(* (client/transport.go), each under a slot of the pool (SlotPool).         *)
(*                                                                         *)
(* A call runs in the goroutine r that makes it, so the login of FormAuth   *)
(* and the attempts of the call use the pool one after another.  stage[r]   *)
(* says where the call is; the pool's pc[r] says how far it got with its    *)
(* slot.  A call's context ends at the collection's deadline or at the      *)
(* client's Timeout, at any instant (Expire).                               *)
(***************************************************************************)
EXTENDS Integers, FiniteSets, Sequences

CONSTANTS
    Targets, Requests, TargetOf, Capacity,  \* as in SlotPool
    FormTargets,    \* the targets that log in through the *arr login form
    MaxRetries,     \* maxRetries
    NoOne           \* no goroutine: the value of a free mutex

ASSUME TransportAssumption ==
    /\ IsFiniteSet(Targets) /\ IsFiniteSet(Requests)
    /\ TargetOf \in [Requests -> Targets]
    /\ Capacity \in Nat /\ Capacity >= Cardinality(Targets) + 1
    /\ FormTargets \subseteq Targets
    /\ MaxRetries \in Nat
    /\ NoOne \notin Requests

VARIABLES
    pc, slot, reserved, shared, parked, inFlight,   \* the pool
    stage,      \* where each call is
    attempt,    \* retries made so far
    outcome,    \* what the last attempt gave
    ended,      \* whether the call's context has ended
    mutex,      \* FormAuth.mu of each target: the goroutine inside, or NoOne
    cookie      \* whether each target's session cookie is fresh

poolVars == <<pc, slot, reserved, shared, parked, inFlight>>
callVars == <<stage, attempt, outcome, ended>>
authVars == <<mutex, cookie>>
vars == <<pc, slot, reserved, shared, parked, inFlight,
          stage, attempt, outcome, ended, mutex, cookie>>

Pool == INSTANCE SlotPool

Stages == {"idle", "lock", "login", "unlock", "send", "tried", "drain", "backoff",
           "body", "close"}
Outcomes == {"none", "error", "server error", "refused", "ok"}

Init ==
    /\ Pool!Init
    /\ stage = [r \in Requests |-> "idle"]
    /\ attempt = [r \in Requests |-> 0]
    /\ outcome = [r \in Requests |-> "none"]
    /\ ended = [r \in Requests |-> FALSE]
    /\ mutex = [t \in Targets |-> NoOne]
    /\ cookie = [t \in Targets |-> FALSE]

Goto(r, s) == stage' = [stage EXCEPT ![r] = s]

\* The call has its result: its locals are dead.
Finish(r) ==
    /\ Goto(r, "close")
    /\ attempt' = [attempt EXCEPT ![r] = 0]
    /\ outcome' = [outcome EXCEPT ![r] = "none"]
    /\ UNCHANGED <<ended, authVars>>

\* The goroutine is not inside release.
Returned(r) == pc[r] # "freeing"

\* It forgets the release function it had, if any.
Reset(r) == IF pc[r] = "released" THEN Pool!Forget(r) ELSE UNCHANGED poolVars

-----------------------------------------------------------------------------
(* The pool's own steps, wherever the call is *)

AcquireStep(r) ==
    /\ stage[r] \in {"login", "send"}
    /\ Pool!Acquire(r)
    /\ UNCHANGED <<callVars, authVars>>

HoldStep(r) == Pool!Hold(r) /\ UNCHANGED <<callVars, authVars>>

FreeStep(r) == Pool!Free(r) /\ UNCHANGED <<callVars, authVars>>

-----------------------------------------------------------------------------
(* Authentication *)

Begin(r) ==
    /\ stage[r] = "idle"
    /\ Goto(r, IF TargetOf[r] \in FormTargets THEN "lock" ELSE "send")
    /\ UNCHANGED <<poolVars, attempt, outcome, ended, authVars>>

\* mu.Lock does not listen to the context.  With a fresh cookie the critical
\* section does not block, and ends here.
AuthCached(r) ==
    /\ stage[r] = "lock"
    /\ mutex[TargetOf[r]] = NoOne
    /\ cookie[TargetOf[r]]
    /\ Goto(r, "send")
    /\ UNCHANGED <<poolVars, attempt, outcome, ended, authVars>>

\* Otherwise the goroutine logs in with the mutex locked.
Mut_AuthLocked(r) ==
    /\ stage[r] = "lock"
    /\ mutex[TargetOf[r]] = NoOne
    /\ mutex' = [mutex EXCEPT ![TargetOf[r]] = r]
    /\ Goto(r, "login")
    /\ UNCHANGED <<poolVars, attempt, outcome, ended, cookie>>
AuthLocked(r) ==
    /\ stage[r] = "lock"
    /\ mutex[TargetOf[r]] = NoOne
    /\ ~cookie[TargetOf[r]]
    /\ mutex' = [mutex EXCEPT ![TargetOf[r]] = r]
    /\ Goto(r, "login")
    /\ UNCHANGED <<poolVars, attempt, outcome, ended, cookie>>

\* The login is answered: the cookie is kept, or Auth fails (no connection, a
\* status that is not 302, loginFailed, no arrAuth cookie).  On each path the
\* body is closed before the mutex is unlocked.
LoginAnswer(r) ==
    /\ stage[r] = "login"
    /\ Pool!Release(r)
    /\ \/ /\ cookie' = [cookie EXCEPT ![TargetOf[r]] = TRUE]
          /\ UNCHANGED outcome
       \/ /\ outcome' = [outcome EXCEPT ![r] = "error"]
          /\ UNCHANGED cookie
    /\ Goto(r, "unlock")
    /\ UNCHANGED <<attempt, ended, mutex>>

\* The context ended while the login waited for a slot.
LoginAbandoned(r) ==
    /\ stage[r] = "login"
    /\ ended[r]
    /\ Pool!GiveUp(r)
    /\ outcome' = [outcome EXCEPT ![r] = "error"]
    /\ Goto(r, "unlock")
    /\ UNCHANGED <<attempt, ended, authVars>>

Mut_Unlock(r) ==
    /\ stage[r] = "unlock"
    /\ Returned(r)
    /\ IF outcome[r] = "error"
          THEN Goto(r, "close") /\ UNCHANGED mutex
          ELSE Goto(r, "send") /\ mutex' = [mutex EXCEPT ![TargetOf[r]] = NoOne]
    /\ outcome' = [outcome EXCEPT ![r] = "none"]
    /\ Reset(r)
    /\ UNCHANGED <<attempt, ended, cookie>>
Unlock(r) ==
    /\ stage[r] = "unlock"
    /\ Returned(r)
    /\ mutex' = [mutex EXCEPT ![TargetOf[r]] = NoOne]
    /\ Goto(r, IF outcome[r] = "error" THEN "close" ELSE "send")
    /\ outcome' = [outcome EXCEPT ![r] = "none"]
    /\ Reset(r)
    /\ UNCHANGED <<attempt, ended, cookie>>

\* The cookie comes within five minutes of its expiry.
CookieExpires(t) ==
    /\ cookie[t]
    /\ cookie' = [cookie EXCEPT ![t] = FALSE]
    /\ UNCHANGED <<poolVars, callVars, mutex>>

-----------------------------------------------------------------------------
(* Attempts *)

\* limitedTransport: Acquire failed.
AttemptAbandoned(r) ==
    /\ stage[r] = "send"
    /\ ended[r]
    /\ Pool!GiveUp(r)
    /\ outcome' = [outcome EXCEPT ![r] = "error"]
    /\ Goto(r, "tried")
    /\ UNCHANGED <<attempt, ended, authVars>>

\* The attempt failed: limitedTransport releases the slot.
AttemptFails(r) ==
    /\ stage[r] = "send"
    /\ Pool!Release(r)
    /\ outcome' = [outcome EXCEPT ![r] = "error"]
    /\ Goto(r, "tried")
    /\ UNCHANGED <<attempt, ended, authVars>>

\* A response: its open body keeps the slot.
Mut_AttemptAnswered(r) ==
    /\ stage[r] = "send"
    /\ Pool!Release(r)
    /\ \E o \in {"server error", "refused", "ok"} : outcome' = [outcome EXCEPT ![r] = o]
    /\ Goto(r, "tried")
    /\ UNCHANGED <<attempt, ended, authVars>>
AttemptAnswered(r) ==
    /\ stage[r] = "send"
    /\ pc[r] = "held"
    /\ \E o \in {"server error", "refused", "ok"} : outcome' = [outcome EXCEPT ![r] = o]
    /\ Goto(r, "tried")
    /\ UNCHANGED <<poolVars, attempt, ended, authVars>>

\* drainBody, on a body that may be nil or closed: release does something only
\* the first time it is called.
Mut_DrainBody_Open(r) == UNCHANGED poolVars
Mut_DrainBody_Twice(r) ==
    IF pc[r] \in {"held", "released"}
      THEN /\ pc' = [pc EXCEPT ![r] = "freeing"]
           /\ inFlight' = [inFlight EXCEPT ![TargetOf[r]] = @ - 1]
           /\ UNCHANGED <<slot, reserved, shared, parked>>
      ELSE UNCHANGED poolVars
DrainBody(r) ==
    IF Pool!FirstCall(r) THEN Pool!Release(r) ELSE UNCHANGED poolVars

\* RoundTrip of an attempt that failed has returned once its slot is back.
Settled(r) == outcome[r] = "error" => Returned(r)

Mut_MayRetry(r) == outcome[r] \in {"error", "server error"} /\ attempt[r] <= MaxRetries
MayRetry(r) == outcome[r] \in {"error", "server error"} /\ attempt[r] < MaxRetries

\* The retry loop's body, up to the sleep ...
Retry(r) ==
    /\ stage[r] = "tried"
    /\ MayRetry(r)
    /\ Settled(r)
    /\ DrainBody(r)
    /\ attempt' = [attempt EXCEPT ![r] = @ + 1]
    /\ Goto(r, "drain")
    /\ UNCHANGED <<outcome, ended, authVars>>

Sleep(r) ==
    /\ stage[r] = "drain"
    /\ Returned(r)
    /\ Goto(r, "backoff")
    /\ UNCHANGED <<poolVars, attempt, outcome, ended, authVars>>

\* ... and after it: the next attempt, or the break when the context ended.
WakeAndSend(r) ==
    /\ stage[r] = "backoff"
    /\ ~ended[r]
    /\ Goto(r, "send")
    /\ outcome' = [outcome EXCEPT ![r] = "none"]
    /\ Reset(r)
    /\ UNCHANGED <<attempt, ended, authVars>>

\* The break leaves a response whose body is closed: it is drained once more.
WakeAndBreak(r) ==
    /\ stage[r] = "backoff"
    /\ ended[r]
    /\ DrainBody(r)
    /\ Finish(r)

\* After the loop: an error or a refusal is drained and reported ...
Mut_Fail(r) ==
    /\ stage[r] = "tried"
    /\ outcome[r] # "ok" /\ ~MayRetry(r)
    /\ Settled(r)
    /\ Finish(r)
    /\ UNCHANGED poolVars
Fail(r) ==
    /\ stage[r] = "tried"
    /\ outcome[r] # "ok" /\ ~MayRetry(r)
    /\ Settled(r)
    /\ DrainBody(r)
    /\ Finish(r)

\* ... and a success goes to the caller with its body open.
Succeed(r) ==
    /\ stage[r] = "tried"
    /\ outcome[r] = "ok"
    /\ Goto(r, "body")
    /\ UNCHANGED <<poolVars, attempt, outcome, ended, authVars>>

\* The caller has decoded the body, or failed to, and closes it.
CloseBody(r) ==
    /\ stage[r] = "body"
    /\ DrainBody(r)
    /\ Finish(r)

\* The call is over.
Return(r) ==
    /\ stage[r] = "close"
    /\ Returned(r)
    /\ Goto(r, "idle")
    /\ ended' = [ended EXCEPT ![r] = FALSE]
    /\ Reset(r)
    /\ UNCHANGED <<attempt, outcome, authVars>>

Expire(r) ==
    /\ stage[r] # "idle" /\ ~ended[r]
    /\ ended' = [ended EXCEPT ![r] = TRUE]
    /\ UNCHANGED <<poolVars, stage, attempt, outcome, authVars>>

-----------------------------------------------------------------------------
\* What the target decides.
Answer(r) == LoginAnswer(r) \/ AttemptFails(r) \/ AttemptAnswered(r)

Abandon(r) == LoginAbandoned(r) \/ AttemptAbandoned(r)

\* What the goroutine does on its own.
Run(r) ==
    \/ AcquireStep(r) \/ HoldStep(r) \/ FreeStep(r)
    \/ Unlock(r) \/ Retry(r) \/ Sleep(r) \/ WakeAndSend(r) \/ WakeAndBreak(r)
    \/ Fail(r) \/ Succeed(r) \/ CloseBody(r) \/ Return(r)

Authenticate(r) == AuthCached(r) \/ AuthLocked(r)

Next ==
    \/ \E r \in Requests :
          Begin(r) \/ Authenticate(r) \/ Answer(r) \/ Abandon(r) \/ Run(r) \/ Expire(r)
    \/ \E t \in Targets : CookieExpires(t)

Spec == Init /\ [][Next]_vars

\* Goroutines run; a mutex that keeps being unlocked is got in the end (Go's
\* starvation mode); http.Transport gives up on a request whose context ended;
\* and a target answers some requests.
Fairness(Answered) ==
    \A r \in Requests :
        /\ WF_vars(Run(r))
        /\ SF_vars(Authenticate(r))
        /\ WF_vars(Abandon(r))
        /\ WF_vars(ended[r] /\ Answer(r))
        /\ r \in Answered => WF_vars(Answer(r))

\* The contexts of these calls end: each client has a Timeout (client.go:50-52).
Deadlines(R) == \A r \in R : WF_vars(Expire(r))

-----------------------------------------------------------------------------
(* Properties *)

TypeOK ==
    /\ Pool!TypeOK
    /\ stage \in [Requests -> Stages]
    /\ attempt \in [Requests -> 0..MaxRetries]
    /\ outcome \in [Requests -> Outcomes]
    /\ ended \in [Requests -> BOOLEAN]
    /\ mutex \in [Targets -> Requests \cup {NoOne}]
    /\ cookie \in [Targets -> BOOLEAN]

\* "A goroutine waiting for the form-auth lock never holds a slot" and "a retry
\* backoff holds no slot" (docs/design/multi-target.md section 9): what waits
\* for something other than the target keeps nothing others wait for.  But a
\* caller that still decodes a body holds its slot: the cap covers a response
\* until its body is closed, not only its headers.
WaitsHoldNoSlot ==
    \A r \in Requests :
        /\ stage[r] \in {"lock", "backoff"} => r \notin Pool!Holding
        /\ stage[r] = "body" => pc[r] = "held"

\* A call that returned, on any of its paths, left no slot behind and no place
\* in the queue.
NothingLeftBehind ==
    \A r \in Requests : stage[r] = "idle" => pc[r] = "idle" /\ slot[r] = "none"

\* The check of the cookie and the login are one critical section: nobody logs
\* in beside a fresh cookie, and the slot of the login is back when the next
\* goroutine gets the mutex.
OneLogin ==
    \A r \in Requests :
        /\ stage[r] = "login" => ~cookie[TargetOf[r]]
        /\ stage[r] \in {"login", "unlock"} => mutex[TargetOf[r]] = r

\* The calls use the pool as its interface says, whatever path they take.
UsesPool == Pool!Spec

\* Every call of these requests returns.
AllReturn(R) == \A r \in R : stage[r] # "idle" ~> stage[r] = "idle"
=============================================================================
