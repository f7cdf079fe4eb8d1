--------------------------------- MODULE Pacer ---------------------------------
(***************************************************************************)
(* class Pacer and rpc() of scripts/audit_selected_live60.py: the audit    *)
(* tasks share one asyncio.Lock.  wait() holds the lock while it sleeps    *)
(* until a request may start; penalize() takes the same lock to extend the *)
(* cooldown after an overload.  asyncio.Lock serves its waiters in the     *)
(* order in which they asked.                                              *)
(*                                                                         *)
(* The growing back-off and the Retry-After header only choose how long a  *)
(* penalty is: any member of Penalties here.                               *)
(***************************************************************************)
EXTENDS Integers, Sequences, FiniteSets

CONSTANTS
    Workers,     \* the audit tasks that may issue RPC calls concurrently
    Calls,       \* bound: how many calls each task makes
    Retries,     \* attempts of one call
    Interval,    \* Pacer.interval
    Penalties,   \* the seconds penalize() can be called with
    MinPenalty,  \* the half second below which no penalty goes
    MaxTime,     \* bound: past it the clock moves only to end a sleep
    None         \* no task holds the lock

ASSUME PacerAssumption ==
    /\ IsFiniteSet(Workers)
    /\ Calls \in Nat
    /\ Retries \in Nat \ {0}
    /\ Interval \in Nat
    /\ Penalties \subseteq Nat
    /\ MinPenalty \in Nat \ {0}
    /\ MaxTime \in Nat
    /\ None \notin Workers

VARIABLES
    clock,          \* time.monotonic()
    lock,           \* the task that holds the lock
    waiters,        \* the tasks that wait for it, first come first served
    next,           \* Pacer.next
    cooldownUntil,  \* Pacer.cooldown_until
    pc,             \* where each task is
    until,          \* wait()'s target, for a task that sleeps
    attempt,        \* requests started in the current call
    calls,          \* calls finished
    penalty,        \* the argument of the penalize() call a task is in
    served,         \* history: when the task's own last penalty ends
    late            \* history: starts while the task waits to penalize

pacerVars == <<next, cooldownUntil>>
taskVars == <<pc, until, attempt, calls, penalty>>
historyVars == <<served, late>>
vars == <<clock, lock, waiters, pacerVars, taskVars, historyVars>>

States == {"idle", "wait", "sleep", "post", "penalize"}

TypeOK ==
    /\ clock \in Nat
    /\ lock \in Workers \cup {None}
    /\ waiters \in Seq(Workers)
    /\ next \in Nat
    /\ cooldownUntil \in Nat
    /\ pc \in [Workers -> States]
    /\ until \in [Workers -> Nat]
    /\ attempt \in [Workers -> Nat]
    /\ calls \in [Workers -> Nat]
    /\ penalty \in [Workers -> Nat]
    /\ served \in [Workers -> Nat]
    /\ late \in [Workers -> Nat]

Init ==
    /\ clock = 0
    /\ lock = None
    /\ waiters = <<>>
    /\ next = 0
    /\ cooldownUntil = 0
    /\ pc = [w \in Workers |-> "idle"]
    /\ until = [w \in Workers |-> 0]
    /\ attempt = [w \in Workers |-> 0]
    /\ calls = [w \in Workers |-> 0]
    /\ penalty = [w \in Workers |-> 0]
    /\ served = [w \in Workers |-> 0]
    /\ late = [w \in Workers |-> 0]

(* The delay taken for the target. *)
SoonestDelay(x, y) == x - y

Larger(x, y) == IF x <= y THEN y ELSE x

(* A lock that lets the newest waiter in first. *)
JumpQueue(queue, w) == <<w>> \o queue

(* async with self.lock *)
Queue(queue, w) == Append(queue, w)

Turn(w) == lock = None /\ waiters # <<>> /\ w = Head(waiters)

Sleeping == {w \in Workers : pc[w] = "sleep"}

Tick ==
    /\ clock < MaxTime \/ \E w \in Sleeping : clock < until[w]
    /\ clock' = clock + 1
    /\ UNCHANGED <<lock, waiters, pacerVars, taskVars, historyVars>>

(* An audit task awaits rpc(): its first wait(). *)
Call(w) ==
    /\ pc[w] = "idle"
    /\ calls[w] < Calls
    /\ waiters' = Queue(waiters, w)
    /\ pc' = [pc EXCEPT ![w] = "wait"]
    /\ UNCHANGED <<clock, lock, pacerVars, until, attempt, calls, penalty, historyVars>>

(* Sleeping after the lock is released. *)
EnterAndRelease(w) ==
    /\ Turn(w)
    /\ pc[w] = "wait"
    /\ waiters' = Tail(waiters)
    /\ until' = [until EXCEPT ![w] = Larger(next, cooldownUntil)]
    /\ pc' = [pc EXCEPT ![w] = "sleep"]
    /\ UNCHANGED <<clock, lock, pacerVars, attempt, calls, penalty, historyVars>>

(* wait() gets the lock, computes its target and sleeps under the lock. *)
Enter(w) ==
    /\ Turn(w)
    /\ pc[w] = "wait"
    /\ lock' = w
    /\ waiters' = Tail(waiters)
    /\ until' = [until EXCEPT ![w] = Larger(next, cooldownUntil)]
    /\ pc' = [pc EXCEPT ![w] = "sleep"]
    /\ UNCHANGED <<clock, pacerVars, attempt, calls, penalty, historyVars>>

(* A lock acquired by hand that is not released again. *)
StartHoldingLock(w) ==
    /\ pc[w] = "sleep"
    /\ until[w] <= clock
    /\ next' = clock + Interval
    /\ pc' = [pc EXCEPT ![w] = "post"]
    /\ until' = [until EXCEPT ![w] = 0]
    /\ attempt' = [attempt EXCEPT ![w] = @ + 1]
    /\ late' = [v \in Workers |-> IF pc[v] = "penalize" THEN late[v] + 1 ELSE late[v]]
    /\ UNCHANGED <<clock, lock, waiters, cooldownUntil, calls, penalty, served>>

(* The sleep is over: reserve the next slot, release the lock, post. *)
Start(w) ==
    /\ pc[w] = "sleep"
    /\ until[w] <= clock
    /\ lock' = None
    /\ next' = clock + Interval
    /\ pc' = [pc EXCEPT ![w] = "post"]
    /\ until' = [until EXCEPT ![w] = 0]
    /\ attempt' = [attempt EXCEPT ![w] = @ + 1]
    /\ late' = [v \in Workers |-> IF pc[v] = "penalize" THEN late[v] + 1 ELSE late[v]]
    /\ UNCHANGED <<clock, waiters, cooldownUntil, calls, penalty, served>>

Finished(w) ==
    /\ pc' = [pc EXCEPT ![w] = "idle"]
    /\ attempt' = [attempt EXCEPT ![w] = 0]
    /\ calls' = [calls EXCEPT ![w] = @ + 1]

(* A result, or an error that is not worth a retry. *)
Answer(w) ==
    /\ pc[w] = "post"
    /\ Finished(w)
    /\ UNCHANGED <<clock, lock, waiters, pacerVars, until, penalty, historyVars>>

AskPenalty(w) ==
    /\ \E p \in Penalties : penalty' = [penalty EXCEPT ![w] = p]
    /\ waiters' = Queue(waiters, w)
    /\ pc' = [pc EXCEPT ![w] = "penalize"]
    /\ UNCHANGED <<clock, lock, pacerVars, until, attempt, calls, historyVars>>

(* HTTP 429, HTTP 5xx or a transient RPC code: penalized on every attempt. *)
Overload(w) ==
    /\ pc[w] = "post"
    /\ AskPenalty(w)

(* An exception (a timeout of the request, a broken connection) is         *)
(* penalized too, but the last attempt just returns.                       *)
Raise(w) ==
    /\ pc[w] = "post"
    /\ IF attempt[w] = Retries
       THEN /\ Finished(w)
            /\ UNCHANGED <<clock, lock, waiters, pacerVars, until, penalty, historyVars>>
       ELSE AskPenalty(w)

(* A cooldown that is set instead of extended. *)
ReplaceCooldown(end) == end

ExtendCooldown(end) == Larger(cooldownUntil, end)

(* The next attempt waits behind every task already waiting; after the     *)
(* last one the call returns 'retries_exhausted'.                          *)
Retry(w) ==
    IF attempt[w] < Retries
    THEN /\ waiters' = Queue(Tail(waiters), w)
         /\ pc' = [pc EXCEPT ![w] = "wait"]
         /\ UNCHANGED <<attempt, calls>>
    ELSE /\ waiters' = Tail(waiters)
         /\ Finished(w)

(* penalize() gets the lock, releases it at once, and rpc() loops. *)
Penalize(w) ==
    /\ Turn(w)
    /\ pc[w] = "penalize"
    /\ LET end == clock + Larger(MinPenalty, penalty[w]) IN
         /\ cooldownUntil' = ExtendCooldown(end)
         /\ served' = [served EXCEPT ![w] = end]
    /\ penalty' = [penalty EXCEPT ![w] = 0]
    /\ late' = [late EXCEPT ![w] = 0]
    /\ Retry(w)
    /\ UNCHANGED <<clock, lock, next, until>>

AllCallsMade == \A w \in Workers : pc[w] = "idle" /\ calls[w] = Calls

-----------------------------------------------------------------------------

Respond(w) == Answer(w) \/ Overload(w) \/ Raise(w)

Next ==
    \/ Tick
    \/ \E w \in Workers :
         Call(w) \/ Enter(w) \/ Start(w) \/ Answer(w) \/ Overload(w) \/ Raise(w) \/ Penalize(w)

Spec == Init /\ [][Next]_vars

(* The event loop runs every ready task, time passes, and a request ends   *)
(* within the 25 seconds of its timeout.                                   *)
Fairness ==
    /\ WF_vars(Tick)
    /\ \A w \in Workers :
         /\ WF_vars(Call(w))
         /\ WF_vars(Enter(w))
         /\ WF_vars(Start(w))
         /\ WF_vars(Respond(w))
         /\ WF_vars(Penalize(w))

FairSpec == Spec /\ Fairness

-----------------------------------------------------------------------------
(***************************************************************************)
(* Properties                                                              *)
(***************************************************************************)

Limiter == INSTANCE RateLimit

(* "All request starts share one conservative global pacer": whatever the  *)
(* tasks do, the starts keep the interval and every cooldown in force.     *)
KeepsRate == Limiter!Spec

(* A task that met an overload does not start its next attempt before its  *)
(* own penalty is over, although other tasks penalize the pacer with       *)
(* shorter penalties meanwhile.                                            *)
OwnPenaltyServed ==
    [][\A w \in Workers :
         pc[w] = "sleep" /\ pc'[w] = "post" => served[w] <= clock]_vars

(* "Triggers a global cooldown": not at once, since penalize() waits for   *)
(* the lock, but every other task starts at most one request after the     *)
(* overload was seen and before the cooldown is in force.                  *)
LateStartsBounded == \A w \in Workers : late[w] < Cardinality(Workers)

(* Nobody waits for the lock for ever, no task that holds it waits for     *)
(* itself, and no call is retried for ever: the tasks stop nowhere else.   *)
EveryCallReturns == <>AllCallsMade
=============================================================================
