------------------------------ MODULE PacerProofs ------------------------------
(***************************************************************************)
(* Proofs about Pacer for every number of tasks, calls and retries and for *)
(* every interval and penalty.                                             *)
(***************************************************************************)
EXTENDS Pacer, FiniteSetTheorems, TLAPS

(* A task sleeps exactly while it holds the lock, and until the target     *)
(* that the pacer's state, which nobody else can change, still asks for.   *)
Locked ==
    \A w \in Workers :
        /\ pc[w] = "sleep" <=> lock = w
        /\ pc[w] = "sleep" => until[w] = Larger(next, cooldownUntil)

(* Every penalty that was served so far is part of the cooldown. *)
Counted == \A w \in Workers : served[w] <= cooldownUntil

PInv == TypeOK /\ Locked /\ Counted

USE DEF States

-----------------------------------------------------------------------------
LEMMA LargerType ==
    ASSUME NEW x \in Nat, NEW y \in Nat
    PROVE  Larger(x, y) \in Nat /\ x <= Larger(x, y) /\ y <= Larger(x, y)
  BY DEF Larger

(* A counter of one task can be bumped or reset. *)
LEMMA CounterType ==
    ASSUME NEW f \in [Workers -> Nat], NEW w \in Workers, NEW k \in Nat
    PROVE  /\ [f EXCEPT ![w] = @ + 1] \in [Workers -> Nat]
           /\ [f EXCEPT ![w] = k] \in [Workers -> Nat]
  OBVIOUS

LEMMA InitPInv == Init => PInv
  BY PacerAssumption DEF Init, PInv, TypeOK, Locked, Counted

LEMMA EnterKeepsPInv ==
    ASSUME PInv, NEW w \in Workers, Enter(w) PROVE PInv'
<1> USE DEF PInv, TypeOK
<1>1. Larger(next, cooldownUntil) \in Nat
  BY LargerType
<1>2. /\ UNCHANGED <<clock, next, cooldownUntil, attempt, calls, penalty, served, late>>
      /\ lock = None /\ lock' = w /\ pc[w] = "wait"
      /\ until' = [until EXCEPT ![w] = Larger(next, cooldownUntil)]
      /\ pc' = [pc EXCEPT ![w] = "sleep"]
      /\ waiters' \in Seq(Workers)
  BY DEF Enter, Turn, pacerVars, historyVars
<1>3. TypeOK'
  BY <1>1, <1>2
<1>4. Locked'
  BY <1>2, PacerAssumption DEF Locked
<1>5. Counted'
  BY <1>2 DEF Counted
<1> QED BY <1>3, <1>4, <1>5

LEMMA StartKeepsPInv ==
    ASSUME PInv, NEW w \in Workers, Start(w) PROVE PInv'
<1> USE DEF PInv, TypeOK
<1>1. /\ UNCHANGED <<clock, waiters, cooldownUntil, calls, penalty, served>>
      /\ pc[w] = "sleep" /\ lock' = None /\ next' = clock + Interval
      /\ pc' = [pc EXCEPT ![w] = "post"] /\ until' = [until EXCEPT ![w] = 0]
      /\ attempt' = [attempt EXCEPT ![w] = @ + 1]
      /\ late' = [v \in Workers |-> IF pc[v] = "penalize" THEN late[v] + 1 ELSE late[v]]
  BY DEF Start
<1>a. next' \in Nat
  BY <1>1, PacerAssumption
<1>b. attempt' \in [Workers -> Nat]
  BY <1>1
<1>c. late' \in [Workers -> Nat]
  <2>1. ASSUME NEW v \in Workers
        PROVE  (IF pc[v] = "penalize" THEN late[v] + 1 ELSE late[v]) \in Nat
    <3>1. late[v] \in Nat
      OBVIOUS
    <3> QED BY <3>1
  <2> QED BY <1>1, <2>1
<1>2. TypeOK'
  BY <1>1, <1>a, <1>b, <1>c
<1>3. Locked'
  BY <1>1, PacerAssumption DEF Locked
<1>4. Counted'
  BY <1>1 DEF Counted
<1> QED BY <1>2, <1>3, <1>4

(* A penalty extends the cooldown at least to its own end. *)
LEMMA PenaltyExtends ==
    ASSUME PInv, NEW w \in Workers, Penalize(w)
    PROVE  LET end == clock + Larger(MinPenalty, penalty[w]) IN
             /\ end \in Nat /\ clock + MinPenalty <= end
             /\ cooldownUntil' \in Nat
             /\ cooldownUntil <= cooldownUntil' /\ end <= cooldownUntil'
<1> DEFINE end == clock + Larger(MinPenalty, penalty[w])
<1> USE DEF PInv, TypeOK
<1>1. Larger(MinPenalty, penalty[w]) \in Nat /\ MinPenalty <= Larger(MinPenalty, penalty[w])
  BY LargerType, PacerAssumption
<1>2. end \in Nat /\ clock + MinPenalty <= end
  BY <1>1, PacerAssumption
<1>3. cooldownUntil' = Larger(cooldownUntil, end)
  BY DEF Penalize, ExtendCooldown
<1> HIDE DEF end
<1>4. /\ cooldownUntil' \in Nat
      /\ cooldownUntil <= cooldownUntil' /\ end <= cooldownUntil'
  BY <1>2, <1>3, LargerType
<1> QED BY <1>2, <1>4 DEF end

LEMMA PenalizeKeepsPInv ==
    ASSUME PInv, NEW w \in Workers, Penalize(w) PROVE PInv'
<1> USE DEF PInv, TypeOK
<1> DEFINE end == clock + Larger(MinPenalty, penalty[w])
<1>1. end \in Nat
  BY PenaltyExtends
<1>2. cooldownUntil' \in Nat /\ cooldownUntil <= cooldownUntil' /\ end <= cooldownUntil'
  BY PenaltyExtends
<1>3. /\ UNCHANGED <<clock, lock, next, until>>
      /\ lock = None /\ pc[w] = "penalize" /\ waiters # <<>>
      /\ served' = [served EXCEPT ![w] = end]
      /\ penalty' = [penalty EXCEPT ![w] = 0]
      /\ late' = [late EXCEPT ![w] = 0]
      /\ Retry(w)
  BY DEF Penalize, Turn
<1> HIDE DEF end
<1>4. /\ pc' \in [Workers -> States] /\ \A v \in Workers \ {w} : pc'[v] = pc[v]
      /\ pc'[w] # "sleep"
      /\ waiters' \in Seq(Workers)
      /\ attempt' \in [Workers -> Nat] /\ calls' \in [Workers -> Nat]
  <2>1. Tail(waiters) \in Seq(Workers)
    BY <1>3
  <2>2. CASE attempt[w] < Retries
    <3>1. /\ waiters' = Append(Tail(waiters), w)
          /\ pc' = [pc EXCEPT ![w] = "wait"]
          /\ UNCHANGED <<attempt, calls>>
      BY <1>3, <2>2 DEF Retry, Queue
    <3>2. waiters' \in Seq(Workers)
      BY <2>1, <3>1
    <3> QED BY <1>3, <3>1, <3>2
  <2>3. CASE ~(attempt[w] < Retries)
    <3>1. /\ waiters' = Tail(waiters)
          /\ pc' = [pc EXCEPT ![w] = "idle"]
          /\ attempt' = [attempt EXCEPT ![w] = 0]
          /\ calls' = [calls EXCEPT ![w] = @ + 1]
      BY <1>3, <2>3 DEF Retry, Finished
    <3>2. attempt' \in [Workers -> Nat] /\ calls' \in [Workers -> Nat]
      BY <3>1, CounterType
    <3> QED BY <1>3, <2>1, <3>1, <3>2
  <2> QED BY <2>2, <2>3
<1>5. TypeOK'
  BY <1>1, <1>2, <1>3, <1>4
<1>6. Locked'
  BY <1>3, <1>4, PacerAssumption DEF Locked
<1>7. Counted'
  BY <1>1, <1>2, <1>3 DEF Counted
<1> QED BY <1>5, <1>6, <1>7

(* The steps between a request and the queue leave the pacer alone. *)
LEMMA TaskStepKeepsPInv ==
    ASSUME PInv, NEW w \in Workers, Call(w) \/ Answer(w) \/ Overload(w) \/ Raise(w)
    PROVE  PInv' /\ UNCHANGED <<clock, next, cooldownUntil>>
<1> USE DEF PInv, TypeOK
<1> DEFINE TaskStep ==
      /\ UNCHANGED <<clock, lock, next, cooldownUntil, until, served, late>>
      /\ pc[w] # "sleep"
      /\ pc' \in [Workers -> States] /\ \A v \in Workers \ {w} : pc'[v] = pc[v]
      /\ pc'[w] # "sleep"
      /\ waiters' \in Seq(Workers)
      /\ attempt' \in [Workers -> Nat] /\ calls' \in [Workers -> Nat]
      /\ penalty' \in [Workers -> Nat]
<1>1. TaskStep
  <2> USE DEF pacerVars, historyVars
  <2>1. CASE Call(w)
    BY <2>1 DEF Call, Queue
  <2>2. CASE pc[w] = "post" /\ AskPenalty(w)
    <3>1. PICK p \in Penalties : penalty' = [penalty EXCEPT ![w] = p]
      BY <2>2 DEF AskPenalty
    <3>2. p \in Nat
      BY PacerAssumption
    <3> QED BY <2>2, <3>1, <3>2 DEF AskPenalty, Queue
  <2>3. ASSUME pc[w] = "post", Finished(w),
               UNCHANGED <<clock, lock, waiters, pacerVars, until, penalty, historyVars>>
        PROVE  TaskStep
    <3>1. attempt' \in [Workers -> Nat] /\ calls' \in [Workers -> Nat]
      BY <2>3, CounterType DEF Finished
    <3> QED BY <2>3, <3>1 DEF Finished
  <2> QED BY <2>1, <2>2, <2>3 DEF Answer, Overload, Raise
<1>2. TypeOK'
  BY <1>1
<1>3. Locked'
  BY <1>1, PacerAssumption DEF Locked
<1>4. Counted'
  BY <1>1 DEF Counted
<1> QED BY <1>1, <1>2, <1>3, <1>4

LEMMA NextKeepsPInv == PInv /\ [Next]_vars => PInv'
<1> SUFFICES ASSUME PInv, [Next]_vars PROVE PInv'
  OBVIOUS
<1>1. CASE Tick
  BY <1>1 DEF Tick, PInv, TypeOK, Locked, Counted, pacerVars, taskVars, historyVars
<1>2. CASE UNCHANGED vars
  BY <1>2 DEF vars, PInv, TypeOK, Locked, Counted, pacerVars, taskVars, historyVars
<1> QED
  BY <1>1, <1>2, EnterKeepsPInv, StartKeepsPInv, PenalizeKeepsPInv, TaskStepKeepsPInv
     DEF Next

LEMMA PacerInvariance == Spec => []PInv
  BY InitPInv, NextKeepsPInv, PTL DEF Spec

-----------------------------------------------------------------------------
(* Every step of the tasks is a step of the rate limiter or leaves it be:  *)
(* the interval and every cooldown in force bind all tasks together.       *)
LEMMA StepKeepsRate ==
    ASSUME PInv, [Next]_vars PROVE [Limiter!Next]_(Limiter!vars)
<1> USE DEF Limiter!Next, Limiter!vars, PInv, TypeOK
<1>1. CASE Tick
  BY <1>1 DEF Tick, Limiter!Tick, pacerVars
<1>2. ASSUME NEW w \in Workers, Start(w) PROVE Limiter!Start
  <2>1. until[w] = Larger(next, cooldownUntil) /\ until[w] <= clock
    BY <1>2 DEF Start, Locked
  <2>2. next <= clock /\ cooldownUntil <= clock
    BY <2>1 DEF Larger
  <2> QED BY <1>2, <2>2 DEF Start, Limiter!Start
<1>3. ASSUME NEW w \in Workers, Penalize(w) PROVE Limiter!Block
  <2>1. /\ cooldownUntil' \in Nat /\ cooldownUntil <= cooldownUntil'
        /\ clock + MinPenalty <= cooldownUntil'
    BY <1>3, PenaltyExtends, PacerAssumption
  <2>2. UNCHANGED <<clock, next>>
    BY <1>3 DEF Penalize
  <2> QED BY <2>1, <2>2 DEF Limiter!Block
<1>4. ASSUME NEW w \in Workers, Enter(w) PROVE UNCHANGED Limiter!vars
  BY <1>4 DEF Enter, pacerVars
<1>5. CASE UNCHANGED vars
  BY <1>5 DEF vars, pacerVars
<1> QED
  BY <1>1, <1>2, <1>3, <1>4, <1>5, TaskStepKeepsPInv DEF Next

(* The pacer's variables keep their types. *)
THEOREM PacerTypeCorrect == Spec => []TypeOK
<1>1. PInv => TypeOK
  BY DEF PInv
<1> QED BY PacerInvariance, <1>1, PTL

(* The lock-based pacer implements the rate limiter it promises to be. *)
THEOREM PacerImplementsRateLimit == Spec => KeepsRate
<1>1. Init => Limiter!Init
  BY DEF Init, Limiter!Init
<1>2. PInv /\ [Next]_vars => [Limiter!Next]_(Limiter!vars)
  BY StepKeepsRate
<1> QED BY PacerInvariance, <1>1, <1>2, PTL DEF Spec, KeepsRate, Limiter!Spec

(* No task starts its next attempt before its own penalty is over. *)
THEOREM PenaltyServed == Spec => OwnPenaltyServed
<1>1. PInv /\ [Next]_vars =>
        [\A w \in Workers : pc[w] = "sleep" /\ pc'[w] = "post" => served[w] <= clock]_vars
  <2> SUFFICES ASSUME PInv, [Next]_vars, NEW w \in Workers,
                      pc[w] = "sleep", pc'[w] = "post"
               PROVE  served[w] <= clock
    OBVIOUS
  <2> USE DEF PInv, TypeOK
  <2>1. Start(w)
    <3> USE DEF pacerVars, taskVars, historyVars
    <3>1. CASE Tick \/ UNCHANGED vars
      BY <3>1 DEF Tick, vars
    <3>2. ASSUME NEW v \in Workers, Start(v) PROVE v = w
      BY <3>2 DEF Start
    <3>3. ASSUME NEW v \in Workers,
                 Call(v) \/ Answer(v) \/ Overload(v) \/ Raise(v) PROVE FALSE
      BY <3>3 DEF Call, Answer, Overload, Raise, AskPenalty, Finished
    <3>4. ASSUME NEW v \in Workers, Enter(v) PROVE FALSE
      BY <3>4 DEF Enter
    <3>5. ASSUME NEW v \in Workers, Penalize(v) PROVE FALSE
      BY <3>5 DEF Penalize, Retry, Finished
    <3> QED BY <3>1, <3>2, <3>3, <3>4, <3>5 DEF Next
  <2>2. until[w] <= clock /\ until[w] = Larger(next, cooldownUntil)
    BY <2>1 DEF Start, Locked
  <2>3. cooldownUntil <= Larger(next, cooldownUntil)
    BY LargerType
  <2>4. cooldownUntil <= clock
    BY <2>2, <2>3
  <2> QED BY <2>4 DEF Counted
<1> QED BY PacerInvariance, <1>1, PTL DEF Spec, OwnPenaltyServed

-----------------------------------------------------------------------------
(* How many requests start between an overload and its cooldown: the lock  *)
(* is first come first served and a task is in its queue once, so each     *)
(* start uses up a task that was ahead.                                    *)

Members(q) == {q[i] : i \in 1..Len(q)}

Distinct(q) == \A i, j \in 1..Len(q) : q[i] = q[j] => i = j

Precedes(q, v, w) == \E i, j \in 1..Len(q) : i < j /\ q[i] = v /\ q[j] = w

(* A task waits for the lock exactly once, while it is in wait() or        *)
(* penalize().                                                             *)
Queued ==
    /\ Distinct(waiters)
    /\ \A w \in Workers : w \in Members(waiters) <=> pc[w] \in {"wait", "penalize"}

(* The tasks that get or have the lock before w does. *)
Ahead(w) == {v \in Workers : pc[v] = "sleep" \/ Precedes(waiters, v, w)}

Counting ==
    \A w \in Workers :
        IF pc[w] = "penalize"
        THEN late[w] + Cardinality(Ahead(w)) < Cardinality(Workers)
        ELSE late[w] = 0

QInv == PInv /\ Queued /\ Counting
-----------------------------------------------------------------------------
(* Joining at the end of a queue puts nobody behind the newcomer.          *)
LEMMA JoinQueue ==
    ASSUME NEW q \in Seq(Workers), NEW w \in Workers, Distinct(q), w \notin Members(q)
    PROVE  /\ Distinct(Append(q, w))
           /\ Members(Append(q, w)) = Members(q) \cup {w}
           /\ \A u, v \in Workers : v # w /\ Precedes(Append(q, w), u, v) => Precedes(q, u, v)
<1> DEFINE r == Append(q, w)
<1>1. Len(q) \in Nat /\ Len(r) = Len(q) + 1
  OBVIOUS
<1>2. r[Len(r)] = w /\ \A i \in 1..Len(q) : r[i] = q[i]
  OBVIOUS
<1>3. \A i \in 1..Len(r) : i # Len(r) => i \in 1..Len(q)
  BY <1>1
<1> HIDE DEF r
<1>4. \A i \in 1..Len(q) : r[i] # w
  BY <1>2 DEF Members
<1>5. Distinct(r)
  BY <1>1, <1>2, <1>3, <1>4 DEF Distinct
<1>6. Members(r) = Members(q) \cup {w}
  <2>1. Len(r) \in 1..Len(r) /\ 1..Len(q) \subseteq 1..Len(r)
    BY <1>1
  <2> QED
    BY <1>2, <1>3, <2>1 DEF Members
<1>7. ASSUME NEW u \in Workers, NEW v \in Workers, v # w, Precedes(r, u, v)
      PROVE  Precedes(q, u, v)
  <2>1. PICK i \in 1..Len(r), j \in 1..Len(r) : i < j /\ r[i] = u /\ r[j] = v
    BY <1>7 DEF Precedes
  <2>2. j # Len(r)
    BY <1>2, <1>7, <2>1
  <2>3. i # Len(r)
    BY <1>1, <2>1
  <2> QED
    BY <1>2, <1>3, <2>1, <2>2, <2>3 DEF Precedes
<1> QED
  BY <1>5, <1>6, <1>7 DEF r

(* The first of a queue is ahead of all the others, until it leaves.       *)
LEMMA LeaveQueue ==
    ASSUME NEW q \in Seq(Workers), q # <<>>, Distinct(q)
    PROVE  /\ Tail(q) \in Seq(Workers) /\ Distinct(Tail(q))
           /\ Members(Tail(q)) = Members(q) \ {Head(q)}
           /\ Head(q) \in Members(q)
           /\ \A u, v \in Workers : Precedes(Tail(q), u, v) => Precedes(q, u, v)
           /\ \A v \in Members(q) : v # Head(q) => Precedes(q, Head(q), v)
<1> DEFINE r == Tail(q)
<1>1. /\ Len(q) \in Nat /\ Len(q) > 0 /\ Len(r) = Len(q) - 1
      /\ Head(q) = q[1] /\ r \in Seq(Workers)
  OBVIOUS
<1>2. \A i \in 1..Len(r) : r[i] = q[i + 1]
  OBVIOUS
<1>3. \A i \in 1..Len(r) : i + 1 \in 1..Len(q) /\ i + 1 # 1
  BY <1>1
<1>4. \A i \in 1..Len(q) : i # 1 => i - 1 \in 1..Len(r) /\ r[i - 1] = q[i]
  <2> SUFFICES ASSUME NEW i \in 1..Len(q), i # 1
               PROVE  i - 1 \in 1..Len(r) /\ r[i - 1] = q[i]
    OBVIOUS
  <2>1. i - 1 \in 1..Len(r) /\ (i - 1) + 1 = i
    BY <1>1
  <2> QED
    BY <1>2, <2>1
<1>5. 1 \in 1..Len(q)
  BY <1>1
<1> HIDE DEF r
<1>6. Distinct(r)
  <2> SUFFICES ASSUME NEW i \in 1..Len(r), NEW j \in 1..Len(r), r[i] = r[j]
               PROVE  i = j
    BY DEF Distinct
  <2>1. i + 1 = j + 1
    BY <1>2, <1>3 DEF Distinct
  <2> QED
    BY <2>1
<1>7. Members(r) = Members(q) \ {q[1]}
  <2>1. Members(r) \subseteq Members(q) \ {q[1]}
    <3> SUFFICES ASSUME NEW i \in 1..Len(r)
                 PROVE  r[i] \in Members(q) /\ r[i] # q[1]
      BY DEF Members
    <3> QED
      BY <1>2, <1>3, <1>5 DEF Members, Distinct
  <2>2. Members(q) \ {q[1]} \subseteq Members(r)
    BY <1>4 DEF Members
  <2> QED
    BY <2>1, <2>2
<1>8. q[1] \in Members(q)
  BY <1>5 DEF Members
<1>9. ASSUME NEW u \in Workers, NEW v \in Workers, Precedes(r, u, v)
      PROVE  Precedes(q, u, v)
  <2>1. PICK i \in 1..Len(r), j \in 1..Len(r) : i < j /\ r[i] = u /\ r[j] = v
    BY <1>9 DEF Precedes
  <2>2. i + 1 < j + 1
    BY <2>1
  <2> QED
    BY <1>2, <1>3, <2>1, <2>2 DEF Precedes
<1>10. ASSUME NEW v \in Members(q), v # q[1]
       PROVE  Precedes(q, q[1], v)
  <2>1. PICK j \in 1..Len(q) : q[j] = v
    BY DEF Members
  <2>2. 1 < j
    BY <1>10, <2>1
  <2> QED
    BY <1>5, <2>1, <2>2 DEF Precedes
<1> QED
  BY <1>1, <1>6, <1>7, <1>8, <1>9, <1>10 DEF r

(* A task that has asked for the lock is not ahead of itself. *)
LEMMA NotAheadOfItself ==
    ASSUME NEW q \in Seq(Workers), Distinct(q), NEW w \in Workers
    PROVE  ~Precedes(q, w, w)
<1>1. \A i, j \in 1..Len(q) : i < j => i # j
  OBVIOUS
<1> QED
  BY <1>1 DEF Precedes, Distinct

LEMMA CountAhead ==
    ASSUME NEW w \in Workers, NEW A \in SUBSET Workers
    PROVE  /\ IsFiniteSet(A) /\ Cardinality(A) \in Nat /\ Cardinality(Workers) \in Nat
           /\ w \notin A => Cardinality(A) < Cardinality(Workers)
<1>1. IsFiniteSet(Workers) /\ Cardinality(Workers) \in Nat
  BY PacerAssumption, FS_CardinalityType
<1>2. IsFiniteSet(Workers \ {w}) /\ Cardinality(Workers \ {w}) = Cardinality(Workers) - 1
  BY <1>1, FS_RemoveElement
<1>3. IsFiniteSet(A) /\ Cardinality(A) \in Nat
  BY <1>1, FS_Subset, FS_CardinalityType
<1>4. ASSUME w \notin A PROVE Cardinality(A) <= Cardinality(Workers \ {w})
  <2>1. A \in SUBSET (Workers \ {w})
    BY <1>4
  <2> QED
    BY <1>2, <2>1, FS_Subset
<1> QED
  BY <1>1, <1>2, <1>3, <1>4

(* Fewer tasks ahead and no further start keep the count. *)
LEMMA FewerAhead ==
    ASSUME NEW A \in SUBSET Workers, NEW B \in SUBSET A, NEW k \in Nat,
           k + Cardinality(A) < Cardinality(Workers)
    PROVE  k + Cardinality(B) < Cardinality(Workers)
<1>1. IsFiniteSet(Workers) /\ Cardinality(Workers) \in Nat
  BY PacerAssumption, FS_CardinalityType
<1>2. IsFiniteSet(A) /\ Cardinality(A) \in Nat
  BY <1>1, FS_Subset, FS_CardinalityType
<1>3. Cardinality(B) \in Nat /\ Cardinality(B) <= Cardinality(A)
  BY <1>2, FS_Subset, FS_CardinalityType
<1> QED
  BY <1>1, <1>2, <1>3

(* A start of a task that was ahead pays for itself. *)
LEMMA OneStart ==
    ASSUME NEW A \in SUBSET Workers, NEW w \in A, NEW B \in SUBSET (A \ {w}), NEW k \in Nat,
           k + Cardinality(A) < Cardinality(Workers)
    PROVE  k + 1 + Cardinality(B) < Cardinality(Workers)
<1>1. IsFiniteSet(Workers) /\ Cardinality(Workers) \in Nat
  BY PacerAssumption, FS_CardinalityType
<1>2. IsFiniteSet(A) /\ Cardinality(A) \in Nat
  BY <1>1, FS_Subset, FS_CardinalityType
<1>3. IsFiniteSet(A \ {w}) /\ Cardinality(A \ {w}) = Cardinality(A) - 1
  BY <1>2, FS_RemoveElement
<1>4. Cardinality(B) \in Nat /\ Cardinality(B) <= Cardinality(A \ {w})
  BY <1>3, FS_Subset, FS_CardinalityType
<1> QED
  BY <1>1, <1>2, <1>3, <1>4

LEMMA InitQInv == Init => QInv
<1> SUFFICES ASSUME Init PROVE QInv
  OBVIOUS
<1>1. Len(waiters) = 0
  BY DEF Init
<1> QED
  BY <1>1, InitPInv DEF Init, QInv, Queued, Counting, Members, Distinct

-----------------------------------------------------------------------------
(* When a step starts no request, whoever still waits to penalize has      *)
(* nobody new ahead.                                                       *)
LEMMA NoStartCounts ==
    ASSUME QInv, pc' \in [Workers -> States],
           \A v \in Workers :
             IF pc'[v] = "penalize"
             THEN \/ pc[v] = "penalize" /\ late'[v] = late[v] /\ Ahead(v)' \subseteq Ahead(v)
                  \/ late'[v] = 0 /\ v \notin Ahead(v)'
             ELSE late'[v] = 0
    PROVE  Counting'
<1> SUFFICES ASSUME NEW v \in Workers
             PROVE  IF pc'[v] = "penalize"
                    THEN late'[v] + Cardinality(Ahead(v)') < Cardinality(Workers)
                    ELSE late'[v] = 0
  BY DEF Counting
<1>1. CASE pc'[v] # "penalize"
  BY <1>1
<1>2. CASE pc[v] = "penalize" /\ late'[v] = late[v] /\ Ahead(v)' \subseteq Ahead(v)
  <2>1. late[v] \in Nat /\ late[v] + Cardinality(Ahead(v)) < Cardinality(Workers)
    BY <1>2 DEF QInv, PInv, TypeOK, Counting
  <2>2. Ahead(v) \in SUBSET Workers
    BY DEF Ahead
  <2>3. late[v] + Cardinality(Ahead(v)') < Cardinality(Workers)
    BY <1>2, <2>1, <2>2, FewerAhead
  <2>4. late'[v] = late[v] /\ pc'[v] \in States
    BY <1>2
  <2> QED
    BY <1>1, <2>3, <2>4
<1>3. CASE pc'[v] = "penalize" /\ late'[v] = 0 /\ v \notin Ahead(v)'
  <2>1. Ahead(v)' \in SUBSET Workers
    BY DEF Ahead
  <2>2. Cardinality(Ahead(v)') \in Nat /\ Cardinality(Ahead(v)') < Cardinality(Workers)
    BY <1>3, <2>1, CountAhead
  <2> QED
    BY <1>3, <2>2
<1> QED
  BY <1>1, <1>2, <1>3

LEMMA EnterKeepsQInv ==
    ASSUME QInv, NEW w \in Workers, Enter(w)
    PROVE  Queued' /\ Counting'
<1>1. /\ waiters \in Seq(Workers) /\ waiters # <<>> /\ Distinct(waiters) /\ w = Head(waiters)
      /\ waiters' = Tail(waiters)
      /\ pc \in [Workers -> States] /\ pc[w] = "wait" /\ pc' = [pc EXCEPT ![w] = "sleep"]
      /\ late' = late
  BY DEF QInv, PInv, TypeOK, Queued, Enter, Turn, historyVars
<1>2. /\ Distinct(waiters') /\ Members(waiters') = Members(waiters) \ {w}
      /\ \A u, v \in Workers : Precedes(waiters', u, v) => Precedes(waiters, u, v)
      /\ \A v \in Members(waiters) : v # w => Precedes(waiters, w, v)
  BY <1>1, LeaveQueue
<1>3. Queued'
  BY <1>1, <1>2 DEF QInv, Queued
<1>4. ASSUME NEW v \in Workers
      PROVE  IF pc'[v] = "penalize"
             THEN pc[v] = "penalize" /\ late'[v] = late[v] /\ Ahead(v)' \subseteq Ahead(v)
             ELSE late'[v] = 0
  <2>1. CASE pc'[v] # "penalize"
    <3>1. pc[v] # "penalize"
      BY <1>1, <2>1
    <3> QED
      BY <1>1, <2>1, <3>1 DEF QInv, Counting
  <2>2. CASE pc'[v] = "penalize"
    <3>1. v # w /\ pc[v] = "penalize" /\ v \in Members(waiters)
      BY <1>1, <2>2 DEF QInv, Queued
    <3>2. Ahead(v)' \subseteq Ahead(v)
      BY <1>1, <1>2, <3>1 DEF Ahead
    <3> QED
      BY <1>1, <2>2, <3>1, <3>2
  <2> QED
    BY <2>1, <2>2
<1>5. pc' \in [Workers -> States]
  BY <1>1 DEF States
<1> QED
  BY <1>3, <1>4, <1>5, NoStartCounts

(* The task that starts was ahead of everyone who waits to penalize. *)
LEMMA StartKeepsQInv ==
    ASSUME QInv, NEW w \in Workers, Start(w)
    PROVE  Queued' /\ Counting'
<1>1. /\ waiters' = waiters
      /\ pc \in [Workers -> States] /\ pc[w] = "sleep" /\ pc' = [pc EXCEPT ![w] = "post"]
      /\ late \in [Workers -> Nat]
      /\ late' = [v \in Workers |-> IF pc[v] = "penalize" THEN late[v] + 1 ELSE late[v]]
  BY DEF QInv, PInv, TypeOK, Start
<1>2. Queued'
  BY <1>1 DEF QInv, Queued
<1>3. ASSUME NEW v \in Workers, pc'[v] = "penalize"
      PROVE  late'[v] + Cardinality(Ahead(v)') < Cardinality(Workers)
  <2>1. pc[v] = "penalize" /\ v # w
    BY <1>1, <1>3
  <2>2. late[v] \in Nat /\ late'[v] = late[v] + 1
    BY <1>1, <2>1
  <2>3. late[v] + Cardinality(Ahead(v)) < Cardinality(Workers)
    BY <2>1 DEF QInv, Counting
  <2>4. w \in Ahead(v) /\ Ahead(v) \in SUBSET Workers
    BY <1>1 DEF Ahead
  <2>5. w \notin Members(waiters)
    BY <1>1 DEF QInv, Queued
  <2>6. ~Precedes(waiters, w, v)
    BY <2>5 DEF Precedes, Members
  <2>7. Ahead(v)' \in SUBSET (Ahead(v) \ {w})
    BY <1>1, <2>6 DEF Ahead
  <2>8. late[v] + 1 + Cardinality(Ahead(v)') < Cardinality(Workers)
    BY <2>2, <2>3, <2>4, <2>7, OneStart
  <2> QED
    BY <2>2, <2>8
<1>4. ASSUME NEW v \in Workers, pc'[v] # "penalize"
      PROVE  late'[v] = 0
  BY <1>1, <1>4 DEF QInv, Counting
<1> QED
  BY <1>2, <1>3, <1>4 DEF Counting

(* Whoever retries goes to the end of the queue. *)
LEMMA PenalizeKeepsQInv ==
    ASSUME QInv, NEW w \in Workers, Penalize(w)
    PROVE  Queued' /\ Counting'
<1>1. /\ waiters \in Seq(Workers) /\ waiters # <<>> /\ Distinct(waiters) /\ w = Head(waiters)
      /\ pc \in [Workers -> States] /\ pc[w] = "penalize"
      /\ late \in [Workers -> Nat] /\ late' = [late EXCEPT ![w] = 0]
      /\ Retry(w)
  BY DEF QInv, PInv, TypeOK, Queued, Penalize, Turn
<1> DEFINE rest == Tail(waiters)
<1>2. /\ rest \in Seq(Workers) /\ Distinct(rest) /\ Members(rest) = Members(waiters) \ {w}
      /\ \A u, v \in Workers : Precedes(rest, u, v) => Precedes(waiters, u, v)
  BY <1>1, LeaveQueue
<1>3. \/ waiters' = Append(rest, w) /\ pc' = [pc EXCEPT ![w] = "wait"]
      \/ waiters' = rest /\ pc' = [pc EXCEPT ![w] = "idle"]
  BY <1>1 DEF Retry, Queue, Finished
<1> HIDE DEF rest
<1>4. /\ Distinct(waiters')
      /\ \A v \in Workers \ {w} : v \in Members(waiters') <=> v \in Members(waiters)
      /\ w \in Members(waiters') <=> pc'[w] = "wait"
      /\ \A u, v \in Workers : v # w /\ Precedes(waiters', u, v) => Precedes(waiters, u, v)
  <2>1. CASE waiters' = Append(rest, w) /\ pc' = [pc EXCEPT ![w] = "wait"]
    BY <1>1, <1>2, <2>1, JoinQueue
  <2>2. CASE waiters' = rest /\ pc' = [pc EXCEPT ![w] = "idle"]
    BY <1>1, <1>2, <2>2
  <2> QED
    BY <1>3, <2>1, <2>2
<1>5. /\ pc' \in [Workers -> States] /\ pc'[w] \in {"wait", "idle"}
      /\ \A v \in Workers \ {w} : pc'[v] = pc[v] /\ late'[v] = late[v]
      /\ late'[w] = 0
  BY <1>1, <1>3 DEF States
<1>6. Queued'
  BY <1>4, <1>5 DEF QInv, Queued
<1>7. ASSUME NEW v \in Workers
      PROVE  IF pc'[v] = "penalize"
             THEN pc[v] = "penalize" /\ late'[v] = late[v] /\ Ahead(v)' \subseteq Ahead(v)
             ELSE late'[v] = 0
  <2>1. CASE v = w
    BY <1>5, <2>1
  <2>2. CASE v # w
    <3>1. Ahead(v)' \subseteq Ahead(v)
      BY <1>4, <1>5, <2>2 DEF Ahead
    <3> QED
      BY <1>5, <2>2, <3>1 DEF QInv, Counting
  <2> QED
    BY <2>1, <2>2
<1> QED
  BY <1>5, <1>6, <1>7, NoStartCounts

(* A task that asks for the lock, to start or to penalize, is the last. *)
LEMMA JoinKeepsQInv ==
    ASSUME QInv, NEW w \in Workers, NEW s \in {"wait", "penalize"},
           pc[w] \in {"idle", "post"}, waiters' = Append(waiters, w),
           pc' = [pc EXCEPT ![w] = s], late' = late
    PROVE  Queued' /\ Counting'
<1>1. /\ waiters \in Seq(Workers) /\ Distinct(waiters) /\ w \notin Members(waiters)
      /\ pc \in [Workers -> States] /\ pc' \in [Workers -> States] /\ late[w] = 0
  BY DEF QInv, PInv, TypeOK, Queued, Counting, States
<1>2. /\ waiters' \in Seq(Workers)
      /\ Distinct(waiters') /\ Members(waiters') = Members(waiters) \cup {w}
      /\ \A u, v \in Workers : v # w /\ Precedes(waiters', u, v) => Precedes(waiters, u, v)
  BY <1>1, JoinQueue
<1>3. Queued'
  BY <1>1, <1>2 DEF QInv, Queued
<1>4. w \notin Ahead(w)'
  <2>1. ~Precedes(waiters', w, w) /\ pc'[w] # "sleep"
    BY <1>1, <1>2, NotAheadOfItself
  <2> QED
    BY <2>1 DEF Ahead
<1>5. ASSUME NEW v \in Workers, v # w
      PROVE  pc'[v] = pc[v] /\ Ahead(v)' \subseteq Ahead(v)
  BY <1>1, <1>2, <1>5 DEF Ahead
<1>6. ASSUME NEW v \in Workers
      PROVE  IF pc'[v] = "penalize"
             THEN \/ pc[v] = "penalize" /\ late'[v] = late[v] /\ Ahead(v)' \subseteq Ahead(v)
                  \/ late'[v] = 0 /\ v \notin Ahead(v)'
             ELSE late'[v] = 0
  <2>1. CASE v = w
    BY <1>1, <1>4, <2>1
  <2>2. CASE v # w
    BY <1>5, <2>2 DEF QInv, Counting
  <2> QED
    BY <2>1, <2>2
<1> QED
  BY <1>1, <1>3, <1>6, NoStartCounts

LEMMA FinishKeepsQInv ==
    ASSUME QInv, NEW w \in Workers, pc[w] = "post", Finished(w), UNCHANGED <<waiters, late>>
    PROVE  Queued' /\ Counting'
<1>1. /\ pc \in [Workers -> States] /\ pc' = [pc EXCEPT ![w] = "idle"]
      /\ waiters' = waiters /\ late' = late
  BY DEF QInv, PInv, TypeOK, Finished
<1>2. Queued'
  BY <1>1 DEF QInv, Queued
<1>3. ASSUME NEW v \in Workers
      PROVE  IF pc'[v] = "penalize"
             THEN pc[v] = "penalize" /\ late'[v] = late[v] /\ Ahead(v)' \subseteq Ahead(v)
             ELSE late'[v] = 0
  <2>1. Ahead(v)' \subseteq Ahead(v)
    BY <1>1 DEF Ahead
  <2> QED
    BY <1>1, <2>1 DEF QInv, Counting
<1>4. pc' \in [Workers -> States]
  BY <1>1 DEF States
<1> QED
  BY <1>2, <1>3, <1>4, NoStartCounts

LEMMA NextKeepsQInv == QInv /\ [Next]_vars => QInv'
<1> SUFFICES ASSUME QInv, [Next]_vars PROVE Queued' /\ Counting'
  BY NextKeepsPInv DEF QInv
<1>1. CASE Tick \/ UNCHANGED vars
  <2>1. UNCHANGED <<waiters, pc, late>>
    BY <1>1 DEF Tick, vars, taskVars, historyVars
  <2>2. \A v \in Workers : Ahead(v)' = Ahead(v)
    BY <2>1 DEF Ahead
  <2> QED
    BY <2>1, <2>2 DEF QInv, Queued, Counting
<1>2. ASSUME NEW w \in Workers, Call(w)
      PROVE  Queued' /\ Counting'
  <2>1. /\ pc[w] = "idle" /\ waiters' = Append(waiters, w)
        /\ pc' = [pc EXCEPT ![w] = "wait"] /\ late' = late
    BY <1>2 DEF Call, Queue, historyVars
  <2> QED
    BY <2>1, JoinKeepsQInv
<1>3. ASSUME NEW w \in Workers, pc[w] = "post", AskPenalty(w)
      PROVE  Queued' /\ Counting'
  <2>1. waiters' = Append(waiters, w) /\ pc' = [pc EXCEPT ![w] = "penalize"] /\ late' = late
    BY <1>3 DEF AskPenalty, Queue, historyVars
  <2> QED
    BY <1>3, <2>1, JoinKeepsQInv
<1>4. ASSUME NEW w \in Workers, Answer(w) \/ Overload(w) \/ Raise(w)
      PROVE  Queued' /\ Counting'
  <2>1. \/ pc[w] = "post" /\ AskPenalty(w)
        \/ pc[w] = "post" /\ Finished(w) /\ UNCHANGED <<waiters, late>>
    BY <1>4 DEF Answer, Overload, Raise, historyVars
  <2> QED
    BY <1>3, <2>1, FinishKeepsQInv
<1> QED
  BY <1>1, <1>2, <1>4, EnterKeepsQInv, StartKeepsQInv, PenalizeKeepsQInv DEF Next

-----------------------------------------------------------------------------
(* Between an overload and its cooldown every other task starts at most    *)
(* one request, however many tasks share the pacer.                        *)
THEOREM FewLateStarts == Spec => []LateStartsBounded
<1>1. QInv => LateStartsBounded
  <2> SUFFICES ASSUME QInv, NEW w \in Workers PROVE late[w] < Cardinality(Workers)
    BY DEF LateStartsBounded
  <2>1. Ahead(w) \in SUBSET Workers /\ late[w] \in Nat
    BY DEF Ahead, QInv, PInv, TypeOK
  <2>2. Cardinality(Ahead(w)) \in Nat /\ Cardinality(Workers) \in Nat
    BY <2>1, CountAhead
  <2>3. Cardinality(Workers) # 0
    BY FS_EmptySet, PacerAssumption
  <2> QED
    BY <2>1, <2>2, <2>3 DEF QInv, Counting
<1> QED
  BY <1>1, InitQInv, NextKeepsQInv, PTL DEF Spec

-----------------------------------------------------------------------------
(* No task makes more calls than it has, nor more attempts than a call     *)
(* has; a task that waits for its turn has one left.                       *)
Limits ==
    \A w \in Workers :
        /\ calls[w] <= Calls /\ attempt[w] <= Retries
        /\ pc[w] = "idle" => attempt[w] = 0
        /\ pc[w] # "idle" => calls[w] < Calls
        /\ pc[w] \in {"wait", "sleep"} => attempt[w] < Retries

LEMMA LimitsKept ==
    ASSUME PInv, Limits, [Next]_vars
    PROVE  Limits'
<1> USE PacerAssumption DEF PInv, TypeOK
<1>1. CASE Tick \/ UNCHANGED vars
  BY <1>1 DEF Limits, Tick, vars, taskVars
<1>2. ASSUME NEW w \in Workers, Call(w) PROVE Limits'
  BY <1>2 DEF Limits, Call
<1>3. ASSUME NEW w \in Workers, Enter(w) PROVE Limits'
  BY <1>3 DEF Limits, Enter
<1>4. ASSUME NEW w \in Workers, Start(w) PROVE Limits'
  BY <1>4 DEF Limits, Start
<1>5. ASSUME NEW w \in Workers, Finished(w), pc[w] # "idle" PROVE Limits'
  BY <1>5 DEF Limits, Finished
<1>6. ASSUME NEW w \in Workers, AskPenalty(w), pc[w] # "idle" PROVE Limits'
  BY <1>6 DEF Limits, AskPenalty
<1>7. ASSUME NEW w \in Workers, Answer(w) \/ Overload(w) \/ Raise(w) PROVE Limits'
  <2>1. pc[w] # "idle" /\ (Finished(w) \/ AskPenalty(w))
    BY <1>7 DEF Answer, Overload, Raise
  <2> QED
    BY <1>5, <1>6, <2>1
<1>8. ASSUME NEW w \in Workers, Penalize(w) PROVE Limits'
  <2>1. pc[w] = "penalize" /\ Retry(w)
    BY <1>8 DEF Penalize
  <2>2. CASE attempt[w] < Retries
    <3>1. pc' = [pc EXCEPT ![w] = "wait"] /\ attempt' = attempt /\ calls' = calls
      BY <2>1, <2>2 DEF Retry
    <3> QED
      BY <2>1, <2>2, <3>1 DEF Limits
  <2>3. CASE ~(attempt[w] < Retries)
    BY <1>5, <2>1, <2>3 DEF Retry
  <2> QED
    BY <2>2, <2>3
<1> QED
  BY <1>1, <1>2, <1>3, <1>4, <1>7, <1>8 DEF Next

(* Some task can go on: call, have its answer, sleep under the lock it     *)
(* holds, or take the free lock as the first who waits for it.             *)
SomebodyGoesOn ==
    \E w \in Workers :
        \/ pc[w] = "idle" /\ calls[w] < Calls
        \/ pc[w] = "post"
        \/ pc[w] = "sleep" /\ lock = w
        \/ pc[w] \in {"wait", "penalize"} /\ Turn(w)

(* The tasks never wait for each other in a circle, and no call is retried *)
(* for ever: until all calls are made somebody can go on, whoever was      *)
(* overloaded while the lock was taken.                                    *)
THEOREM NobodyStuck == Spec => [](Limits /\ (AllCallsMade \/ SomebodyGoesOn))
<1>1. Init => Limits
  BY PacerAssumption DEF Init, Limits
<1>2. Spec => []PInv /\ []QInv
  <2>1. QInv => PInv
    BY DEF QInv
  <2> QED
    BY <2>1, InitQInv, NextKeepsQInv, PTL DEF Spec
<1>3. Spec => []Limits
  BY <1>1, <1>2, LimitsKept, PTL DEF Spec
<1>4. QInv /\ Limits => AllCallsMade \/ SomebodyGoesOn
  <2> SUFFICES ASSUME QInv, Limits, ~AllCallsMade PROVE SomebodyGoesOn
    OBVIOUS
  <2>1. PICK w \in Workers : ~(pc[w] = "idle" /\ calls[w] = Calls)
    BY DEF AllCallsMade
  <2>2. /\ pc[w] \in States /\ calls[w] \in Nat /\ calls[w] <= Calls /\ Calls \in Nat
        /\ lock \in Workers \cup {None}
    BY PacerAssumption DEF QInv, PInv, TypeOK, Limits
  <2>3. CASE pc[w] = "idle" \/ pc[w] = "post"
    BY <2>1, <2>2, <2>3 DEF SomebodyGoesOn
  <2>4. CASE lock # None
    <3>1. lock \in Workers /\ pc[lock] = "sleep"
      BY <2>2, <2>4 DEF QInv, PInv, Locked
    <3> QED
      BY <3>1 DEF SomebodyGoesOn
  <2>5. CASE lock = None /\ pc[w] \in {"wait", "penalize"}
    <3>1. w \in Members(waiters) /\ waiters \in Seq(Workers)
      BY <2>5 DEF QInv, PInv, TypeOK, Queued
    <3>2. waiters # <<>> /\ Len(waiters) \in Nat
      BY <3>1 DEF Members
    <3>3. Head(waiters) \in Members(waiters) /\ Head(waiters) \in Workers
      BY <3>1, <3>2 DEF Members
    <3>4. pc[Head(waiters)] \in {"wait", "penalize"}
      BY <3>3 DEF QInv, Queued
    <3> QED
      BY <2>5, <3>2, <3>3, <3>4 DEF SomebodyGoesOn, Turn
  <2>6. CASE lock = None /\ pc[w] = "sleep"
    BY <2>6, PacerAssumption DEF QInv, PInv, Locked
  <2> QED
    BY <2>2, <2>3, <2>4, <2>5, <2>6 DEF States
<1> QED
  BY <1>2, <1>3, <1>4, PTL
================================================================================
