------------------------------ MODULE LedgerProofs ------------------------------
(***************************************************************************)
(* The safety properties of Ledger, for any number of runs, attempts, rows *)
(* and horizons.  One job runs at a time, so the branch is still what its  *)
(* worktree was made from, and what the worktree adds are new paths.  A    *)
(* snapshot is backed by the branch it was pushed on, which only grows.    *)
(***************************************************************************)
EXTENDS Ledger, FiniteSetTheorems, TLAPS

Stages == {"off", "pending", "scan", "mount", "rows", "track", "board", "push", "done"}

(* The jobs that have a worktree, and those that still owe their scan. *)
Mounted(r) == pc[r] \in {"rows", "track", "board", "push"}

Owes(r) == pc[r] \in {"pending", "scan", "mount", "push"}

Types ==
    /\ pc \in [Runs -> Stages]
    /\ attempt \in [Runs -> Nat]
    /\ base \in [Runs -> Nat]
    /\ version \in Nat
    /\ DOMAIN tree = Runs
    /\ DOMAIN horizon = OutcomeRuns /\ DOMAIN todo = OutcomeRuns /\ DOMAIN at = OutcomeRuns
    /\ \A r \in ScanRuns : pc[r] \notin {"rows", "track", "board"}

Alone == \A r, q \in Running : r = q

OnHead == \A r \in Runs : Mounted(r) => base[r] = version

(* The attempts of a run that are on the branch are over. *)
AttemptsOver ==
    \A p \in Scans(branch) : \E r \in ScanRuns : \E a \in 0..attempt[r] :
        /\ p = ScanPath(r, a)
        /\ Owes(r) => a < attempt[r]

(* A worktree has the evidence of the branch and, of a scan, its own. *)
Kept(files) == \A p \in Scans(branch) \cup Outcomes(branch) : p \in DOMAIN files /\ files[p] = branch[p]

Own(r) == IF r \in ScanRuns THEN {Destination(r)} ELSE {}

Worktree(r) == Kept(tree[r]) /\ Scans(tree[r]) \subseteq Scans(branch) \cup Own(r)

Worktrees == \A r \in Runs : Mounted(r) => Worktree(r)

Matured(files) ==
    \A p \in Outcomes(files) :
        LET s == p[2]
        IN  /\ s \in Scans(files) /\ Eligible(files[s].kind)
            /\ files[s].kind = files[p].kind
            /\ files[s].scored + p[3] <= files[p].at

AllMatured == Matured(branch) /\ \A r \in Runs : Mounted(r) => Matured(tree[r])

(* What a tracker call has still to do. *)
Due(r) ==
    \A p \in todo[r] :
        /\ p \in Scans(tree[r]) /\ Eligible(tree[r][p].kind)
        /\ tree[r][p].scored + horizon[r] <= at[r]
        /\ OutcomePath(p, horizon[r]) \notin DOMAIN tree[r]

AllDue == \A r \in OutcomeRuns : pc[r] = "track" => Due(r)

IInv == Types /\ Alone /\ OnHead /\ AttemptsOver /\ Worktrees /\ AllMatured /\ AllDue

-----------------------------------------------------------------------------
LEMMA InitIInv == Init => IInv
<1> SUFFICES ASSUME Init PROVE IInv
  OBVIOUS
<1>1. Types
  BY DEF Init, Types, Stages, Runs
<1>2. Running = {} /\ \A r \in Runs : pc[r] = "off" /\ ~Mounted(r)
  BY DEF Init, Running, Mounted
<1>3. DOMAIN branch = {}
  BY DEF Init
<1>4. Scans(branch) = {} /\ Outcomes(branch) = {}
  BY <1>3 DEF Scans, Outcomes
<1> QED
  BY <1>1, <1>2, <1>4 DEF IInv, Alone, OnHead, AttemptsOver, Worktrees, AllMatured, Matured, AllDue, Runs

(* A job that has no worktree and gets none. *)
LEMMA Unmounted ==
    ASSUME IInv, Types', Alone', AttemptsOver',
           UNCHANGED <<branch, version, base, tree, attempt, horizon, todo, at>>,
           \A r \in Runs : Mounted(r)' => Mounted(r) /\ pc'[r] = pc[r]
    PROVE  IInv'
<1>1. OnHead'
  BY DEF IInv, OnHead
<1>2. Worktrees'
  BY DEF IInv, Worktrees, Worktree, Kept, Own, Destination
<1>3. AllMatured'
  BY DEF IInv, AllMatured, Matured
<1>4. AllDue'
  <2> SUFFICES ASSUME NEW r \in OutcomeRuns, pc'[r] = "track" PROVE pc[r] = "track"
    BY DEF IInv, AllDue, Due
  <2> QED
    BY DEF Mounted, Runs
<1> QED
  BY <1>1, <1>2, <1>3, <1>4 DEF IInv

LEMMA TriggerIInv ==
    ASSUME IInv, NEW r \in Runs, Trigger(r)
    PROVE  IInv'
<1>1. /\ pc \in [Runs -> Stages] /\ attempt \in [Runs -> Nat]
      /\ pc[r] \in {"off", "done"}
      /\ pc' = [q \in Runs |-> IF q = r THEN "pending" ELSE IF pc[q] = "pending" THEN "done" ELSE pc[q]]
      /\ attempt' = [attempt EXCEPT ![r] = @ + 1]
      /\ UNCHANGED <<branch, version, base, tree, horizon, todo, at>>
  BY DEF IInv, Types, Trigger
<1>2. Types'
  BY <1>1 DEF IInv, Types, Stages, Runs
<1>3. Alone'
  BY <1>1 DEF IInv, Alone, Running
<1>4. AttemptsOver'
  <2> SUFFICES ASSUME NEW p \in Scans(branch)
               PROVE  \E q \in ScanRuns : \E a \in 0..attempt'[q] :
                        p = ScanPath(q, a) /\ (Owes(q)' => a < attempt'[q])
    BY <1>1 DEF AttemptsOver, Scans
  <2>1. PICK q \in ScanRuns : \E a \in 0..attempt[q] : p = ScanPath(q, a) /\ (Owes(q) => a < attempt[q])
    BY DEF IInv, AttemptsOver
  <2>2. PICK a \in 0..attempt[q] : p = ScanPath(q, a) /\ (Owes(q) => a < attempt[q])
    BY <2>1
  <2>3. q \in Runs /\ attempt[q] \in Nat
    BY <1>1 DEF Runs
  <2>4. CASE q = r
    BY <1>1, <2>2, <2>3, <2>4
  <2>5. CASE q # r
    BY <1>1, <2>2, <2>3, <2>5 DEF Owes
  <2> QED
    BY <2>4, <2>5
<1>5. OnHead' /\ AllDue'
  BY <1>1 DEF IInv, OnHead, AllDue, Due, Mounted, Runs
<1>6. Worktrees'
  <2> SUFFICES ASSUME NEW q \in Runs, Mounted(q)'
               PROVE  Kept(tree[q]) /\ Scans(tree[q]) \subseteq Scans(branch) \cup Own(q)'
    BY <1>1 DEF Worktrees, Worktree, Kept, Scans, Outcomes
  <2>1. Mounted(q) /\ q # r
    BY <1>1 DEF Mounted
  <2>2. Own(q)' = Own(q)
    BY <1>1, <2>1 DEF Own, Destination
  <2> QED
    BY <2>1, <2>2 DEF IInv, Worktrees, Worktree
<1>7. AllMatured'
  BY <1>1 DEF IInv, AllMatured, Matured, Mounted, Scans, Outcomes
<1> QED
  BY <1>2, <1>3, <1>4, <1>5, <1>6, <1>7 DEF IInv

LEMMA StartIInv ==
    ASSUME IInv, NEW r \in Runs, Start(r)
    PROVE  IInv'
<1>1. /\ pc \in [Runs -> Stages] /\ pc[r] = "pending" /\ Running = {}
      /\ pc' = [pc EXCEPT ![r] = IF r \in ScanRuns THEN "scan" ELSE "mount"]
      /\ UNCHANGED <<branch, version, base, tree, attempt, horizon, todo, at>>
  BY DEF IInv, Types, Start, MayStart
<1>2. Types'
  BY <1>1 DEF IInv, Types, Stages, Runs
<1>3. Alone'
  BY <1>1 DEF Alone, Running
<1>4. AttemptsOver'
  BY <1>1 DEF IInv, AttemptsOver, Owes, Runs
<1>5. \A q \in Runs : Mounted(q)' => Mounted(q) /\ pc'[q] = pc[q]
  BY <1>1 DEF Mounted
<1> QED
  BY <1>1, <1>2, <1>3, <1>4, <1>5, Unmounted

(* While a job works, it is the only one. *)
LEMMA OnlyOne ==
    ASSUME IInv, NEW r \in Running, NEW q \in Runs, q # r
    PROVE  q \notin Running /\ ~Mounted(q)
  BY DEF IInv, Alone, Running, Mounted

(* A step of the job that works, other than its last. *)
LEMMA Working ==
    ASSUME IInv, Types', NEW r \in Running, pc'[r] \in {"mount", "rows", "track", "board", "push"},
           \A q \in Runs : q # r => pc'[q] = pc[q],
           UNCHANGED <<branch, version, attempt>>,
           r \in ScanRuns => Owes(r),
           Mounted(r)' => base'[r] = version /\ Worktree(r)' /\ Matured(tree[r])',
           pc'[r] = "track" => Due(r)'
    PROVE  IInv'
<1>1. \A q \in Runs : q # r => q \notin Running /\ ~Mounted(q) /\ ~Mounted(q)' /\ q \notin Running'
  BY OnlyOne DEF Mounted, Running
<1>2. Alone'
  BY <1>1 DEF Alone, Running
<1>3. OnHead' /\ Worktrees'
  BY <1>1 DEF OnHead, Worktrees
<1>4. Matured(branch)'
  BY DEF IInv, AllMatured, Matured
<1>5. AllMatured'
  BY <1>1, <1>4 DEF AllMatured
<1>6. AllDue'
  BY <1>1 DEF AllDue, Runs, Mounted
<1>7. AttemptsOver'
  BY DEF IInv, AttemptsOver, Owes, Runs
<1> QED
  BY <1>2, <1>3, <1>5, <1>6, <1>7 DEF IInv

LEMMA ScanIInv ==
    ASSUME IInv, NEW r \in ScanRuns, Scan(r)
    PROVE  IInv'
<1>1. /\ pc \in [Runs -> Stages] /\ r \in Runs /\ pc[r] = "scan"
      /\ pc' = [pc EXCEPT ![r] = "mount"]
      /\ UNCHANGED <<branch, version, attempt, base, tree, horizon, todo, at>>
  BY DEF IInv, Types, Scan, Runs
<1>2. Types'
  BY <1>1 DEF IInv, Types, Stages, Runs
<1>3. r \in Running /\ Owes(r) /\ ~Mounted(r)'
  BY <1>1 DEF Running, Owes, Mounted
<1> QED
  BY <1>1, <1>2, <1>3, Working

(* The path of a scan is new: the attempts on the branch are over. *)
LEMMA NewScan ==
    ASSUME IInv, NEW r \in ScanRuns, Owes(r)
    PROVE  Destination(r) \notin DOMAIN branch
<1> SUFFICES ASSUME Destination(r) \in DOMAIN branch PROVE FALSE
  OBVIOUS
<1>1. Destination(r) \in Scans(branch)
  BY DEF Scans, Destination, ScanPath
<1>2. PICK q \in ScanRuns : \E a \in 0..attempt[q] : Destination(r) = ScanPath(q, a) /\ (Owes(q) => a < attempt[q])
  BY <1>1 DEF IInv, AttemptsOver
<1>3. PICK a \in 0..attempt[q] : Destination(r) = ScanPath(q, a) /\ (Owes(q) => a < attempt[q])
  BY <1>2
<1>4. q = r /\ a = attempt[r]
  BY <1>3 DEF Destination, ScanPath
<1>5. attempt[r] \in Nat
  BY DEF IInv, Types, Runs
<1> QED
  BY <1>3, <1>4, <1>5

(* A path that is no evidence changes none. *)
LEMMA MaturedWrite ==
    ASSUME NEW files, Matured(files), NEW p, NEW c, p \notin Scans(files), p[1] # "outcome"
    PROVE  Matured(Write(files, p, c))
<1> DEFINE new == Write(files, p, c)
<1>1. /\ DOMAIN new = DOMAIN files \cup {p}
      /\ \A q \in DOMAIN files : q # p => new[q] = files[q]
  BY DEF Write
<1> HIDE DEF new
<1>2. Outcomes(new) \subseteq Outcomes(files) /\ p \notin Outcomes(new)
  BY <1>1 DEF Outcomes
<1>3. \A q \in Outcomes(new) : new[q] = files[q]
  BY <1>1, <1>2 DEF Outcomes
<1>4. \A s \in Scans(files) : s \in Scans(new) /\ new[s] = files[s]
  BY <1>1 DEF Scans
<1>5. Matured(new)
  BY <1>2, <1>3, <1>4 DEF Matured
<1> QED
  BY <1>5 DEF new

LEMMA KeptWrite ==
    ASSUME NEW files, Kept(files), NEW p, NEW c, p \notin Scans(branch) \cup Outcomes(branch)
    PROVE  Kept(Write(files, p, c))
<1> DEFINE new == Write(files, p, c)
<1>1. /\ DOMAIN new = DOMAIN files \cup {p}
      /\ \A q \in DOMAIN files : q # p => new[q] = files[q]
  BY DEF Write
<1> HIDE DEF new
<1>2. Kept(new)
  BY <1>1 DEF Kept
<1> QED
  BY <1>2 DEF new

LEMMA MountIInv ==
    ASSUME IInv, NEW r \in Runs, Mount(r)
    PROVE  IInv'
<1>1. /\ pc \in [Runs -> Stages] /\ pc[r] = "mount"
      /\ base' = [base EXCEPT ![r] = version]
      /\ UNCHANGED <<branch, version, attempt, todo, at>>
  BY DEF IInv, Types, Mount
<1>2. r \in Running /\ (r \in ScanRuns => Owes(r))
  BY <1>1 DEF Running, Owes
<1>3. Kept(branch) /\ Matured(branch)
  BY DEF IInv, AllMatured, Kept, Scans, Outcomes
<1>4. CASE r \in ScanRuns
  <2>1. /\ tree' = [tree EXCEPT ![r] = Write(branch, Destination(r), row[r])]
        /\ pc' = [pc EXCEPT ![r] = "push"] /\ horizon' = horizon
    BY <1>4 DEF Mount
  <2>2. Types'
    BY <1>1, <2>1 DEF IInv, Types, Stages, Runs
  <2> DEFINE new == Write(branch, Destination(r), row[r])
  <2>3. Destination(r) \notin DOMAIN branch
    BY <1>2, <1>4, NewScan
  <2>4. Destination(r)[1] # "outcome"
    BY DEF Destination, ScanPath
  <2>5. Kept(new) /\ Matured(new)
    BY <1>3, <2>3, <2>4, KeptWrite, MaturedWrite DEF Scans, Outcomes
  <2>6. Scans(new) \subseteq Scans(branch) \cup Own(r)
    BY <1>4 DEF Write, Scans, Own
  <2> HIDE DEF new
  <2>7. tree'[r] = new /\ base'[r] = version
    BY <1>1, <2>1 DEF IInv, Types, new
  <2>8. Worktree(r)' /\ Matured(tree[r])'
    BY <1>1, <2>5, <2>6, <2>7 DEF Worktree, Kept, Matured, Own, Destination
  <2> QED
    BY <1>1, <1>2, <2>1, <2>2, <2>7, <2>8, Working
<1>5. CASE r \notin ScanRuns
  <2>1. /\ tree' = [tree EXCEPT ![r] = branch]
        /\ pc' = [pc EXCEPT ![r] = "rows"] /\ horizon' = [horizon EXCEPT ![r] = Longest]
    BY <1>5 DEF Mount
  <2>2. Types'
    BY <1>1, <1>5, <2>1 DEF IInv, Types, Stages, Runs
  <2>3. tree'[r] = branch /\ base'[r] = version
    BY <1>1, <2>1 DEF IInv, Types
  <2>4. Worktree(r)' /\ Matured(tree[r])'
    BY <1>1, <1>3, <2>3 DEF Worktree, Kept, Matured
  <2> QED
    BY <1>1, <1>2, <1>5, <2>1, <2>2, <2>3, <2>4, Working
<1> QED
  BY <1>4, <1>5

(* A step of a mounted outcome job that leaves the worktree alone. *)
LEMMA Untouched ==
    ASSUME IInv, Types', NEW r \in OutcomeRuns, Mounted(r), pc'[r] \in {"rows", "track", "board", "push"},
           \A q \in Runs : q # r => pc'[q] = pc[q],
           UNCHANGED <<branch, version, attempt, base, tree>>,
           pc'[r] = "track" => Due(r)'
    PROVE  IInv'
<1>1. r \in Running /\ r \notin ScanRuns
  BY LedgerAssumption DEF Mounted, Running, Runs
<1>2. base'[r] = version
  BY <1>1 DEF IInv, OnHead, Running
<1>3. Worktree(r)' /\ Matured(tree[r])'
  BY <1>1 DEF IInv, Worktrees, Worktree, AllMatured, Kept, Matured, Own, Destination, Running
<1> QED
  BY <1>1, <1>2, <1>3, Working

LEMMA ScanRowsIInv ==
    ASSUME IInv, NEW r \in OutcomeRuns, ScanRows(r)
    PROVE  IInv'
<1>1. /\ pc \in [Runs -> Stages] /\ r \in Runs /\ pc[r] = "rows" /\ pc' = [pc EXCEPT ![r] = "track"]
      /\ at' = [at EXCEPT ![r] = clock]
      /\ UNCHANGED <<branch, version, attempt, base, tree, horizon>>
  BY DEF IInv, Types, ScanRows, Runs
<1>2. PICK some \in SUBSET Pending(tree[r], horizon[r], clock) : todo' = [todo EXCEPT ![r] = some]
  BY DEF ScanRows
<1>3. Types'
  BY <1>1, <1>2, LedgerAssumption DEF IInv, Types, Stages, Runs
<1>4. todo'[r] \subseteq Pending(tree[r], horizon[r], clock) /\ at'[r] = clock
  BY <1>1, <1>2 DEF IInv, Types
<1>5. Due(r)'
  BY <1>1, <1>4 DEF Due, Pending
<1> QED
  BY <1>1, <1>3, <1>5, Untouched DEF Mounted

LEMMA NextHorizonIInv ==
    ASSUME IInv, NEW r \in OutcomeRuns, NextHorizon(r)
    PROVE  IInv'
<1>1. /\ pc \in [Runs -> Stages] /\ r \in Runs /\ pc[r] = "track"
      /\ UNCHANGED <<branch, version, attempt, base, tree, todo, at>>
  BY DEF IInv, Types, NextHorizon, Runs
<1>2. /\ \E s \in {"board", "rows"} : pc' = [pc EXCEPT ![r] = s]
      /\ DOMAIN horizon' = OutcomeRuns
  BY DEF NextHorizon, IInv, Types
<1>3. Types'
  BY <1>1, <1>2, LedgerAssumption DEF IInv, Types, Stages, Runs
<1> QED
  BY <1>1, <1>2, <1>3, Untouched DEF Mounted

LEMMA TrackIInv ==
    ASSUME IInv, NEW r \in OutcomeRuns, NEW p \in todo[r], Track(r, p)
    PROVE  IInv'
<1> DEFINE path == OutcomePath(p, horizon[r])
           files == tree[r]
<1>1. /\ pc[r] = "track" /\ r \in Runs /\ r \notin ScanRuns /\ Mounted(r) /\ r \in Running
      /\ todo' = [todo EXCEPT ![r] = @ \ {p}]
      /\ UNCHANGED <<branch, version, attempt, base, pc, horizon, at>>
  BY LedgerAssumption DEF Track, Runs, Mounted, Running
<1>2. PICK c : /\ tree' = [tree EXCEPT ![r] = Write(files, path, c)]
               /\ c.kind = files[p].kind /\ c.at = at[r]
  <2>1. PICK status, hit : tree' = [tree EXCEPT ![r] = Write(@, path,
               [status |-> status, hit |-> hit, kind |-> tree[r][p].kind, at |-> at[r]])]
    BY DEF Track
  <2> DEFINE c == [status |-> status, hit |-> hit, kind |-> files[p].kind, at |-> at[r]]
  <2>2. c.kind = files[p].kind /\ c.at = at[r]
    OBVIOUS
  <2>3. tree' = [tree EXCEPT ![r] = Write(files, path, c)]
    BY <2>1
  <2> QED
    BY <2>2, <2>3
<1> DEFINE new == Write(files, path, c)
<1>3. Types'
  BY <1>1, <1>2 DEF IInv, Types
<1>4. tree'[r] = new /\ todo'[r] = todo[r] \ {p}
  BY <1>1, <1>2 DEF IInv, Types
<1>5. /\ DOMAIN new = DOMAIN files \cup {path} /\ new[path] = c
      /\ \A q \in DOMAIN files : q # path => new[q] = files[q]
  BY DEF Write
<1>6. Due(r) /\ Worktree(r) /\ Matured(files) /\ base[r] = version
  BY <1>1 DEF IInv, AllDue, Worktrees, AllMatured, OnHead
<1>7. /\ path \notin DOMAIN files
      /\ p \in Scans(files) /\ Eligible(files[p].kind) /\ files[p].scored + horizon[r] <= at[r]
  BY <1>6 DEF Due
<1>8. path[1] = "outcome" /\ path[2] = p /\ path[3] = horizon[r]
  BY DEF OutcomePath
<1> HIDE DEF new, path
<1>9. /\ Scans(new) = Scans(files)
      /\ \A s \in Scans(files) : new[s] = files[s]
  BY <1>5, <1>7, <1>8 DEF Scans
<1>10. Matured(new)
  <2> SUFFICES ASSUME NEW o \in Outcomes(new)
               PROVE  /\ o[2] \in Scans(new) /\ Eligible(new[o[2]].kind)
                      /\ new[o[2]].kind = new[o].kind
                      /\ new[o[2]].scored + o[3] <= new[o].at
    BY DEF Matured
  <2>1. CASE o = path
    BY <1>2, <1>5, <1>7, <1>8, <1>9, <2>1
  <2>2. CASE o # path
    <3>1. o \in Outcomes(files) /\ new[o] = files[o]
      BY <1>5, <2>2 DEF Outcomes
    <3> QED
      BY <1>6, <1>9, <3>1 DEF Matured
  <2> QED
    BY <2>1, <2>2
<1>11. Worktree(r)'
  <2>1. Kept(new)
    BY <1>5, <1>6, <1>7 DEF Worktree, Kept
  <2> QED
    BY <1>1, <1>4, <1>6, <1>9, <2>1 DEF Worktree, Kept, Own, Destination
<1>12. Due(r)'
  <2> SUFFICES ASSUME NEW q \in todo[r], q # p
               PROVE  /\ q \in Scans(new) /\ Eligible(new[q].kind)
                      /\ new[q].scored + horizon[r] <= at[r]
                      /\ OutcomePath(q, horizon[r]) \notin DOMAIN new
    BY <1>1, <1>4 DEF Due
  <2>1. OutcomePath(q, horizon[r]) # path
    BY DEF OutcomePath, path
  <2> QED
    BY <1>5, <1>6, <1>9, <2>1 DEF Due
<1>13. Matured(tree[r])'
  BY <1>4, <1>10 DEF Matured
<1> QED
  BY <1>1, <1>3, <1>6, <1>11, <1>12, <1>13, Working

LEMMA SnapshotIInv ==
    ASSUME IInv, NEW r \in OutcomeRuns, Snapshot(r)
    PROVE  IInv'
<1> DEFINE path == BoardPath(r)
           files == tree[r]
<1>1. /\ pc \in [Runs -> Stages] /\ pc[r] = "board" /\ r \in Runs /\ r \notin ScanRuns /\ Mounted(r) /\ r \in Running
      /\ pc' = [pc EXCEPT ![r] = "push"]
      /\ UNCHANGED <<branch, version, attempt, base, horizon, todo, at>>
  BY LedgerAssumption DEF IInv, Types, Snapshot, Runs, Mounted, Running
<1>2. PICK c : tree' = [tree EXCEPT ![r] = Write(files, path, c)]
  BY DEF Snapshot
<1> DEFINE new == Write(files, path, c)
<1>3. Types'
  BY <1>1, <1>2 DEF IInv, Types, Stages
<1>4. Worktree(r) /\ Matured(files) /\ base[r] = version
  BY <1>1 DEF IInv, Worktrees, AllMatured, OnHead
<1>5. path[1] = "board"
  BY DEF BoardPath
<1>6. Kept(new) /\ Matured(new)
  BY <1>4, <1>5, KeptWrite, MaturedWrite DEF Worktree, Scans, Outcomes
<1>7. Scans(new) \subseteq Scans(files)
  BY <1>5 DEF Write, Scans
<1>8. tree'[r] = new
  BY <1>1, <1>2 DEF IInv, Types
<1> HIDE DEF new, path
<1>9. Worktree(r)' /\ Matured(tree[r])'
  BY <1>1, <1>4, <1>6, <1>7, <1>8 DEF Worktree, Kept, Own, Destination, Matured
<1> QED
  BY <1>1, <1>3, <1>4, <1>9, Working

(* After the last step of a job nobody has a worktree. *)
LEMMA Finished ==
    ASSUME IInv, NEW r \in Running, Finish(r), version' \in Nat, UNCHANGED attempt
    PROVE  /\ Types' /\ Alone' /\ OnHead' /\ Worktrees' /\ AllDue'
           /\ \A q \in Runs : ~Mounted(q)'
           /\ ~Owes(r)' /\ \A q \in Runs : q # r => pc'[q] = pc[q]
<1>1. /\ pc \in [Runs -> Stages] /\ r \in Runs /\ pc' = [pc EXCEPT ![r] = "done"]
      /\ base' = [base EXCEPT ![r] = 0] /\ tree' = [tree EXCEPT ![r] = <<>>]
  BY DEF IInv, Types, Finish, Running
<1>2. /\ DOMAIN horizon' = OutcomeRuns /\ DOMAIN todo' = OutcomeRuns /\ DOMAIN at' = OutcomeRuns
  BY DEF IInv, Types, Finish
<1>3. Types'
  BY <1>1, <1>2 DEF IInv, Types, Stages, Runs
<1>4. \A q \in Runs : ~Mounted(q)' /\ q \notin Running'
  BY <1>1, OnlyOne DEF Mounted, Running
<1>5. ~Owes(r)' /\ \A q \in Runs : q # r => pc'[q] = pc[q]
  BY <1>1 DEF Owes
<1>6. Running' = {}
  BY <1>4 DEF Running
<1> QED
  BY <1>3, <1>4, <1>5, <1>6 DEF Alone, OnHead, Worktrees, AllDue, Mounted, Runs

LEMMA KillIInv ==
    ASSUME IInv, NEW r \in Runs, Kill(r)
    PROVE  IInv'
<1>1. r \in Running /\ Finish(r) /\ UNCHANGED <<branch, version, attempt>>
  BY DEF Kill
<1>2. version' \in Nat
  BY <1>1 DEF IInv, Types
<1>3. AttemptsOver'
  BY <1>1, <1>2, Finished DEF IInv, AttemptsOver, Owes, Runs
<1>4. AllMatured'
  BY <1>1, <1>2, Finished DEF IInv, AllMatured, Matured
<1> QED
  BY <1>1, <1>2, <1>3, <1>4, Finished DEF IInv

LEMMA PushIInv ==
    ASSUME IInv, NEW r \in Runs, Push(r)
    PROVE  /\ IInv'
           /\ branch' = branch \/ (branch' = tree[r] /\ Kept(tree[r]))
<1>1. /\ pc[r] = "push" /\ r \in Running /\ Mounted(r) /\ Finish(r) /\ UNCHANGED attempt
  BY DEF Push, Running, Mounted
<1>2. base[r] = version /\ Worktree(r) /\ Matured(tree[r])
  BY <1>1 DEF IInv, OnHead, Worktrees, AllMatured
<1>3. (branch' = tree[r] /\ version' = version + 1) \/ UNCHANGED <<branch, version>>
  BY <1>2 DEF Push
<1>4. version' \in Nat
  BY <1>3 DEF IInv, Types
<1>5. ASSUME branch' = tree[r] PROVE AttemptsOver'
  <2> SUFFICES ASSUME NEW p \in Scans(tree[r])
               PROVE  \E q \in ScanRuns : \E a \in 0..attempt[q] :
                        p = ScanPath(q, a) /\ (Owes(q)' => a < attempt[q])
    BY <1>1, <1>5 DEF AttemptsOver, Scans
  <2>1. CASE p \in Scans(branch)
    <3>1. PICK q \in ScanRuns : \E a \in 0..attempt[q] : p = ScanPath(q, a) /\ (Owes(q) => a < attempt[q])
      BY <2>1 DEF IInv, AttemptsOver
    <3>2. Owes(q)' => Owes(q)
      BY <1>1, <1>4, Finished DEF Owes, Runs
    <3> QED
      BY <3>1, <3>2
  <2>2. CASE p \in Own(r)
    <3>1. r \in ScanRuns /\ p = ScanPath(r, attempt[r]) /\ attempt[r] \in Nat
      BY <2>2 DEF Own, Destination, IInv, Types
    <3>2. ~Owes(r)'
      BY <1>1, <1>4, Finished
    <3> QED
      BY <3>1, <3>2
  <2> QED
    BY <1>2, <2>1, <2>2 DEF Worktree
<1>6. ASSUME branch' = branch PROVE AttemptsOver'
  BY <1>1, <1>4, <1>6, Finished DEF IInv, AttemptsOver, Owes, Runs
<1>7. AllMatured'
  <2>1. Matured(branch)'
    BY <1>2, <1>3 DEF IInv, AllMatured, Matured, Scans, Outcomes
  <2> QED
    BY <1>1, <1>4, <2>1, Finished DEF AllMatured
<1>8. IInv'
  BY <1>1, <1>3, <1>4, <1>5, <1>6, <1>7, Finished DEF IInv
<1> QED
  BY <1>2, <1>3, <1>8 DEF Worktree

(* Nothing but a push changes the branch. *)
LEMMA NextIInv ==
    ASSUME IInv, [Next]_vars
    PROVE  IInv' /\ (branch' = branch \/ Kept(branch'))
<1>1. CASE Tick \/ UNCHANGED vars
  <2>1. UNCHANGED <<branch, version, pc, attempt, base, tree, horizon, todo, at>>
    BY <1>1 DEF Tick, vars, jobVars
  <2>2. Types' /\ Alone' /\ AttemptsOver'
    BY <2>1 DEF IInv, Types, Alone, Running, AttemptsOver, Owes
  <2>3. \A r \in Runs : Mounted(r)' => Mounted(r) /\ pc'[r] = pc[r]
    BY <2>1 DEF Mounted
  <2> QED
    BY <2>1, <2>2, <2>3, Unmounted
<1>2. CASE \E r \in Runs : Trigger(r)
  BY <1>2, TriggerIInv DEF Trigger
<1>3. CASE \E r \in Runs : Start(r)
  BY <1>3, StartIInv DEF Start
<1>4. CASE \E r \in Runs : Kill(r)
  BY <1>4, KillIInv DEF Kill
<1>5. CASE \E r \in Runs : Mount(r)
  BY <1>5, MountIInv DEF Mount
<1>6. CASE \E r \in Runs : Push(r)
  BY <1>6, PushIInv
<1>7. CASE \E r \in ScanRuns : Scan(r)
  BY <1>7, ScanIInv DEF Scan
<1>8. CASE \E r \in OutcomeRuns : ScanRows(r)
  BY <1>8, ScanRowsIInv DEF ScanRows
<1>9. CASE \E r \in OutcomeRuns : NextHorizon(r)
  BY <1>9, NextHorizonIInv DEF NextHorizon
<1>10. CASE \E r \in OutcomeRuns : Snapshot(r)
  BY <1>10, SnapshotIInv DEF Snapshot
<1>11. CASE \E r \in OutcomeRuns : \E p \in todo[r] : Track(r, p)
  BY <1>11, TrackIInv DEF Track
<1> QED
  BY <1>1, <1>2, <1>3, <1>4, <1>5, <1>6, <1>7, <1>8, <1>9, <1>10, <1>11 DEF Next

LEMMA IInvAlways == Spec => []IInv
<1>1. IInv /\ [Next]_vars => IInv'
  BY NextIInv
<1> QED
  BY InitIInv, <1>1, PTL DEF Spec

-----------------------------------------------------------------------------
(* No push is refused: the concurrency group keeps the branch where the    *)
(* job that pushes found it.                                               *)
THEOREM LedgerPushOnHead == Spec => []PushOnHead
<1>1. IInv => PushOnHead
  BY DEF IInv, OnHead, Mounted, PushOnHead
<1> QED
  BY <1>1, IInvAlways, PTL

(* Every outcome on the branch belongs to an eligible row of the branch    *)
(* that had matured when the tracker looked at it.                         *)
THEOREM LedgerOutcomes == Spec => []OutcomeOfMaturedRow
<1>1. IInv => OutcomeOfMaturedRow
  BY DEF IInv, AllMatured, Matured, OutcomeOfMaturedRow
<1> QED
  BY <1>1, IInvAlways, PTL

(* The ledger implements the append-only log: whatever jobs die, are       *)
(* cancelled or run again, pushed scans and outcomes stay as they are.     *)
THEOREM LedgerAppendOnly == Spec => EvidenceAppendOnly
<1>1. Init => Log!Init
  <2> SUFFICES ASSUME Init PROVE Evidence = <<>>
    BY DEF Log!Init
  <2>1. Scans(branch) \cup Outcomes(branch) = {}
    BY DEF Init, Scans, Outcomes
  <2> QED
    BY <2>1 DEF Evidence
<1>2. IInv /\ [Next]_vars => [Log!Grow]_Evidence
  <2> SUFFICES ASSUME IInv, [Next]_vars PROVE [Log!Grow]_Evidence
    OBVIOUS
  <2>1. CASE branch' = branch
    BY <2>1 DEF Evidence, Scans, Outcomes
  <2>2. CASE Kept(branch')
    <3>1. \A p \in Scans(branch) \cup Outcomes(branch) :
             /\ p \in Scans(branch') \cup Outcomes(branch')
             /\ branch'[p] = branch[p]
      BY <2>2 DEF Kept, Scans, Outcomes
    <3>2. Log!Extends(Evidence, Evidence')
      BY <3>1 DEF Log!Extends, Evidence, Scans, Outcomes
    <3> QED
      BY <3>2 DEF Log!Grow
  <2> QED
    BY <2>1, <2>2, NextIInv
<1> QED
  BY <1>1, <1>2, IInvAlways, PTL DEF Spec, EvidenceAppendOnly, Log!Spec

-----------------------------------------------------------------------------
(* The snapshots.  A snapshot is backed by the evidence it was made from,  *)
(* and evidence only grows: counts are cardinalities of growing sets.      *)
FiledIn(files, h, status) ==
    {o \in Outcomes(files) : o[3] = h /\ files[o].status = status}

Backed(board, progress, files) ==
    LET last == board[Longest].groups
    IN  /\ \A h \in Horizons :
             LET g == board[h].groups
             IN  /\ board[h].complete <= Cardinality(FiledIn(files, h, "COMPLETE"))
                 /\ board[h].incomplete <= Cardinality(FiledIn(files, h, "OUTCOME_INCOMPLETE"))
                 /\ g["candidate_gate_veto"].n + g["candidate_gate_retained"].n = g["champion_candidate"].n
                 /\ g["champion_candidate"].n <= progress.valid_candidates
                 /\ g["random_control"].n <= progress.valid_random
        /\ [n |-> progress.candidate_complete, hits |-> progress.candidate_hits] = last["champion_candidate"]
        /\ [n |-> progress.random_complete, hits |-> progress.random_hits] = last["random_control"]

(* The counts of a board are numbers. *)
Counted(board) == \A h \in Horizons : board[h].complete \in Nat /\ board[h].incomplete \in Nat

Shaped(files) ==
    \A p \in Outcomes(files) :
        /\ p = OutcomePath(p[2], p[3])
        /\ files[p].status \in {"COMPLETE", "OUTCOME_INCOMPLETE"}

BackedBoards(files) ==
    \A p \in Boards(files) :
        /\ Counted(files[p].scoreboard)
        /\ Backed(files[p].scoreboard, files[p].progress, files)

Sound(files) == IsFiniteSet(DOMAIN files) /\ Shaped(files) /\ BackedBoards(files)

AllSound == Sound(branch) /\ \A r \in Runs : Mounted(r) => Sound(tree[r])

(* No more complete outcomes of a horizon than rows they are of. *)
LEMMA OneRowEach ==
    ASSUME NEW files, IsFiniteSet(DOMAIN files), Shaped(files), NEW h,
           NEW O, O \subseteq Outcomes(files), \A p \in O : p[3] = h,
           NEW R, R \subseteq DOMAIN files, \A p \in O : p[2] \in R
    PROVE  Cardinality(O) <= Cardinality(R)
<1>1. IsFiniteSet(R)
  BY FS_Subset
<1> DEFINE f == [p \in O |-> p[2]]
<1>2. f \in [O -> R]
  OBVIOUS
<1>3. \A p, q \in O : f[p] = f[q] => p = q
  BY DEF Shaped
<1>4. f \in Injection(O, R)
  BY <1>2, <1>3 DEF Injection, IsInjective
<1> QED
  BY <1>1, <1>4, FS_Injection

LEMMA LongestHorizon == Longest \in Horizons
<1>1. \E h \in Horizons : \A i \in Horizons : i <= h
  BY LedgerAssumption
<1> QED
  BY <1>1 DEF Longest

(* A snapshot is backed by the worktree it is made from. *)
LEMMA SnapshotBacked ==
    ASSUME NEW files, IsFiniteSet(DOMAIN files), Shaped(files), Matured(files)
    PROVE  /\ Counted(Scoreboard(files))
           /\ Backed(Scoreboard(files), Progress(files), files)
<1> DEFINE done(h) == {p \in Complete(files) : p[3] = h}
           of(h, g) == {p \in done(h) : g \in groups(files[p].kind)}
           board == Scoreboard(files)
           progress == Progress(files)
           valid == {p \in Scans(files) : files[p].kind.status = "VALID"}
<1>1. Outcomes(files) \subseteq DOMAIN files /\ Scans(files) \subseteq DOMAIN files
  BY DEF Outcomes, Scans
<1>2. Complete(files) \subseteq Outcomes(files) /\ \A p \in Complete(files) : files[p].status = "COMPLETE"
  BY DEF Complete
<1>3. ASSUME NEW h \in Horizons
      PROVE  /\ board[h].complete = Cardinality(done(h))
             /\ board[h].incomplete = Cardinality({p \in Outcomes(files) : p[3] = h} \ done(h))
             /\ \A g \in Groups : board[h].groups[g] = [n |-> Cardinality(of(h, g)), hits |-> Hits(files, of(h, g))]
  BY DEF Scoreboard
<1>4. /\ progress.valid_candidates = Cardinality({p \in valid : Candidate(files[p].kind)})
      /\ progress.valid_random = Cardinality({p \in valid : files[p].kind.control})
  BY DEF Progress
<1>5. ASSUME NEW p \in Outcomes(files)
      PROVE  /\ p[2] \in valid
             /\ Candidate(files[p].kind) => Candidate(files[p[2]].kind)
             /\ files[p].kind.control => files[p[2]].kind.control
  BY DEF Matured, Eligible
<1>6. ASSUME NEW h \in Horizons, NEW g \in Groups
      PROVE  /\ of(h, g) \subseteq Outcomes(files) /\ IsFiniteSet(of(h, g))
             /\ \A p \in of(h, g) : p[3] = h /\ g \in groups(files[p].kind)
  <2>1. of(h, g) \subseteq DOMAIN files
    BY <1>1, <1>2
  <2> QED
    BY <2>1, <1>2, FS_Subset
<1>7. ASSUME NEW p
      PROVE  /\ "champion_candidate" \in groups(files[p].kind) <=> Candidate(files[p].kind)
             /\ "random_control" \in groups(files[p].kind) <=> files[p].kind.control
             /\ "candidate_gate_veto" \in groups(files[p].kind) <=> Candidate(files[p].kind) /\ files[p].kind.veto
             /\ "candidate_gate_retained" \in groups(files[p].kind) <=> Candidate(files[p].kind) /\ ~files[p].kind.veto
  BY DEF groups, Groups
<1>8. {"champion_candidate", "random_control", "candidate_gate_veto", "candidate_gate_retained"} \subseteq Groups
  BY DEF Groups
<1>9. ASSUME NEW h \in Horizons
      PROVE  /\ Cardinality(of(h, "champion_candidate")) <= progress.valid_candidates
             /\ Cardinality(of(h, "random_control")) <= progress.valid_random
  <2>1. \A p \in of(h, "champion_candidate") : p[2] \in {q \in valid : Candidate(files[q].kind)}
    BY <1>5, <1>6, <1>7, <1>8
  <2>2. \A p \in of(h, "random_control") : p[2] \in {q \in valid : files[q].kind.control}
    BY <1>5, <1>6, <1>7, <1>8
  <2>3. {q \in valid : Candidate(files[q].kind)} \subseteq DOMAIN files /\ {q \in valid : files[q].kind.control} \subseteq DOMAIN files
    BY <1>1
  <2>4. \A g \in Groups : of(h, g) \subseteq Outcomes(files) /\ \A p \in of(h, g) : p[3] = h
    BY <1>6
  <2> HIDE DEF of, valid, progress
  <2>5. Cardinality(of(h, "champion_candidate")) <= Cardinality({q \in valid : Candidate(files[q].kind)})
    BY <1>8, <2>1, <2>3, <2>4, OneRowEach
  <2>6. Cardinality(of(h, "random_control")) <= Cardinality({q \in valid : files[q].kind.control})
    BY <1>8, <2>2, <2>3, <2>4, OneRowEach
  <2> QED
    BY <1>4, <2>5, <2>6
<1>10. ASSUME NEW h \in Horizons
       PROVE  Cardinality(of(h, "candidate_gate_veto")) + Cardinality(of(h, "candidate_gate_retained"))
                = Cardinality(of(h, "champion_candidate"))
  <2> DEFINE V == of(h, "candidate_gate_veto")
             K == of(h, "candidate_gate_retained")
  <2>1. V \cup K = of(h, "champion_candidate") /\ V \cap K = {}
    BY <1>2, <1>7 DEF Shaped
  <2>2. IsFiniteSet(V) /\ IsFiniteSet(K)
    BY <1>6, <1>8
  <2> HIDE DEF V, K
  <2>3. Cardinality(V \cup K) = Cardinality(V) + Cardinality(K) - Cardinality(V \cap K)
    BY <2>2, FS_Union
  <2>4. Cardinality(V) \in Nat /\ Cardinality(K) \in Nat /\ Cardinality(V \cap K) = 0
    BY <2>1, <2>2, FS_CardinalityType, FS_EmptySet
  <2>5. Cardinality(V) + Cardinality(K) = Cardinality(V \cup K)
    BY <2>3, <2>4
  <2> QED
    BY <2>1, <2>5 DEF V, K
<1>11. ASSUME NEW h \in Horizons
       PROVE  /\ board[h].complete \in Nat /\ board[h].incomplete \in Nat
              /\ board[h].complete <= Cardinality(FiledIn(files, h, "COMPLETE"))
              /\ board[h].incomplete <= Cardinality(FiledIn(files, h, "OUTCOME_INCOMPLETE"))
  <2> DEFINE rest == {p \in Outcomes(files) : p[3] = h} \ done(h)
  <2>1. done(h) \subseteq FiledIn(files, h, "COMPLETE")
    BY <1>2 DEF FiledIn
  <2>2. rest \subseteq FiledIn(files, h, "OUTCOME_INCOMPLETE")
    BY DEF FiledIn, Complete, Shaped
  <2>3. \A status : FiledIn(files, h, status) \subseteq DOMAIN files
    BY <1>1 DEF FiledIn
  <2>4. \A status : IsFiniteSet(FiledIn(files, h, status))
    BY <2>3, FS_Subset
  <2>5. /\ board[h].complete = Cardinality(done(h)) /\ board[h].incomplete = Cardinality(rest)
    BY <1>3
  <2> HIDE DEF rest, done, board
  <2>6. /\ IsFiniteSet(done(h)) /\ Cardinality(done(h)) <= Cardinality(FiledIn(files, h, "COMPLETE"))
        /\ IsFiniteSet(rest) /\ Cardinality(rest) <= Cardinality(FiledIn(files, h, "OUTCOME_INCOMPLETE"))
    BY <2>1, <2>2, <2>4, FS_Subset
  <2> QED
    BY <2>5, <2>6, FS_CardinalityType
<1>12. /\ [n |-> progress.candidate_complete, hits |-> progress.candidate_hits]
             = board[Longest].groups["champion_candidate"]
       /\ [n |-> progress.random_complete, hits |-> progress.random_hits]
             = board[Longest].groups["random_control"]
  <2> DEFINE outcomes == {p \in Outcomes(files) : p[3] = Longest /\ files[p].status = "COMPLETE"}
             candidates == {p \in outcomes : Candidate(files[p].kind)}
             random == {p \in outcomes : files[p].kind.control}
  <2>1. candidates = of(Longest, "champion_candidate") /\ random = of(Longest, "random_control")
    BY <1>7 DEF Complete
  <2>2. /\ progress.candidate_complete = Cardinality(candidates) /\ progress.candidate_hits = Hits(files, candidates)
        /\ progress.random_complete = Cardinality(random) /\ progress.random_hits = Hits(files, random)
    BY DEF Progress
  <2> HIDE DEF progress, board, of, candidates, random
  <2> QED
    BY <1>3, <1>8, <2>1, <2>2, LongestHorizon
<1> HIDE DEF board, progress, of, done, valid
<1>13. \A h \in Horizons : \A g \in Groups : board[h].groups[g].n = Cardinality(of(h, g))
  <2> SUFFICES ASSUME NEW h \in Horizons, NEW g \in Groups PROVE board[h].groups[g].n = Cardinality(of(h, g))
    OBVIOUS
  <2>1. board[h].groups[g] = [n |-> Cardinality(of(h, g)), hits |-> Hits(files, of(h, g))]
    BY <1>3
  <2> QED
    BY <2>1
<1>14. Counted(board) /\ Backed(board, progress, files)
  BY <1>8, <1>9, <1>10, <1>11, <1>12, <1>13 DEF Counted, Backed
<1> QED
  BY <1>14 DEF board, progress

(* Later evidence leaves a backed snapshot backed. *)
LEMMA BackedGrows ==
    ASSUME NEW files, NEW more, NEW board, NEW progress, IsFiniteSet(DOMAIN more),
           \A p \in Outcomes(files) : p \in Outcomes(more) /\ more[p] = files[p],
           Counted(board), Backed(board, progress, files)
    PROVE  Backed(board, progress, more)
<1>1. ASSUME NEW h, NEW status
      PROVE  /\ Cardinality(FiledIn(more, h, status)) \in Nat
             /\ Cardinality(FiledIn(files, h, status)) \in Nat
             /\ Cardinality(FiledIn(files, h, status)) <= Cardinality(FiledIn(more, h, status))
  <2>1. FiledIn(files, h, status) \subseteq FiledIn(more, h, status) /\ FiledIn(more, h, status) \subseteq DOMAIN more
    BY DEF FiledIn, Outcomes
  <2>2. IsFiniteSet(FiledIn(more, h, status))
    BY <2>1, FS_Subset
  <2>3. IsFiniteSet(FiledIn(files, h, status)) /\ Cardinality(FiledIn(files, h, status)) <= Cardinality(FiledIn(more, h, status))
    BY <2>1, <2>2, FS_Subset
  <2> QED
    BY <2>2, <2>3, FS_CardinalityType
<1>2. ASSUME NEW h \in Horizons
      PROVE  /\ board[h].complete <= Cardinality(FiledIn(more, h, "COMPLETE"))
             /\ board[h].incomplete <= Cardinality(FiledIn(more, h, "OUTCOME_INCOMPLETE"))
  BY <1>1 DEF Backed, Counted
<1> QED
  BY <1>2 DEF Backed

(* Writing a scan, an outcome or a snapshot that is sound keeps the rest. *)
LEMMA SoundWrite ==
    ASSUME NEW files, Sound(files), NEW p, NEW c,
           p[1] = "outcome" =>
               /\ p \notin DOMAIN files /\ p = OutcomePath(p[2], p[3])
               /\ c.status \in {"COMPLETE", "OUTCOME_INCOMPLETE"},
           p[1] = "board" => Counted(c.scoreboard) /\ Backed(c.scoreboard, c.progress, files)
    PROVE  Sound(Write(files, p, c))
<1> DEFINE new == Write(files, p, c)
<1>1. /\ DOMAIN new = DOMAIN files \cup {p} /\ new[p] = c
      /\ \A q \in DOMAIN files : q # p => new[q] = files[q]
  BY DEF Write
<1> HIDE DEF new
<1>2. IsFiniteSet(DOMAIN new)
  BY <1>1, FS_AddElement DEF Sound
<1>3. Shaped(new)
  BY <1>1 DEF Sound, Shaped, Outcomes
<1>4. \A o \in Outcomes(files) : o \in Outcomes(new) /\ new[o] = files[o]
  BY <1>1 DEF Outcomes
<1>5. ASSUME NEW b \in Boards(new)
      PROVE  /\ Counted(new[b].scoreboard)
             /\ Backed(new[b].scoreboard, new[b].progress, files)
  BY <1>1 DEF Sound, BackedBoards, Boards
<1>6. BackedBoards(new)
  BY <1>2, <1>4, <1>5, BackedGrows DEF BackedBoards
<1> QED
  BY <1>2, <1>3, <1>6 DEF Sound, new

(* Only the job that works changes its worktree. *)
LEMMA SoundStep ==
    ASSUME AllSound, branch' = branch,
           \A q \in Runs : Mounted(q)' => Sound(tree'[q]) \/ (Mounted(q) /\ tree'[q] = tree[q])
    PROVE  AllSound'
  BY DEF AllSound

LEMMA SoundMount ==
    ASSUME IInv, AllSound, NEW r \in Runs, Mount(r)
    PROVE  AllSound'
<1>1. branch' = branch /\ pc \in [Runs -> Stages] /\ DOMAIN tree = Runs
  BY DEF Mount, IInv, Types
<1>2. CASE r \in ScanRuns
  <2>1. /\ tree' = [tree EXCEPT ![r] = Write(branch, Destination(r), row[r])]
        /\ pc' = [pc EXCEPT ![r] = "push"]
    BY <1>2 DEF Mount
  <2>2. Destination(r)[1] = "scan"
    BY DEF Destination, ScanPath
  <2>3. Sound(Write(branch, Destination(r), row[r]))
    BY <2>2, SoundWrite DEF AllSound
  <2> QED
    BY <1>1, <2>1, <2>3, SoundStep DEF Mounted
<1>3. CASE r \notin ScanRuns
  <2>1. tree' = [tree EXCEPT ![r] = branch] /\ pc' = [pc EXCEPT ![r] = "rows"]
    BY <1>3 DEF Mount
  <2> QED
    BY <1>1, <2>1, SoundStep DEF Mounted, AllSound
<1> QED
  BY <1>2, <1>3

LEMMA SoundTrack ==
    ASSUME IInv, AllSound, NEW r \in OutcomeRuns, NEW p \in todo[r], Track(r, p)
    PROVE  AllSound'
<1> DEFINE path == OutcomePath(p, horizon[r])
<1>1. /\ branch' = branch /\ pc' = pc /\ pc[r] = "track" /\ r \in Runs /\ DOMAIN tree = Runs
  BY DEF Track, IInv, Types, Runs
<1>2. PICK c : tree' = [tree EXCEPT ![r] = Write(tree[r], path, c)] /\ c.status \in {"COMPLETE", "OUTCOME_INCOMPLETE"}
  <2>1. PICK quoted \in BOOLEAN, feeFloor \in BOOLEAN, mintWhole \in BOOLEAN, migrated \in BOOLEAN,
             poolWhole \in BOOLEAN, tenfold \in BOOLEAN :
          LET status == Status(quoted, feeFloor, mintWhole, migrated, poolWhole)
          IN  tree' = [tree EXCEPT ![r] = Write(@, path,
                [status |-> status, hit |-> status = "COMPLETE" /\ tenfold,
                 kind |-> tree[r][p].kind, at |-> at[r]])]
    BY DEF Track
  <2> DEFINE status == Status(quoted, feeFloor, mintWhole, migrated, poolWhole)
             c == [status |-> status, hit |-> status = "COMPLETE" /\ tenfold,
                   kind |-> tree[r][p].kind, at |-> at[r]]
  <2>2. tree' = [tree EXCEPT ![r] = Write(tree[r], path, c)]
    BY <2>1
  <2>3. c.status \in {"COMPLETE", "OUTCOME_INCOMPLETE"}
    BY DEF Status
  <2> QED
    BY <2>2, <2>3
<1>3. Due(r) /\ Mounted(r)
  BY <1>1 DEF IInv, AllDue, Mounted
<1>4. path \notin DOMAIN tree[r] /\ path[1] = "outcome" /\ path = OutcomePath(path[2], path[3])
  BY <1>3 DEF Due, OutcomePath
<1>5. Sound(tree[r])
  BY <1>1, <1>3 DEF AllSound
<1> HIDE DEF path
<1>6. Sound(Write(tree[r], path, c))
  BY <1>2, <1>4, <1>5, SoundWrite
<1>7. tree'[r] = Write(tree[r], path, c) /\ \A q \in Runs : q # r => tree'[q] = tree[q]
  BY <1>1, <1>2
<1> QED
  BY <1>1, <1>6, <1>7, SoundStep DEF Mounted

LEMMA SoundSnapshot ==
    ASSUME IInv, AllSound, NEW r \in OutcomeRuns, Snapshot(r)
    PROVE  AllSound'
<1> DEFINE path == BoardPath(r)
           c == [scoreboard |-> Scoreboard(tree[r]), progress |-> Progress(tree[r])]
<1>1. /\ branch' = branch /\ pc' = [pc EXCEPT ![r] = "push"] /\ pc[r] = "board" /\ r \in Runs
      /\ DOMAIN tree = Runs /\ tree' = [tree EXCEPT ![r] = Write(tree[r], path, c)]
      /\ pc \in [Runs -> Stages]
  BY DEF Snapshot, IInv, Types, Runs
<1>2. Mounted(r) /\ Sound(tree[r]) /\ Matured(tree[r])
  BY <1>1 DEF IInv, AllMatured, AllSound, Mounted
<1>3. path[1] = "board"
  BY DEF BoardPath
<1>4. Counted(c.scoreboard) /\ Backed(c.scoreboard, c.progress, tree[r])
  BY <1>2, SnapshotBacked DEF Sound
<1> HIDE DEF path, c
<1>5. Sound(Write(tree[r], path, c))
  BY <1>2, <1>3, <1>4, SoundWrite
<1>6. tree'[r] = Write(tree[r], path, c) /\ \A q \in Runs : q # r => tree'[q] = tree[q] /\ pc'[q] = pc[q]
  BY <1>1
<1> QED
  BY <1>1, <1>5, <1>6, SoundStep DEF Mounted

LEMMA SoundNext ==
    ASSUME IInv, AllSound, [Next]_vars
    PROVE  AllSound'
<1>1. CASE Tick \/ UNCHANGED vars
  BY <1>1, SoundStep DEF Tick, vars, jobVars, Mounted
<1>2. ASSUME NEW r \in Runs, Trigger(r) \/ Start(r) PROVE AllSound'
  <2>1. branch' = branch /\ tree' = tree /\ \A q \in Runs : Mounted(q)' => Mounted(q)
    BY <1>2 DEF Trigger, Start, Mounted, IInv, Types
  <2> QED
    BY <2>1, SoundStep
<1>3. ASSUME NEW r \in Runs, Kill(r) PROVE AllSound'
  <2>1. r \in Running /\ Finish(r) /\ branch' = branch /\ version' \in Nat /\ attempt' = attempt
    BY <1>3 DEF Kill, IInv, Types
  <2>2. \A q \in Runs : ~Mounted(q)'
    BY <2>1, Finished
  <2> QED
    BY <2>1, <2>2, SoundStep
<1>4. ASSUME NEW r \in Runs, Push(r) PROVE AllSound'
  <2>1. /\ pc[r] = "push" /\ r \in Running /\ Mounted(r) /\ Finish(r) /\ attempt' = attempt /\ version' \in Nat
    BY <1>4 DEF Push, Running, Mounted, IInv, Types
  <2>2. branch' = tree[r] \/ branch' = branch
    BY <1>4, PushIInv
  <2>3. \A q \in Runs : ~Mounted(q)'
    BY <2>1, Finished
  <2>4. Sound(branch)'
    BY <2>1, <2>2 DEF AllSound
  <2> QED
    BY <2>3, <2>4 DEF AllSound
<1>5. ASSUME NEW r \in ScanRuns, Scan(r) PROVE AllSound'
  <2>1. branch' = branch /\ tree' = tree /\ \A q \in Runs : Mounted(q)' => Mounted(q)
    BY <1>5 DEF Scan, Mounted, IInv, Types
  <2> QED
    BY <2>1, SoundStep
<1>6. ASSUME NEW r \in OutcomeRuns, ScanRows(r) \/ NextHorizon(r) PROVE AllSound'
  <2>1. branch' = branch /\ tree' = tree /\ \A q \in Runs : Mounted(q)' => Mounted(q)
    BY <1>6 DEF ScanRows, NextHorizon, Mounted, IInv, Types
  <2> QED
    BY <2>1, SoundStep
<1> QED
  BY <1>1, <1>2, <1>3, <1>4, <1>5, <1>6, SoundMount, SoundTrack, SoundSnapshot DEF Next

(* The reports of every snapshot on the branch are backed by its evidence, *)
(* however much was added since: no outcome counts as complete unless its  *)
(* file says so, the two reports agree, the gate splits the candidates and *)
(* no more of them have an outcome than there are valid candidate rows.    *)
THEOREM LedgerBoardBacked == Spec => []BoardBacked
<1>1. Init => AllSound
  <2> SUFFICES ASSUME Init PROVE AllSound
    OBVIOUS
  <2>1. DOMAIN branch = {} /\ \A r \in Runs : ~Mounted(r)
    BY DEF Init, Mounted
  <2>2. IsFiniteSet(DOMAIN branch) /\ Outcomes(branch) = {} /\ Boards(branch) = {}
    BY <2>1, FS_EmptySet DEF Outcomes, Boards
  <2> QED
    BY <2>1, <2>2 DEF AllSound, Sound, Shaped, BackedBoards
<1>2. IInv /\ AllSound /\ [Next]_vars => AllSound'
  BY SoundNext
<1>3. AllSound => BoardBacked
  <2>1. \A h, status : Filed(h, status) = Cardinality(FiledIn(branch, h, status))
    BY DEF Filed, FiledIn
  <2>2. AllSound => \A p \in Boards(branch) : Backed(branch[p].scoreboard, branch[p].progress, branch)
    BY DEF AllSound, Sound, BackedBoards
  <2> QED
    BY <2>1, <2>2 DEF Backed, BoardBacked
<1> QED
  BY <1>1, <1>2, <1>3, IInvAlways, PTL DEF Spec
================================================================================
