--------------------------------- MODULE Ledger ---------------------------------
(***************************************************************************)
(* The branch prospective-ledger and the jobs that write it: the hourly    *)
(* and high-throughput scans append their rows, the outcome job tracks     *)
(* matured rows (scripts/track_pending_outcomes*.py), adds a scoreboard    *)
(* and a progress snapshot and pushes everything in one commit.  The jobs  *)
(* share a concurrency group; any of them may die before its push.         *)
(*                                                                         *)
(* The branch is a function from paths to contents.  A scan has one row.   *)
(***************************************************************************)
EXTENDS Integers, FiniteSets

CONSTANTS
    ScanRuns, OutcomeRuns,  \* github run ids, numbers
    MaxAttempts,            \* bound: attempts of one run (re-run of a job)
    MaxJobs,                \* bound: jobs triggered in all
    RowKinds,               \* what a scan may find
    Scanners,               \* ALLOWED_SCANNERS
    Horizons,               \* seconds, the longest is tracked first
    MaxRows,                \* max_rows
    MaxTime, MaxKills,      \* bounds: the clock, and jobs that die
    None

Runs == ScanRuns \cup OutcomeRuns

ASSUME LedgerAssumption ==
    /\ Runs \subseteq Nat /\ ScanRuns \cap OutcomeRuns = {}
    /\ MaxAttempts \in Nat /\ MaxJobs \in Nat
    /\ \A k \in RowKinds : 
          DOMAIN k = {"scanner", "status", "decision", "control", "nearMiss", "veto"}
    /\ Horizons \subseteq Nat \ {0}
    /\ \E h \in Horizons : \A i \in Horizons : i <= h
    /\ MaxRows \in Nat \ {0}
    /\ MaxTime \in Nat /\ MaxKills \in Nat
    /\ None \notin Horizons

VARIABLES
    clock,
    branch,    \* origin/prospective-ledger: path |-> content
    version,   \* commits on the branch
    jobs,      \* jobs triggered
    kills,     \* jobs that died
    pc,        \* off, pending, scan, mount, rows, track, board, push or done
    attempt,   \* GITHUB_RUN_ATTEMPT
    row,       \* the row a scan found
    base,      \* version the worktree was made from
    tree,      \* the worktree
    horizon,   \* --horizon-s of the current tracker call
    todo,      \* scans whose row the call still has to track
    at         \* now_ms of the call

jobVars == <<pc, attempt, row, base, tree, horizon, todo, at>>
vars == <<clock, branch, version, jobs, kills, jobVars>>

ScanPath(r, a) == <<"scan", r, a>>
OutcomePath(p, h) == <<"outcome", p, h>>
BoardPath(r) == <<"board", r>>

Write(files, p, c) == [q \in DOMAIN files \cup {p} |-> IF q = p THEN c ELSE files[q]]

Running == {r \in Runs : pc[r] \in {"scan", "mount", "rows", "track", "board", "push"}}

Init ==
    /\ clock = 0
    /\ branch = <<>>
    /\ version = 0
    /\ jobs = 0 /\ kills = 0
    /\ pc = [r \in Runs |-> "off"]
    /\ attempt = [r \in Runs |-> 0]
    /\ row = [r \in ScanRuns |-> None]
    /\ base = [r \in Runs |-> 0]
    /\ tree = [r \in Runs |-> <<>>]
    /\ horizon = [r \in OutcomeRuns |-> None]
    /\ todo = [r \in OutcomeRuns |-> {}]
    /\ at = [r \in OutcomeRuns |-> 0]

Tick ==
    /\ clock < MaxTime
    /\ clock' = clock + 1
    /\ UNCHANGED <<branch, version, jobs, kills, jobVars>>

-----------------------------------------------------------------------------
(* The concurrency group: one job runs, one waits; a newer one takes the   *)
(* waiting place and the older is cancelled.                               *)

(* cron, dispatch or a re-run *)
Trigger(r) ==
    /\ pc[r] \in {"off", "done"} /\ attempt[r] < MaxAttempts /\ jobs < MaxJobs
    /\ jobs' = jobs + 1
    /\ attempt' = [attempt EXCEPT ![r] = @ + 1]
    /\ pc' = [q \in Runs |-> IF q = r THEN "pending"
                             ELSE IF pc[q] = "pending" THEN "done" ELSE pc[q]]
    /\ UNCHANGED <<clock, branch, version, kills, row, base, tree, horizon, todo, at>>

(* Without the group. *)
FreeToStart(r) == pc[r] = "pending"

MayStart(r) == pc[r] = "pending" /\ Running = {}

Start(r) ==
    /\ MayStart(r)
    /\ pc' = [pc EXCEPT ![r] = IF r \in ScanRuns THEN "scan" ELSE "mount"]
    /\ UNCHANGED <<clock, branch, version, jobs, kills, attempt, row, base, tree, horizon, todo, at>>

(* The runner of a finished job is thrown away, worktree and all. *)
Finish(r) ==
    /\ pc' = [pc EXCEPT ![r] = "done"]
    /\ base' = [base EXCEPT ![r] = 0]
    /\ tree' = [tree EXCEPT ![r] = <<>>]
    /\ IF r \in ScanRuns
       THEN row' = [row EXCEPT ![r] = None] /\ UNCHANGED <<horizon, todo, at>>
       ELSE /\ horizon' = [horizon EXCEPT ![r] = None]
            /\ todo' = [todo EXCEPT ![r] = {}]
            /\ at' = [at EXCEPT ![r] = 0]
            /\ UNCHANGED row

(* A failed step, a timeout: what was not pushed is gone. *)
Kill(r) ==
    /\ r \in Running /\ kills < MaxKills
    /\ kills' = kills + 1
    /\ Finish(r)
    /\ UNCHANGED <<clock, branch, version, jobs, attempt>>

-----------------------------------------------------------------------------
(* Capture, selection and audit leave a scored row. *)
Scan(r) ==
    /\ pc[r] = "scan"
    /\ \E k \in RowKinds : row' = [row EXCEPT ![r] = [kind |-> k, scored |-> clock]]
    /\ pc' = [pc EXCEPT ![r] = "mount"]
    /\ UNCHANGED <<clock, branch, version, jobs, kills, attempt, base, tree, horizon, todo, at>>

Longest == CHOOSE h \in Horizons : \A i \in Horizons : i <= h

Destination(r) == ScanPath(r, attempt[r])

(* git fetch and worktree add; a scan copies its package and commits. *)
Mount(r) ==
    /\ pc[r] = "mount"
    /\ base' = [base EXCEPT ![r] = version]
    /\ IF r \in ScanRuns
       THEN /\ tree' = [tree EXCEPT ![r] = Write(branch, Destination(r), row[r])]
            /\ pc' = [pc EXCEPT ![r] = "push"]
            /\ UNCHANGED horizon
       ELSE /\ tree' = [tree EXCEPT ![r] = branch]
            /\ pc' = [pc EXCEPT ![r] = "rows"]
            /\ horizon' = [horizon EXCEPT ![r] = Longest]
    /\ UNCHANGED <<clock, branch, version, jobs, kills, attempt, row, todo, at>>

Candidate(k) == k.decision = "PAPER_CANDIDATE"

Eligible(k) ==
    /\ k.scanner \in Scanners /\ k.status = "VALID"
    /\ Candidate(k) \/ k.decision = "WATCH" \/ k.control \/ k.nearMiss

Scans(files) == {p \in DOMAIN files : p[1] = "scan"}
Outcomes(files) == {p \in DOMAIN files : p[1] = "outcome"}
Boards(files) == {p \in DOMAIN files : p[1] = "board"}

(* The maturity test forgotten. *)
AllUntracked(files, h, now) ==
    {p \in Scans(files) : Eligible(files[p].kind) /\ OutcomePath(p, h) \notin DOMAIN files}

(* Rows whose incomplete outcome is tried again. *)
RetryIncomplete(files, h, now) ==
    {p \in Scans(files) :
        /\ Eligible(files[p].kind) /\ files[p].scored + h <= now
        /\ OutcomePath(p, h) \in DOMAIN files => files[OutcomePath(p, h)].status # "COMPLETE"}

Pending(files, h, now) ==
    {p \in Scans(files) :
        /\ Eligible(files[p].kind) /\ files[p].scored + h <= now
        /\ OutcomePath(p, h) \notin DOMAIN files}

(* Sorted by directory, cut to max_rows. *)
FirstRows(rows, some) ==
    /\ some \subseteq rows
    /\ some = rows \/ Cardinality(some) = MaxRows
    /\ Cardinality(some) <= MaxRows
    /\ \A p \in some, q \in rows \ some : p[2] < q[2] \/ (p[2] = q[2] /\ p[3] < q[3])

ScanRows(r) ==
    /\ pc[r] = "rows"
    /\ \E some \in SUBSET Pending(tree[r], horizon[r], clock) :
         /\ FirstRows(Pending(tree[r], horizon[r], clock), some)
         /\ todo' = [todo EXCEPT ![r] = some]
    /\ at' = [at EXCEPT ![r] = clock]
    /\ pc' = [pc EXCEPT ![r] = "track"]
    /\ UNCHANGED <<clock, branch, version, jobs, kills, attempt, row, base, tree, horizon>>

(* A history is whole when its index reached the start of the window and   *)
(* every transaction was fetched; a migrated token has a second one.  The  *)
(* entry needs a quote that paid at least the current curve fee.           *)
Status(quoted, feeFloor, mintWhole, migrated, poolWhole) ==
    IF quoted /\ feeFloor /\ mintWhole /\ (migrated => poolWhole)
    THEN "COMPLETE" ELSE "OUTCOME_INCOMPLETE"

Track(r, p) ==
    /\ pc[r] = "track" /\ p \in todo[r]
    /\ todo' = [todo EXCEPT ![r] = @ \ {p}]
    /\ \E quoted, feeFloor, mintWhole, migrated, poolWhole, tenfold \in BOOLEAN :
         LET status == Status(quoted, feeFloor, mintWhole, migrated, poolWhole)
         IN  tree' = [tree EXCEPT ![r] = Write(@, OutcomePath(p, horizon[r]),
                [status |-> status, hit |-> status = "COMPLETE" /\ tenfold,
                 kind |-> tree[r][p].kind, at |-> at[r]])]
    /\ UNCHANGED <<clock, branch, version, jobs, kills, pc, attempt, row, base, horizon, at>>

(* The next call with a shorter horizon, or the snapshots. *)
NextHorizon(r) ==
    /\ pc[r] = "track" /\ todo[r] = {}
    /\ LET shorter == {h \in Horizons : h < horizon[r]}
       IN  IF shorter = {}
           THEN pc' = [pc EXCEPT ![r] = "board"] /\ UNCHANGED horizon
           ELSE /\ pc' = [pc EXCEPT ![r] = "rows"]
                /\ horizon' = [horizon EXCEPT ![r] = CHOOSE h \in shorter : \A i \in shorter : i <= h]
    /\ UNCHANGED <<clock, branch, version, jobs, kills, attempt, row, base, tree, todo, at>>

(* Every outcome file taken for a complete one. *)
AnyStatus(files) == Outcomes(files)

Complete(files) == {p \in Outcomes(files) : files[p].status = "COMPLETE"}

(* groups(): a row may be in several. *)
Groups == {"all_complete", "champion_candidate", "watch", "random_control", "near_miss_control",
           "candidate_gate_veto", "candidate_gate_retained"}

groups(k) ==
    {g \in Groups :
        \/ g = "all_complete"
        \/ g = "champion_candidate" /\ Candidate(k)
        \/ g = "watch" /\ k.decision = "WATCH"
        \/ g = "random_control" /\ k.control
        \/ g = "near_miss_control" /\ k.nearMiss
        \/ g = "candidate_gate_veto" /\ Candidate(k) /\ k.veto
        \/ g = "candidate_gate_retained" /\ Candidate(k) /\ ~k.veto}

Hits(files, ps) == Cardinality({p \in ps : files[p].hit})

(* build_prospective_scoreboard.py: of each horizon the outcomes by status *)
(* and, of the complete ones, the hits of each group.                      *)
Scoreboard(files) ==
    LET done(h) == {p \in Complete(files) : p[3] = h}
        of(h, g) == {p \in done(h) : g \in groups(files[p].kind)}
    IN  [h \in Horizons |->
            [complete |-> Cardinality(done(h)),
             incomplete |-> Cardinality({p \in Outcomes(files) : p[3] = h} \ done(h)),
             groups |-> [g \in Groups |->
                [n |-> Cardinality(of(h, g)), hits |-> Hits(files, of(h, g))]]]]

(* build_forward_progress.py: the ledger's rows, and the outcomes of the   *)
(* longest horizon.                                                        *)
Progress(files) ==
    LET valid == {p \in Scans(files) : files[p].kind.status = "VALID"}
        outcomes == {p \in Outcomes(files) : p[3] = Longest /\ files[p].status = "COMPLETE"}
        candidates == {p \in outcomes : Candidate(files[p].kind)}
        random == {p \in outcomes : files[p].kind.control}
    IN  [population |-> Cardinality(Scans(files)),
         valid_candidates |-> Cardinality({p \in valid : Candidate(files[p].kind)}),
         valid_random |-> Cardinality({p \in valid : files[p].kind.control}),
         complete |-> Cardinality(outcomes),
         candidate_complete |-> Cardinality(candidates), candidate_hits |-> Hits(files, candidates),
         random_complete |-> Cardinality(random), random_hits |-> Hits(files, random)]

Snapshot(r) ==
    /\ pc[r] = "board"
    /\ tree' = [tree EXCEPT ![r] = Write(@, BoardPath(r),
           [scoreboard |-> Scoreboard(@), progress |-> Progress(@)])]
    /\ pc' = [pc EXCEPT ![r] = "push"]
    /\ UNCHANGED <<clock, branch, version, jobs, kills, attempt, row, base, horizon, todo, at>>

(* git add takes nothing when one of its three paths is missing, and       *)
(* without an outcome the first one is.  With one there is always          *)
(* something to commit: a snapshot holds the time it was made.             *)
Staged(r) == r \in OutcomeRuns => Outcomes(tree[r]) # {}

(* git push without force: refused unless the branch is where it was. *)
Push(r) ==
    /\ pc[r] = "push"
    /\ IF Staged(r) /\ base[r] = version
       THEN branch' = tree[r] /\ version' = version + 1
       ELSE UNCHANGED <<branch, version>>
    /\ Finish(r)
    /\ UNCHANGED <<clock, jobs, kills, attempt>>

Next ==
    \/ Tick
    \/ \E r \in Runs : Trigger(r) \/ Start(r) \/ Kill(r) \/ Mount(r) \/ Push(r)
    \/ \E r \in ScanRuns : Scan(r)
    \/ \E r \in OutcomeRuns : ScanRows(r) \/ NextHorizon(r) \/ Snapshot(r)
    \/ \E r \in OutcomeRuns : \E p \in todo[r] : Track(r, p)

Spec == Init /\ [][Next]_vars

-----------------------------------------------------------------------------
(* Scans and outcomes, the evidence. *)
Evidence == [p \in Scans(branch) \cup Outcomes(branch) |-> branch[p]]

Log == INSTANCE AppendOnlyLog WITH log <- Evidence

(* Whatever jobs die, repeat or are cancelled, evidence that was pushed    *)
(* stays as it was: the first write of a scan or an outcome wins.          *)
EvidenceAppendOnly == Log!Spec

(* The group keeps every push fast-forward: no job's work is refused.      *)
PushOnHead == \A r \in Runs : pc[r] = "push" => base[r] = version

(* An outcome on the branch is that of an eligible row of the branch,      *)
(* decided at least the horizon before the tracker looked at it.           *)
OutcomeOfMaturedRow ==
    \A p \in Outcomes(branch) :
        LET s == p[2]
        IN  /\ s \in Scans(branch) /\ Eligible(branch[s].kind)
            /\ branch[s].kind = branch[p].kind
            /\ branch[s].scored + p[3] <= branch[p].at

(* The two reports of a snapshot agree with each other and with the        *)
(* branch: an outcome counts as complete only if its file says so, both    *)
(* reports find the same candidates, controls and hits at the longest      *)
(* horizon, the gate splits the candidates in two, and no more of them     *)
(* have an outcome than the ledger has valid candidate rows.               *)
Filed(h, status) ==
    Cardinality({o \in Outcomes(branch) : o[3] = h /\ branch[o].status = status})

BoardBacked ==
    \A p \in Boards(branch) :
        LET board == branch[p].scoreboard
            progress == branch[p].progress
            last == board[Longest].groups
        IN  /\ \A h \in Horizons :
                 LET g == board[h].groups
                 IN  /\ board[h].complete <= Filed(h, "COMPLETE")
                     /\ board[h].incomplete <= Filed(h, "OUTCOME_INCOMPLETE")
                     /\ g["candidate_gate_veto"].n + g["candidate_gate_retained"].n = g["champion_candidate"].n
                     /\ g["champion_candidate"].n <= progress.valid_candidates
                     /\ g["random_control"].n <= progress.valid_random
            /\ [n |-> progress.candidate_complete, hits |-> progress.candidate_hits] = last["champion_candidate"]
            /\ [n |-> progress.random_complete, hits |-> progress.random_hits] = last["random_control"]

(* Step "Build immutable prospective scoreboard snapshot" of               *)
(* prospective-outcomes.yml: a snapshot keeps its content.                 *)
SnapshotImmutable ==
    [][\A p \in Boards(branch) : p \in DOMAIN branch' /\ branch'[p] = branch[p]]_branch
================================================================================
