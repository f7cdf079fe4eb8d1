----------------------------- MODULE HtAuditProofs -----------------------------
(***************************************************************************)
(* What a VALID row of the selected audit stands for, proved for every     *)
(* index, tape, page size, cap and number of sweeps.  Paging goes from     *)
(* the head of the index to the launch, so an entry listed before the      *)
(* sweep began and in its window has been read once the cursor is below    *)
(* it; new entries only appear above.  What a sweep read is on the tape,   *)
(* fetched, or makes the row INVALID.                                      *)
(***************************************************************************)
EXTENDS HtAudit, FiniteSetTheorems, WellFoundedInduction, TLAPS

Confirmed == {s \in index : ok[s]}

(* Once in the window, always in the window. *)
StartStays == atStart \subseteq {s \in index : InWindow(s)}

Fresh ==
    pc = "create" =>
        /\ sweep = 0 /\ pages = 0 /\ before = MaxSigs + 1 /\ ~reached
        /\ atStart = {} /\ expected = {}

(* What this sweep has read. *)
Paging ==
    pc = "sweep" =>
        /\ sweep < Sweeps
        /\ pages = 0 => before = MaxSigs + 1 /\ ~reached
        /\ pages > 0 /\ ~broken =>
             \A s \in atStart : reached \/ s >= before => s \in found

(* Nothing but confirmed successes is expected, fetched or lost. *)
Collected ==
    /\ found \cup expected \subseteq Confirmed \cup {Launch}
    /\ todo \cup fetched \cup lost \subseteq expected \ {Launch}

(* What the finished sweeps and the fetches amount to. *)
Swept ==
    pc \in {"fetch", "done"} =>
        /\ ~flaw => atStart \subseteq expected
        /\ ~flaw /\ ~added => atStart \subseteq earlier
        /\ ~capped => expected \ (tape \cup {Launch}) \subseteq todo \cup fetched \cup lost

Judged == verdict = "VALID" => pc = "done" /\ Valid /\ todo = {}

IInv == TypeOK /\ StartStays /\ Fresh /\ Paging /\ Collected /\ Swept /\ Judged
-----------------------------------------------------------------------------
(* A full page has an oldest entry, where the next one begins.             *)
LEMMA Oldest ==
    ASSUME NEW T \in SUBSET Nat, T # {}
    PROVE  \E s \in T : \A r \in T : s <= r
<1> DEFINE less == OpToRel(<, Nat)
<1>1. IsWellFoundedOn(less, Nat)
  BY NatLessThanWellFounded
<1>2. \A x, y \in Nat : <<x, y>> \in less <=> x < y
  BY DEF OpToRel
<1> HIDE DEF less
<1>3. PICK x \in T : \A y \in T : <<y, x>> \notin less
  BY <1>1, WFMin
<1>4. ASSUME NEW y \in T PROVE x <= y
  <2>1. x \in Nat /\ y \in Nat /\ ~(y < x)
    BY <1>2, <1>3
  <2> QED
    BY <2>1
<1> QED
  BY <1>4

LEMMA InitIInv == Init => IInv
<1> SUFFICES ASSUME Init PROVE IInv
  OBVIOUS
<1> USE HtAuditAssumption
<1>1. TypeOK
  <2>1. time \in [Sigs -> Nat \cup {None}] /\ ok \in [Sigs -> BOOLEAN]
    BY DEF Init
  <2>2. sweep \in 0..Sweeps /\ before \in 1..MaxSigs + 1 /\ pages \in 0..MaxPages
    BY DEF Init
  <2> QED
    BY <2>1, <2>2 DEF Init, TypeOK
<1> QED
  BY <1>1 DEF Init, IInv, StartStays, Fresh, Paging, Collected, Swept, Judged, Confirmed

-----------------------------------------------------------------------------
(* The node lists new entries and stamps old ones; it changes nothing that *)
(* was in a window.                                                        *)
LEMMA NodeIInv ==
    ASSUME IInv, Node
    PROVE  IInv'
<1> USE HtAuditAssumption
<1>1. /\ index \subseteq index' /\ index' \subseteq Sigs
      /\ time' \in [Sigs -> Nat \cup {None}] /\ ok' \in [Sigs -> BOOLEAN]
      /\ \A s \in index : ok'[s] = ok[s] /\ (Timed(s) => time'[s] = time[s])
      /\ UNCHANGED <<tape, pc, sweep, sweepVars, expected, added, flaw, fetchVars,
                     verdict, atStart, earlier>>
  <2>0. TypeOK
    BY DEF IInv
  <2>1. ASSUME NEW s \in Sigs, NEW t \in Nat \cup {None}, NEW good \in BOOLEAN, List(s, t, good)
        PROVE  <1>1
    <3>1. s \notin index
      BY <2>1 DEF List, Sigs
    <3> QED
      BY <2>0, <2>1, <3>1 DEF List, TypeOK
  <2>2. ASSUME NEW s \in Sigs, NEW t \in Nat, Stamp(s, t)
        PROVE  <1>1
    BY <2>0, <2>2 DEF Stamp, TypeOK, chainVars, Timed
  <2>3. 0..Cut + 1 \subseteq Nat
    OBVIOUS
  <2> QED
    BY <2>1, <2>2, <2>3 DEF Node
<1>2. \A s \in index : InWindow(s) => InWindow(s)'
  BY <1>1 DEF InWindow, Timed, IInv, TypeOK
<1>3. TypeOK'
  BY <1>1 DEF IInv, TypeOK, sweepVars, fetchVars
<1>4. StartStays'
  BY <1>1, <1>2 DEF IInv, StartStays
<1>5. Paging'
  BY <1>1 DEF IInv, Paging, sweepVars
<1>6. Collected'
  BY <1>1 DEF IInv, Collected, Confirmed, sweepVars, fetchVars
<1>8. Fresh'
  BY <1>1 DEF IInv, Fresh, sweepVars
<1>7. Swept' /\ Judged'
  BY <1>1 DEF IInv, Swept, Judged, Valid, Stable, Enough, Accounted, Audited, sweepVars, fetchVars
<1> QED
  BY <1>3, <1>4, <1>5, <1>6, <1>7, <1>8 DEF IInv

-----------------------------------------------------------------------------
LEMMA CreateIInv ==
    ASSUME IInv, CreateFails \/ CreateFound
    PROVE  IInv'
<1> USE HtAuditAssumption
<1>1. TypeOK'
  BY DEF IInv, TypeOK, CreateFails, CreateFound, chainVars, sweepVars, fetchVars
<1>2. StartStays'
  BY DEF IInv, StartStays, CreateFails, CreateFound, chainVars, InWindow, Timed
<1>3. Fresh' /\ Paging' /\ Swept'
  BY DEF IInv, Fresh, Paging, Swept, CreateFails, CreateFound, sweepVars, fetchVars
<1>4. Collected' /\ Judged'
  BY DEF IInv, Collected, Confirmed, Judged, CreateFails, CreateFound, chainVars, sweepVars, fetchVars
<1> QED
  BY <1>1, <1>2, <1>3, <1>4 DEF IInv

(* A page that is not the last one takes the cursor down to its oldest     *)
(* entry; a short page has everything below the cursor, and no block time  *)
(* is before the launch.                                                   *)
LEMMA ReadPageIInv ==
    ASSUME IInv, NEW page \in SUBSET index, ReadPage(page)
    PROVE  IInv'
<1> USE HtAuditAssumption
<1> DEFINE oldest == CHOOSE s \in page : \A r \in page : s <= r
<1>1. /\ pc = "sweep" /\ ~reached /\ ~broken /\ pages # MaxPages
      /\ found' = found \cup {s \in page : InWindow(s)}
      /\ atStart' = IF pages = 0 THEN {s \in index : InWindow(s)} ELSE atStart
      /\ pages' = pages + 1
      /\ reached' \in BOOLEAN
      /\ before' = IF reached' THEN before ELSE oldest
      /\ UNCHANGED <<chainVars, tape, pc, sweep, broken, expected, added, flaw, fetchVars,
                     verdict, earlier>>
  BY DEF ReadPage, SweepOver, EndsAtLaunch
<1>2. reached' => page = {s \in index : s < before}
  <2>1. ASSUME NEW s \in page, Timed(s) PROVE ~(time[s] <= -2)
    <3>1. time[s] \in Nat
      BY <2>1 DEF IInv, TypeOK, Timed
    <3> QED
      BY <3>1
  <2>2. IsFiniteSet(page) /\ Cardinality(page) \in Nat
    <3>1. IsFiniteSet(Sigs)
      BY FS_Interval DEF Sigs
    <3>2. page \in SUBSET Sigs
      BY DEF IInv, TypeOK
    <3> QED
      BY <3>1, <3>2, FS_Subset, FS_CardinalityType
  <2>3. reached' => Cardinality(page) < Limit
    BY <2>1 DEF ReadPage, EndsAtLaunch
  <2>4. \/ Cardinality(page) = Limit
        \/ page = {s \in index : s < before}
    BY DEF ReadPage, IsPage
  <2> QED
    BY <2>2, <2>3, <2>4
<1>3. ~reached' => /\ oldest \in page
                   /\ \A s \in index : s < before /\ s >= oldest => s \in page
  <2> SUFFICES ASSUME ~reached'
               PROVE  /\ oldest \in page
                      /\ \A s \in index : s < before /\ s >= oldest => s \in page
    OBVIOUS
  <2>1. page # {}
    BY FS_EmptySet DEF ReadPage, EndsAtLaunch
  <2>2. page \subseteq Nat /\ index \subseteq Nat /\ before \in Nat
    BY DEF IInv, TypeOK, Sigs
  <2>3. oldest \in page
    BY <2>1, <2>2, Oldest
  <2>4. \A r \in index : oldest < r /\ r < before => r \in page
    BY <2>3 DEF ReadPage, IsPage
  <2> HIDE DEF oldest
  <2> QED
    BY <2>2, <2>3, <2>4
<1> HIDE DEF oldest
<1>4. atStart' \subseteq {s \in index : InWindow(s)}
  BY <1>1 DEF IInv, StartStays
<1>5. \A s \in atStart' : reached' \/ s >= before' => s \in found'
  <2> SUFFICES ASSUME NEW s \in atStart', reached' \/ s >= before'
               PROVE  s \in found'
    OBVIOUS
  <2>1. s \in index /\ InWindow(s) /\ s \in Nat /\ s < MaxSigs + 1 /\ before \in Nat
    BY <1>4 DEF IInv, TypeOK, Sigs
  <2>2. CASE s < before
    BY <1>1, <1>2, <1>3, <2>1, <2>2
  <2>3. CASE s >= before
    <3>1. pages # 0 /\ s \in atStart
      BY <1>1, <2>1, <2>3 DEF IInv, Paging
    <3> QED
      BY <1>1, <2>3, <3>1 DEF IInv, Paging, TypeOK
  <2> QED
    BY <2>1, <2>2, <2>3
<1>6. TypeOK'
  <2>1. before' \in 1..MaxSigs + 1
    <3>1. before \in 1..MaxSigs + 1 /\ index \subseteq 1..MaxSigs
      BY DEF IInv, TypeOK, Sigs
    <3>2. ~reached' => oldest \in 1..MaxSigs
      BY <1>3, <3>1
    <3>3. CASE reached'
      BY <1>1, <3>1, <3>3
    <3>4. CASE ~reached'
      <4>1. before' = oldest
        BY <1>1, <3>4
      <4> QED
        BY <3>2, <3>4, <4>1
    <3> QED
      BY <3>3, <3>4
  <2>2. pages' \in 0..MaxPages
    BY <1>1 DEF IInv, TypeOK
  <2>3. found' \subseteq Sigs \cup {Launch} /\ atStart' \subseteq Sigs
    BY <1>1, <1>4 DEF IInv, TypeOK
  <2> QED
    BY <1>1, <2>1, <2>2, <2>3 DEF IInv, TypeOK, chainVars, fetchVars
<1>7. StartStays'
  BY <1>1, <1>4 DEF StartStays, chainVars, InWindow, Timed
<1>8. Fresh' /\ Paging'
  <2>1. pages \in Nat /\ sweep < Sweeps
    BY <1>1 DEF IInv, TypeOK, Paging
  <2>2. pages' > 0 /\ sweep' < Sweeps /\ pc' # "create"
    BY <1>1, <2>1
  <2> QED
    BY <1>5, <2>2 DEF Fresh, Paging
<1>9. Collected'
  BY <1>1 DEF IInv, Collected, Confirmed, chainVars, fetchVars, InWindow
<1>10. Swept' /\ Judged'
  BY <1>1 DEF IInv, Swept, Judged
<1> QED
  BY <1>6, <1>7, <1>8, <1>9, <1>10 DEF IInv

LEMMA PageFailsIInv ==
    ASSUME IInv, PageFails
    PROVE  IInv'
<1> USE HtAuditAssumption
<1>1. /\ pc = "sweep" /\ ~reached /\ pages # MaxPages /\ pages' = pages + 1 /\ broken' = TRUE
      /\ UNCHANGED <<chainVars, tape, pc, sweep, before, reached, found, expected, added, flaw,
                     fetchVars, verdict, atStart, earlier>>
  BY DEF PageFails, SweepOver
<1>2. TypeOK'
  BY <1>1 DEF IInv, TypeOK, chainVars, fetchVars
<1>3. StartStays' /\ Fresh' /\ Paging'
  BY <1>1 DEF IInv, StartStays, Fresh, Paging, TypeOK, chainVars, InWindow, Timed
<1>4. Collected' /\ Swept' /\ Judged'
  BY <1>1 DEF IInv, Collected, Confirmed, Swept, Judged, chainVars, fetchVars
<1> QED
  BY <1>2, <1>3, <1>4 DEF IInv

(* A sweep without a flaw has found what was listed when it began; one     *)
(* that added nothing found what the earlier sweeps already had.           *)
LEMMA EndSweepIInv ==
    ASSUME IInv, EndSweep
    PROVE  IInv'
<1> USE HtAuditAssumption
<1> DEFINE missing == expected' \ (tape \cup {Launch})
<1>1. /\ pc = "sweep" /\ SweepOver
      /\ flaw' = (flaw \/ broken \/ ~reached)
      /\ added' = (found \ expected # {})
      /\ earlier' = expected /\ expected' = expected \cup found
      /\ sweep' = sweep + 1
      /\ UNCHANGED <<index, time, ok, tape, verdict, atStart, fetched, lost>>
  BY DEF EndSweep, SweepFlaw, chainVars, fetchVars
<1>2. \/ /\ sweep + 1 < Sweeps
         /\ before' = MaxSigs + 1 /\ pages' = 0 /\ ~reached' /\ ~broken' /\ found' = {Launch}
         /\ reached' \in BOOLEAN /\ broken' \in BOOLEAN
         /\ UNCHANGED <<pc, todo, capped>>
      \/ /\ pc' = "fetch"
         /\ capped' \in BOOLEAN
         /\ todo' \subseteq missing
         /\ ~capped' => todo' = missing
         /\ UNCHANGED <<before, pages, reached, broken, found>>
  <2>1. CASE sweep + 1 < Sweeps
    BY <2>1 DEF EndSweep, fetchVars
  <2>2. CASE ~(sweep + 1 < Sweeps)
    <3>1. /\ pc' = "fetch" /\ capped' = (Cardinality(missing) > MaxTxs)
          /\ UNCHANGED sweepVars
          /\ \E some \in SUBSET missing :
               /\ todo' = some
               /\ IF capped' THEN Cardinality(some) = MaxTxs ELSE some = missing
      BY <2>2 DEF EndSweep
    <3> HIDE DEF missing
    <3> QED
      BY <3>1 DEF sweepVars
  <2> QED
    BY <2>1, <2>2
<1>3. sweep' \in 0..Sweeps
  BY <1>1 DEF IInv, TypeOK, Paging
<1>4. expected' \subseteq Confirmed \cup {Launch} /\ expected' \subseteq Sigs \cup {Launch}
  BY <1>1 DEF IInv, Collected, TypeOK
<1>5. missing \subseteq Sigs
  BY <1>4
<1>6. TypeOK'
  BY <1>1, <1>2, <1>3, <1>4, <1>5 DEF IInv, TypeOK
<1>7. StartStays' /\ Fresh' /\ Paging'
  BY <1>1, <1>2 DEF IInv, StartStays, Fresh, Paging, InWindow, Timed
<1>8. Collected'
  <2>1. found' \subseteq Confirmed \cup {Launch}
    BY <1>2 DEF IInv, Collected
  <2>2. todo' \cup fetched' \cup lost' \subseteq expected' \ {Launch}
    BY <1>1, <1>2 DEF IInv, Collected
  <2> QED
    BY <1>1, <1>4, <2>1, <2>2 DEF Collected, Confirmed
<1>9. Swept'
  <2> SUFFICES ASSUME pc' = "fetch" PROVE Swept'
    BY <1>1, <1>2 DEF Swept
  <2>1. ~flaw' => atStart \subseteq found
    <3>1. pages \in Nat /\ (reached => pages > 0)
      BY <1>1 DEF IInv, TypeOK, Paging
    <3> QED
      BY <1>1, <3>1 DEF IInv, Paging
  <2> QED
    BY <1>1, <1>2, <2>1 DEF Swept
<1>10. Judged'
  BY <1>1 DEF IInv, Judged
<1> QED
  BY <1>6, <1>7, <1>8, <1>9, <1>10 DEF IInv

LEMMA FetchIInv ==
    ASSUME IInv, NEW s \in Sigs, Fetch(s)
    PROVE  IInv'
<1>1. /\ pc = "fetch" /\ s \in todo /\ todo' = todo \ {s}
      /\ fetched \subseteq fetched' /\ lost \subseteq lost'
      /\ fetched' \cup lost' = fetched \cup lost \cup {s}
      /\ UNCHANGED <<chainVars, tape, pc, sweep, sweepVars, expected, added, flaw, capped,
                     verdict, atStart, earlier>>
  BY DEF Fetch
<1>2. TypeOK'
  BY <1>1 DEF IInv, TypeOK, chainVars, sweepVars
<1>3. StartStays' /\ Fresh' /\ Paging'
  BY <1>1 DEF IInv, StartStays, Fresh, Paging, chainVars, sweepVars, InWindow, Timed
<1>4. Collected' /\ Swept' /\ Judged'
  BY <1>1 DEF IInv, Collected, Confirmed, Swept, Judged, chainVars, sweepVars
<1> QED
  BY <1>2, <1>3, <1>4 DEF IInv

LEMMA JudgeIInv ==
    ASSUME IInv, Judge
    PROVE  IInv'
<1>1. /\ pc = "fetch" /\ todo = {} /\ pc' = "done"
      /\ verdict' = IF Valid THEN "VALID" ELSE "INVALID"
      /\ UNCHANGED <<chainVars, tape, sweep, sweepVars, expected, added, flaw, fetchVars,
                     atStart, earlier>>
  BY DEF Judge
<1>2. TypeOK'
  BY <1>1 DEF IInv, TypeOK, chainVars, sweepVars, fetchVars
<1>3. StartStays' /\ Fresh' /\ Paging'
  BY <1>1 DEF IInv, StartStays, Fresh, Paging, chainVars, InWindow, Timed
<1>4. Collected' /\ Swept'
  BY <1>1 DEF IInv, Collected, Confirmed, Swept, chainVars, sweepVars, fetchVars
<1>5. Valid' <=> Valid
  BY <1>1 DEF Valid, Stable, Enough, Accounted, Audited, fetchVars
<1>6. Judged'
  BY <1>1, <1>5, HtAuditAssumption DEF Judged, fetchVars
<1> QED
  BY <1>2, <1>3, <1>4, <1>6 DEF IInv

-----------------------------------------------------------------------------
LEMMA NextIInv == IInv /\ [Next]_vars => IInv'
<1> SUFFICES ASSUME IInv, [Next]_vars PROVE IInv'
  OBVIOUS
<1>1. CASE UNCHANGED vars
  <2>1. TypeOK' /\ StartStays'
    BY <1>1 DEF IInv, TypeOK, StartStays, vars, chainVars, sweepVars, fetchVars, InWindow, Timed
  <2>2. Fresh' /\ Paging' /\ Collected' /\ Swept'
    BY <1>1 DEF IInv, Fresh, Paging, Collected, Confirmed, Swept, vars, chainVars, sweepVars, fetchVars
  <2>3. Judged'
    BY <1>1 DEF IInv, Judged, Valid, Stable, Enough, Accounted, Audited, vars, fetchVars
  <2> QED
    BY <2>1, <2>2, <2>3 DEF IInv
<1>2. CASE Next
  BY <1>2, NodeIInv, CreateIInv, ReadPageIInv, PageFailsIInv, EndSweepIInv, FetchIInv, JudgeIInv
     DEF Next, Audit
<1> QED
  BY <1>1, <1>2

LEMMA IInvAlways == Spec => []IInv
  BY InitIInv, NextIInv, PTL DEF Spec

-----------------------------------------------------------------------------
(* Every variable of the audit keeps its type.                             *)
THEOREM HtAuditTypeOK == Spec => []TypeOK
<1>1. IInv => TypeOK
  BY DEF IInv
<1> QED
  BY <1>1, IInvAlways, PTL

(* A VALID row was scored with every success of the window that was listed *)
(* when the last sweep began, and that sweep found nothing new.            *)
THEOREM HtAuditCoversWindow == Spec => []ValidCoversWindow
<1>1. IInv => ValidCoversWindow
  <2> SUFFICES ASSUME IInv, verdict = "VALID"
               PROVE  atStart \subseteq Audited \cap earlier
    BY DEF ValidCoversWindow
  <2>1. /\ pc = "done" /\ ~flaw /\ ~added /\ ~capped
        /\ lost = {} /\ todo = {}
    BY DEF IInv, Judged, Valid, Stable
  <2>2. /\ atStart \subseteq expected /\ atStart \subseteq earlier
        /\ expected \ (tape \cup {Launch}) \subseteq fetched
    BY <2>1 DEF IInv, Swept
  <2>3. Launch \notin atStart
    BY DEF IInv, TypeOK, Sigs, Launch
  <2> QED
    BY <2>2, <2>3 DEF Audited
<1> QED
  BY <1>1, IInvAlways, PTL

(* Nothing from an abandoned fork and nothing that failed is scored.       *)
THEOREM HtAuditConfirmed == Spec => []AuditedConfirmed
<1>1. IInv => AuditedConfirmed
  <2>1. IInv => Launch \notin tape
    BY HtAuditAssumption DEF IInv, TypeOK, Sigs, Launch
  <2> QED
    BY <2>1 DEF IInv, Collected, Confirmed, Audited, AuditedConfirmed
<1> QED
  BY <1>1, IInvAlways, PTL

(* A signature neither on the tape nor fetched makes the row INVALID.      *)
THEOREM HtAuditNoPartialCredit == Spec => []NoPartialCredit
<1>1. IInv => NoPartialCredit
  <2> SUFFICES ASSUME IInv, verdict = "VALID"
               PROVE  expected \subseteq Accounted
    BY DEF NoPartialCredit
  <2>1. pc = "done" /\ ~capped /\ lost = {} /\ todo = {}
    BY DEF IInv, Judged, Valid
  <2>2. expected \ (tape \cup {Launch}) \subseteq fetched
    BY <2>1 DEF IInv, Swept
  <2> QED
    BY <2>2 DEF Accounted, Audited
<1> QED
  BY <1>1, IInvAlways, PTL

-----------------------------------------------------------------------------
(* How many steps of its own the audit has left at most: the pages and the *)
(* ends of the sweeps still to come, then a fetch for every gap and the    *)
(* verdict.                                                                *)
PerSweep == MaxPages + 1

Left ==
    CASE pc = "create" -> Sweeps * PerSweep + MaxSigs + 2
      [] pc = "sweep" -> (Sweeps - sweep) * PerSweep - pages + MaxSigs + 1
      [] pc = "fetch" -> Cardinality(todo) + 1
      [] pc = "done" -> 0

(* One sweep less is that many steps less.                                 *)
LEMMA SweepSteps ==
    ASSUME NEW s \in Nat, NEW k \in Nat, s > 0
    PROVE  /\ s * k \in Nat /\ (s - 1) * k \in Nat
           /\ s * k = (s - 1) * k + k
  OBVIOUS

LEMMA GapsCounted ==
    ASSUME NEW S \in SUBSET Sigs
    PROVE  IsFiniteSet(S) /\ Cardinality(S) \in Nat /\ Cardinality(S) <= MaxSigs
<1>1. IsFiniteSet(Sigs) /\ Cardinality(Sigs) = MaxSigs
  BY HtAuditAssumption, FS_Interval DEF Sigs
<1> QED
  BY <1>1, FS_Subset, FS_CardinalityType

LEMMA LeftIsNat ==
    ASSUME IInv
    PROVE  Left \in Nat
<1> USE HtAuditAssumption
<1>1. pc \in {"create", "sweep", "fetch", "done"} /\ todo \in SUBSET Sigs
      /\ sweep \in 0..Sweeps /\ pages \in 0..MaxPages /\ PerSweep = MaxPages + 1
  BY DEF IInv, TypeOK, PerSweep
<1>2. CASE pc = "create"
  BY <1>1, <1>2 DEF Left
<1>3. CASE pc = "sweep"
  <2>1. PICK s \in Nat : s = Sweeps - sweep /\ s > 0
    BY <1>1, <1>3 DEF IInv, Paging
  <2>2. PICK k \in Nat : k = PerSweep
    BY <1>1
  <2>3. s * k \in Nat /\ s * k >= k
    BY <2>1, SweepSteps
  <2>4. Left = s * k - pages + MaxSigs + 1
    BY <1>3, <2>1, <2>2 DEF Left
  <2> QED
    BY <1>1, <2>2, <2>3, <2>4
<1>4. CASE pc = "fetch"
  BY <1>1, <1>4, GapsCounted DEF Left
<1>5. CASE pc = "done"
  BY <1>5 DEF Left
<1> QED
  BY <1>1, <1>2, <1>3, <1>4, <1>5

(* The end of a sweep leaves the later ones, or the gaps.                  *)
LEMMA EndSweepShrinks ==
    ASSUME IInv, EndSweep
    PROVE  Left' < Left
<1> USE HtAuditAssumption
<1>1. pc = "sweep" /\ sweep' = sweep + 1 /\ sweep \in Nat /\ sweep < Sweeps /\ pages \in 0..MaxPages
  BY DEF EndSweep, IInv, TypeOK, Paging
<1>2. PICK s \in Nat, k \in Nat : s = Sweeps - sweep /\ s > 0 /\ k = PerSweep /\ k = MaxPages + 1
  BY <1>1 DEF PerSweep
<1>3. Left = s * k - pages + MaxSigs + 1
  BY <1>1, <1>2 DEF Left
<1>4. s * k = (s - 1) * k + k /\ (s - 1) * k \in Nat
  BY <1>2, SweepSteps
<1>5. CASE sweep + 1 < Sweeps
  <2>1. pc' = "sweep" /\ pages' = 0
    BY <1>1, <1>5 DEF EndSweep
  <2>2. Sweeps - sweep' = s - 1
    BY <1>1, <1>2
  <2>3. Left' = (s - 1) * k + MaxSigs + 1
    BY <1>2, <1>4, <2>1, <2>2 DEF Left, PerSweep
  <2> QED
    BY <1>1, <1>2, <1>3, <1>4, <2>3
<1>6. CASE ~(sweep + 1 < Sweeps)
  <2>1. pc' = "fetch" /\ todo' \in SUBSET (expected' \ {Launch}) /\ expected' = expected \cup found
    BY <1>6 DEF EndSweep
  <2>2. todo' \in SUBSET Sigs
    BY <2>1 DEF IInv, TypeOK
  <2>3. Left' = Cardinality(todo') + 1
    BY <2>1 DEF Left
  <2>4. Left' <= MaxSigs + 1 /\ Left' \in Nat
    BY <2>2, <2>3, GapsCounted
  <2> QED
    BY <1>1, <1>2, <1>3, <1>4, <2>4
<1> QED
  BY <1>5, <1>6

(* Every step of the audit is one of a number fixed before it begins; the  *)
(* node, however it grows meanwhile, adds none.  With the fairness that    *)
(* rpc() returns, this is why an audit ends.                               *)
THEOREM HtAuditShrinks ==
    Spec => /\ [](Left \in Nat /\ (verdict # None <=> Left = 0))
            /\ [][(Audit => Left' < Left) /\ (Node => Left' = Left)]_vars
<1> USE HtAuditAssumption
<1>1. IInv => Left \in Nat
  BY LeftIsNat
<1>2. ASSUME IInv, Node PROVE Left' = Left
  <2>1. UNCHANGED <<pc, sweep, pages, todo>>
    BY <1>2 DEF Node, List, Stamp, sweepVars, fetchVars
  <2> QED
    BY <2>1 DEF Left, PerSweep
<1>3. ASSUME IInv, Audit PROVE Left' < Left
  <2>1. CASE CreateFails
    <3>1. Left' = 0 /\ pc = "create"
      BY <2>1 DEF CreateFails, Left
    <3>2. Sweeps * PerSweep \in Nat /\ Left = Sweeps * PerSweep + MaxSigs + 2
      BY <3>1, SweepSteps DEF Left, PerSweep
    <3> QED
      BY <3>1, <3>2
  <2>2. CASE CreateFound
    <3>1. pc = "create" /\ pc' = "sweep" /\ sweep' = 0 /\ pages' = 0
      BY <1>3, <2>2 DEF CreateFound, IInv, Fresh, sweepVars
    <3>2. Left = Sweeps * PerSweep + MaxSigs + 2 /\ Sweeps * PerSweep \in Nat
      BY <3>1, SweepSteps DEF Left, PerSweep
    <3>3. Left' = Sweeps * PerSweep + MaxSigs + 1
      BY <3>1 DEF Left, PerSweep
    <3> QED
      BY <3>2, <3>3
  <2>3. ASSUME NEW page \in SUBSET index, ReadPage(page) PROVE Left' < Left
    <3>1. pc = "sweep" /\ UNCHANGED <<pc, sweep>> /\ pages' = pages + 1 /\ pages \in Nat
      BY <1>3, <2>3 DEF ReadPage, IInv, TypeOK
    <3>2. Left \in Nat /\ Left = (Sweeps - sweep) * PerSweep - pages + MaxSigs + 1
      BY <1>3, <3>1, LeftIsNat DEF Left
    <3>3. Left' = (Sweeps - sweep) * PerSweep - (pages + 1) + MaxSigs + 1
      BY <3>1 DEF Left, PerSweep
    <3>4. PICK a : a = (Sweeps - sweep) * PerSweep
      OBVIOUS
    <3>5. a \in Int
      BY <1>3, <3>4 DEF IInv, TypeOK, PerSweep
    <3> QED
      BY <3>1, <3>2, <3>3, <3>4, <3>5
  <2>4. CASE PageFails
    <3>1. pc = "sweep" /\ UNCHANGED <<pc, sweep>> /\ pages' = pages + 1 /\ pages \in Nat
      BY <1>3, <2>4 DEF PageFails, IInv, TypeOK
    <3>2. Left \in Nat /\ Left = (Sweeps - sweep) * PerSweep - pages + MaxSigs + 1
      BY <1>3, <3>1, LeftIsNat DEF Left
    <3>3. Left' = (Sweeps - sweep) * PerSweep - (pages + 1) + MaxSigs + 1
      BY <3>1 DEF Left, PerSweep
    <3>4. PICK a : a = (Sweeps - sweep) * PerSweep
      OBVIOUS
    <3>5. a \in Int
      BY <1>3, <3>4 DEF IInv, TypeOK, PerSweep
    <3> QED
      BY <3>1, <3>2, <3>3, <3>4, <3>5
  <2>5. CASE EndSweep
    BY <1>3, <2>5, EndSweepShrinks
  <2>6. ASSUME NEW s \in Sigs, Fetch(s) PROVE Left' < Left
    <3>1. pc = "fetch" /\ pc' = "fetch" /\ s \in todo /\ todo' = todo \ {s} /\ todo \in SUBSET Sigs
      BY <1>3, <2>6 DEF Fetch, IInv, TypeOK
    <3>2. IsFiniteSet(todo) /\ Cardinality(todo) \in Nat
      BY <3>1, GapsCounted
    <3>3. Cardinality(todo \ {s}) = Cardinality(todo) - 1
      BY <3>1, <3>2, FS_RemoveElement
    <3>4. Left = Cardinality(todo) + 1 /\ Left' = Cardinality(todo \ {s}) + 1
      BY <3>1 DEF Left
    <3> QED
      BY <3>2, <3>3, <3>4
  <2>7. CASE Judge
    <3>1. Left = Cardinality(todo) + 1 /\ Left' = 0 /\ todo \in SUBSET Sigs
      BY <1>3, <2>7 DEF Judge, Left, IInv, TypeOK
    <3> QED
      BY <3>1, GapsCounted
  <2> QED
    BY <1>3, <2>1, <2>2, <2>3, <2>4, <2>5, <2>6, <2>7 DEF Audit
<1>4. Spec => [](IInv /\ (verdict # None <=> pc = "done"))
  <2>1. Init => (verdict # None <=> pc = "done")
    BY DEF Init
  <2>2. (verdict # None <=> pc = "done") /\ [Next]_vars => (verdict # None <=> pc = "done")'
    <3> SUFFICES ASSUME verdict # None <=> pc = "done", [Next]_vars PROVE verdict' # None <=> pc' = "done"
      OBVIOUS
    <3>1. CASE UNCHANGED vars
      BY <3>1 DEF vars
    <3>2. CASE Node
      BY <3>2 DEF Node, List, Stamp
    <3>3. CASE Audit
      BY <3>3 DEF Audit, CreateFails, CreateFound, ReadPage, PageFails, EndSweep, Fetch, Judge
    <3> QED
      BY <3>1, <3>2, <3>3 DEF Next
  <2> QED
    BY <2>1, <2>2, IInvAlways, PTL DEF Spec
<1>5. IInv /\ (verdict # None <=> pc = "done") => Left \in Nat /\ (verdict # None <=> Left = 0)
  <2> SUFFICES ASSUME IInv, verdict # None <=> pc = "done" PROVE Left \in Nat /\ (pc = "done" <=> Left = 0)
    OBVIOUS
  <2>1. Left \in Nat
    BY LeftIsNat
  <2>2. ASSUME pc # "done" PROVE Left # 0
    <3>1. pc \in {"create", "sweep", "fetch"} /\ todo \in SUBSET Sigs
      BY <2>2 DEF IInv, TypeOK
    <3>2. CASE pc = "create"
      <4>1. Sweeps * PerSweep \in Nat /\ Left = Sweeps * PerSweep + MaxSigs + 2
        BY <3>2, SweepSteps DEF Left, PerSweep
      <4> QED
        BY <4>1
    <3>3. CASE pc = "sweep"
      <4>1. PICK s \in Nat, k \in Nat : s = Sweeps - sweep /\ s > 0 /\ k = PerSweep /\ k = MaxPages + 1
        BY <3>3 DEF IInv, TypeOK, Paging, PerSweep
      <4>2. s * k = (s - 1) * k + k /\ (s - 1) * k \in Nat
        BY <4>1, SweepSteps
      <4>3. Left = s * k - pages + MaxSigs + 1 /\ pages \in 0..MaxPages
        BY <3>3, <4>1 DEF Left, IInv, TypeOK
      <4> QED
        BY <4>1, <4>2, <4>3
    <3>4. CASE pc = "fetch"
      BY <3>1, <3>4, GapsCounted DEF Left
    <3> QED
      BY <3>1, <3>2, <3>3, <3>4
  <2>3. pc = "done" => Left = 0
    BY DEF Left
  <2> QED
    BY <2>1, <2>2, <2>3
<1>6. IInv /\ [Next]_vars => [(Audit => Left' < Left) /\ (Node => Left' = Left)]_vars
  BY <1>2, <1>3
<1> QED
  BY <1>4, <1>5, <1>6, IInvAlways, PTL DEF Spec
================================================================================
