-------------------------------- MODULE HtAudit --------------------------------
(***************************************************************************)
(* audit_one() and signature_sweep() of scripts/audit_selected_live60.py:  *)
(* the audit of one selected row.  The node's index of a mint is paged     *)
(* backwards to the launch several times while it still grows; what the    *)
(* action tape lacks is fetched; the row becomes VALID or INVALID.         *)
(*                                                                         *)
(* A signature of the mint is its position on the chain (the launch is 0). *)
(* Signatures of an abandoned fork are Forked: observed live, never in     *)
(* the index.  The pacer under every call is module Pacer.                 *)
(***************************************************************************)
EXTENDS Integers, FiniteSets

CONSTANTS
    MaxSigs,     \* bound: signatures after the launch
    Forked,      \* signatures of an abandoned fork
    Cut,         \* seconds from the launch to the end of the window, slack included
    Limit,       \* tx_limit, the size of a page
    MaxPages,    \* max_signature_pages
    MaxTxs,      \* max_txs
    Sweeps,      \* sweeps
    MinPercent,  \* min_fraction, in percent
    None         \* no block time, or no verdict yet

Launch == 0
Sigs == 1..MaxSigs

ASSUME HtAuditAssumption ==
    /\ MaxSigs \in Nat
    /\ Forked \cap Int = {}
    /\ IsFiniteSet(Forked)
    /\ Cut \in Nat
    /\ Limit \in Nat \ {0}
    /\ MaxPages \in Nat \ {0}
    /\ MaxTxs \in Nat
    /\ Sweeps \in Nat \ {0}
    /\ MinPercent \in 0..100
    /\ None \notin Int \cup {"VALID", "INVALID"}

VARIABLES
    index,     \* the positions the node lists
    time,      \* block time of a listed position, None while the node lacks it
    ok,        \* the transaction succeeded
    tape,      \* source signatures of the raw events on the action tape
    pc,        \* create, sweep, fetch or done
    sweep,     \* sweeps finished
    before,    \* the paging cursor
    pages,     \* calls of this sweep
    reached,   \* reached_launch_boundary of this sweep
    broken,    \* this sweep ended by an RPC error
    found,     \* signatures of this sweep
    expected,  \* prev: signatures of the finished sweeps
    added,     \* added_vs_previous of the last finished sweep
    flaw,      \* a sweep had an error, hit its cap or missed the boundary
    todo,      \* missing[:max_txs] not yet fetched
    capped,    \* fetch_cap_hit
    fetched,   \* transactions fetched
    lost,      \* txerr
    verdict,
    atStart,   \* history: timed successes of the window listed when the sweep began
    earlier    \* history: expected before the last sweep

chainVars == <<index, time, ok>>
sweepVars == <<before, pages, reached, broken, found>>
fetchVars == <<todo, capped, fetched, lost>>
vars == <<chainVars, tape, pc, sweep, sweepVars, expected, added, flaw,
          fetchVars, verdict, atStart, earlier>>

TypeOK ==
    /\ index \subseteq Sigs
    /\ time \in [Sigs -> Nat \cup {None}]
    /\ ok \in [Sigs -> BOOLEAN]
    /\ tape \subseteq Sigs \cup Forked
    /\ pc \in {"create", "sweep", "fetch", "done"}
    /\ sweep \in 0..Sweeps
    /\ before \in 1..MaxSigs + 1
    /\ pages \in 0..MaxPages
    /\ reached \in BOOLEAN /\ broken \in BOOLEAN
    /\ found \subseteq Sigs \cup {Launch}
    /\ expected \subseteq Sigs \cup {Launch}
    /\ added \in BOOLEAN
    /\ flaw \in BOOLEAN
    /\ todo \subseteq Sigs
    /\ capped \in BOOLEAN
    /\ fetched \subseteq Sigs
    /\ lost \subseteq Sigs
    /\ verdict \in {None, "VALID", "INVALID"}
    /\ atStart \subseteq Sigs
    /\ earlier \subseteq Sigs \cup {Launch}

Init ==
    /\ index = {}
    /\ time = [s \in Sigs |-> None]
    /\ ok = [s \in Sigs |-> TRUE]
    /\ tape \in SUBSET (Sigs \cup Forked)
    /\ pc = "create"
    /\ sweep = 0
    /\ before = MaxSigs + 1
    /\ pages = 0
    /\ reached = FALSE /\ broken = FALSE
    /\ found = {Launch}
    /\ expected = {}
    /\ added = TRUE
    /\ flaw = FALSE
    /\ todo = {}
    /\ capped = FALSE
    /\ fetched = {}
    /\ lost = {}
    /\ verdict = None
    /\ atStart = {}
    /\ earlier = {}

-----------------------------------------------------------------------------
(* The node: it lists the chain in order, sometimes before it knows the    *)
(* block time.  Block times never decrease along the chain.                *)

Timed(s) == time[s] # None

Monotone(s, t) ==
    \A r \in index : Timed(r) => (r < s => time[r] <= t) /\ (s < r => t <= time[r])

List(s, t, good) ==
    /\ index = 1..s - 1
    /\ index' = index \cup {s}
    /\ time' = [time EXCEPT ![s] = t]
    /\ ok' = [ok EXCEPT ![s] = good]
    /\ UNCHANGED <<tape, pc, sweep, sweepVars, expected, added, flaw, fetchVars,
                   verdict, atStart, earlier>>

Stamp(s, t) ==
    /\ s \in index /\ ~Timed(s)
    /\ Monotone(s, t)
    /\ time' = [time EXCEPT ![s] = t]
    /\ UNCHANGED <<index, ok, tape, pc, sweep, sweepVars, expected, added, flaw,
                   fetchVars, verdict, atStart, earlier>>

(* getSignaturesForAddress with until and before: the newest entries older *)
(* than the cursor, Limit of them unless the launch comes first.           *)
IsPage(page) ==
    /\ \A s \in page : \A r \in index : s < r /\ r < before => r \in page
    /\ \/ Cardinality(page) = Limit
       \/ Cardinality(page) < Limit /\ page = {s \in index : s < before}

-----------------------------------------------------------------------------
InWindow(s) == ok[s] /\ Timed(s) /\ time[s] \in -2..Cut

(* No signature, no launch payload or no create transaction. *)
CreateFails ==
    /\ pc = "create"
    /\ pc' = "done"
    /\ verdict' = "INVALID"
    /\ UNCHANGED <<chainVars, tape, sweep, sweepVars, expected, added, flaw, fetchVars,
                   atStart, earlier>>

CreateFound ==
    /\ pc = "create"
    /\ pc' = "sweep"
    /\ UNCHANGED <<chainVars, tape, sweep, sweepVars, expected, added, flaw, fetchVars,
                   verdict, atStart, earlier>>

(* A page that ends the sweep at the launch. *)
EndsAtLaunch(page) ==
    \/ Cardinality(page) < Limit
    \/ \E s \in page : Timed(s) /\ time[s] <= -2

(* Paging to the launch however many pages it takes. *)
NoPageCap == reached \/ broken

SweepOver == reached \/ broken \/ pages = MaxPages

ReadPage(page) ==
    /\ pc = "sweep" /\ ~SweepOver
    /\ IsPage(page)
    /\ pages' = pages + 1
    /\ found' = found \cup {s \in page : InWindow(s)}
    /\ reached' = EndsAtLaunch(page)
    /\ before' = IF reached' THEN before ELSE CHOOSE s \in page : \A r \in page : s <= r
    /\ atStart' = IF pages = 0 THEN {s \in index : InWindow(s)} ELSE atStart
    /\ UNCHANGED <<chainVars, tape, pc, sweep, broken, expected, added, flaw, fetchVars,
                   verdict, earlier>>

PageFails ==
    /\ pc = "sweep" /\ ~SweepOver
    /\ pages' = pages + 1
    /\ broken' = TRUE
    /\ UNCHANGED <<chainVars, tape, pc, sweep, before, reached, found, expected, added, flaw,
                   fetchVars, verdict, atStart, earlier>>

(* A sweep cut off by the page cap taken for complete. *)
OnlyErrors == broken

(* errors, page_cap_hit or not all_reached *)
SweepFlaw == broken \/ ~reached

(* One more sweep after a pause, or the gaps of the tape. *)
EndSweep ==
    /\ pc = "sweep" /\ SweepOver
    /\ flaw' = (flaw \/ SweepFlaw)
    /\ added' = (found \ expected # {})
    /\ earlier' = expected
    /\ expected' = expected \cup found
    /\ sweep' = sweep + 1
    /\ IF sweep + 1 < Sweeps
       THEN /\ before' = MaxSigs + 1
            /\ pages' = 0
            /\ reached' = FALSE /\ broken' = FALSE
            /\ found' = {Launch}
            /\ UNCHANGED <<pc, fetchVars>>
       ELSE LET missing == expected' \ (tape \cup {Launch})
            IN  /\ pc' = "fetch"
                /\ capped' = (Cardinality(missing) > MaxTxs)
                /\ \E some \in SUBSET missing :
                     /\ todo' = some
                     /\ IF capped' THEN Cardinality(some) = MaxTxs ELSE some = missing
                /\ UNCHANGED <<sweepVars, fetched, lost>>
    /\ UNCHANGED <<chainVars, tape, verdict, atStart>>

Fetch(s) ==
    /\ pc = "fetch" /\ s \in todo
    /\ todo' = todo \ {s}
    /\ \/ fetched' = fetched \cup {s} /\ UNCHANGED lost
       \/ lost' = lost \cup {s} /\ UNCHANGED fetched
    /\ UNCHANGED <<chainVars, tape, pc, sweep, sweepVars, expected, added, flaw, capped,
                   verdict, atStart, earlier>>

(* The tape taken as it is. *)
UnfilteredTape == tape \cup fetched

(* Signatures whose trades the audit scores. *)
Audited == (tape \cap expected) \cup fetched

Stable == sweep >= 2 /\ ~added

Accounted == Audited \cup {Launch}

Enough == 100 * Cardinality(Accounted \cap expected) >= MinPercent * Cardinality(expected)

(* A failed fetch forgiven by the fraction. *)
ValidByFraction == ~flaw /\ Stable /\ ~capped /\ Enough

Valid ==
    /\ ~flaw /\ Stable /\ ~capped
    /\ lost = {}
    /\ Enough

(* A verdict only when nothing was lost. *)
JudgeComplete ==
    /\ pc = "fetch" /\ todo = {} /\ lost = {}
    /\ pc' = "done"
    /\ verdict' = IF Valid THEN "VALID" ELSE "INVALID"
    /\ UNCHANGED <<chainVars, tape, sweep, sweepVars, expected, added, flaw, fetchVars,
                   atStart, earlier>>

Judge ==
    /\ pc = "fetch" /\ todo = {}
    /\ pc' = "done"
    /\ verdict' = IF Valid THEN "VALID" ELSE "INVALID"
    /\ UNCHANGED <<chainVars, tape, sweep, sweepVars, expected, added, flaw, fetchVars,
                   atStart, earlier>>

Node ==
    \/ \E s \in Sigs, t \in 0..Cut + 1, good \in BOOLEAN : Monotone(s, t) /\ List(s, t, good)
    \/ \E s \in Sigs, good \in BOOLEAN : List(s, None, good)
    \/ \E s \in Sigs, t \in 0..Cut + 1 : Stamp(s, t)

Audit ==
    \/ CreateFails \/ CreateFound
    \/ \E page \in SUBSET index : ReadPage(page)
    \/ PageFails \/ EndSweep
    \/ \E s \in Sigs : Fetch(s)
    \/ Judge

Next == Node \/ Audit

(* rpc() always returns (Pacer's EveryCallReturns), so the task goes on. *)
Spec == Init /\ [][Next]_vars /\ WF_vars(Audit)
-----------------------------------------------------------------------------
(* A VALID row was scored with every successful signature of the window    *)
(* that was listed when the last sweep began, although the index grew      *)
(* while it was paged; and that sweep saw nothing the earlier ones had     *)
(* missed.                                                                 *)
ValidCoversWindow ==
    verdict = "VALID" => atStart \subseteq Audited \cap earlier

(* What the stream saw of an abandoned fork, and what failed on the chain, *)
(* is never scored as confirmed.                                           *)
AuditedConfirmed ==
    verdict = "VALID" => \A s \in Audited : s \in index /\ ok[s]

(* min_fraction gives no partial credit: one signature that is neither on  *)
(* the tape nor fetched makes the row INVALID.                             *)
NoPartialCredit ==
    verdict = "VALID" => expected \subseteq Accounted

(* Caps, failed sweeps and failed fetches end the audit, they do not hold  *)
(* it up.                                                                  *)
AuditEnds == <>(verdict # None)
================================================================================
