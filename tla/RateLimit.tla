------------------------------- MODULE RateLimit -------------------------------
(***************************************************************************)
(* What the pacer of scripts/audit_selected_live60.py promises the RPC     *)
(* node: "all request starts share one conservative global pacer" and an   *)
(* overload "triggers a global cooldown".  No tasks and no lock: only the  *)
(* time of the next allowed start and the end of the cooldown.             *)
(***************************************************************************)
EXTENDS Integers

CONSTANTS
    Interval,    \* least time between two request starts
    MinPenalty   \* least cooldown an overload causes

VARIABLES clock, next, cooldownUntil

vars == <<clock, next, cooldownUntil>>

Init == clock = 0 /\ next = 0 /\ cooldownUntil = 0

Tick == clock' = clock + 1 /\ UNCHANGED <<next, cooldownUntil>>

(* A request starts when neither the pace nor a cooldown forbids it. *)
Start ==
    /\ next <= clock
    /\ cooldownUntil <= clock
    /\ next' = clock + Interval
    /\ UNCHANGED <<clock, cooldownUntil>>

(* An overload blocks every start for a while and shortens no cooldown. *)
Block ==
    /\ cooldownUntil' \in Nat
    /\ cooldownUntil' >= cooldownUntil
    /\ cooldownUntil' >= clock + MinPenalty
    /\ UNCHANGED <<clock, next>>

Next == Tick \/ Start \/ Block

Spec == Init /\ [][Next]_vars
=============================================================================
