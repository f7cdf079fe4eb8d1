----------------------------- MODULE AppendOnlyLog -----------------------------
(***************************************************************************)
(* What the repository calls an append-only ledger: a path that was        *)
(* written keeps its content for ever.                                     *)
(***************************************************************************)

VARIABLE log   \* path |-> content

Init == log = <<>>

Extends(old, new) == \A p \in DOMAIN old : p \in DOMAIN new /\ new[p] = old[p]

Grow == Extends(log, log')

Spec == Init /\ [][Grow]_log
================================================================================
