----------------------------- MODULE ProbeTask ------------------------------
(***************************************************************************)
(* What the runner relies on of a probe, whatever the probe is: it adds    *)
(* rows while it lasts and takes none back, ends once, adds nothing after  *)
(* that, and leaves the error row exactly when it failed.                  *)
(***************************************************************************)
CONSTANT Error   \* the error row

VARIABLES
  state,   \* "running" or how it ended
  stored   \* the rows in the store

task == <<state, stored>>

Init == state = "running" /\ stored = {}

\* New rows, the error row not among them.
Store == stored \subseteq stored' /\ Error \notin stored'

Work == /\ state = "running" /\ state' = "running"
        /\ Store

Finish == /\ state = "running" /\ state' \in {"skipped", "returned"}
          /\ Store

Fail == /\ state = "running" /\ state' \in {"raised", "cancelled"}
        /\ stored \subseteq stored' /\ Error \in stored'

Next == Work \/ Finish \/ Fail

Spec == Init /\ [][Next]_task
=============================================================================
