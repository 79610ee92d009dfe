-------------------------------- MODULE Saga --------------------------------
(***************************************************************************)
(* What the workflow engine promises its callers, without slots, cursors,  *)
(* activations or recovery: a workflow performs its effects in step order, *)
(* then either commits with all of them, or takes them back latest first   *)
(* and ends with none; if an effect could not be taken back, it ends       *)
(* stuck, and says which.  include/workflow.h, lines 9 to 26.              *)
(***************************************************************************)
EXTENDS Naturals

CONSTANTS Workflows, MaxSteps

VARIABLES
  phase,      \* of each workflow
  owed,       \* the steps that must be in effect for it to commit
  held,       \* the steps that are in effect
  given       \* the steps whose reversal failed

vars == <<phase, owed, held, given>>

Steps == 0 .. MaxSteps - 1
Above(S, k) == \A j \in S : j < k

Init ==
  /\ phase = [w \in Workflows |-> "free"]
  /\ owed = [w \in Workflows |-> {}]
  /\ held = [w \in Workflows |-> {}]
  /\ given = [w \in Workflows |-> {}]

Start(w, U) ==
  /\ phase[w] = "free"
  /\ phase' = [phase EXCEPT ![w] = "forward"]
  /\ owed' = [owed EXCEPT ![w] = U]
  /\ UNCHANGED <<held, given>>

(* Effects appear in step order, none skipped; the last one may commit.    *)
Perform(w, K) ==
  /\ phase[w] = "forward"
  /\ K \subseteq owed[w] \ held[w]
  /\ \A k \in K, j \in owed[w] : j < k => j \in held[w] \union K
  /\ held' = [held EXCEPT ![w] = @ \union K]
  /\ \/ UNCHANGED phase
     \/ held'[w] = owed[w] /\ phase' = [phase EXCEPT ![w] = "committed"]
  /\ UNCHANGED <<owed, given>>

(* A failed step, or the recovery of an abandoned workflow, turns back.    *)
TurnBack(w) ==
  /\ phase[w] \in {"forward", "backward"}
  /\ phase' = [phase EXCEPT ![w] = "backward"]
  /\ given' = [given EXCEPT ![w] = {}]
  /\ UNCHANGED <<owed, held>>

(* The latest effect not given up on goes away, or cannot be made to.      *)
Reverse(w, k) ==
  /\ phase[w] = "backward"
  /\ Above(held[w] \ (given[w] \union {k}), k)
  /\ \/ held' = [held EXCEPT ![w] = @ \ {k}] /\ UNCHANGED given
     \/ /\ given' = [given EXCEPT ![w] = @ \union {k}]
        /\ held' \in {held, [held EXCEPT ![w] = @ \ {k}]}
  /\ UNCHANGED <<phase, owed>>

Finish(w) ==
  /\ phase[w] = "backward"
  /\ held[w] \subseteq given[w]
  /\ phase' = [phase EXCEPT ![w] = IF given[w] = {} THEN "reversed" ELSE "stuck"]
  /\ UNCHANGED <<owed, held, given>>

Forget(w) ==
  /\ phase[w] \in {"committed", "reversed", "stuck"}
  /\ phase' = [phase EXCEPT ![w] = "free"]
  /\ owed' = [owed EXCEPT ![w] = {}]
  /\ held' = [held EXCEPT ![w] = {}]
  /\ given' = [given EXCEPT ![w] = {}]

Next ==
  \E w \in Workflows :
    \/ \E U \in SUBSET Steps : Start(w, U) \/ Perform(w, U)
    \/ TurnBack(w)
    \/ \E k \in Steps : Reverse(w, k)
    \/ Finish(w)
    \/ Forget(w)

Spec == Init /\ [][Next]_vars
=============================================================================
