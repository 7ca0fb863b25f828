------------------------------ MODULE LossyFifo ------------------------------
(***************************************************************************)
(* What every buffering part of the system promises, whatever it loses:    *)
(* items are numbered in arrival order, an item leaves at most once and in *)
(* that order, and an item that was given up never comes back.             *)
(***************************************************************************)
EXTENDS Naturals, Sequences

VARIABLES
  arrived,  \* items offered so far; the n-th one is the number n
  held,     \* items that can still leave, oldest first
  out       \* items that have left, oldest first

fifoVars == <<arrived, held, out>>

StrictlyIncreasing(q) == \A j, k \in 1..Len(q) : j < k => q[j] < q[k]

Items(q) == {q[k] : k \in 1..Len(q)}

Extends(p, q) == Len(p) <= Len(q) /\ \A k \in 1..Len(p) : p[k] = q[k]

Init == arrived = 0 /\ held = <<>> /\ out = <<>>

\* Items arrive, leave and get lost, any number of them in one step.
Next ==
  /\ arrived' \in Nat /\ arrived <= arrived'
  /\ Extends(out, out')
  /\ StrictlyIncreasing(out' \o held')
  /\ Items(out' \o held') \subseteq Items(out \o held) \cup (arrived + 1)..arrived'

Spec == Init /\ [][Next]_fifoVars
=============================================================================
