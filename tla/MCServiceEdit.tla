--------------------------- MODULE MCServiceEdit ---------------------------
(***************************************************************************)
(* ServiceEdit with a form for a new pod, for a VM, and for both.          *)
(***************************************************************************)
EXTENDS ServiceEdit

CONSTANTS d1, d2, n1

InFirst(n) == d1

Pod == [kind |-> "pod", host |-> n1]
VM(d) == [kind |-> "vm", host |-> d]

Symmetric == Permutations(Admins)

PodOrVM == {<<Pod>>, <<VM(d2)>>}
PodAndVM == {<<Pod, VM(d2)>>}
=============================================================================
