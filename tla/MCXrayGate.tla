----------------------------- MODULE MCXrayGate -----------------------------
(* Model-checking instances of XrayGate. *)
EXTENDS XrayGate

CONSTANTS c1, c2, i1, i2

\* Connections are interchangeable, and so are instances: only executions that
\* use them in this order are explored. (A symmetry set would do the same for the
\* invariants, but not for liveness.)
InOrder ==
    /\ pc[c2] # "new" => pc[c1] # "new"
    /\ i2 \in Instance /\ inst[i2] # "unused" => inst[i1] # "unused"
=============================================================================
