---------------------------- MODULE MCRelaxation ----------------------------
(* Every directed graph over a few nodes. Edges into the source are left    *)
(* out, no path gets shorter over one of them.                              *)
EXTENDS Relaxation

CONSTANT Weights

None == 99     \* no edge

Link == {l \in Node \X Node : l[1] # l[2] /\ l[2] # Source}

MCGraphs ==
    {{[from |-> l[1], to |-> l[2], weight |-> w[l]] : l \in {k \in Link : w[k] # None}} :
        w \in [Link -> Weights \cup {None}]}
=============================================================================
