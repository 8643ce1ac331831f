------------------------ MODULE MCSessionSnapshots ------------------------
EXTENDS SessionSnapshots, TLC

CONSTANTS A, D, B, C

\* A and D extend B, which extends C.
Chain == [f \in Files |-> CASE f \in {A, D} -> {B} [] f = B -> {C} [] OTHER -> {}]

\* Or C extends B again; or it extends one of A and D, and the other nothing.
Chains == {Chain, [Chain EXCEPT ![C] = {B}], [Chain EXCEPT ![C] = {A}, ![D] = {}],
           [Chain EXCEPT ![C] = {D}, ![A] = {}]}

\* The layouts do not tell A and D apart.
Alike == Permutations({A, D})

\* Bounds: three snapshots over the plain chain, two over a circle, and API requests
\* only over the plain chain and without edits.
Bounds ==
    /\ extends # Chain => lastId < 3
    /\ apiProjects # "none" \/ asking # NoHandle => extends = Chain /\ expired = {}

BoundedSpec == Init /\ [][Next /\ Bounds']_vars
=============================================================================
