------------------------------ MODULE MCDrafts ------------------------------
EXTENDS Drafts, TLC

CONSTANTS a, b, p1, p2, t1

\* Two pipelines of both drafts, b below a, and a try of b that names a's run.
Chains == [p \in Pipes |-> IF p \in Tries THEN (b :> {a}) ELSE (a :> {}) @@ (b :> {a})]

\* Three pipelines, one of which dies; two, one of which dies, and one ending
\* fails; a pipeline and a try, one of which may die and one ending fail, and two
\* commands of the user's.
ThreeScenes == {[pipes |-> Pipes, stops |-> 1, commands |-> 0, faults |-> 0],
                [pipes |-> {p1, p2}, stops |-> 1, commands |-> 0, faults |-> 1],
                [pipes |-> {p2, t1}, stops |-> 1, commands |-> 2, faults |-> 1]}

\* A pipeline and a try of the draft below it, one of which dies.
OneTry == {[pipes |-> {p1, t1}, stops |-> 1, commands |-> 0, faults |-> 0]}
=============================================================================
