---------------------------- MODULE MCTodoPatch ----------------------------
\* Two patches, one of them vacant, two places for receipts, and a person.
EXTENDS TodoPatch

CONSTANTS p, q, r1, r2

render(text) == [op |-> "render", text |-> text]
apply(text, receipt) == [op |-> "apply", approved |-> text, receipt |-> receipt]

Workflow == {render(p), render(q), apply(p, r1), apply(p, r2), apply(q, r1)}
=============================================================================
