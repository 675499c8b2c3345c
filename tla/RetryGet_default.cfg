CONSTANT Budgets <- Default
SPECIFICATION Spec
INVARIANT RaisesTheProblem
CHECK_DEADLOCK FALSE
