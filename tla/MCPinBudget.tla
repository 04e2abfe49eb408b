---------------------------- MODULE MCPinBudget ----------------------------
\* A small deployment for TLC: calls are interchangeable, and so are addresses.
EXTENDS PinBudget, TLC

Symmetry == Permutations(Call) \cup Permutations(Email)

=============================================================================
