-------------------------- MODULE MCHelperService --------------------------
EXTENDS HelperService, TLC

\* Sessions are interchangeable.
Symmetry == Permutations(Session)
=============================================================================
