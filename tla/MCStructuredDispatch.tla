-------------------------- MODULE MCStructuredDispatch --------------------------
EXTENDS StructuredDispatch, TLC

CONSTANTS d1, d2, d3, d4, s1, s2, s3, s4

Identities == Permutations(Dispatch) \cup Permutations(Session)
=================================================================================
