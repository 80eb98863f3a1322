------------------------------- MODULE MCCrm --------------------------------
EXTENDS Crm, TLC

\* Ids and requests are interchangeable.
Symmetry == Permutations(Activity) \cup Permutations(Request)
=============================================================================
