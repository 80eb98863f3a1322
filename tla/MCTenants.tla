------------------------------ MODULE MCTenants ------------------------------
EXTENDS TenantFacts, TLC

\* Tenants are interchangeable.
Symmetry == Permutations(Schema)
=============================================================================
