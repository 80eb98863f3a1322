--------------------------- MODULE MCTenantSchema ---------------------------
EXTENDS TenantSchema

CONSTANT tenant
=============================================================================
