------------------------------ MODULE MCAccess ------------------------------
EXTENDS Access

CONSTANTS u1, owner, custom, tenantToken, platformToken

TwoPermissions == {"leads:convert", "leads:delete"}
Converting == {"leads:convert"}
ServedRoutes == {route \in LeadRoutes \cup BranchRoutes :
                     route.needs = Converting \/ route.needs = {}}
BearerOf == [t \in Token |-> u1]
=============================================================================
