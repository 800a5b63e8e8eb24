--------------------------- MODULE MCTenantAccess ---------------------------
EXTENDS TenantAccess, TLC

Body(role, status) == [role |-> role, status |-> status]

\* Demotion, promotion, suspension and release.
MCPatches == {Body("technician", None), Body("tenant_admin", None),
              Body(None, "suspended"), Body(None, "active")}
Symmetry == Permutations(Callers) \cup Permutations(Links)

=============================================================================
