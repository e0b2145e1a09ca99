---------------------------- MODULE MCProvisioning ----------------------------
EXTENDS Provisioning, TLC

CONSTANTS p1, p2, q1, b1, b2, n1, n2, o1, o2

Symmetric == Permutations(Proc)

BothModes == {"shared", "database_per_tenant"}

===============================================================================
