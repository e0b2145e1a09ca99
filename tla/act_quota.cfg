CONSTANTS
    k1 = k1
    k2 = k2
    k3 = k3
    i1 = i1
    i2 = i2
    w1 = w1
    c1 = c1
    c2 = c2
    g1 = g1
    NoOne = NoOne
    Conn = {k1, k2}
    Desktop = {i1}
    Web = {w1}
    Code = {c1, c2}
    Grant = {g1}
    Quotas <- TwoQuotas
SPECIFICATION Spec
SYMMETRY Symmetric
CHECK_DEADLOCK FALSE
INVARIANT QuotaHeld
INVARIANT RevokedLicenceHasNoDevice
INVARIANT ActivationIsAtomic
INVARIANT OnlineCertificatesAreEarned
PROPERTY TokensEndOnce
