----------------------------- MODULE MCActivation -----------------------------
EXTENDS Activation, TLC

CONSTANTS k1, k2, k3, i1, i2, w1, c1, c2, g1

TwoQuotas == {[total |-> 1, desktop |-> NoOne, web |-> 1],
              [total |-> 2, desktop |-> 1, web |-> NoOne]}

Symmetric == Permutations(Conn) \cup Permutations(Code) \cup Permutations(Desktop)

===============================================================================
