-------------------------- MODULE MCHostErrorsCache --------------------------
(* Small instances of HostErrorsCache.  Two keys and two workers need at    *)
(* most four items: one per key and one per pointer a worker holds.         *)
EXTENDS HostErrorsCache

CONSTANTS w1, w2, k1, k2, i1, i2, i3, i4

TwoWorkers == {w1, w2}
OneKey == {k1}
TwoKeys == {k1, k2}
FourItems == {i1, i2, i3, i4}
=============================================================================
