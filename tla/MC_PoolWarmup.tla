---------------------------- MODULE MC_PoolWarmup ----------------------------
EXTENDS PoolWarmup, TLC

CONSTANTS u1, u2, s1, s2, s3

MCUsers   == {u1, u2}
MCSockets == {s1, s2, s3}
MCValues  == {0, 1}

MCSymmetry == Permutations(MCUsers) \cup Permutations(MCSockets)
=============================================================================
