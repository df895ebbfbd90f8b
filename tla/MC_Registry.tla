---------------------------- MODULE MC_Registry ----------------------------
(***************************************************************************)
(* Registry instantiated for TLC: two addresses and a process started 5 s *)
(* after the epoch.  MCMaxTime lets the clock run to 11 s, long enough for *)
(* a backend set Down after start to wait out 4 s and be promoted.        *)
(* MCShortMaxTime (1 s of clock) covers index and address questions,    *)
(* which do not depend on time beyond a check pass and a backward step.   *)
(***************************************************************************)
EXTENDS Registry, TLC

MCStartTime == 10
MCMaxTime == 22
MCShortMaxTime == 12
\* Backend addresses are interchangeable.
MCSymmetry == Permutations(Addresses)
=============================================================================
