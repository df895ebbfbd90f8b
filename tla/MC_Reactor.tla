----------------------------- MODULE MC_Reactor -----------------------------
EXTENDS Reactor

CONSTANTS e1, e2

MCEvents == {e1, e2}
=============================================================================
