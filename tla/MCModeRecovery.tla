---------------------------- MODULE MCModeRecovery ----------------------------
EXTENDS ModeRecovery, TLC

CONSTANTS j1, j2, a1, a2, c1, c2
=============================================================================
