---------------------------- MODULE MCPassChain ----------------------------
(***************************************************************************)
(* A small instance of PassChain: what a Team may conclude.                *)
(***************************************************************************)
EXTENDS PassChain, TLC

CONSTANTS t1, t2

Say(outcome, follow, proposes) == [outcome |-> outcome, follow |-> follow, proposes |-> proposes]

\* It asks for probes, proposes with a follow-up, or claims success.
TeamSays ==
    {Say("NeedsMoreData", FALSE, 0), Say("DiagnosisOnly", TRUE, 1), Say("Solved", FALSE, 0)}

TaskSymmetry == Permutations({t1, t2})
=============================================================================
