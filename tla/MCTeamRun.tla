----------------------------- MODULE MCTeamRun -----------------------------
(***************************************************************************)
(* A small instance of TeamRun: one run with the full repertoire of a      *)
(* model and one that spends beside it.                                    *)
(***************************************************************************)
EXTENDS TeamRun, TLC

CONSTANTS r1, r2

Say(kind, tokens, tools) == [kind |-> kind, tokens |-> tokens, tools |-> tools]

\* r1 proposes before it claims success, and inspects too often before it asks
\* for probes, in an answer whose usage is unreported; r2 calls what it was not
\* offered and concludes, answers in prose, or errs in an answer that is billed.
TeamAnswers ==
    (r1 :> {Say("turn", 1, <<"propose", "solved">>),
            Say("turn", 0, <<"inspect", "inspect", "probes">>)})
    @@ (r2 :> {Say("turn", 2, <<"probes", "propose", "diagnosis">>), Say("text", 1, <<>>),
               Say("retry", 1, <<>>)})
=============================================================================
