-------------------------- MODULE MCAdministration --------------------------
(***************************************************************************)
(* Small instances of Administration.                                      *)
(***************************************************************************)
EXTENDS Administration, AuthorityTable, TLC

CONSTANTS i1, i2, p1, p2, rec

\* Each setting alone, dry_run both ways.
SingleChanges ==
    {"interval" :> FALSE, "dryRun" :> FALSE, "dryRun" :> TRUE, "tunable" :> FALSE}

Contents == {"same", "other", "archived", "unfinished", "ended", "changed"}
Documents == {"artifact", "snapshot", "issue", "job", "run", "own"}

\* A store that never saw the session, the one it was exported from, and two that differ.
Stores == {<<None, None>>, <<"same", "same">>, <<"other", None>>, <<"same", "other">>}

\* Imports are interchangeable, and so are changes of settings.
RequestSymmetry == Permutations({i1, i2}) \cup Permutations({p1, p2})
=============================================================================
