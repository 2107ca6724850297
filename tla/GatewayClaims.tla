--------------------------- MODULE GatewayClaims ---------------------------
(***************************************************************************)
(* What the repository's documents and comments say of the action gateway  *)
(* where the code does something else.  Each claim is stated as it is      *)
(* written; the run that checks it ends in a behaviour of the code that    *)
(* contradicts it.                                                         *)
(***************************************************************************)
EXTENDS ActionGateway

\* Action authority, rule 2: a denial of the matrix cannot be overridden by approval, so
\* what a denied row proposes never starts (approve_action accepts a run that is Proposed).
DenyIsFinal == \A r \in Present : Row[r] = "deny" => run[r].status \notin Started

\* While a run's command executes, no other run with its idempotency key is admitted
\* (reject_action cancels a Running record, and a cancelled run releases its key).
NoDuplicateWhileRunning ==
    \A t \in Tasks : task[t].pc = "platform" =>
        ~\E s \in Runs \ {task[t].run} : KeyOf[s] = KeyOf[task[t].run] /\ Admitted(s)

\* An Issue's status is derived, not set: with nothing in flight it is the status its
\* work implies (a Mitigating Issue whose work is done cannot move to Resolved).
DerivedWhenQuiet ==
    Up /\ (\A t \in Tasks : task[t].pc = "idle") =>
        \A i \in Issues : Live(i) => issue[i] = DerivedStatus(i)
=============================================================================
