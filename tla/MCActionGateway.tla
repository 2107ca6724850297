-------------------------- MODULE MCActionGateway --------------------------
(***************************************************************************)
(* Small instances of ActionGateway.  Two runs r1 and r2, proposed by the  *)
(* passes j1 and j2; the .cfg files choose among these functions.          *)
(***************************************************************************)
EXTENDS GatewayClaims, TLC

CONSTANTS r1, r2, j1, j2, i1, t1, t2

TwoPasses == (r1 :> j1) @@ (r2 :> j2)
OnePass == (r1 :> j1) @@ (r2 :> j1)
SinglePass == r1 :> j1

OneIssue == [j \in Jobs |-> i1]

\* The two proposals are equal, or are not.
SameKey == [r \in Runs |-> "k"]
OwnKey == [r \in Runs |-> r]

\* Rows as the authority decides them, of a proposal for the one resource it knows.
Matrix == INSTANCE Authority

Decided(runbook, operationMode) ==
    Matrix!Outcome(
        [lists |-> [tunable |-> {}, security |-> {}, known |-> {}],
         catalog |-> [redis |-> "Redis"], unsafe |-> {}],
        [runbook |-> runbook, targets |-> {"redis"}, args |-> <<>>,
         capabilities |-> Matrix!OperateCapabilities, scope |-> {"redis"},
         mode |-> operationMode, repeat |-> FALSE])

BothAuto == [r \in Runs |-> Decided("redis.restart", "Rehearsal")]
BothApprove == [r \in Runs |-> Decided("redis.restart", "ContestLocked")]
AutoAndDeny == (r1 :> Decided("redis.restart", "Rehearsal"))
            @@ (r2 :> Decided("mq.purge", "ContestLocked"))

\* Requests are interchangeable.
TaskSymmetry == Permutations({t1, t2})
=============================================================================
