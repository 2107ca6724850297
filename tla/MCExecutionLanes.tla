-------------------------- MODULE MCExecutionLanes --------------------------
(***************************************************************************)
(* Four requests on two resources: two for both, in opposite orders, and    *)
(* one for each.                                                           *)
(***************************************************************************)
EXTENDS ExecutionLanes

CONSTANTS restart, reload, status, tail

MCRequests == {restart, reload, status, tail}
MCResources == {1, 2}
MCTargetIds ==
    [r \in MCRequests |-> CASE r = restart -> <<2, 1>>
                            [] r = reload -> <<1, 2>>
                            [] r = status -> <<1>>
                            [] OTHER -> <<2>>]

\* The others run outside any operation.
MCScoped == {restart}
=============================================================================
