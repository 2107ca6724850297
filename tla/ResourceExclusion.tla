------------------------- MODULE ResourceExclusion -------------------------
(***************************************************************************)
(* What the Platform promises of commands on common resources             *)
(* (platform.rs, lines 94-98): a request is let in for all its targets at   *)
(* once, never beside another that has a target in common, it touches one   *)
(* target at a time, and when it leaves nothing of it touches anything.     *)
(* Nothing is said of locks, queues or processes.                           *)
(***************************************************************************)
CONSTANTS Requests,     \* the executions asked of the Platform
          Resources,
          Wanted(_)     \* the resources a request is for

VARIABLES inside,       \* the requests that were let in
          touching      \* the pairs <<request, resource>> a command works at

vars == <<inside, touching>>

\* The requests that cannot be inside together.
Conflict(r, q) == Wanted(r) \cap Wanted(q) # {}

TouchedBy(r) == {r} \X Resources

Init ==
    /\ inside = {}
    /\ touching = {}

LetIn(r) ==
    /\ r \notin inside
    /\ \A q \in inside : ~ Conflict(r, q)
    /\ inside' = inside \cup {r}
    /\ UNCHANGED touching

Touch(r, t) ==
    /\ r \in inside
    /\ t \in Wanted(r)
    /\ touching \cap TouchedBy(r) = {}
    /\ touching' = touching \cup {<<r, t>>}
    /\ UNCHANGED inside

Release(r, t) ==
    /\ <<r, t>> \in touching
    /\ touching' = touching \ {<<r, t>>}
    /\ UNCHANGED inside

Leave(r) ==
    /\ r \in inside
    /\ inside' = inside \ {r}
    /\ touching' = touching \ TouchedBy(r)

Next ==
    \E r \in Requests :
        \/ LetIn(r)
        \/ Leave(r)
        \/ \E t \in Resources : Touch(r, t) \/ Release(r, t)

Spec == Init /\ [][Next]_vars
=============================================================================
