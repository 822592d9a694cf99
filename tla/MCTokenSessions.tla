-------------------------- MODULE MCTokenSessions --------------------------
(***************************************************************************)
(* Small instances of TokenSessions: two requests in progress.             *)
(***************************************************************************)
EXTENDS TokenSessions

CONSTANTS r1, r2, p1, p2, p3, p4, a1, a2

\* Two sign-ins from one address have overlapped: neither saw the other's tokens.
\* From here two refreshes can block each other.
OverlappingSignIns ==
    /\ token = [x \in Tokens |-> IF x[2] \in {p1, p2} THEN "active" ELSE "unissued"]
    /\ issued = [p \in Pairs |-> [at |-> IF p \in {p1, p2} THEN a1 ELSE NoAddress,
                                  from |-> NoPair]]
    /\ request = [r \in Requests |-> Idle]

EndsSpec == OverlappingSignIns /\ [][Next]_vars /\ Fairness
=============================================================================
