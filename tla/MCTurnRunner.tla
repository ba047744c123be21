--------------------------- MODULE MCTurnRunner ---------------------------
(***************************************************************************)
(* Instances of TurnRunner for TLC: two messages, one of them sent to wait *)
(* for the end of the loop, a resumption, and one or two interrupts.       *)
(***************************************************************************)
EXTENDS TurnRunner

CONSTANTS m1, m2, resume, i1, i2

\* Keep filters like the standard operator, for the queues a session can have
\* (and for some with an item twice).
ASSUME KeepAssumption ==
    \A q \in UNION {[1 .. n -> Turns] : n \in 0 .. 4}, S \in SUBSET Turns :
        Keep(q, S) = SelectSeq(q, LAMBDA i : i \in S)
=============================================================================
