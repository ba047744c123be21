------------------------------- MODULE Queue -------------------------------
(***************************************************************************)
(* What the runner of a session does with its array of queued items beside *)
(* push and unshift: it takes items from anywhere in it and leaves the     *)
(* others in their order.  Defined by positions instead of by recursion,   *)
(* so that Queue_proofs can say what it returns for every queue.           *)
(***************************************************************************)
EXTENDS Naturals, Sequences, FiniteSets

\* The positions of the items of q that are in S, and how many there are up to
\* the position k.
Kept(q, S) == {k \in DOMAIN q : q[k] \in S}
UpTo(q, S, k) == Cardinality({j \in Kept(q, S) : j <= k})

\* The items of q that are in S, in their order (takeQueuedItem and
\* drainQueuedMessagesMatching leave the others of the array as they were).
Keep(q, S) == [n \in 1 .. Cardinality(Kept(q, S)) |->
                  q[CHOOSE k \in Kept(q, S) : UpTo(q, S, k) = n]]

\* The set of the items of q, each of which is usually in it once.
Members(q) == {q[k] : k \in DOMAIN q}
Distinct(q) == \A j, k \in DOMAIN q : q[j] = q[k] => j = k
Without(q, i) == Keep(q, Members(q) \ {i})
=============================================================================
