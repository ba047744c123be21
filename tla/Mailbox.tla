------------------------------ MODULE Mailbox ------------------------------
(***************************************************************************)
(* What a session promises about the items sent to it, without the         *)
(* coroutines, flags and agent loops that keep the promise: an item waits  *)
(* in one line, is worked on at most once, and leaves the line only to be  *)
(* worked on, merged into the work on another item, taken back by its      *)
(* sender, or returned together with every other item of the line.         *)
(***************************************************************************)
EXTENDS Queue

CONSTANTS
    Items,
    Messages,  \* the items a sender can take back, and that can be merged
    Nobody

VARIABLES
    line,     \* the items that wait
    patient,  \* those that let the others pass
    state     \* of each item

vars == <<line, patient, state>>

Init ==
    /\ line = <<>> /\ patient = {}
    /\ state = [i \in Items |-> "new"]

\* The first in line, the patient ones after all others.
First(l, p) ==
    LET pressing == Keep(l, Members(l) \ p)
    IN IF pressing # <<>> THEN Head(pressing)
       ELSE IF l # <<>> THEN Head(l) ELSE Nobody

\* With the line l, work on the first item may begin.
Serve(l, p, s) ==
    \/ line' = l /\ patient' = p /\ state' = s
    \/ LET i == First(l, p) IN
       /\ i # Nobody
       /\ line' = Without(l, i) /\ patient' = p \ {i}
       /\ state' = [s EXCEPT ![i] = "working"]

\* An item is sent, with nothing to wait for or with the wish to.
Send(i) ==
    /\ state[i] = "new"
    /\ \E p \in {patient, patient \cup ({i} \cap Messages)} :
           Serve(Append(line, i), p, [state EXCEPT ![i] = "waiting"])

\* Its sender moves an item to the front, or changes its placement.
Move(i) ==
    /\ i \in Messages /\ state[i] = "waiting"
    /\ \E p \in {patient \cup {i}, patient \ {i}} :
           Serve(<<i>> \o Without(line, i), p, state)

TakeBack(i) ==
    /\ i \in Messages /\ state[i] = "waiting"
    /\ line' = Without(line, i) /\ patient' = patient \ {i}
    /\ state' = [state EXCEPT ![i] = "returned"]

\* The work on an item ends, and the next one is begun.
Finish(i) ==
    /\ state[i] = "working"
    /\ Serve(line, patient, [state EXCEPT ![i] = "done"])

\* All items that do not wait for the end are merged into the work on i.
Merge(i) ==
    /\ state[i] = "working"
    /\ line' = Keep(line, patient \cup (Items \ Messages))
    /\ state' = [m \in Items |->
                    IF m \in Messages \ patient /\ state[m] = "waiting"
                    THEN "done" ELSE state[m]]
    /\ UNCHANGED patient

\* Only patient items wait: the first is merged.
MergeFirst(i) ==
    /\ state[i] = "working"
    /\ line # <<>>
    /\ \A k \in DOMAIN line : line[k] \in patient
    /\ line' = Tail(line)
    /\ patient' = patient \ {Head(line)}
    /\ state' = [state EXCEPT ![Head(line)] = "done"]

\* Everything that waits is returned.
ReturnAll ==
    /\ line' = <<>> /\ patient' = {}
    /\ state' = [m \in Items |-> IF state[m] = "waiting" THEN "returned" ELSE state[m]]

Next ==
    \/ ReturnAll
    \/ \E i \in Items : \/ Send(i) \/ Move(i) \/ TakeBack(i)
                        \/ Finish(i) \/ Merge(i) \/ MergeFirst(i)

Spec == Init /\ [][Next]_vars
=============================================================================
