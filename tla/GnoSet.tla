------------------------------- MODULE GnoSet -------------------------------
(***************************************************************************)
(* What a uuidSet promises: each list is a plain set of gnos, and every    *)
(* operation of gtid.c on it is the set operation its name says.  No       *)
(* intervals, no tail, no loops.                                           *)
(***************************************************************************)
EXTENDS Integers

CONSTANTS Lists,   \* the uuidSets of one uuid that the operations work on
          MaxGno   \* the largest gno (the model's LLONG_MAX - 1)

VARIABLE gnos      \* gnos[l]: the set of gnos of list l

Ranges == {r \in (1..MaxGno) \X (1..MaxGno) : r[1] <= r[2]}

\* The gno after the greatest one, 1 for an empty set.
NextOf(S, n) == IF S = {} THEN n = 1
                ELSE n - 1 \in S /\ \A g \in S : g < n

Init == gnos = [l \in Lists |-> {}]

AddRange(l) == \E r \in Ranges :
    gnos' = [gnos EXCEPT ![l] = @ \cup (r[1]..r[2])]

RemoveRange(l) == \E r \in Ranges :
    gnos' = [gnos EXCEPT ![l] = @ \ (r[1]..r[2])]

TakeNext(l) == \E n \in 1..MaxGno :
    /\ NextOf(gnos[l], n)
    /\ gnos' = [gnos EXCEPT ![l] = @ \cup {n}]

Copy(d, s) == gnos' = [gnos EXCEPT ![d] = gnos[s]]

Merge(d, s) == gnos' = [gnos EXCEPT ![d] = @ \cup gnos[s]]

Diff(d, s) == gnos' = [gnos EXCEPT ![d] = @ \ gnos[s]]

Next == \/ \E l \in Lists : AddRange(l) \/ RemoveRange(l) \/ TakeNext(l)
        \/ \E d, s \in Lists :
             d # s /\ (Copy(d, s) \/ Merge(d, s) \/ Diff(d, s))

Spec == Init /\ [][Next]_gnos
=============================================================================
