---------------------------- MODULE SendService ----------------------------
(***************************************************************************)
(* What the radio worker promises of the sends it accepts, without its     *)
(* threads, queues and backend: each accepted send is answered at most     *)
(* once, as sent or as failed, in the order of acceptance; and all that    *)
(* wait may be abandoned together, which is what the end of the thread     *)
(* does (src/radio/radio_worker.cpp, post and handleSend).                 *)
(***************************************************************************)
EXTENDS Integers

CONSTANT Ids      \* the numbers of the sends, a set of naturals

VARIABLE status   \* what has become of each send

Statuses == {"new", "waiting", "sent", "failed", "abandoned"}

Init == status = [i \in Ids |-> "new"]

WaitingSends == {i \in Ids : status[i] = "waiting"}

\* A send is accepted after those with smaller numbers, by a thread that
\* serves ("waiting") or by one that is on its way out ("abandoned").
Accept(i) ==
    /\ status[i] = "new"
    /\ \A j \in Ids : j > i => status[j] = "new"
    /\ \E s \in {"waiting", "abandoned"} : status' = [status EXCEPT ![i] = s]

\* The oldest waiting send is answered.
Answer(i) ==
    /\ i \in WaitingSends
    /\ \A j \in WaitingSends : i <= j
    /\ \E s \in {"sent", "failed"} : status' = [status EXCEPT ![i] = s]

Abandon ==
    /\ WaitingSends # {}
    /\ status' = [i \in Ids |-> IF i \in WaitingSends THEN "abandoned" ELSE status[i]]

Next == Abandon \/ \E i \in Ids : Accept(i) \/ Answer(i)

Spec == Init /\ [][Next]_status
=============================================================================
