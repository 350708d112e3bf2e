----------------------------- MODULE EventQueue -----------------------------
(***************************************************************************)
(* The bounded queue through which the radio worker reports to the user    *)
(* interface (src/radio/radio_worker.cpp, pushEvent and tryPopEvent).      *)
(*                                                                         *)
(* An event is a record [kind, id].  A RadioStateEvent is represented by   *)
(* the name of its state; the two uses the code makes of RadioErrorEvent   *)
(* are told apart because ChatModel::tick does; id is 0 unless the event   *)
(* belongs to a send.                                                      *)
(***************************************************************************)
EXTENDS Integers, SequencesExt

CONSTANT EventCap     \* kEventQueueCapacity, 64 in the program

ASSUME EventCapAssumption == EventCap \in Nat \ {0}

StateKinds   == {"Initializing", "Idle", "Receiving", "Sending", "Error",
                 "Stopping", "Stopped"}
OutcomeKinds == {"TxCompleted", "TxFailed"}
EventKinds   == StateKinds \union OutcomeKinds \union
                {"Initialized", "InitializeError", "OtherError", "RxPacket", "TxStarted"}

Event(kind)       == [kind |-> kind, id |-> 0]
SendEvent(kind, i) == [kind |-> kind, id |-> i]

IsRx(e) == e.kind = "RxPacket"

\* Where the received packets are in the queue.
RxPositions(q) == {i \in DOMAIN q : IsRx(q[i])}

\* Mutation: the oldest event goes, whatever it is.
VictimIsOldest(q) == 1

\* The event a full queue gives up: its oldest received packet if it holds
\* one, its oldest event otherwise.
Victim(q) ==
    IF RxPositions(q) = {} THEN 1
    ELSE CHOOSE i \in RxPositions(q) : \A j \in RxPositions(q) : i <= j

\* Mutation: the comparison of the size with the capacity is off by one.
IsFullTooLate(q) == Len(q) > EventCap

IsFull(q) == Len(q) >= EventCap

\* Mutations: the new event takes the place of the old one; a full queue
\* refuses the new event.
EnqueueInPlace(q, e) == IF IsFull(q) THEN [q EXCEPT ![Victim(q)] = e] ELSE Append(q, e)
EnqueueOrRefuse(q, e) == IF IsFull(q) THEN q ELSE Append(q, e)

\* pushEvent: the new event is always kept.
Enqueue(q, e) == Append(IF IsFull(q) THEN RemoveAt(q, Victim(q)) ELSE q, e)

\* Mutation: the drop is not counted.
LostUncounted(q) == 0

\* What pushEvent adds to _pending_dropped_events.
Lost(q) == IF IsFull(q) THEN 1 ELSE 0
=============================================================================
