---------------------------- MODULE EventChannel ----------------------------
(***************************************************************************)
(* The event queue of the radio worker on its own: the worker thread       *)
(* pushes (pushEvent), the user interface pops (tryPopEvent), and every    *)
(* event carries in id the number of its push, so that order, loss and the *)
(* reporting of losses can be stated.                                      *)
(***************************************************************************)
EXTENDS EventQueue

CONSTANT MaxPushes    \* bound: events pushed in a behaviour

ASSUME MaxPushesAssumption == MaxPushes \in Nat

VARIABLES
    events,           \* _events
    pendingDropped,   \* _pending_dropped_events
    pushed,           \* history: events pushed so far
    delivered,        \* history: number of the last event popped, 0 if none
    taken,            \* history: events popped
    announced         \* history: sum of the RadioQueueOverflowEvents popped

vars == <<events, pendingDropped, pushed, delivered, taken, announced>>

Init ==
    /\ events = <<>> /\ pendingDropped = 0
    /\ pushed = 0 /\ delivered = 0 /\ taken = 0 /\ announced = 0

\* Packets are the events that may be given up first; every other kind is
\* treated alike, so one stands for all.
ChannelKinds == {"RxPacket", "TxCompleted"}

PushEvent(kind) ==
    /\ pushed < MaxPushes
    /\ pushed' = pushed + 1
    /\ events' = Enqueue(events, SendEvent(kind, pushed + 1))
    /\ pendingDropped' = pendingDropped + Lost(events)
    /\ UNCHANGED <<delivered, taken, announced>>

PopOverflow ==
    /\ pendingDropped # 0
    /\ announced' = announced + pendingDropped
    /\ pendingDropped' = 0
    /\ UNCHANGED <<events, pushed, delivered, taken>>

PopEvent ==
    /\ pendingDropped = 0 /\ events # <<>>
    /\ delivered' = Head(events).id
    /\ taken' = taken + 1
    /\ events' = Tail(events)
    /\ UNCHANGED <<pendingDropped, pushed, announced>>

Next ==
    \/ \E kind \in ChannelKinds : PushEvent(kind)
    \/ PopOverflow \/ PopEvent

Spec == Init /\ [][Next]_vars

-----------------------------------------------------------------------------
ChannelEvents == [kind : ChannelKinds, id : 1 .. MaxPushes]

\* Every variable has its type and the queue keeps to its capacity.
TypeOK ==
    /\ events \in Seq(ChannelEvents) /\ Len(events) <= EventCap
    /\ pendingDropped \in Nat /\ pushed \in 0 .. MaxPushes
    /\ delivered \in 0 .. MaxPushes /\ taken \in Nat /\ announced \in Nat

\* Nothing leaves the queue unseen: every push is queued, was popped, or is
\* counted in a drop report already popped or still to come.
Conservation == pushed = taken + announced + pendingDropped + Len(events)

\* Giving up an event from the middle of the queue never reorders the rest:
\* the user interface sees events in the order they were pushed.
Ordered ==
    /\ \A i, j \in DOMAIN events : i < j => events[i].id < events[j].id
    /\ \A i \in DOMAIN events : delivered < events[i].id /\ events[i].id <= pushed
    /\ delivered <= pushed

\* The newest event is never the one given up, however full the queue: once
\* the queue is drained the user interface has seen the last state pushed.
NewestKept ==
    IF events = <<>> THEN delivered = pushed ELSE events[Len(events)].id = pushed

\* A flood of received packets cannot push out a state or the outcome of a
\* send: such an event is given up only by a queue that holds no packet.
ControlOutlivesPackets ==
    [][pushed' # pushed =>
        \A i \in DOMAIN events :
            ~IsRx(events[i]) /\ (\A j \in DOMAIN events' : events'[j] # events[i])
                => RxPositions(events) = {}]_vars
=============================================================================
