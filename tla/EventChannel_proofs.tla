------------------------ MODULE EventChannel_proofs ------------------------
(***************************************************************************)
(* The event channel keeps its promises for every capacity and however     *)
(* many events are pushed.  The inductive invariant is the conjunction of  *)
(* the properties themselves: Ordered needs to know that the numbers in    *)
(* the queue are at most pushed, which it states, and NewestKept needs     *)
(* nothing but TypeOK.                                                     *)
(***************************************************************************)
EXTENDS EventChannel, EventQueue_proofs

ChannelInv == TypeOK /\ Conservation /\ Ordered /\ NewestKept

LEMMA ChannelInit == Init => ChannelInv
BY EventCapAssumption, MaxPushesAssumption
   DEF Init, ChannelInv, TypeOK, Conservation, Ordered, NewestKept

\* A push: the number of the new event is larger than every number before it.
LEMMA PushKeepsInv ==
    ASSUME ChannelInv, NEW kind \in ChannelKinds, PushEvent(kind)
    PROVE  ChannelInv'
<1> USE EventCapAssumption, MaxPushesAssumption
<1> DEFINE e == SendEvent(kind, pushed + 1)
<1>1. /\ events \in Seq(ChannelEvents) /\ Len(events) <= EventCap
      /\ pushed \in Nat /\ pushed < MaxPushes /\ pushed' = pushed + 1
      /\ events' = Enqueue(events, e)
      /\ pendingDropped' = pendingDropped + Lost(events)
      /\ UNCHANGED <<delivered, taken, announced>>
  BY DEF ChannelInv, TypeOK, PushEvent
<1>2. e \in ChannelEvents /\ e.id = pushed + 1
  BY <1>1 DEF ChannelEvents, SendEvent
<1> HIDE DEF e
<1>3. /\ events' \in Seq(ChannelEvents) /\ Len(events') <= EventCap
      /\ Len(events') + Lost(events) = Len(events) + 1
      /\ events' # <<>> /\ events'[Len(events')] = e
      /\ Lost(events) \in {0, 1}
  <2>1. events \in Seq(ChannelEvents) /\ Len(events) <= EventCap
    BY <1>1
  <2>2. /\ Enqueue(events, e) \in Seq(ChannelEvents) /\ Len(Enqueue(events, e)) <= EventCap
        /\ Len(Enqueue(events, e)) + Lost(events) = Len(events) + 1
        /\ Enqueue(events, e) # <<>> /\ Enqueue(events, e)[Len(Enqueue(events, e))] = e
        /\ Lost(events) \in {0, 1}
    BY <1>2, <2>1, EnqueueProperties
  <2>3. events' = Enqueue(events, e)
    BY <1>1
  <2>4. QED
    BY <2>2, <2>3
<1>4. TypeOK'
  BY <1>1, <1>3 DEF ChannelInv, TypeOK
<1>5. Conservation'
  <2>1. /\ taken \in Nat /\ announced \in Nat /\ pendingDropped \in Nat
        /\ Len(events) \in Nat /\ Lost(events) \in Nat
        /\ pushed = taken + announced + pendingDropped + Len(events)
    BY <1>1, <1>3 DEF ChannelInv, TypeOK, Conservation
  <2>2. Len(events') \in Nat
    BY <1>3
  <2>3. taken' = taken /\ announced' = announced
    BY <1>1
  <2> DEFINE n == Len(events')
             m == Len(events)
             d == Lost(events)
  <2>4. n + d = m + 1 /\ n \in Nat /\ m \in Nat /\ d \in Nat
    BY <1>3, <2>1, <2>2
  <2>5. pushed + 1 = taken + announced + (pendingDropped + d) + n
    <3>1. pushed = taken + announced + pendingDropped + m
      BY <2>1
    <3> HIDE DEF n, m, d
    <3>2. QED
      BY <2>1, <2>4, <3>1
  <2>6. QED
    BY <1>1, <2>3, <2>5 DEF Conservation
<1>6. Ordered'
  <2>1. PICK f \in [1 .. Len(events') - 1 -> 1 .. Len(events)] :
            \A k \in DOMAIN f : /\ events'[k] = events[f[k]]
                                /\ \A l \in DOMAIN f : k < l => f[k] < f[l]
    BY <1>1, <1>2, EnqueueOrder
  <2>2. DOMAIN f = 1 .. Len(events') - 1 /\ DOMAIN events' = 1 .. Len(events')
        /\ DOMAIN events = 1 .. Len(events) /\ Len(events') \in Nat \ {0}
    BY <1>1, <1>3
  <2>3. ASSUME NEW k \in DOMAIN f
        PROVE  /\ events'[k].id = events[f[k]].id
               /\ delivered < events'[k].id /\ events'[k].id <= pushed
    BY <2>1, <2>2 DEF ChannelInv, Ordered
  <2>4. ASSUME NEW k \in DOMAIN f, NEW l \in DOMAIN f, k < l
        PROVE  events'[k].id < events'[l].id
    <3>1. f[k] \in DOMAIN events /\ f[l] \in DOMAIN events /\ f[k] < f[l]
      BY <2>1, <2>2, <2>4
    <3>2. QED
      BY <3>1, <2>1, <2>4 DEF ChannelInv, Ordered
  <2>5. events'[Len(events')].id = pushed + 1 /\ delivered <= pushed
    BY <1>2, <1>3 DEF ChannelInv, Ordered
  <2>6. \A i \in DOMAIN events' : i \in DOMAIN f \/ i = Len(events')
    BY <2>2
  <2>7. delivered \in Nat /\ \A i \in DOMAIN events' : events'[i].id \in Nat
    <3>1. \A i \in DOMAIN events' : events'[i] \in ChannelEvents
      BY <1>3
    <3>2. \A x \in ChannelEvents : x.id \in Nat
      BY DEF ChannelEvents
    <3>3. delivered \in Nat
      BY DEF ChannelInv, TypeOK
    <3>4. QED
      BY <3>1, <3>2, <3>3
  <2>8. \A i, j \in DOMAIN events' : i < j => events'[i].id < events'[j].id
    <3>1. SUFFICES ASSUME NEW i \in DOMAIN events', NEW j \in DOMAIN events', i < j
                   PROVE  events'[i].id < events'[j].id
      OBVIOUS
    <3>2. i \in DOMAIN f
      BY <3>1, <2>2
    <3>3. CASE j \in DOMAIN f
      BY <3>1, <3>2, <3>3, <2>4
    <3>4. CASE j = Len(events')
      BY <3>2, <3>4, <2>3, <2>5, <2>7, <1>1
    <3>5. QED
      BY <3>3, <3>4, <2>6
  <2>9. \A i \in DOMAIN events' : delivered < events'[i].id /\ events'[i].id <= pushed + 1
    BY <2>3, <2>5, <2>6, <2>7, <1>1
  <2>10. QED
    BY <2>5, <2>8, <2>9, <2>7, <1>1 DEF Ordered, ChannelInv, TypeOK
<1>7. NewestKept'
  BY <1>1, <1>2, <1>3 DEF NewestKept
<1>8. QED
  BY <1>4, <1>5, <1>6, <1>7 DEF ChannelInv

\* A pop: the head of an ordered queue has the smallest number left.
LEMMA PopKeepsInv ==
    ASSUME ChannelInv, PopEvent
    PROVE  ChannelInv'
<1>1. /\ events \in Seq(ChannelEvents) /\ events # <<>>
      /\ events' = Tail(events) /\ delivered' = Head(events).id /\ taken' = taken + 1
      /\ UNCHANGED <<pendingDropped, pushed, announced>>
  BY DEF ChannelInv, TypeOK, PopEvent
<1>2. /\ events' \in Seq(ChannelEvents) /\ Len(events') = Len(events) - 1
      /\ \A k \in 1 .. Len(events) - 1 : events'[k] = events[k + 1]
      /\ Head(events) = events[1] /\ Len(events) \in Nat \ {0}
      /\ Head(events) \in ChannelEvents
  BY <1>1
<1>3. TypeOK'
  BY <1>1, <1>2, EventCapAssumption DEF ChannelInv, TypeOK, ChannelEvents
<1>4. Conservation'
  BY <1>1, <1>2 DEF ChannelInv, TypeOK, Conservation
<1>5. Ordered'
  BY <1>1, <1>2 DEF ChannelInv, TypeOK, Ordered
<1>6. NewestKept'
  <2>1. events[Len(events)].id = pushed
    BY <1>1 DEF ChannelInv, NewestKept
  <2>2. CASE events' = <<>>
    <3>1. Len(events) = 1
      BY <1>2, <2>2
    <3>2. QED
      BY <1>1, <1>2, <2>1, <2>2, <3>1 DEF NewestKept
  <2>3. CASE events' # <<>>
    <3>1. Len(events') \in 1 .. Len(events) - 1 /\ Len(events') + 1 = Len(events)
      BY <1>2, <2>3
    <3>2. events'[Len(events')] = events[Len(events)]
      BY <1>2, <3>1
    <3>3. QED
      BY <1>1, <2>1, <2>3, <3>2 DEF NewestKept
  <2>4. QED
    BY <2>2, <2>3
<1>7. QED
  BY <1>3, <1>4, <1>5, <1>6 DEF ChannelInv

LEMMA ChannelStep ==
    ASSUME ChannelInv, [Next]_vars
    PROVE  ChannelInv'
<1>1. ASSUME NEW kind \in ChannelKinds, PushEvent(kind) PROVE ChannelInv'
  BY <1>1, PushKeepsInv
<1>2. CASE PopOverflow
  BY <1>2 DEF PopOverflow, ChannelInv, TypeOK, Conservation, Ordered, NewestKept
<1>3. CASE PopEvent
  BY <1>3, PopKeepsInv
<1>4. CASE UNCHANGED vars
  BY <1>4 DEF vars, ChannelInv, TypeOK, Conservation, Ordered, NewestKept
<1>5. QED
  BY <1>1, <1>2, <1>3, <1>4 DEF Next

LEMMA ChannelInvariant == Spec => []ChannelInv
<1>1. Init => ChannelInv
  BY ChannelInit
<1>2. ChannelInv /\ [Next]_vars => ChannelInv'
  BY ChannelStep
<1>3. QED
  BY <1>1, <1>2, PTL DEF Spec

\* The queue keeps to its capacity (pushEvent's comparison).
THEOREM ChannelTypeCorrect == Spec => []TypeOK
BY ChannelInvariant, PTL DEF ChannelInv

\* Every event pushed is popped, queued, or counted as dropped.
THEOREM NothingLeavesUnseen == Spec => []Conservation
BY ChannelInvariant, PTL DEF ChannelInv

\* The interface sees the events in the order in which they were pushed.
THEOREM OrderKept == Spec => []Ordered
BY ChannelInvariant, PTL DEF ChannelInv

\* The newest event is never the one a full queue gives up.
THEOREM NewestNeverDropped == Spec => []NewestKept
BY ChannelInvariant, PTL DEF ChannelInv

\* A state or an outcome is given up only by a queue that holds no packet.
THEOREM ControlOutlives == Spec => ControlOutlivesPackets
<1>1. ASSUME TypeOK, [Next]_vars, pushed' # pushed,
             NEW i \in DOMAIN events, ~IsRx(events[i]), RxPositions(events) # {}
      PROVE  \E j \in DOMAIN events' : events'[j] = events[i]
  <2>1. PICK kind \in ChannelKinds : PushEvent(kind)
    BY <1>1 DEF Next, vars, PopOverflow, PopEvent
  <2> DEFINE e == SendEvent(kind, pushed + 1)
  <2>2. events \in Seq(ChannelEvents) /\ Len(events) <= EventCap /\ events' = Enqueue(events, e)
    BY <1>1, <2>1 DEF TypeOK, PushEvent
  <2>3. e \in ChannelEvents
    BY <1>1, <2>1, MaxPushesAssumption
       DEF TypeOK, PushEvent, ChannelEvents, SendEvent
  <2> HIDE DEF e
  <2>4. i \in 1 .. Len(events)
    BY <1>1, <2>2
  <2>5. \E j \in 1 .. Len(events') : events'[j] = events[i]
    BY <1>1, <2>2, <2>3, <2>4, EnqueueKeepsControl
  <2>6. DOMAIN events' = 1 .. Len(events')
    BY <2>2, <2>3, EnqueueProperties
  <2>7. QED
    BY <2>5, <2>6
<1>2. TypeOK /\ [Next]_vars =>
        [pushed' # pushed =>
            \A i \in DOMAIN events :
                ~IsRx(events[i]) /\ (\A j \in DOMAIN events' : events'[j] # events[i])
                    => RxPositions(events) = {}]_vars
  BY <1>1
<1>3. Spec => []TypeOK
  BY ChannelTypeCorrect
<1>4. QED
  BY <1>2, <1>3, PTL DEF Spec, ControlOutlivesPackets
=============================================================================
