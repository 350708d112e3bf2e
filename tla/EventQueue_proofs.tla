------------------------- MODULE EventQueue_proofs -------------------------
(***************************************************************************)
(* What the operators of EventQueue do to every queue, for every capacity. *)
(***************************************************************************)
EXTENDS EventQueue, WellFoundedInduction, TLAPS

\* Every nonempty set of natural numbers has a least element.
LEMMA LeastNatural ==
    ASSUME NEW T \in SUBSET Nat, T # {}
    PROVE  \E x \in T : \A y \in T : x <= y
<1>1. PICK x \in T : \A y \in T : ~ (<<y, x>> \in OpToRel(<, Nat))
  BY WFMin, NatLessThanWellFounded
<1>2. ASSUME NEW y \in T PROVE x <= y
  <2>1. ~ (y < x)
    BY <1>1 DEF OpToRel
  <2>2. QED
    BY <2>1
<1>3. QED
  BY <1>2

\* The event given up is in the queue, and it is a received packet if the
\* queue holds one (the choice in pushEvent).
LEMMA VictimProperties ==
    ASSUME NEW S, NEW q \in Seq(S), q # <<>>
    PROVE  /\ Victim(q) \in 1 .. Len(q)
           /\ RxPositions(q) # {} => IsRx(q[Victim(q)])
<1>1. CASE RxPositions(q) = {}
  BY <1>1 DEF Victim
<1>2. CASE RxPositions(q) # {}
  <2>1. RxPositions(q) \in SUBSET Nat
    BY DEF RxPositions
  <2>2. \E i \in RxPositions(q) : \A j \in RxPositions(q) : i <= j
    BY <1>2, <2>1, LeastNatural
  <2>3. Victim(q) \in RxPositions(q)
    BY <1>2, <2>2 DEF Victim
  <2>4. QED
    BY <2>3 DEF RxPositions
<1>3. QED
  BY <1>1, <1>2

\* Taking an event out of the queue leaves the others in their order.
LEMMA RemoveProperties ==
    ASSUME NEW S, NEW q \in Seq(S), NEW i \in 1 .. Len(q)
    PROVE  /\ RemoveAt(q, i) \in Seq(S)
           /\ Len(RemoveAt(q, i)) = Len(q) - 1
           /\ \A j \in 1 .. Len(q) - 1 :
                  RemoveAt(q, i)[j] = IF j < i THEN q[j] ELSE q[j + 1]
<1> DEFINE a == SubSeq(q, 1, i - 1)
           b == SubSeq(q, i + 1, Len(q))
<1>1. a \in Seq(S) /\ Len(a) = i - 1 /\ \A j \in 1 .. i - 1 : a[j] = q[j]
  OBVIOUS
<1>2. b \in Seq(S) /\ Len(b) = Len(q) - i /\ \A j \in 1 .. Len(q) - i : b[j] = q[i + j]
  OBVIOUS
<1>3. RemoveAt(q, i) = a \o b
  BY DEF RemoveAt
<1> HIDE DEF a, b
<1>4. RemoveAt(q, i) \in Seq(S) /\ Len(RemoveAt(q, i)) = Len(q) - 1
  BY <1>1, <1>2, <1>3
<1>5. ASSUME NEW j \in 1 .. Len(q) - 1
      PROVE  RemoveAt(q, i)[j] = IF j < i THEN q[j] ELSE q[j + 1]
  <2>1. CASE j < i
    BY <1>1, <1>2, <1>3, <2>1
  <2>2. CASE ~(j < i)
    <3>1. j - (i - 1) \in 1 .. Len(q) - i
      BY <2>2
    <3>2. (a \o b)[j] = b[j - (i - 1)]
      BY <1>1, <1>2, <2>2
    <3>3. QED
      BY <1>2, <1>3, <2>2, <3>1, <3>2
  <2>3. QED
    BY <2>1, <2>2
<1>6. QED
  BY <1>4, <1>5

\* pushEvent keeps the queue a queue within its capacity, puts the new event
\* last, and what it adds to the length and what it gives up add up to one.
LEMMA EnqueueProperties ==
    ASSUME NEW S, NEW q \in Seq(S), NEW e \in S, Len(q) <= EventCap
    PROVE  /\ Enqueue(q, e) \in Seq(S)
           /\ Len(Enqueue(q, e)) <= EventCap
           /\ Len(Enqueue(q, e)) + Lost(q) = Len(q) + 1
           /\ Enqueue(q, e) # <<>>
           /\ Enqueue(q, e)[Len(Enqueue(q, e))] = e
           /\ Lost(q) \in {0, 1}
<1> USE EventCapAssumption
<1>1. CASE IsFull(q)
  <2>1. Victim(q) \in 1 .. Len(q)
    <3>1. q # <<>>
      BY <1>1 DEF IsFull
    <3>2. QED
      BY <3>1, VictimProperties
  <2> DEFINE r == RemoveAt(q, Victim(q))
  <2>2. r \in Seq(S) /\ Len(r) = Len(q) - 1
    BY <2>1, RemoveProperties
  <2>3. Enqueue(q, e) = Append(r, e) /\ Lost(q) = 1
    BY <1>1 DEF Enqueue, Lost
  <2> HIDE DEF r
  <2>4. QED
    BY <2>2, <2>3
<1>2. CASE ~IsFull(q)
  <2>1. Enqueue(q, e) = Append(q, e) /\ Lost(q) = 0
    BY <1>2 DEF Enqueue, Lost
  <2>2. QED
    BY <1>2, <2>1 DEF IsFull
<1>3. QED
  BY <1>1, <1>2

\* The events of the new queue are the new one and, in their old order, events
\* of the old queue: position k of the result comes from position f(k).
LEMMA EnqueueOrder ==
    ASSUME NEW S, NEW q \in Seq(S), NEW e \in S, Len(q) <= EventCap
    PROVE  \E f \in [1 .. Len(Enqueue(q, e)) - 1 -> 1 .. Len(q)] :
               \A k \in DOMAIN f :
                   /\ Enqueue(q, e)[k] = q[f[k]]
                   /\ \A l \in DOMAIN f : k < l => f[k] < f[l]
<1> USE EventCapAssumption
<1>1. CASE IsFull(q)
  <2>1. q # <<>>
    BY <1>1 DEF IsFull
  <2> DEFINE v == Victim(q)
             r == RemoveAt(q, v)
             f == [k \in 1 .. Len(q) - 1 |-> IF k < v THEN k ELSE k + 1]
  <2>2. v \in 1 .. Len(q)
    BY <2>1, VictimProperties
  <2>3. r \in Seq(S) /\ Len(r) = Len(q) - 1
        /\ \A j \in 1 .. Len(q) - 1 : r[j] = IF j < v THEN q[j] ELSE q[j + 1]
    BY <2>2, RemoveProperties
  <2>4. Enqueue(q, e) = Append(r, e)
    BY <1>1 DEF Enqueue
  <2> HIDE DEF r, v
  <2>5. Len(Enqueue(q, e)) = Len(q) /\ \A k \in 1 .. Len(q) - 1 : Enqueue(q, e)[k] = r[k]
    BY <2>3, <2>4
  <2>6. f \in [1 .. Len(Enqueue(q, e)) - 1 -> 1 .. Len(q)]
    BY <2>2, <2>5
  <2>7. \A k \in DOMAIN f : /\ Enqueue(q, e)[k] = q[f[k]]
                            /\ \A l \in DOMAIN f : k < l => f[k] < f[l]
    BY <2>2, <2>3, <2>5
  <2>8. QED
    BY <2>6, <2>7
<1>2. CASE ~IsFull(q)
  <2> DEFINE f == [k \in 1 .. Len(q) |-> k]
  <2>1. Enqueue(q, e) = Append(q, e)
    BY <1>2 DEF Enqueue
  <2>2. f \in [1 .. Len(Enqueue(q, e)) - 1 -> 1 .. Len(q)]
    BY <2>1
  <2>3. \A k \in DOMAIN f : /\ Enqueue(q, e)[k] = q[f[k]]
                            /\ \A l \in DOMAIN f : k < l => f[k] < f[l]
    BY <2>1
  <2>4. QED
    BY <2>2, <2>3
<1>3. QED
  BY <1>1, <1>2
\* A full queue gives up one event only, and an oldest received packet before
\* anything else: whatever is no packet stays while there is one.
LEMMA EnqueueKeepsControl ==
    ASSUME NEW S, NEW q \in Seq(S), NEW e \in S, Len(q) <= EventCap,
           RxPositions(q) # {}, NEW i \in 1 .. Len(q), ~IsRx(q[i])
    PROVE  \E j \in 1 .. Len(Enqueue(q, e)) : Enqueue(q, e)[j] = q[i]
<1> USE EventCapAssumption
<1>1. CASE IsFull(q)
  <2>1. q # <<>>
    BY <1>1 DEF IsFull
  <2> DEFINE v == Victim(q)
             r == RemoveAt(q, v)
  <2>2. v \in 1 .. Len(q) /\ v # i
    BY <2>1, VictimProperties
  <2>3. r \in Seq(S) /\ Len(r) = Len(q) - 1
        /\ \A j \in 1 .. Len(q) - 1 : r[j] = IF j < v THEN q[j] ELSE q[j + 1]
    BY <2>2, RemoveProperties
  <2>4. Enqueue(q, e) = Append(r, e)
    BY <1>1 DEF Enqueue
  <2> HIDE DEF r, v
  <2>5. Len(Enqueue(q, e)) = Len(q) /\ \A k \in 1 .. Len(q) - 1 : Enqueue(q, e)[k] = r[k]
    BY <2>3, <2>4
  <2>6. CASE i < v
    <3>1. i \in 1 .. Len(q) - 1 /\ r[i] = q[i]
      BY <2>2, <2>3, <2>6
    <3>2. QED
      BY <2>5, <3>1
  <2>7. CASE v < i
    <3>1. i - 1 \in 1 .. Len(q) - 1 /\ r[i - 1] = q[i]
      BY <2>2, <2>3, <2>7
    <3>2. QED
      BY <2>5, <3>1
  <2>8. QED
    BY <2>2, <2>6, <2>7
<1>2. CASE ~IsFull(q)
  <2>1. Enqueue(q, e) = Append(q, e)
    BY <1>2 DEF Enqueue
  <2>2. QED
    BY <2>1
<1>3. QED
  BY <1>1, <1>2
\* Each place of r but the last, which holds e, holds an event of q; no two hold
\* the same one, and they are in the same order.
OldThenNew(q, r, e) ==
    /\ DOMAIN r = 1 .. Len(r) /\ Len(r) \in DOMAIN r /\ r[Len(r)] = e
    /\ \E f \in [1 .. Len(r) - 1 -> DOMAIN q] :
           /\ \A k \in DOMAIN r : k # Len(r) => k \in DOMAIN f /\ r[k] = q[f[k]]
           /\ \A j, k \in DOMAIN f : f[j] = f[k] => j = k
           /\ \A j, k \in DOMAIN f : j < k => f[j] < f[k]

LEMMA EnqueueSources ==
    ASSUME NEW S, NEW q \in Seq(S), NEW e \in S, Len(q) <= EventCap
    PROVE  OldThenNew(q, Enqueue(q, e), e)
<1> DEFINE r == Enqueue(q, e)
<1>1. r \in Seq(S) /\ r # <<>> /\ r[Len(r)] = e
  BY EnqueueProperties
<1>2. PICK f \in [1 .. Len(r) - 1 -> 1 .. Len(q)] :
          \A k \in DOMAIN f : /\ r[k] = q[f[k]]
                              /\ \A l \in DOMAIN f : k < l => f[k] < f[l]
  BY EnqueueOrder
<1> HIDE DEF r
<1>3. /\ DOMAIN r = 1 .. Len(r) /\ Len(r) \in DOMAIN r /\ DOMAIN f = 1 .. Len(r) - 1
      /\ DOMAIN q = 1 .. Len(q) /\ Len(q) \in Nat /\ Len(r) \in Nat
  BY <1>1
<1>4. \A k \in DOMAIN r : k # Len(r) => k \in DOMAIN f /\ r[k] = q[f[k]]
  BY <1>2, <1>3
<1>5. ASSUME NEW j \in DOMAIN f, NEW k \in DOMAIN f, f[j] = f[k] PROVE j = k
  <2>1. j \in Nat /\ k \in Nat /\ f[j] \in Nat /\ f[k] \in Nat
    BY <1>3
  <2>2. ~(j < k) /\ ~(k < j)
    BY <1>2, <1>5, <2>1
  <2>3. QED
    BY <2>1, <2>2
<1>6. f \in [1 .. Len(r) - 1 -> DOMAIN q]
  BY <1>3
<1>7. \A j, k \in DOMAIN f : j < k => f[j] < f[k]
  BY <1>2
<1>8. QED
  BY <1>1, <1>3, <1>4, <1>5, <1>6, <1>7 DEF r, OldThenNew
=============================================================================
