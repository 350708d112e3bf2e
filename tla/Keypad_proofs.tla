--------------------------- MODULE Keypad_proofs ---------------------------
(***************************************************************************)
(* What is typed on a keyboard arrives, for any keyboards, key codes,      *)
(* capacity of the kernel's queues and number of presses.                  *)
(*                                                                         *)
(* TypedIsDelivered is not inductive: that the keys delivered are a prefix *)
(* of those owed says nothing of what the queue of a device holds.  The    *)
(* invariant (CaughtUp) says that the events in the queue, translated from *)
(* the present shift state on, lead to exactly the keys owed and to the    *)
(* shift keys that the device's user holds (Rest); where another keyboard  *)
(* has changed the shift state, that they do so from the shift state there *)
(* would be and the keys there would have been without it (OwnRest).       *)
(***************************************************************************)
EXTENDS Keypad, WellFoundedInduction, TLAPS

-----------------------------------------------------------------------------
(* Counting up, and the fold.                                              *)

LEMMA SmallestOf ==
    ASSUME NEW T, T \subseteq Nat, T # {}
    PROVE  \E m \in T : \A n \in T : m <= n
<1>1. \E m \in T : \A n \in T : <<n, m>> \notin OpToRel(<, Nat)
  BY WFMin, NatLessThanWellFounded
<1>2. ASSUME NEW n \in Nat, NEW m \in Nat, ~(<<n, m>> \in OpToRel(<, Nat)) PROVE m <= n
  <2>1. <<n, m>> \in Nat \X Nat
    OBVIOUS
  <2>2. ~(<<n, m>>[1] < <<n, m>>[2])
    BY <1>2, <2>1 DEF OpToRel
  <2>3. QED
    BY <2>2
<1>3. QED
  BY <1>1, <1>2

LEMMA CountingUp ==
    ASSUME NEW S, NEW m \in Nat, 0 \in S, \A n \in 0 .. m - 1 : n \in S => n + 1 \in S
    PROVE  \A n \in 0 .. m : n \in S
<1> DEFINE T == (0 .. m) \ S
<1> SUFFICES ASSUME T # {} PROVE FALSE
  OBVIOUS
<1>1. PICK least \in T : \A n \in T : least <= n
  <2>1. T \subseteq Nat
    OBVIOUS
  <2> HIDE DEF T
  <2>2. QED
    BY <2>1, SmallestOf
<1>2. least - 1 \in 0 .. m - 1 /\ least - 1 \in S
  BY <1>1
<1>3. QED
  BY <1>1, <1>2

\* The fold of Under, over the sets of the first m pairs of q.
FoldsOver(g, mark, q, m) ==
    g = [s \in SUBSET (1 .. m) |-> IF s = {} THEN <<>> ELSE AddIf(mark, g[s \ {Max(s)}], q[Max(s)])]

LEMMA MaxIs == ASSUME NEW m \in Nat, NEW s \in SUBSET (1 .. m), m \in s PROVE Max(s) = m
<1>1. \E x \in s : \A y \in s : x >= y
  <2>1. \A y \in s : m >= y
    OBVIOUS
  <2>2. QED
    BY <2>1
<1>2. Max(s) \in s /\ \A y \in s : Max(s) >= y
  BY <1>1 DEF Max
<1> DEFINE x == Max(s)
<1> HIDE DEF x
<1>3. x \in 1 .. m /\ x >= m
  BY <1>2 DEF x
<1>4. x = m
  BY <1>3
<1>5. QED
  BY <1>4 DEF x

LEMMA FoldExists == ASSUME NEW mark, NEW q, NEW m \in Nat PROVE \E g : FoldsOver(g, mark, q, m)
<1> DEFINE S == {k \in Nat : \E g : FoldsOver(g, mark, q, k)}
<1>1. 0 \in S
  <2>1. FoldsOver([s \in SUBSET (1 .. 0) |-> <<>>], mark, q, 0)
    <3>1. SUBSET (1 .. 0) = {{}}
      OBVIOUS
    <3>2. QED
      BY <3>1 DEF FoldsOver
  <2>2. QED
    BY <2>1
<1>2. ASSUME NEW k \in 0 .. m - 1, k \in S PROVE k + 1 \in S
  <2>1. PICK g : FoldsOver(g, mark, q, k)
    BY <1>2
  <2> DEFINE h == [s \in SUBSET (1 .. k + 1) |-> IF k + 1 \in s THEN AddIf(mark, g[s \ {k + 1}], q[k + 1])
                                                ELSE g[s]]
  <2>2. \A s \in SUBSET (1 .. k + 1) :
            h[s] = IF s = {} THEN <<>> ELSE AddIf(mark, h[s \ {Max(s)}], q[Max(s)])
    <3> TAKE s \in SUBSET (1 .. k + 1)
    <3>1. CASE k + 1 \in s
      <4>1. Max(s) = k + 1
        BY <3>1, MaxIs
      <4>2. s \ {k + 1} \in SUBSET (1 .. k + 1) /\ k + 1 \notin s \ {k + 1}
        OBVIOUS
      <4>3. h[s \ {k + 1}] = g[s \ {k + 1}]
        BY <4>2
      <4>4. h[s] = AddIf(mark, g[s \ {k + 1}], q[k + 1]) /\ s # {}
        BY <3>1
      <4> HIDE DEF h
      <4>5. QED
        BY <4>1, <4>3, <4>4
    <3>2. CASE k + 1 \notin s
      <4>1. s \in SUBSET (1 .. k) /\ s \ {Max(s)} \in SUBSET (1 .. k + 1) /\ k + 1 \notin s \ {Max(s)}
        <5>1. \A y \in s : y \in 1 .. k
          BY <3>2
        <5>2. QED
          BY <3>2, <5>1
      <4>2. h[s] = g[s] /\ h[s \ {Max(s)}] = g[s \ {Max(s)}]
        BY <3>2, <4>1
      <4>3. g[s] = IF s = {} THEN <<>> ELSE AddIf(mark, g[s \ {Max(s)}], q[Max(s)])
        BY <2>1, <4>1 DEF FoldsOver
      <4> HIDE DEF h
      <4>4. QED
        BY <4>2, <4>3
    <3>3. QED
      BY <3>1, <3>2
  <2>3. FoldsOver(h, mark, q, k + 1)
    <3>1. h = [s \in SUBSET (1 .. k + 1) |-> h[s]]
      OBVIOUS
    <3> HIDE DEF h
    <3>2. QED
      BY <2>2, <3>1 DEF FoldsOver
  <2>4. QED
    BY <2>3
<1> HIDE DEF S
<1>3. m \in S
  BY <1>1, <1>2, CountingUp
<1>4. QED
  BY <1>3 DEF S

\* What Under has after each of the pairs.
Grows(r, mark, q) ==
    r[0] = <<>> /\ \A k \in 1 .. Len(q) : r[k] = AddIf(mark, r[k - 1], q[k])

LEMMA UnderGrows ==
    ASSUME NEW A, NEW q \in Seq(A), NEW mark
    PROVE  \E r : Grows(r, mark, q) /\ Under(mark, q) = r[Len(q)]
<1> DEFINE n == Len(q)
           g == CHOOSE f : FoldsOver(f, mark, q, n)
           r == [k \in 0 .. n |-> g[1 .. k]]
<1>1. n \in Nat /\ DOMAIN q = 1 .. n
  OBVIOUS
<1>2. Under(mark, q) = (CHOOSE f : FoldsOver(f, mark, q, n))[DOMAIN q]
  <2>1. Under(mark, q) =
            (CHOOSE f : f = [s \in SUBSET DOMAIN q |->
                                IF s = {} THEN <<>> ELSE AddIf(mark, f[s \ {Max(s)}], q[Max(s)])])[DOMAIN q]
    BY Zenon DEF Under, FoldLeft, MapThenFoldSet
  <2> HIDE DEF n
  <2>2. QED
    BY <1>1, <2>1 DEF FoldsOver
<1> HIDE DEF n
<1>3. FoldsOver(g, mark, q, n)
  <2>1. \E f : FoldsOver(f, mark, q, n)
    BY <1>1, FoldExists
  <2>2. QED
    BY <2>1
<1>4. Under(mark, q) = g[1 .. n]
  BY <1>1, <1>2
<1> HIDE DEF g
<1>5. r[0] = <<>>
  <2>1. 1 .. 0 = {} /\ {} \in SUBSET (1 .. n)
    OBVIOUS
  <2>2. g[{}] = <<>>
    BY <1>3, <2>1 DEF FoldsOver
  <2>3. QED
    BY <1>1, <2>1, <2>2
<1>6. \A k \in 1 .. n : r[k] = AddIf(mark, r[k - 1], q[k])
  <2> TAKE k \in 1 .. n
  <2>1. 1 .. k \in SUBSET (1 .. n) /\ 1 .. k # {} /\ k \in 0 .. n /\ k - 1 \in 0 .. n
    <3>1. k \in 1 .. k /\ \A y \in 1 .. k : y \in 1 .. n
      BY <1>1
    <3>2. 1 .. k \in SUBSET (1 .. n) /\ 1 .. k # {}
      BY <3>1
    <3>3. QED
      BY <1>1, <3>2
  <2>2. Max(1 .. k) = k /\ (1 .. k) \ {k} = 1 .. k - 1
    BY MaxIs
  <2>3. g[1 .. k] = AddIf(mark, g[1 .. k - 1], q[k])
    BY <1>3, <2>1, <2>2 DEF FoldsOver
  <2>4. QED
    BY <1>1, <2>1, <2>3
<1>7. r[n] = Under(mark, q)
  BY <1>1, <1>4
<1> HIDE DEF r
<1>8. QED
  BY <1>5, <1>6, <1>7 DEF Grows, n

\* Whatever grows so, grows to it.
LEMMA GrowsToUnder ==
    ASSUME NEW A, NEW q \in Seq(A), NEW mark, NEW r, Grows(r, mark, q)
    PROVE  r[Len(q)] = Under(mark, q)
<1> DEFINE n == Len(q)
<1>1. PICK t : Grows(t, mark, q) /\ Under(mark, q) = t[n]
  BY UnderGrows
<1> DEFINE S == {k \in 0 .. n : r[k] = t[k]}
<1>2. n \in Nat
  OBVIOUS
<1>3. 0 \in S
  BY <1>1, <1>2 DEF Grows
<1>4. ASSUME NEW k \in 0 .. n - 1, k \in S PROVE k + 1 \in S
  <2> DEFINE j == k + 1
  <2>1. j \in 1 .. n /\ j \in 0 .. n /\ j - 1 = k
    BY <1>2
  <2> HIDE DEF j
  <2>2. r[j] = AddIf(mark, r[j - 1], q[j]) /\ t[j] = AddIf(mark, t[j - 1], q[j])
    BY <1>1, <2>1 DEF Grows
  <2>3. r[k] = t[k]
    BY <1>4
  <2>4. r[j] = t[j]
    BY <2>1, <2>2, <2>3
  <2>5. QED
    BY <2>1, <2>4 DEF j
<1>5. n \in S
  <2> HIDE DEF S, n
  <2>1. \A k \in 0 .. n : k \in S
    BY <1>2, <1>3, <1>4, CountingUp
  <2>2. QED
    BY <1>2, <2>1
<1>6. QED
  BY <1>1, <1>5

LEMMA AddType ==
    ASSUME NEW B, NEW s \in Seq(B), NEW x, x[2] \in B, NEW mark
    PROVE  AddIf(mark, s, x) \in Seq(B)
BY DEF AddIf

LEMMA AddAfter ==
    ASSUME NEW B, NEW c \in Seq(B), NEW s \in Seq(B), NEW x, x[2] \in B, NEW mark
    PROVE  c \o AddIf(mark, s, x) = AddIf(mark, c \o s, x)
<1>1. c \o Append(s, x[2]) = Append(c \o s, x[2])
  OBVIOUS
<1>2. QED
  BY <1>1 DEF AddIf

LEMMA UnderNone == ASSUME NEW mark PROVE Under(mark, <<>>) = <<>>
<1>1. <<>> \in Seq({}) /\ Len(<<>>) = 0
  OBVIOUS
<1>2. PICK r : Grows(r, mark, <<>>) /\ Under(mark, <<>>) = r[Len(<<>>)]
  BY <1>1, UnderGrows
<1>3. r[0] = <<>>
  BY <1>2 DEF Grows
<1>4. QED
  BY <1>1, <1>2, <1>3

LEMMA UnderMore ==
    ASSUME NEW A, NEW q \in Seq(A), NEW x \in A, NEW mark
    PROVE  Under(mark, Append(q, x)) = AddIf(mark, Under(mark, q), x)
<1> DEFINE p == Append(q, x)
           n == Len(q)
<1>1. /\ p \in Seq(A) /\ n \in Nat /\ Len(p) = n + 1 /\ p[n + 1] = x
      /\ \A k \in 1 .. n : p[k] = q[k]
  OBVIOUS
<1> HIDE DEF p
<1>2. PICK r : Grows(r, mark, p) /\ Under(mark, p) = r[Len(p)]
  BY <1>1, UnderGrows
<1>3. Grows(r, mark, q)
  <2>1. r[0] = <<>> /\ \A k \in 1 .. n + 1 : r[k] = AddIf(mark, r[k - 1], p[k])
    BY <1>1, <1>2 DEF Grows
  <2>2. \A k \in 1 .. n : r[k] = AddIf(mark, r[k - 1], q[k])
    BY <1>1, <2>1
  <2>3. QED
    BY <2>1, <2>2 DEF Grows
<1>4. r[n] = Under(mark, q)
  BY <1>3, GrowsToUnder
<1>5. r[n + 1] = AddIf(mark, r[n], x)
  <2> DEFINE j == n + 1
  <2>1. j \in 1 .. Len(p) /\ j - 1 = n /\ p[j] = x
    BY <1>1
  <2> HIDE DEF j, n
  <2>2. r[j] = AddIf(mark, r[j - 1], p[j])
    BY <1>2, <2>1 DEF Grows
  <2>3. QED
    BY <2>1, <2>2 DEF j
<1>6. QED
  BY <1>1, <1>2, <1>4, <1>5 DEF p

\* What can be said of all that it grows through.
LEMMA GrowthType ==
    ASSUME NEW A, NEW B, NEW q \in Seq(A), \A x \in A : x[2] \in B, NEW mark, NEW r, Grows(r, mark, q)
    PROVE  \A k \in 0 .. Len(q) : r[k] \in Seq(B)
<1> DEFINE n == Len(q)
           S == {k \in 0 .. n : r[k] \in Seq(B)}
<1>1. n \in Nat /\ \A k \in 1 .. n : q[k] \in A
  OBVIOUS
<1>2. 0 \in S
  <2>1. r[0] = <<>>
    BY DEF Grows
  <2>2. <<>> \in Seq(B) /\ 0 \in 0 .. n
    BY <1>1
  <2>3. QED
    BY <2>1, <2>2
<1>3. ASSUME NEW k \in 0 .. n - 1, k \in S PROVE k + 1 \in S
  <2> DEFINE j == k + 1
  <2>1. j \in 1 .. n /\ j \in 0 .. n /\ j - 1 = k
    BY <1>1
  <2> HIDE DEF j
  <2>2. r[j] = AddIf(mark, r[j - 1], q[j])
    BY <2>1 DEF Grows
  <2>3. r[k] \in Seq(B) /\ q[j][2] \in B
    BY <1>1, <1>3, <2>1
  <2>4. r[j] \in Seq(B)
    BY <2>1, <2>2, <2>3, AddType
  <2>5. QED
    BY <2>1, <2>4 DEF j
<1> HIDE DEF S, n
<1>4. \A k \in 0 .. n : k \in S
  BY <1>1, <1>2, <1>3, CountingUp
<1>5. QED
  BY <1>4 DEF S, n

LEMMA UnderType ==
    ASSUME NEW A, NEW B, NEW q \in Seq(A), \A x \in A : x[2] \in B, NEW mark
    PROVE  Under(mark, q) \in Seq(B)
<1>1. PICK r : Grows(r, mark, q) /\ Under(mark, q) = r[Len(q)]
  BY UnderGrows
<1>2. \A k \in 0 .. Len(q) : r[k] \in Seq(B)
  BY <1>1, GrowthType
<1>3. Len(q) \in 0 .. Len(q)
  OBVIOUS
<1>4. QED
  BY <1>1, <1>2, <1>3

\* The first of the pairs is the first of what they hold.
LEMMA UnderFirst ==
    ASSUME NEW A, NEW B, NEW q \in Seq(A), q # <<>>, \A x \in A : x[2] \in B, NEW mark
    PROVE  Under(mark, q) = AddIf(mark, <<>>, Head(q)) \o Under(mark, Tail(q))
<1> DEFINE u == Tail(q)
           n == Len(u)
           c == AddIf(mark, <<>>, Head(q))
<1>1. /\ u \in Seq(A) /\ n \in Nat /\ Len(q) = n + 1 /\ Head(q) = q[1] /\ q[1] \in A
      /\ \A k \in 1 .. n : u[k] = q[k + 1] /\ u[k] \in A
  OBVIOUS
<1> HIDE DEF u
<1>2. PICK r : Grows(r, mark, q) /\ Under(mark, q) = r[Len(q)]
  BY UnderGrows
<1>3. PICK t : Grows(t, mark, u) /\ Under(mark, u) = t[Len(u)]
  BY <1>1, UnderGrows
<1>4. \A k \in 0 .. n : t[k] \in Seq(B)
  BY <1>1, <1>3, GrowthType
<1>5. c \in Seq(B)
  <2>1. <<>> \in Seq(B) /\ Head(q)[2] \in B
    BY <1>1
  <2>2. QED
    BY <2>1, AddType
<1> DEFINE S == {k \in 0 .. n : r[k + 1] = c \o t[k]}
<1>6. 0 \in S
  <2>1. 1 \in 1 .. Len(q) /\ 1 - 1 = 0
    BY <1>1
  <2>2. r[1] = AddIf(mark, r[0], q[1]) /\ r[0] = <<>> /\ t[0] = <<>>
    BY <1>2, <1>3, <2>1 DEF Grows
  <2>3. r[1] = c
    BY <1>1, <2>2
  <2> HIDE DEF c
  <2>4. r[1] = c \o t[0]
    BY <1>5, <2>2, <2>3
  <2>5. 0 + 1 = 1 /\ 0 \in 0 .. n
    BY <1>1
  <2>6. QED
    BY <2>4, <2>5
<1> HIDE DEF c
<1>7. ASSUME NEW k \in 0 .. n - 1, k \in S PROVE k + 1 \in S
  <2> DEFINE j == k + 1
  <2>1. j \in 1 .. n /\ j \in 0 .. n /\ j - 1 = k /\ j + 1 \in 1 .. Len(q) /\ (j + 1) - 1 = j /\ k \in 0 .. n
    BY <1>1
  <2>2. r[j] = c \o t[k]
    BY <1>7
  <2> HIDE DEF j
  <2>3. r[j + 1] = AddIf(mark, r[(j + 1) - 1], q[j + 1]) /\ t[j] = AddIf(mark, t[j - 1], u[j])
    BY <1>2, <1>3, <2>1 DEF Grows
  <2>4. q[j + 1] = u[j] /\ u[j][2] \in B /\ t[k] \in Seq(B)
    BY <1>1, <1>4, <2>1
  <2>5. r[j + 1] = AddIf(mark, c \o t[k], u[j]) /\ t[j] = AddIf(mark, t[k], u[j])
    BY <2>1, <2>2, <2>3, <2>4
  <2>6. c \o AddIf(mark, t[k], u[j]) = AddIf(mark, c \o t[k], u[j])
    BY <1>5, <2>4, AddAfter
  <2>7. r[j + 1] = c \o t[j]
    BY <2>5, <2>6
  <2>8. QED
    BY <2>1, <2>7 DEF j
<1>8. n \in S
  <2> HIDE DEF S, n
  <2>1. \A k \in 0 .. n : k \in S
    BY <1>1, <1>6, <1>7, CountingUp
  <2>2. QED
    BY <1>1, <2>1
<1>9. QED
  BY <1>1, <1>2, <1>3, <1>8 DEF c, u

\* No two of different pairs are the same, if no two pairs end the same.
LEMMA UnderInjective ==
    ASSUME NEW A, NEW q \in Seq(A), NEW mark,
           \A i, j \in 1 .. Len(q) : q[i][2] = q[j][2] => i = j
    PROVE  LET u == Under(mark, q) IN \A i, j \in 1 .. Len(u) : u[i] = u[j] => i = j
<1> DEFINE n == Len(q)
           B == {x[2] : x \in A}
<1>0. \A x \in A : x[2] \in B
  OBVIOUS
<1> HIDE DEF B
<1>1. PICK r : Grows(r, mark, q) /\ Under(mark, q) = r[n]
  BY UnderGrows
<1>2. \A k \in 0 .. n : r[k] \in Seq(B)
  BY <1>0, <1>1, GrowthType
<1> DEFINE Good(k) == /\ \A i \in 1 .. Len(r[k]) : \E l \in 1 .. k : r[k][i] = q[l][2]
                      /\ \A i, j \in 1 .. Len(r[k]) : r[k][i] = r[k][j] => i = j
           S == {k \in 0 .. n : Good(k)}
<1>3. n \in Nat /\ \A k \in 1 .. n : q[k] \in A
  OBVIOUS
<1>4. 0 \in S
  <2>1. r[0] = <<>>
    BY <1>1 DEF Grows
  <2>2. 0 \in 0 .. n /\ 1 .. Len(r[0]) = {}
    BY <1>3, <2>1
  <2>3. QED
    BY <2>2
<1>5. ASSUME NEW k \in 0 .. n - 1, k \in S PROVE k + 1 \in S
  <2> DEFINE m == k + 1
             s == r[k]
             e == q[m][2]
  <2>1. m \in 1 .. n /\ m \in 0 .. n /\ m - 1 = k /\ k \in 0 .. n /\ k \in Nat
    BY <1>3
  <2>2. /\ \A i \in 1 .. Len(s) : \E l \in 1 .. k : s[i] = q[l][2]
        /\ \A i, j \in 1 .. Len(s) : s[i] = s[j] => i = j
    BY <1>5
  <2>3. s \in Seq(B)
    BY <1>2, <2>1
  <2> HIDE DEF m
  <2>4. r[m] = AddIf(mark, s, q[m])
    <3>1. r[m] = AddIf(mark, r[m - 1], q[m])
      BY <1>1, <2>1 DEF Grows
    <3>2. QED
      BY <2>1, <3>1
  <2>5. e \in B
    BY <1>0, <1>3, <2>1
  <2> HIDE DEF s, n
  <2>6. \A i \in 1 .. Len(s) : s[i] # e
    <3> SUFFICES ASSUME NEW i \in 1 .. Len(s), s[i] = e PROVE FALSE
      OBVIOUS
    <3>1. PICK l \in 1 .. k : s[i] = q[l][2]
      BY <2>2
    <3>2. l \in 1 .. n /\ l # m
      BY <2>1, <1>3
    <3>3. q[l][2] = q[m][2] => l = m
      BY <2>1, <3>2 DEF n
    <3>4. QED
      BY <3>1, <3>2, <3>3
  <2>7. CASE r[m] = s
    <3>1. \A i \in 1 .. Len(s) : \E l \in 1 .. m : s[i] = q[l][2]
      BY <2>1, <2>2
    <3>2. Good(m)
      BY <2>2, <2>7, <3>1
    <3>3. QED
      BY <2>1, <3>2 DEF m
  <2>8. CASE r[m] = Append(s, e)
    <3> DEFINE t == Append(s, e)
    <3> HIDE DEF e
    <3>1. /\ Len(s) \in Nat /\ Len(t) = Len(s) + 1 /\ t[Len(s) + 1] = e
          /\ \A i \in 1 .. Len(s) : t[i] = s[i]
      BY <2>3, <2>5
    <3> HIDE DEF t
    <3>2. \A i \in 1 .. Len(t) : \E l \in 1 .. m : t[i] = q[l][2]
      <4> TAKE i \in 1 .. Len(t)
      <4>1. CASE i = Len(s) + 1
        BY <2>1, <3>1, <4>1 DEF e
      <4>2. CASE i # Len(s) + 1
        <5>1. i \in 1 .. Len(s)
          BY <3>1, <4>2
        <5>2. PICK l \in 1 .. k : s[i] = q[l][2]
          BY <2>2, <5>1
        <5>3. l \in 1 .. m
          BY <2>1
        <5>4. QED
          BY <3>1, <5>1, <5>2, <5>3
      <4>3. QED
        BY <4>1, <4>2
    <3>3. ASSUME NEW i \in 1 .. Len(t), NEW j \in 1 .. Len(t), t[i] = t[j] PROVE i = j
      <4>1. i \in 1 .. Len(s) \/ i = Len(s) + 1
        BY <3>1
      <4>2. j \in 1 .. Len(s) \/ j = Len(s) + 1
        BY <3>1
      <4>3. CASE i \in 1 .. Len(s) /\ j \in 1 .. Len(s)
        BY <2>2, <3>1, <3>3, <4>3
      <4>4. CASE i \in 1 .. Len(s) /\ j = Len(s) + 1
        BY <2>6, <3>1, <3>3, <4>4
      <4>5. CASE i = Len(s) + 1 /\ j \in 1 .. Len(s)
        BY <2>6, <3>1, <3>3, <4>5
      <4>6. QED
        BY <4>1, <4>2, <4>3, <4>4, <4>5
    <3>4. r[m] = t
      BY <2>8 DEF t, e
    <3>5. Good(m)
      BY <3>2, <3>3, <3>4
    <3>6. QED
      BY <2>1, <3>5 DEF m
  <2>9. QED
    BY <2>4, <2>7, <2>8 DEF AddIf
<1>6. Good(n)
  <2> HIDE DEF S, n
  <2>1. \A k \in 0 .. n : k \in S
    BY <1>3, <1>4, <1>5, CountingUp
  <2>2. n \in S
    BY <1>3, <2>1
  <2>3. QED
    BY <2>2 DEF S
<1>7. QED
  BY <1>1, <1>6

-----------------------------------------------------------------------------
(* What the events of a queue amount to.                                   *)

Codes   == Typewriter \union Fixed \union Shifts
Events  == [code : Codes, value : 0 .. 2]
OutKeys == {Delivered(TranslateKey(x[1], x[2]), x[3]) : x \in Codes \X BOOLEAN \X (0 .. 2)}

\* The shift keys held, and the keys there are, when an event has followed
\* those held and those there were.
HeldAfter(held, e) ==
    IF e.value \in {0, 1} /\ e.code \in Shifts THEN ShiftAfter(held, e.code, e.value) ELSE held
KeysAfter(keys, held, e) ==
    LET key == TranslateKey(e.code, held # {}) IN
    IF e.value = 2 \/ e.code \in Shifts \/ key = NoKey THEN keys ELSE Append(keys, Delivered(key, e.value))

\* h and o go through the events of q from s and r on.
Follows(h, o, q, s, r) ==
    /\ h[0] = s /\ o[0] = r
    /\ \A k \in 1 .. Len(q) : h[k] = HeldAfter(h[k - 1], q[k]) /\ o[k] = KeysAfter(o[k - 1], h[k - 1], q[k])

\* The events of q lead from the shift keys s and the keys r to s1 and r1.
Matches(q, s, r, s1, r1) == \E h, o : Follows(h, o, q, s, r) /\ h[Len(q)] = s1 /\ o[Len(q)] = r1

LEMMA KeysAfterType ==
    ASSUME NEW r \in Seq(OutKeys), NEW s, NEW e \in Events
    PROVE  KeysAfter(r, s, e) \in Seq(OutKeys)
<1> DEFINE key == TranslateKey(e.code, s # {})
           out == Delivered(key, e.value)
<1>1. e.code \in Codes /\ e.value \in 0 .. 2 /\ (s # {}) \in BOOLEAN
  BY DEF Events
<1>2. out \in OutKeys
  <2> DEFINE x == <<e.code, s # {}, e.value>>
  <2>1. x \in Codes \X BOOLEAN \X (0 .. 2) /\ x[1] = e.code /\ x[2] = (s # {}) /\ x[3] = e.value
    BY <1>1
  <2> HIDE DEF x
  <2>2. out = Delivered(TranslateKey(x[1], x[2]), x[3])
    BY Zenon, <2>1
  <2> HIDE DEF out
  <2>3. QED
    BY <2>1, <2>2 DEF OutKeys
<1>3. KeysAfter(r, s, e) = IF e.value = 2 \/ e.code \in Shifts \/ key = NoKey THEN r ELSE Append(r, out)
  BY DEF KeysAfter
<1> HIDE DEF key, out
<1>4. Append(r, out) \in Seq(OutKeys)
  BY <1>2
<1>5. QED
  BY <1>3, <1>4

LEMMA MatchNone == ASSUME NEW s, NEW r PROVE Matches(<<>>, s, r, s, r)
<1> DEFINE h == [k \in {0} |-> s]
           o == [k \in {0} |-> r]
<1>1. h[0] = s /\ o[0] = r /\ Len(<<>>) = 0 /\ 1 .. 0 = {}
  OBVIOUS
<1> HIDE DEF h, o
<1>2. Follows(h, o, <<>>, s, r)
  BY <1>1 DEF Follows
<1>3. QED
  BY <1>1, <1>2 DEF Matches

LEMMA MatchEmpty ==
    ASSUME NEW s, NEW r, NEW s1, NEW r1, Matches(<<>>, s, r, s1, r1)
    PROVE  s1 = s /\ r1 = r
<1>1. PICK h, o : Follows(h, o, <<>>, s, r) /\ h[Len(<<>>)] = s1 /\ o[Len(<<>>)] = r1
  BY DEF Matches
<1>2. Len(<<>>) = 0
  OBVIOUS
<1>3. QED
  BY <1>1, <1>2 DEF Follows

\* The first event read, the rest leads on from there.
LEMMA MatchRead ==
    ASSUME NEW q \in Seq(Events), q # <<>>, NEW s, NEW r, NEW s1, NEW r1, Matches(q, s, r, s1, r1)
    PROVE  Matches(Tail(q), HeldAfter(s, Head(q)), KeysAfter(r, s, Head(q)), s1, r1)
<1> DEFINE u == Tail(q)
           n == Len(u)
           e == Head(q)
           s2 == HeldAfter(s, e)
           r2 == KeysAfter(r, s, e)
<1>1. n \in Nat /\ Len(q) = n + 1 /\ e = q[1] /\ \A k \in 1 .. n : u[k] = q[k + 1]
  OBVIOUS
<1>2. PICK h, o : Follows(h, o, q, s, r) /\ h[Len(q)] = s1 /\ o[Len(q)] = r1
  BY DEF Matches
<1> DEFINE h2 == [k \in 0 .. n |-> h[k + 1]]
           o2 == [k \in 0 .. n |-> o[k + 1]]
<1> HIDE DEF u, n, e
<1>3. h2[0] = s2 /\ o2[0] = r2
  <2>1. 1 \in 1 .. Len(q) /\ 1 - 1 = 0 /\ 0 \in 0 .. n /\ 0 + 1 = 1
    BY <1>1
  <2>2. h[1] = HeldAfter(h[0], q[1]) /\ o[1] = KeysAfter(o[0], h[0], q[1]) /\ h[0] = s /\ o[0] = r
    BY <1>2, <2>1 DEF Follows
  <2>3. QED
    BY <1>1, <2>1, <2>2
<1>4. ASSUME NEW k \in 1 .. n
      PROVE  h2[k] = HeldAfter(h2[k - 1], u[k]) /\ o2[k] = KeysAfter(o2[k - 1], h2[k - 1], u[k])
  <2> DEFINE j == k + 1
  <2>1. j \in 1 .. Len(q) /\ j - 1 = k /\ k \in 0 .. n /\ k - 1 \in 0 .. n /\ (k - 1) + 1 = k /\ u[k] = q[j]
    BY <1>1
  <2>2. h2[k] = h[j] /\ o2[k] = o[j] /\ h2[k - 1] = h[k] /\ o2[k - 1] = o[k]
    BY <2>1
  <2> HIDE DEF j, h2, o2
  <2>3. h[j] = HeldAfter(h[j - 1], q[j]) /\ o[j] = KeysAfter(o[j - 1], h[j - 1], q[j])
    BY <1>2, <2>1 DEF Follows
  <2>4. QED
    BY <2>1, <2>2, <2>3
<1>5. h2[n] = s1 /\ o2[n] = r1
  BY <1>1, <1>2
<1> HIDE DEF h2, o2, s2, r2
<1>6. Follows(h2, o2, u, s2, r2)
  BY <1>3, <1>4 DEF Follows, n
<1>7. QED
  BY <1>5, <1>6 DEF Matches, n, u, s2, r2, e

\* One more event leads on.
LEMMA MatchMore ==
    ASSUME NEW q \in Seq(Events), NEW s, NEW r, NEW s1, NEW r1, Matches(q, s, r, s1, r1), NEW e \in Events
    PROVE  Matches(Append(q, e), s, r, HeldAfter(s1, e), KeysAfter(r1, s1, e))
<1> DEFINE p == Append(q, e)
           n == Len(q)
           m == n + 1
<1>1. /\ n \in Nat /\ Len(p) = m /\ p[m] = e /\ \A k \in 1 .. n : p[k] = q[k]
      /\ m - 1 = n /\ m \notin 0 .. n /\ m \in 0 .. m /\ \A k \in 0 .. n : k \in 0 .. m /\ k # m
      /\ \A k \in 1 .. m : k = m \/ k \in 1 .. n
  OBVIOUS
<1>2. PICK h, o : Follows(h, o, q, s, r) /\ h[n] = s1 /\ o[n] = r1
  BY DEF Matches
<1> DEFINE s2 == HeldAfter(s1, e)
           r2 == KeysAfter(r1, s1, e)
           h2 == [k \in 0 .. m |-> IF k = m THEN s2 ELSE h[k]]
           o2 == [k \in 0 .. m |-> IF k = m THEN r2 ELSE o[k]]
<1>3. /\ h2[m] = s2 /\ o2[m] = r2
      /\ \A k \in 0 .. n : h2[k] = h[k] /\ o2[k] = o[k]
  <2> HIDE DEF s2, r2, m, n
  <2>1. QED
    BY <1>1
<1> HIDE DEF h2, o2, m, p, n
<1>4. h2[0] = s /\ o2[0] = r
  <2>1. 0 \in 0 .. n
    BY <1>1
  <2>2. QED
    BY <1>2, <1>3, <2>1 DEF Follows
<1>5. ASSUME NEW k \in 1 .. m
      PROVE  h2[k] = HeldAfter(h2[k - 1], p[k]) /\ o2[k] = KeysAfter(o2[k - 1], h2[k - 1], p[k])
  <2>1. CASE k = m
    <3>1. n \in 0 .. n
      BY <1>1
    <3>2. h2[k - 1] = s1 /\ o2[k - 1] = r1
      BY <1>1, <1>2, <1>3, <2>1, <3>1
    <3>3. QED
      BY <1>1, <1>3, <2>1, <3>2
  <2>2. CASE k \in 1 .. n
    <3>1. k \in 0 .. n /\ k - 1 \in 0 .. n
      BY <1>1, <2>2
    <3>2. h[k] = HeldAfter(h[k - 1], q[k]) /\ o[k] = KeysAfter(o[k - 1], h[k - 1], q[k])
      BY <1>2, <2>2 DEF Follows, n
    <3>3. QED
      BY <1>1, <1>3, <2>2, <3>1, <3>2
  <2>3. QED
    BY <1>1, <2>1, <2>2
<1> HIDE DEF s2, r2
<1>6. Follows(h2, o2, p, s, r)
  BY <1>1, <1>4, <1>5 DEF Follows
<1>7. QED
  BY <1>1, <1>3, <1>6 DEF Matches, p, s2, r2

\* However far it leads, the keys there were come first.
LEMMA MatchPrefix ==
    ASSUME NEW q \in Seq(Events), NEW s, NEW r \in Seq(OutKeys), NEW s1, NEW r1, Matches(q, s, r, s1, r1)
    PROVE  IsPrefix(r, r1)
<1> DEFINE n == Len(q)
<1>1. n \in Nat /\ \A k \in 1 .. n : q[k] \in Events
  OBVIOUS
<1>2. PICK h, o : Follows(h, o, q, s, r) /\ h[n] = s1 /\ o[n] = r1
  BY DEF Matches
<1> DEFINE Extends(x) == x \in Seq(OutKeys) /\ Len(r) <= Len(x) /\ \A i \in 1 .. Len(r) : x[i] = r[i]
           S == {k \in 0 .. n : Extends(o[k])}
<1>3. 0 \in S
  BY <1>1, <1>2 DEF Follows
<1>4. ASSUME NEW k \in 0 .. n - 1, k \in S PROVE k + 1 \in S
  <2> DEFINE j == k + 1
  <2>1. j \in 1 .. n /\ j \in 0 .. n /\ j - 1 = k
    BY <1>1
  <2> HIDE DEF j
  <2>2. o[j] = KeysAfter(o[j - 1], h[j - 1], q[j])
    BY <1>2, <2>1 DEF Follows
  <2> DEFINE x == o[k]
             y == o[j]
  <2>3. x \in Seq(OutKeys) /\ Len(r) <= Len(x) /\ \A i \in 1 .. Len(r) : x[i] = r[i]
    BY <1>4
  <2>4. y = KeysAfter(x, h[k], q[j])
    BY <2>1, <2>2
  <2>5. q[j] \in Events
    BY <1>1, <2>1
  <2> HIDE DEF x, y
  <2>6. y \in Seq(OutKeys)
    BY <2>3, <2>4, <2>5, KeysAfterType
  <2>7. y = x \/ \E z : y = Append(x, z)
    BY <2>4 DEF KeysAfter
  <2>8. Len(r) <= Len(y) /\ \A i \in 1 .. Len(r) : y[i] = r[i]
    <3>1. CASE y = x
      BY <2>3, <3>1
    <3>2. CASE y # x
      <4>1. PICK z : y = Append(x, z)
        BY <2>7, <3>2
      <4>2. Len(y) = Len(x) + 1 /\ Len(x) \in Nat /\ Len(r) \in Nat /\ \A i \in 1 .. Len(x) : y[i] = x[i]
        BY <2>3, <4>1
      <4>3. QED
        BY <2>3, <4>2
    <3>3. QED
      BY <3>1, <3>2
  <2>9. Extends(o[j])
    BY <2>6, <2>8 DEF y
  <2>10. QED
    BY <2>1, <2>9 DEF j
<1>5. Extends(r1)
  <2> HIDE DEF S, n
  <2>1. \A k \in 0 .. n : k \in S
    BY <1>1, <1>3, <1>4, CountingUp
  <2>2. n \in S
    BY <1>1, <2>1
  <2>3. QED
    BY <1>2, <2>2 DEF S
<1>6. SubSeq(r1, 1, Len(r)) = r /\ SubSeq(r, 1, Len(r)) = r
  BY <1>5
<1>7. QED
  BY <1>5, <1>6 DEF IsPrefix

-----------------------------------------------------------------------------
(* Keys without their shift.                                               *)

LEMMA UnshiftedIs ==
    ASSUME NEW r \in Seq(OutKeys)
    PROVE  /\ Len(Unshifted(r)) = Len(r) /\ DOMAIN Unshifted(r) = 1 .. Len(r) /\ Len(r) \in Nat
           /\ \A i \in 1 .. Len(r) : Unshifted(r)[i] = <<r[i][1][1], r[i][2]>>
           /\ \E S : Unshifted(r) \in Seq(S)
<1> DEFINE u    == Unshifted(r)
           f(i) == <<r[i][1][1], r[i][2]>>
           S    == {f(i) : i \in 1 .. Len(r)}
<1>1. Len(r) \in Nat /\ DOMAIN r = 1 .. Len(r)
  OBVIOUS
<1>2. u = [i \in 1 .. Len(r) |-> f(i)]
  BY <1>1 DEF Unshifted
<1>3. u \in [1 .. Len(r) -> S]
  BY <1>2
<1> HIDE DEF u, S
<1>4. u \in Seq(S) /\ Len(u) = Len(r) /\ DOMAIN u = 1 .. Len(r)
  BY <1>1, <1>3
<1>5. QED
  BY <1>1, <1>2, <1>4 DEF u

LEMMA UnshiftedPrefix ==
    ASSUME NEW r \in Seq(OutKeys), NEW r1 \in Seq(OutKeys), IsPrefix(r, r1)
    PROVE  IsPrefix(Unshifted(r), Unshifted(r1)) /\ Len(r) <= Len(r1)
<1> DEFINE n == Len(r)
           u == Unshifted(r)
           v == Unshifted(r1)
<1>1. n \in Nat /\ Len(r1) \in Nat /\ n <= Len(r1) /\ \A i \in 1 .. n : r1[i] = r[i]
  <2>1. n <= Len(r1) /\ SubSeq(r, 1, n) = SubSeq(r1, 1, n)
    BY DEF IsPrefix
  <2>2. \A i \in 1 .. n : SubSeq(r, 1, n)[i] = r[i] /\ SubSeq(r1, 1, n)[i] = r1[i]
    BY <2>1
  <2>3. QED
    BY <2>1, <2>2
<1>2. /\ Len(u) = n /\ Len(v) = Len(r1)
      /\ \A i \in 1 .. n : u[i] = <<r[i][1][1], r[i][2]>> /\ v[i] = <<r1[i][1][1], r1[i][2]>>
  BY <1>1, UnshiftedIs
<1>3. \A i \in 1 .. n : u[i] = v[i]
  BY <1>1, <1>2
<1>4. PICK S, T : u \in Seq(S) /\ v \in Seq(T)
  BY UnshiftedIs
<1> HIDE DEF n, u, v
<1>5. SubSeq(u, 1, n) = SubSeq(v, 1, n)
  BY <1>1, <1>2, <1>3, <1>4
<1>6. QED
  BY <1>1, <1>2, <1>5 DEF IsPrefix, n, u, v

\* Keys that differ in nothing but the shift.
Alike(a, b) ==
    /\ a \in Seq(OutKeys) /\ b \in Seq(OutKeys) /\ Len(a) = Len(b)
    /\ \A i \in 1 .. Len(a) : a[i][1][1] = b[i][1][1] /\ a[i][2] = b[i][2]

LEMMA AlikeUnshifted == ASSUME NEW a, NEW b, Alike(a, b) PROVE Unshifted(a) = Unshifted(b)
<1>1. Len(a) = Len(b) /\ DOMAIN a = 1 .. Len(a) /\ DOMAIN b = 1 .. Len(a)
  BY DEF Alike
<1>2. \A i \in 1 .. Len(a) : a[i][1][1] = b[i][1][1] /\ a[i][2] = b[i][2]
  BY DEF Alike
<1>3. QED
  BY <1>1, <1>2 DEF Unshifted

\* An event adds the same key under any shift.
LEMMA AlikeAfter ==
    ASSUME NEW a, NEW b, Alike(a, b), NEW s, NEW t, NEW e \in Events
    PROVE  Alike(KeysAfter(a, s, e), KeysAfter(b, t, e))
<1> DEFINE key(h) == TranslateKey(e.code, h # {})
           out(h) == Delivered(key(h), e.value)
           still  == e.value = 2 \/ e.code \in Shifts \/ e.code \notin Typewriter \union Fixed
           a2     == KeysAfter(a, s, e)
           b2     == KeysAfter(b, t, e)
<1>1. a2 \in Seq(OutKeys) /\ b2 \in Seq(OutKeys)
  BY KeysAfterType DEF Alike
<1>2. \A h : key(h) = NoKey <=> e.code \notin Typewriter \union Fixed
  BY DEF TranslateKey, NoKey
<1>3. \A h : e.code \in Typewriter \union Fixed => key(h)[1] = e.code
  BY DEF TranslateKey
<1>4. CASE still
  <2>1. a2 = a /\ b2 = b
    BY <1>2, <1>4 DEF KeysAfter
  <2>2. QED
    BY <2>1
<1>5. CASE ~still
  <2>1. a2 = Append(a, out(s)) /\ b2 = Append(b, out(t))
    BY <1>2, <1>5 DEF KeysAfter
  <2>2. out(s)[1][1] = out(t)[1][1] /\ out(s)[2] = out(t)[2]
    <3>1. \A h : out(h) = <<key(h), e.value = 1>>
      BY DEF Delivered
    <3>2. \A h : out(h)[1] = key(h) /\ out(h)[2] = (e.value = 1)
      <4> HIDE DEF key, out
      <4>1. QED
        BY <3>1
    <3>3. \A h : key(h)[1] = e.code
      BY <1>3, <1>5
    <3> HIDE DEF key, out
    <3>4. QED
      BY <3>2, <3>3
  <2>3. DEFINE n == Len(a)
  <2>4. /\ n \in Nat /\ Len(a2) = n + 1 /\ Len(b2) = n + 1
        /\ \A i \in 1 .. n : a2[i] = a[i] /\ b2[i] = b[i]
        /\ a2[n + 1] = out(s) /\ b2[n + 1] = out(t)
    <3> HIDE DEF out, a2, b2
    <3>1. a \in Seq(OutKeys) /\ b \in Seq(OutKeys) /\ Len(a) = Len(b)
      BY DEF Alike
    <3>2. QED
      BY <2>1, <3>1
  <2>5. \A i \in 1 .. n : a[i][1][1] = b[i][1][1] /\ a[i][2] = b[i][2]
    BY DEF Alike
  <2> HIDE DEF out, a2, b2, n
  <2>6. ASSUME NEW i \in 1 .. n + 1 PROVE a2[i][1][1] = b2[i][1][1] /\ a2[i][2] = b2[i][2]
    <3>1. CASE i \in 1 .. n
      BY <2>4, <2>5, <3>1
    <3>2. CASE i = n + 1
      BY <2>2, <2>4, <3>2
    <3>3. QED
      BY <2>4, <3>1, <3>2
  <2>7. Alike(a2, b2)
    BY <1>1, <2>4, <2>6 DEF Alike
  <2>8. QED
    BY <2>7 DEF a2, b2
<1>6. QED
  BY <1>4, <1>5

-----------------------------------------------------------------------------
(* The invariant.                                                          *)

OpenFiles == [device : Keyboards, queue : Seq(Events)]

KeypadTypeOK ==
    /\ callback \in BOOLEAN
    /\ files \in Seq(OpenFiles)
    /\ at \in Nat /\ (phase = "polling" => at >= 1)
    /\ pending \in Seq(Keyboards \X OutKeys) /\ (callback => pending = <<>>)
    /\ got \in [Keyboards -> Seq(OutKeys)] /\ owed \in [Keyboards -> Seq(OutKeys)]
    /\ down \in [Keyboards -> SUBSET Codes]

\* No device is opened twice.
OpenedOnce == \A i, j \in DOMAIN files : files[i].device = files[j].device => i = j

\* A shift key in a queue is known to have been used.
ShiftsKnown ==
    \A i \in DOMAIN files : \A k \in DOMAIN files[i].queue :
        files[i].queue[k].code \in Shifts => files[i].device \in shifted

\* Before the devices are opened nothing has happened.
Fresh ==
    phase = "closed" =>
        /\ shift = {} /\ pending = <<>>
        /\ \A d \in Keyboards : got[d] = <<>> /\ owed[d] = <<>> /\ down[d] = {}

Read(d) == got[d] \o Waiting(d)

\* What is left in the queue of a device makes up what is owed.
Rest(d) ==
    IF Files(d) = {} THEN Read(d) = owed[d]
    ELSE \A i \in Files(d) : Matches(files[i].queue, shift, Read(d), down[d] \intersect Shifts, owed[d])

\* The same but for the shift, from a shift state that the other keyboards leave alone.
OwnRest(d) ==
    IF Files(d) = {} THEN Read(d) = owed[d]
    ELSE \A i \in Files(d) : \E s, r :
             Alike(r, Read(d)) /\ Matches(files[i].queue, s, r, down[d] \intersect Shifts, owed[d])

CaughtUp ==
    phase \in {"idle", "polling"} =>
        \A d \in Keyboards \ lost : OwnRest(d) /\ (shifted \subseteq {d} => Rest(d))

KeypadInv == KeypadTypeOK /\ OpenedOnce /\ ShiftsKnown /\ Fresh /\ CaughtUp

LEMMA ReadType ==
    ASSUME KeypadTypeOK, NEW d \in Keyboards
    PROVE  Waiting(d) \in Seq(OutKeys) /\ Read(d) \in Seq(OutKeys)
<1>1. pending \in Seq(Keyboards \X OutKeys) /\ got[d] \in Seq(OutKeys)
  BY DEF KeypadTypeOK
<1>2. \A x \in Keyboards \X OutKeys : x[2] \in OutKeys
  OBVIOUS
<1>3. Waiting(d) \in Seq(OutKeys)
  BY <1>1, <1>2, UnderType DEF Waiting
<1>4. QED
  BY <1>1, <1>3 DEF Read

LEMMA FileType ==
    ASSUME KeypadTypeOK, NEW i \in DOMAIN files
    PROVE  files[i] \in OpenFiles /\ files[i].device \in Keyboards /\ files[i].queue \in Seq(Events)
<1>1. files[i] \in OpenFiles
  BY DEF KeypadTypeOK
<1>2. QED
  BY <1>1 DEF OpenFiles

LEMMA InvDelivers == ASSUME KeypadInv PROVE TypedIsDelivered
<1> SUFFICES ASSUME phase \in {"idle", "polling"}, NEW d \in Keyboards \ lost
             PROVE  /\ IsPrefix(Unshifted(Read(d)), Unshifted(owed[d]))
                    /\ (\A i \in Files(d) : files[i].queue = <<>>) => Len(Read(d)) = Len(owed[d])
                    /\ shifted \subseteq {d} => IsPrefix(Read(d), owed[d])
  BY DEF TypedIsDelivered, Read
<1>1. OwnRest(d) /\ (shifted \subseteq {d} => Rest(d))
  BY DEF KeypadInv, CaughtUp
<1>2. Read(d) \in Seq(OutKeys) /\ owed[d] \in Seq(OutKeys)
  BY ReadType DEF KeypadInv, KeypadTypeOK
<1> DEFINE r == Read(d)
<1>3. CASE Files(d) = {}
  <2>1. r = owed[d]
    BY <1>1, <1>3 DEF OwnRest
  <2> HIDE DEF r
  <2>2. IsPrefix(r, r)
    BY <1>2 DEF IsPrefix, r
  <2>3. IsPrefix(Unshifted(r), Unshifted(r))
    BY <1>2, <2>2, UnshiftedPrefix DEF r
  <2>4. QED
    BY <2>1, <2>2, <2>3 DEF r
<1>4. CASE Files(d) # {}
  <2>1. PICK i : i \in Files(d)
    BY <1>4
  <2> DEFINE q == files[i].queue
  <2>2. q \in Seq(Events)
    <3>1. i \in DOMAIN files
      BY <2>1 DEF Files
    <3>2. QED
      BY <3>1, FileType DEF KeypadInv
  <2>3. PICK s, x : Alike(x, r) /\ Matches(q, s, x, down[d] \intersect Shifts, owed[d])
    BY <1>1, <1>4, <2>1 DEF OwnRest
  <2>4. ASSUME shifted \subseteq {d} PROVE Matches(q, shift, r, down[d] \intersect Shifts, owed[d])
    BY <1>1, <1>4, <2>1, <2>4 DEF Rest
  <2>5. ASSUME \A k \in Files(d) : files[k].queue = <<>> PROVE q = <<>>
    BY <2>1, <2>5
  <2> HIDE DEF r, q
  <2>6. x \in Seq(OutKeys) /\ Unshifted(x) = Unshifted(r) /\ Len(x) = Len(r)
    BY <2>3, AlikeUnshifted DEF Alike
  <2>7. IsPrefix(x, owed[d])
    BY <2>2, <2>3, <2>6, MatchPrefix
  <2>8. IsPrefix(Unshifted(r), Unshifted(owed[d]))
    BY <1>2, <2>6, <2>7, UnshiftedPrefix
  <2>9. ASSUME q = <<>> PROVE Len(r) = Len(owed[d])
    <3>1. Matches(<<>>, s, x, down[d] \intersect Shifts, owed[d])
      BY <2>3, <2>9
    <3>2. owed[d] = x
      BY <3>1, MatchEmpty
    <3>3. QED
      BY <2>6, <3>2
  <2>10. ASSUME shifted \subseteq {d} PROVE IsPrefix(r, owed[d])
    BY <1>2, <2>2, <2>4, <2>10, MatchPrefix DEF r
  <2>11. QED
    BY <2>5, <2>8, <2>9, <2>10 DEF r
<1>5. QED
  BY <1>3, <1>4

LEMMA KeypadInit == ASSUME KeypadAssumption, Init PROVE KeypadInv
<1>1. KeypadTypeOK
  <2>1. /\ <<>> \in Seq(OpenFiles) /\ <<>> \in Seq(Keyboards \X OutKeys) /\ <<>> \in Seq(OutKeys)
        /\ {} \in SUBSET Codes
    OBVIOUS
  <2>2. QED
    BY <2>1 DEF Init, KeypadTypeOK
<1>2. DOMAIN files = {}
  BY DEF Init
<1>3. OpenedOnce /\ ShiftsKnown
  BY <1>2 DEF OpenedOnce, ShiftsKnown
<1>4. Fresh /\ CaughtUp
  BY DEF Init, Fresh, CaughtUp
<1>5. QED
  BY <1>1, <1>3, <1>4 DEF KeypadInv

-----------------------------------------------------------------------------
(* The steps.                                                              *)

\* Where neither the files nor the keys change, nor who has lost any.
LEMMA NothingRead ==
    ASSUME KeypadInv, phase # "closed", phase' # "closed",
           phase' \in {"idle", "polling"} => phase \in {"idle", "polling"},
           at' \in Nat, phase' = "polling" => at' >= 1,
           UNCHANGED <<callback, files, shift, pending, got, user>>
    PROVE  KeypadInv'
<1>1. KeypadTypeOK' /\ OpenedOnce' /\ ShiftsKnown' /\ Fresh'
  BY DEF KeypadInv, KeypadTypeOK, OpenedOnce, ShiftsKnown, Fresh, user
<1>2. CaughtUp'
  BY DEF KeypadInv, CaughtUp, OwnRest, Rest, Read, Waiting, Files, user
<1>3. QED
  BY <1>1, <1>2 DEF KeypadInv

LEMMA StutterInv == ASSUME KeypadInv, UNCHANGED vars PROVE KeypadInv'
<1>1. KeypadTypeOK' /\ OpenedOnce' /\ ShiftsKnown' /\ Fresh'
  BY DEF KeypadInv, KeypadTypeOK, OpenedOnce, ShiftsKnown, Fresh, vars, user
<1>2. \A d : (OwnRest(d)' <=> OwnRest(d)) /\ (Rest(d)' <=> Rest(d))
  BY DEF OwnRest, Rest, Read, Waiting, Files, vars, user
<1>3. CaughtUp'
  BY <1>2 DEF KeypadInv, CaughtUp, vars, user
<1>4. QED
  BY <1>1, <1>3 DEF KeypadInv

LEMMA CloseInv == ASSUME KeypadInv, Close PROVE KeypadInv'
<1>1. <<>> \in Seq(OpenFiles) /\ <<>> \in Seq(Keyboards \X OutKeys) /\ DOMAIN <<>> = {}
  OBVIOUS
<1>2. /\ files' = <<>> /\ pending' = <<>> /\ phase' = "ended"
      /\ UNCHANGED <<callback, at, shift, got, user>>
  BY DEF Close
<1>3. KeypadTypeOK'
  BY <1>1, <1>2 DEF KeypadInv, KeypadTypeOK, user
<1>4. OpenedOnce' /\ ShiftsKnown'
  BY <1>1, <1>2 DEF OpenedOnce, ShiftsKnown
<1>5. Fresh' /\ CaughtUp'
  BY <1>2 DEF Fresh, CaughtUp
<1>6. QED
  BY <1>3, <1>4, <1>5 DEF KeypadInv

\* The key that LVGL takes goes from those that wait to those delivered.
LEMMA ReadCbInv == ASSUME KeypadInv, ReadCb PROVE KeypadInv'
<1> DEFINE x == Head(pending)
           A == Keyboards \X OutKeys
<1>1. /\ phase = "idle" /\ pending # <<>> /\ pending' = Tail(pending)
      /\ got' = [got EXCEPT ![x[1]] = Append(@, x[2])]
      /\ UNCHANGED <<callback, phase, files, at, shift, user>>
  BY DEF ReadCb
<1>2. pending \in Seq(A) /\ got \in [Keyboards -> Seq(OutKeys)] /\ (callback => pending = <<>>)
  BY DEF KeypadInv, KeypadTypeOK
<1>3. x \in A /\ Tail(pending) \in Seq(A) /\ \A y \in A : y[1] \in Keyboards /\ y[2] \in OutKeys
  BY <1>1, <1>2
<1> HIDE DEF x
<1>4. /\ got' \in [Keyboards -> Seq(OutKeys)]
      /\ \A d \in Keyboards : got'[d] = IF d = x[1] THEN Append(got[d], x[2]) ELSE got[d]
  BY <1>1, <1>2, <1>3
<1>5. KeypadTypeOK'
  BY <1>1, <1>2, <1>3, <1>4 DEF KeypadInv, KeypadTypeOK, user, A
<1>6. OpenedOnce' /\ ShiftsKnown' /\ Fresh'
  BY <1>1 DEF KeypadInv, OpenedOnce, ShiftsKnown, Fresh, user
<1>7. ASSUME NEW d \in Keyboards PROVE Read(d)' = Read(d)
  <2> DEFINE u == Under(d, Tail(pending))
             a == AddIf(d, <<>>, x)
             g == got[d]
  <2>1. Under(d, pending) = a \o u
    BY <1>1, <1>2, <1>3, UnderFirst DEF x
  <2>2. u \in Seq(OutKeys)
    BY <1>3, UnderType
  <2>3. Read(d)' = got'[d] \o u /\ Read(d) = g \o (a \o u)
    BY <1>1, <2>1 DEF Read, Waiting
  <2>4. g \in Seq(OutKeys) /\ x[2] \in OutKeys
    BY <1>2, <1>3
  <2> HIDE DEF u
  <2>5. CASE x[1] = d
    <3>1. got'[d] = Append(g, x[2]) /\ a = Append(<<>>, x[2])
      BY <1>4, <2>5 DEF AddIf
    <3> DEFINE y == x[2]
    <3> HIDE DEF g, a, y
    <3>2. g \o (Append(<<>>, y) \o u) = Append(g, y) \o u
      BY <2>2, <2>4 DEF y
    <3>3. QED
      BY <2>3, <3>1, <3>2 DEF y
  <2>6. CASE x[1] # d
    <3>1. got'[d] = g /\ a = <<>>
      BY <1>4, <2>6 DEF AddIf
    <3> HIDE DEF g, a
    <3>2. <<>> \o u = u
      BY <2>2
    <3>3. QED
      BY <2>3, <3>1, <3>2
  <2>7. QED
    BY <2>5, <2>6
<1>8. CaughtUp'
  <2> SUFFICES ASSUME NEW d \in Keyboards, d \notin lost
               PROVE  OwnRest(d)' /\ (shifted \subseteq {d} => Rest(d)')
    BY <1>1 DEF CaughtUp, user
  <2>1. OwnRest(d) /\ (shifted \subseteq {d} => Rest(d))
    BY <1>1 DEF KeypadInv, CaughtUp
  <2>2. QED
    BY <1>1, <1>7, <2>1 DEF OwnRest, Rest, Files, user
<1>9. QED
  BY <1>5, <1>6, <1>8 DEF KeypadInv

-----------------------------------------------------------------------------
(* An event read.                                                          *)

\* What pushKeyEvent makes of an event is what follows it.
LEMMA PushFollows ==
    ASSUME KeypadTypeOK, NEW d0 \in Keyboards, NEW e \in Events, PushKeyEvent(d0, e.code, e.value)
    PROVE  /\ shift' = HeldAfter(shift, e)
           /\ got' \in [Keyboards -> Seq(OutKeys)] /\ pending' \in Seq(Keyboards \X OutKeys)
           /\ callback => pending' = <<>>
           /\ \A d \in Keyboards :
                 got'[d] \o Under(d, pending') = IF d = d0 THEN KeysAfter(Read(d), shift, e) ELSE Read(d)
<1> DEFINE key == TranslateKey(e.code, shift # {})
           k == Delivered(key, e.value)
           still == e.value = 2 \/ e.code \in Shifts \/ key = NoKey
           A == Keyboards \X OutKeys
<1>1. shift' = HeldAfter(shift, e)
  BY DEF PushKeyEvent, HeldAfter
<1>2. \/ still /\ got' = got /\ pending' = pending
      \/ ~still /\ callback /\ got' = [got EXCEPT ![d0] = Append(@, k)] /\ pending' = pending
      \/ ~still /\ ~callback /\ pending' = Append(pending, <<d0, k>>) /\ got' = got
  BY DEF PushKeyEvent, KeypadTypeOK
<1>3. \A r : KeysAfter(r, shift, e) = IF still THEN r ELSE Append(r, k)
  BY DEF KeysAfter
<1>4. KeysAfter(<<>>, shift, e) \in Seq(OutKeys)
  <2>1. <<>> \in Seq(OutKeys)
    OBVIOUS
  <2>2. QED
    BY <2>1, KeysAfterType
<1> HIDE DEF still, k
<1>5. ~still => k \in OutKeys
  <2> SUFFICES ASSUME ~still PROVE k \in OutKeys
    OBVIOUS
  <2>1. Append(<<>>, k) \in Seq(OutKeys)
    BY <1>3, <1>4
  <2>2. Append(<<>>, k)[1] = k /\ 1 \in 1 .. Len(Append(<<>>, k))
    OBVIOUS
  <2>3. QED
    BY <2>1, <2>2
<1>6. /\ got \in [Keyboards -> Seq(OutKeys)] /\ pending \in Seq(A) /\ (callback => pending = <<>>)
      /\ callback \in BOOLEAN
  BY DEF KeypadTypeOK
<1>7. \A d \in Keyboards : Read(d) = got[d] \o Under(d, pending) /\ got[d] \in Seq(OutKeys)
                           /\ Under(d, pending) \in Seq(OutKeys)
  BY <1>6, ReadType DEF Read, Waiting
<1>8. CASE still /\ got' = got /\ pending' = pending
  BY <1>1, <1>3, <1>6, <1>7, <1>8
<1>9. CASE ~still /\ callback /\ got' = [got EXCEPT ![d0] = Append(@, k)] /\ pending' = pending
  <2>1. /\ got' \in [Keyboards -> Seq(OutKeys)]
        /\ \A d \in Keyboards : got'[d] = IF d = d0 THEN Append(got[d], k) ELSE got[d]
    BY <1>5, <1>6, <1>9
  <2>2. pending = <<>>
    BY <1>6, <1>9
  <2>3. ASSUME NEW d \in Keyboards
        PROVE  got'[d] \o Under(d, pending') = IF d = d0 THEN KeysAfter(Read(d), shift, e) ELSE Read(d)
    <3> DEFINE g == got[d]
    <3>1. g \in Seq(OutKeys)
      BY <1>6
    <3>2. Under(d, pending) = <<>> /\ Under(d, pending') = <<>>
      BY <1>9, <2>2, UnderNone
    <3>3. Read(d) = g \o <<>>
      BY <1>7, <3>2
    <3>4. got'[d] = IF d = d0 THEN Append(g, k) ELSE g
      BY <2>1
    <3> HIDE DEF g
    <3>5. g \o <<>> = g /\ Append(g, k) \o <<>> = Append(g, k)
      BY <1>5, <1>9, <3>1
    <3>6. QED
      BY <1>3, <1>9, <3>2, <3>3, <3>4, <3>5
  <2>4. QED
    BY <1>1, <1>6, <1>9, <2>1, <2>3
<1>10. CASE ~still /\ ~callback /\ pending' = Append(pending, <<d0, k>>) /\ got' = got
  <2> DEFINE x == <<d0, k>>
  <2>1. x \in A /\ x[1] = d0 /\ x[2] = k
    BY <1>5, <1>10
  <2> HIDE DEF x
  <2>2. pending' = Append(pending, x)
    BY <1>10 DEF x
  <2>3. pending' \in Seq(A)
    BY <1>6, <2>1, <2>2
  <2>4. ASSUME NEW d \in Keyboards
        PROVE  got'[d] \o Under(d, pending') = IF d = d0 THEN KeysAfter(Read(d), shift, e) ELSE Read(d)
    <3> DEFINE g == got[d]
               w == Under(d, pending)
    <3>1. Under(d, pending') = AddIf(d, w, x)
      BY <1>6, <2>1, <2>2, UnderMore
    <3>2. g \in Seq(OutKeys) /\ w \in Seq(OutKeys) /\ Read(d) = g \o w
      BY <1>7
    <3>3. got'[d] = g
      BY <1>10
    <3> HIDE DEF g, w
    <3>4. g \o AddIf(d, w, x) = AddIf(d, g \o w, x)
      <4>1. x[2] \in OutKeys
        BY <1>5, <1>10, <2>1
      <4>2. QED
        BY <3>2, <4>1, AddAfter
    <3>5. AddIf(d, g \o w, x) = IF d = d0 THEN Append(g \o w, k) ELSE g \o w
      BY <2>1 DEF AddIf
    <3>6. QED
      BY <1>3, <1>10, <3>1, <3>2, <3>3, <3>4, <3>5
  <2>5. QED
    BY <1>1, <1>6, <1>10, <2>3, <2>4
<1>11. QED
  BY <1>2, <1>8, <1>9, <1>10

LEMMA PollReadInv == ASSUME KeypadInv, PollRead PROVE KeypadInv'
<1> DEFINE f  == files[at]
           q  == f.queue
           d0 == f.device
           e  == Head(q)
<1>1. /\ phase = "polling" /\ at <= Len(files) /\ q # <<>>
      /\ PushKeyEvent(d0, e.code, e.value)
      /\ files' = [files EXCEPT ![at].queue = Tail(@)]
      /\ UNCHANGED <<callback, phase, at, user>>
  BY DEF PollRead
<1>2. KeypadTypeOK /\ files \in Seq(OpenFiles) /\ at \in DOMAIN files
  BY <1>1 DEF KeypadInv, KeypadTypeOK
<1>3. d0 \in Keyboards /\ q \in Seq(Events) /\ f \in OpenFiles
  BY <1>2, FileType
<1>4. e \in Events /\ Tail(q) \in Seq(Events)
  BY <1>1, <1>3
<1>5. /\ files' \in Seq(OpenFiles) /\ DOMAIN files' = DOMAIN files
      /\ files'[at].device = d0 /\ files'[at].queue = Tail(q)
      /\ \A i \in DOMAIN files : i # at => files'[i] = files[i]
  <2> DEFINE f2 == [f EXCEPT !.queue = Tail(q)]
  <2>1. files' = [files EXCEPT ![at] = f2]
    BY <1>1
  <2>2. f2 \in OpenFiles /\ f2.device = d0 /\ f2.queue = Tail(q)
    BY <1>3, <1>4 DEF OpenFiles
  <2> HIDE DEF f2
  <2>3. QED
    BY <1>2, <2>1, <2>2
<1>6. /\ shift' = HeldAfter(shift, e)
      /\ got' \in [Keyboards -> Seq(OutKeys)] /\ pending' \in Seq(Keyboards \X OutKeys)
      /\ callback => pending' = <<>>
      /\ \A d \in Keyboards :
            got'[d] \o Under(d, pending') = IF d = d0 THEN KeysAfter(Read(d), shift, e) ELSE Read(d)
  <2> HIDE DEF e, d0
  <2>1. QED
    BY <1>1, <1>2, <1>3, <1>4, PushFollows
<1>7. \A d \in Keyboards : Read(d)' = IF d = d0 THEN KeysAfter(Read(d), shift, e) ELSE Read(d)
  BY <1>6 DEF Read, Waiting
<1> HIDE DEF f, q, d0, e
<1>8. KeypadTypeOK'
  BY <1>1, <1>2, <1>5, <1>6 DEF KeypadTypeOK, user
<1>9. OpenedOnce'
  BY <1>5 DEF KeypadInv, OpenedOnce, d0, f
<1>10. ShiftsKnown'
  <2> SUFFICES ASSUME NEW i \in DOMAIN files, NEW k \in DOMAIN (files'[i].queue),
                      files'[i].queue[k].code \in Shifts
               PROVE  files'[i].device \in shifted
    BY <1>1, <1>5 DEF ShiftsKnown, user
  <2>1. CASE i # at
    BY <1>5, <2>1 DEF KeypadInv, ShiftsKnown
  <2>2. CASE i = at
    <3>1. k + 1 \in DOMAIN q /\ Tail(q)[k] = q[k + 1]
      BY <1>1, <1>3, <1>5, <2>2
    <3>2. q[k + 1].code \in Shifts
      BY <1>5, <2>2, <3>1
    <3>3. d0 \in shifted
      BY <1>2, <3>1, <3>2 DEF KeypadInv, ShiftsKnown, q, d0, f
    <3>4. QED
      BY <1>5, <2>2, <3>3
  <2>3. QED
    BY <2>1, <2>2
<1>11. Fresh'
  BY <1>1 DEF Fresh
<1>12. CaughtUp'
  <2> SUFFICES ASSUME NEW d \in Keyboards, d \notin lost
               PROVE  OwnRest(d)' /\ (shifted \subseteq {d} => Rest(d)')
    BY <1>1 DEF CaughtUp, user
  <2>1. OwnRest(d) /\ (shifted \subseteq {d} => Rest(d))
    BY <1>1 DEF KeypadInv, CaughtUp
  <2>2. Files(d)' = Files(d)
    <3>1. \A i \in DOMAIN files : files'[i].device = files[i].device
      BY <1>5 DEF d0, f
    <3>2. QED
      BY <1>5, <3>1 DEF Files
  <2>3. UNCHANGED <<down, owed>>
    BY <1>1 DEF user
  <2>4. CASE d = d0
    <3>1. Files(d) = {at}
      BY <1>2, <2>4 DEF Files, KeypadInv, OpenedOnce, d0, f
    <3>2. ASSUME NEW s, NEW r, Matches(q, s, r, down[d] \intersect Shifts, owed[d])
          PROVE  Matches(files'[at].queue, HeldAfter(s, e), KeysAfter(r, s, e),
                         down'[d] \intersect Shifts, owed'[d])
      <4>1. Matches(Tail(q), HeldAfter(s, e), KeysAfter(r, s, e), down[d] \intersect Shifts, owed[d])
        BY <1>1, <1>3, <3>2, MatchRead DEF e
      <4>2. QED
        BY <1>5, <2>3, <4>1
    <3>3. ASSUME shifted \subseteq {d} PROVE Rest(d)'
      <4>1. Matches(q, shift, Read(d), down[d] \intersect Shifts, owed[d])
        BY <2>1, <3>1, <3>3 DEF Rest, q, f
      <4>2. Matches(files'[at].queue, shift', Read(d)', down'[d] \intersect Shifts, owed'[d])
        BY <1>6, <1>7, <2>4, <3>2, <4>1
      <4>3. QED
        BY <2>2, <3>1, <4>2 DEF Rest
    <3>4. OwnRest(d)'
      <4>1. PICK s, r : Alike(r, Read(d)) /\ Matches(q, s, r, down[d] \intersect Shifts, owed[d])
        BY <2>1, <3>1 DEF OwnRest, q, f
      <4>2. Alike(KeysAfter(r, s, e), KeysAfter(Read(d), shift, e))
        BY <1>4, <4>1, AlikeAfter
      <4>3. Alike(KeysAfter(r, s, e), Read(d)')
        BY <1>7, <2>4, <4>2
      <4>4. Matches(files'[at].queue, HeldAfter(s, e), KeysAfter(r, s, e),
                    down'[d] \intersect Shifts, owed'[d])
        BY <3>2, <4>1
      <4>5. QED
        BY <2>2, <3>1, <4>3, <4>4 DEF OwnRest
    <3>5. QED
      BY <3>3, <3>4
  <2>5. CASE d # d0
    <3>1. Read(d)' = Read(d)
      BY <1>7, <2>5
    <3>2. \A i \in Files(d) : i \in DOMAIN files /\ i # at
      BY <2>5 DEF Files, d0, f
    <3>3. \A i \in Files(d) : files'[i] = files[i]
      BY <1>5, <3>2
    <3>4. OwnRest(d)'
      BY <2>1, <2>2, <2>3, <3>1, <3>3 DEF OwnRest
    <3>5. ASSUME shifted \subseteq {d} PROVE Rest(d)'
      <4>1. e.code \notin Shifts
        <5> SUFFICES ASSUME e.code \in Shifts PROVE FALSE
          OBVIOUS
        <5>1. 1 \in DOMAIN q /\ e = q[1]
          BY <1>1, <1>3 DEF e
        <5>2. d0 \in shifted
          BY <1>2, <5>1 DEF KeypadInv, ShiftsKnown, q, d0, f
        <5>3. QED
          BY <2>5, <3>5, <5>2
      <4>2. shift' = shift
        BY <1>6, <4>1 DEF HeldAfter
      <4>3. QED
        BY <2>1, <2>2, <2>3, <3>1, <3>3, <3>5, <4>2 DEF Rest
    <3>6. QED
      BY <3>4, <3>5
  <2>6. QED
    BY <2>4, <2>5
<1>13. QED
  BY <1>8, <1>9, <1>10, <1>11, <1>12 DEF KeypadInv

-----------------------------------------------------------------------------
(* The user and the kernel.                                                *)

Event(c, v) == [code |-> c, value |-> v]

\* The event reaches the queues of its device, and what is owed with it.
LEMMA HappensInv ==
    ASSUME KeypadInv, NEW d0 \in Keyboards, NEW code \in Codes, NEW value \in 0 .. 2, Happens(d0, code, value),
           down' \in [Keyboards -> SUBSET Codes], \A d \in Keyboards : d # d0 => down'[d] = down[d],
           down'[d0] \intersect Shifts = HeldAfter(down[d0] \intersect Shifts, Event(code, value))
    PROVE  KeypadInv'
<1> DEFINE e == Event(code, value)
           before(i) == IF Full(d0) THEN <<>> ELSE files[i].queue
<1>1. /\ phase \in {"idle", "polling"}
      /\ files' = [i \in DOMAIN files |->
                      IF i \notin Files(d0) THEN files[i]
                      ELSE [files[i] EXCEPT !.queue = Append(before(i), e)]]
      /\ lost' = (IF Full(d0) THEN lost \union {d0} ELSE lost)
      /\ owed' = Owed(d0, code, value)
      /\ shifted' = (IF code \in Shifts THEN shifted \union {d0} ELSE shifted)
      /\ UNCHANGED <<callback, phase, at, shift, pending, got, gone>>
  BY DEF Happens, Event
<1>2. KeypadTypeOK /\ files \in Seq(OpenFiles)
  BY DEF KeypadInv, KeypadTypeOK
<1>3. e \in Events /\ e.code = code /\ e.value = value
  BY DEF Events, Event
<1> HIDE DEF e
<1>4. ASSUME NEW i \in DOMAIN files, i \in Files(d0)
      PROVE  files'[i] \in OpenFiles /\ files'[i].device = d0 /\ files'[i].queue = Append(before(i), e)
  <2> DEFINE q == Append(before(i), e)
             f == files[i]
  <2>1. f \in OpenFiles /\ f.device = d0 /\ f.queue \in Seq(Events)
    BY <1>2, <1>4, FileType DEF Files
  <2>2. q \in Seq(Events)
    BY <1>3, <2>1
  <2>3. files'[i] = [f EXCEPT !.queue = q]
    BY <1>1, <1>4
  <2> HIDE DEF f, q
  <2>4. files'[i] \in OpenFiles /\ files'[i].device = d0 /\ files'[i].queue = q
    BY <2>1, <2>2, <2>3 DEF OpenFiles
  <2>5. QED
    BY <2>4 DEF q
<1>5. ASSUME NEW i \in DOMAIN files, i \notin Files(d0) PROVE files'[i] = files[i]
  BY <1>1, <1>5
<1>6. DOMAIN files' = DOMAIN files /\ files' \in Seq(OpenFiles)
  <2> DEFINE n == Len(files)
  <2>1. DOMAIN files = 1 .. n /\ n \in Nat /\ \A i \in 1 .. n : files[i] \in OpenFiles
    BY <1>2
  <2>2. DOMAIN files' = 1 .. n
    BY <1>1, <2>1
  <2>3. \A i \in 1 .. n : files'[i] \in OpenFiles
    BY <1>4, <1>5, <2>1
  <2>4. \E g : files' = [i \in 1 .. n |-> g[i]]
    <3>1. files' = [i \in 1 .. n |-> files'[i]]
      BY <1>1, <2>1
    <3>2. QED
      BY <3>1
  <2> HIDE DEF n
  <2>5. files' \in [1 .. n -> OpenFiles]
    BY <2>2, <2>3, <2>4
  <2>6. QED
    BY <2>1, <2>2, <2>5
<1>7. \A i \in DOMAIN files : files'[i].device = files[i].device
  BY <1>4, <1>5 DEF Files
<1>8. /\ owed' \in [Keyboards -> Seq(OutKeys)]
      /\ \A d \in Keyboards :
            owed'[d] = IF d = d0 THEN KeysAfter(owed[d], down[d] \intersect Shifts, e) ELSE owed[d]
  <2> DEFINE held == down[d0] \intersect Shifts
             r    == KeysAfter(owed[d0], held, e)
  <2>1. owed \in [Keyboards -> Seq(OutKeys)] /\ owed[d0] \in Seq(OutKeys)
    BY <1>2 DEF KeypadTypeOK
  <2>2. r \in Seq(OutKeys)
    BY <1>3, <2>1, KeysAfterType
  <2>3. owed' = [owed EXCEPT ![d0] = r]
    <3>1. (owed' = owed /\ r = owed[d0]) \/ owed' = [owed EXCEPT ![d0] = r]
      BY <1>1, <1>3 DEF Owed, KeysAfter
    <3> HIDE DEF r
    <3>2. QED
      BY <2>1, <3>1
  <2> HIDE DEF r
  <2>4. owed' \in [Keyboards -> Seq(OutKeys)] /\ \A d \in Keyboards : owed'[d] = IF d = d0 THEN r ELSE owed[d]
    BY <2>1, <2>2, <2>3
  <2>5. QED
    BY <2>4 DEF r
<1> HIDE DEF before
<1>9. KeypadTypeOK'
  BY <1>1, <1>2, <1>6, <1>8 DEF KeypadTypeOK
<1>10. OpenedOnce'
  BY <1>6, <1>7 DEF KeypadInv, OpenedOnce
<1>11. ShiftsKnown'
  <2> SUFFICES ASSUME NEW i \in DOMAIN files, NEW k \in DOMAIN (files'[i].queue),
                      files'[i].queue[k].code \in Shifts
               PROVE  files'[i].device \in shifted'
    BY <1>6 DEF ShiftsKnown
  <2>1. shifted \subseteq shifted'
    BY <1>1
  <2>2. CASE i \notin Files(d0)
    BY <1>5, <2>1, <2>2 DEF KeypadInv, ShiftsKnown
  <2>3. CASE i \in Files(d0)
    <3> DEFINE q == before(i)
    <3>1. files'[i].queue = Append(q, e) /\ files'[i].device = d0 /\ files[i].device = d0
      BY <1>4, <2>3 DEF Files
    <3>2. q \in Seq(Events) /\ (q = <<>> \/ q = files[i].queue)
      BY <1>2, FileType DEF before
    <3> HIDE DEF q
    <3>3. (k = Len(q) + 1 /\ Append(q, e)[k] = e) \/ (k \in DOMAIN q /\ Append(q, e)[k] = q[k])
      <4> DEFINE p == Append(q, e)
                 m == Len(q)
      <4>1. k \in DOMAIN p
        BY <3>1
      <4>2. DOMAIN p = 1 .. m + 1 /\ DOMAIN q = 1 .. m /\ m \in Nat
        BY <1>3, <3>2
      <4>3. p[m + 1] = e /\ \A j \in 1 .. m : p[j] = q[j]
        BY <1>3, <3>2
      <4> HIDE DEF p, m
      <4>4. (k = m + 1 /\ p[k] = e) \/ (k \in DOMAIN q /\ p[k] = q[k])
        BY <4>1, <4>2, <4>3
      <4>5. QED
        BY <4>4 DEF p, m
    <3>4. CASE Append(q, e)[k] = e
      BY <1>1, <1>3, <3>1, <3>4
    <3>5. CASE k \in DOMAIN q /\ Append(q, e)[k] = q[k]
      <4>1. q = files[i].queue
        BY <3>2, <3>5
      <4>2. d0 \in shifted
        BY <3>1, <3>5, <4>1 DEF KeypadInv, ShiftsKnown
      <4>3. QED
        BY <2>1, <3>1, <4>2
    <3>6. QED
      BY <3>3, <3>4, <3>5
  <2>4. QED
    BY <2>2, <2>3
<1>12. Fresh'
  BY <1>1 DEF Fresh
<1>13. CaughtUp'
  <2> SUFFICES ASSUME NEW d \in Keyboards, d \notin lost'
               PROVE  OwnRest(d)' /\ (shifted' \subseteq {d} => Rest(d)')
    BY DEF CaughtUp
  <2>1. d \notin lost /\ (shifted' \subseteq {d} => shifted \subseteq {d})
    BY <1>1
  <2>2. OwnRest(d) /\ (shifted' \subseteq {d} => Rest(d))
    BY <1>1, <2>1 DEF KeypadInv, CaughtUp
  <2>3. Files(d)' = Files(d)
    BY <1>6, <1>7 DEF Files
  <2>4. Read(d)' = Read(d) /\ shift' = shift
    BY <1>1 DEF Read, Waiting
  <2>5. CASE d # d0
    <3>1. \A i \in Files(d) : i \in DOMAIN files /\ i \notin Files(d0)
      BY <2>5 DEF Files
    <3>2. \A i \in Files(d) : files'[i] = files[i]
      BY <1>5, <3>1
    <3>3. down'[d] = down[d] /\ owed'[d] = owed[d]
      BY <1>8, <2>5
    <3>4. OwnRest(d)'
      BY <2>2, <2>3, <2>4, <3>2, <3>3 DEF OwnRest
    <3>5. Rest(d) => Rest(d)'
      BY <2>3, <2>4, <3>2, <3>3 DEF Rest
    <3>6. QED
      BY <2>2, <3>4, <3>5
  <2>6. CASE d = d0
    <3>1. ~Full(d0) /\ Files(d) # {}
      BY <1>1, <2>6 DEF Happens
    <3>2. ASSUME NEW i \in Files(d), NEW t, NEW x,
                 Matches(files[i].queue, t, x, down[d] \intersect Shifts, owed[d])
          PROVE  Matches(files'[i].queue, t, x, down'[d] \intersect Shifts, owed'[d])
      <4> DEFINE q == files[i].queue
                 s == down[d] \intersect Shifts
                 r == owed[d]
      <4>1. i \in DOMAIN files
        BY DEF Files
      <4>2. q \in Seq(Events)
        BY <1>2, <4>1, FileType
      <4>3. Matches(q, t, x, s, r)
        BY <3>2
      <4> HIDE DEF q, s, r
      <4>4. Matches(Append(q, e), t, x, HeldAfter(s, e), KeysAfter(r, s, e))
        BY <1>3, <4>2, <4>3, MatchMore
      <4>5. files'[i].queue = Append(q, e)
        BY <1>4, <2>6, <3>1, <4>1 DEF before, q
      <4>6. down'[d] \intersect Shifts = HeldAfter(s, e) /\ owed'[d] = KeysAfter(r, s, e)
        BY <1>8, <2>6 DEF s, r, e
      <4>7. QED
        BY <4>4, <4>5, <4>6
    <3>3. OwnRest(d)'
      <4>1. ASSUME NEW i \in Files(d)
            PROVE  \E t, x : /\ Alike(x, Read(d)')
                             /\ Matches(files'[i].queue, t, x, down'[d] \intersect Shifts, owed'[d])
        <5>1. PICK t, x : /\ Alike(x, Read(d))
                          /\ Matches(files[i].queue, t, x, down[d] \intersect Shifts, owed[d])
          BY <2>2, <3>1 DEF OwnRest
        <5>2. Matches(files'[i].queue, t, x, down'[d] \intersect Shifts, owed'[d])
          BY <3>2, <5>1
        <5>3. QED
          BY <2>4, <5>1, <5>2
      <4>2. QED
        BY <2>3, <3>1, <4>1 DEF OwnRest
    <3>4. ASSUME shifted' \subseteq {d} PROVE Rest(d)'
      <4>1. \A i \in Files(d) : Matches(files'[i].queue, shift, Read(d), down'[d] \intersect Shifts, owed'[d])
        BY <2>2, <3>1, <3>2, <3>4 DEF Rest
      <4>2. QED
        BY <2>3, <2>4, <3>1, <4>1 DEF Rest
    <3>5. QED
      BY <3>3, <3>4
  <2>7. QED
    BY <2>5, <2>6
<1>14. QED
  BY <1>9, <1>10, <1>11, <1>12, <1>13 DEF KeypadInv

LEMMA UserInv ==
    ASSUME KeypadAssumption, KeypadInv, NEW d \in Keyboards, NEW code \in Keys[d],
           Press(d, code) \/ Release(d, code) \/ Repeat(d, code)
    PROVE  KeypadInv'
<1>1. code \in Codes
  BY DEF KeypadAssumption, Keyboards, Codes
<1>2. down \in [Keyboards -> SUBSET Codes] /\ down[d] \subseteq Codes
  BY DEF KeypadInv, KeypadTypeOK
<1> DEFINE set(held) == [down EXCEPT ![d] = held]
<1>3. ASSUME NEW held \in SUBSET Codes
      PROVE  /\ set(held) \in [Keyboards -> SUBSET Codes] /\ set(held)[d] = held
             /\ \A x \in Keyboards : x # d => set(held)[x] = down[x]
  BY <1>2
<1>0. 0 \in 0 .. 2 /\ 1 \in 0 .. 2 /\ 2 \in 0 .. 2
  OBVIOUS
<1>4. CASE Press(d, code)
  <2> DEFINE held == down[d] \union {code}
  <2>1. down' = set(held) /\ Happens(d, code, 1)
    BY <1>4 DEF Press
  <2>2. held \in SUBSET Codes
    BY <1>1, <1>2
  <2>3. held \intersect Shifts = HeldAfter(down[d] \intersect Shifts, Event(code, 1))
    BY DEF HeldAfter, ShiftAfter, Event
  <2> HIDE DEF held, set
  <2>4. /\ down' \in [Keyboards -> SUBSET Codes] /\ \A x \in Keyboards : x # d => down'[x] = down[x]
        /\ down'[d] \intersect Shifts = HeldAfter(down[d] \intersect Shifts, Event(code, 1))
    BY <1>3, <2>1, <2>2, <2>3
  <2>5. QED
    BY Zenon, <1>0, <1>1, <2>1, <2>4, HappensInv
<1>5. CASE Release(d, code)
  <2> DEFINE held == down[d] \ {code}
  <2>1. down' = set(held) /\ Happens(d, code, 0)
    BY <1>5 DEF Release
  <2>2. held \in SUBSET Codes
    BY <1>2
  <2>3. held \intersect Shifts = HeldAfter(down[d] \intersect Shifts, Event(code, 0))
    BY DEF HeldAfter, ShiftAfter, Event
  <2> HIDE DEF held, set
  <2>4. /\ down' \in [Keyboards -> SUBSET Codes] /\ \A x \in Keyboards : x # d => down'[x] = down[x]
        /\ down'[d] \intersect Shifts = HeldAfter(down[d] \intersect Shifts, Event(code, 0))
    BY <1>3, <2>1, <2>2, <2>3
  <2>5. QED
    BY Zenon, <1>0, <1>1, <2>1, <2>4, HappensInv
<1>6. CASE Repeat(d, code)
  <2>1. down' = down /\ Happens(d, code, 2)
    BY <1>6 DEF Repeat
  <2>2. down[d] \intersect Shifts = HeldAfter(down[d] \intersect Shifts, Event(code, 2))
    BY DEF HeldAfter, Event
  <2>3. QED
    BY Zenon, <1>0, <1>1, <1>2, <2>1, <2>2, HappensInv
<1>7. QED
  BY <1>4, <1>5, <1>6

\* Nothing is said of a device that has lost events, and the others keep theirs.
LEMMA UnplugInv == ASSUME KeypadInv, NEW d0 \in Keyboards, Unplug(d0) PROVE KeypadInv'
<1>1. /\ phase # "closed" /\ lost' = lost \union {d0} /\ down' = [down EXCEPT ![d0] = {}]
      /\ files' = [i \in DOMAIN files |->
                      IF i \in Files(d0) THEN [files[i] EXCEPT !.queue = <<>>] ELSE files[i]]
      /\ UNCHANGED <<callback, phase, at, shift, pending, got, owed, presses, shifted>>
  BY DEF Unplug
<1>2. KeypadTypeOK /\ files \in Seq(OpenFiles) /\ down \in [Keyboards -> SUBSET Codes]
  BY DEF KeypadInv, KeypadTypeOK
<1>3. ASSUME NEW i \in DOMAIN files
      PROVE  /\ files'[i] \in OpenFiles /\ files'[i].device = files[i].device
             /\ IF i \in Files(d0) THEN files'[i].queue = <<>> ELSE files'[i] = files[i]
  <2> DEFINE f == files[i]
  <2>1. f \in OpenFiles
    BY <1>2, FileType
  <2>2. files'[i] = IF i \in Files(d0) THEN [f EXCEPT !.queue = <<>>] ELSE f
    BY <1>1
  <2> HIDE DEF f
  <2>3. ASSUME NEW q \in Seq(Events)
        PROVE  LET f2 == [f EXCEPT !.queue = q]
               IN  f2 \in OpenFiles /\ f2.device = f.device /\ f2.queue = q
    BY <2>1 DEF OpenFiles
  <2>4. <<>> \in Seq(Events)
    OBVIOUS
  <2>5. QED
    BY <2>1, <2>2, <2>3, <2>4 DEF f
<1>4. DOMAIN files' = DOMAIN files /\ files' \in Seq(OpenFiles)
  <2> DEFINE n == Len(files)
  <2>1. DOMAIN files = 1 .. n /\ n \in Nat
    BY <1>2
  <2>2. DOMAIN files' = 1 .. n
    BY <1>1, <2>1
  <2>3. \A i \in 1 .. n : files'[i] \in OpenFiles
    BY <1>3, <2>1
  <2>4. \E g : files' = [i \in 1 .. n |-> g[i]]
    <3>1. files' = [i \in 1 .. n |-> files'[i]]
      BY <1>1, <2>1
    <3>2. QED
      BY <3>1
  <2> HIDE DEF n
  <2>5. files' \in [1 .. n -> OpenFiles]
    BY <2>2, <2>3, <2>4
  <2>6. QED
    BY <2>1, <2>2, <2>5
<1>5. down' \in [Keyboards -> SUBSET Codes] /\ \A d \in Keyboards : d # d0 => down'[d] = down[d]
  BY <1>1, <1>2
<1>6. KeypadTypeOK'
  BY <1>1, <1>2, <1>4, <1>5 DEF KeypadTypeOK
<1>7. OpenedOnce'
  BY <1>3, <1>4 DEF KeypadInv, OpenedOnce
<1>8. ShiftsKnown'
  <2> SUFFICES ASSUME NEW i \in DOMAIN files, NEW k \in DOMAIN (files'[i].queue),
                      files'[i].queue[k].code \in Shifts
               PROVE  files'[i].device \in shifted
    BY <1>1, <1>4 DEF ShiftsKnown
  <2>1. i \notin Files(d0)
    <3>1. DOMAIN <<>> = {}
      OBVIOUS
    <3>2. QED
      BY <1>3, <3>1
  <2>2. QED
    BY <1>3, <2>1 DEF KeypadInv, ShiftsKnown
<1>9. Fresh'
  BY <1>1 DEF Fresh
<1>10. CaughtUp'
  <2> SUFFICES ASSUME NEW d \in Keyboards, d \notin lost', phase \in {"idle", "polling"}
               PROVE  OwnRest(d)' /\ (shifted \subseteq {d} => Rest(d)')
    BY <1>1 DEF CaughtUp
  <2>1. d \notin lost /\ d # d0
    BY <1>1
  <2>2. OwnRest(d) /\ (shifted \subseteq {d} => Rest(d))
    BY <2>1 DEF KeypadInv, CaughtUp
  <2>3. Files(d)' = Files(d)
    BY <1>3, <1>4 DEF Files
  <2>4. \A i \in Files(d) : files'[i] = files[i]
    BY <1>3, <2>1 DEF Files
  <2>5. Read(d)' = Read(d) /\ shift' = shift /\ down'[d] = down[d] /\ owed' = owed
    BY <1>1, <1>5, <2>1 DEF Read, Waiting
  <2>6. QED
    BY <2>2, <2>3, <2>4, <2>5 DEF OwnRest, Rest
<1>11. QED
  BY <1>6, <1>7, <1>8, <1>9, <1>10 DEF KeypadInv

-----------------------------------------------------------------------------
(* The devices opened.                                                     *)

\* The devices of pairs are keyboards, and distinct if no two pairs end the same.
LEMMA UnderDistinct ==
    ASSUME NEW A, NEW q \in Seq(A), \A x \in A : x[2] \in Keyboards,
           \A i, j \in 1 .. Len(q) : q[i][2] = q[j][2] => i = j
    PROVE  /\ Under(TRUE, q) \in Seq(Keyboards)
           /\ \A i, j \in DOMAIN Under(TRUE, q) : Under(TRUE, q)[i] = Under(TRUE, q)[j] => i = j
<1> DEFINE u == Under(TRUE, q)
<1>1. u \in Seq(Keyboards)
  BY UnderType
<1>2. \A i, j \in 1 .. Len(u) : u[i] = u[j] => i = j
  BY UnderInjective
<1> HIDE DEF u
<1>3. u \in Seq(Keyboards) /\ \A i, j \in DOMAIN u : u[i] = u[j] => i = j
  BY <1>1, <1>2
<1>4. QED
  BY <1>3 DEF u

\* The scan opens no device twice, for it tries none twice.
LEMMA OpenedDistinct ==
    ASSUME KeypadAssumption, NEW answers, NEW override \in Keyboards \union {None}
    PROVE  LET op == Opened(answers, override)
           IN  op \in Seq(Keyboards) /\ \A i, j \in DOMAIN op : op[i] = op[j] => i = j
<1>1. /\ Devices \in Seq(Keyboards) /\ Builtin \in Keyboards
      /\ \A i, j \in DOMAIN Devices : Devices[i] = Devices[j] => i = j
  BY DEF KeypadAssumption, Keyboards, IsInjective
<1> DEFINE op    == Opened(answers, override)
           pairs == [i \in DOMAIN Devices |-> <<Opens(answers[Devices[i]], TRUE), Devices[i]>>]
           u     == Under(TRUE, pairs)
           A     == {pairs[i] : i \in DOMAIN Devices}
           n     == Len(Devices)
<1> SUFFICES op \in Seq(Keyboards) /\ \A i, j \in DOMAIN op : op[i] = op[j] => i = j
  OBVIOUS
<1> HIDE DEF op
<1>2. /\ n \in Nat /\ DOMAIN Devices = 1 .. n
      /\ \A i \in 1 .. n : pairs[i][2] = Devices[i] /\ Devices[i] \in Keyboards
  <2>1. n \in Nat /\ DOMAIN Devices = 1 .. n /\ \A i \in 1 .. n : Devices[i] \in Keyboards
    BY <1>1
  <2>2. \A i \in DOMAIN Devices : pairs[i] = <<Opens(answers[Devices[i]], TRUE), Devices[i]>>
    OBVIOUS
  <2>3. \A i \in DOMAIN Devices : pairs[i][2] = Devices[i]
    <3> TAKE i \in DOMAIN Devices
    <3> DEFINE x == Opens(answers[Devices[i]], TRUE)
    <3> HIDE DEF pairs, n
    <3>1. pairs[i] = <<x, Devices[i]>>
      BY <2>2
    <3> HIDE DEF x
    <3>2. QED
      BY <3>1
  <2> HIDE DEF pairs, n
  <2>4. QED
    BY <2>1, <2>3
<1>3. pairs \in Seq(A) /\ Len(pairs) = n
  <2>1. pairs \in [1 .. n -> A]
    BY <1>2
  <2> HIDE DEF pairs, n, A
  <2>2. QED
    BY <1>2, <2>1
<1>4. \A x \in A : x[2] \in Keyboards
  <2> HIDE DEF pairs
  <2>1. QED
    BY <1>2
<1>5. \A i, j \in 1 .. Len(pairs) : pairs[i][2] = pairs[j][2] => i = j
  BY <1>1, <1>2, <1>3
<1> HIDE DEF pairs, A, n
<1>6. u \in Seq(Keyboards) /\ \A i, j \in DOMAIN u : u[i] = u[j] => i = j
  BY <1>3, <1>4, <1>5, UnderDistinct
<1>7. \/ op = <<>> \/ op = <<Builtin>> \/ op = u
      \/ override \in Keyboards /\ op = <<override>>
  BY DEF Opened, op, pairs
<1> HIDE DEF u
<1>8. ASSUME NEW x \in Keyboards
      PROVE  <<x>> \in Seq(Keyboards) /\ \A i, j \in DOMAIN <<x>> : <<x>>[i] = <<x>>[j] => i = j
  OBVIOUS
<1>9. <<>> \in Seq(Keyboards) /\ DOMAIN <<>> = {}
  OBVIOUS
<1>10. CASE op = <<>>
  BY <1>9, <1>10
<1>11. CASE op = u
  BY <1>6, <1>11
<1>12. CASE op = <<Builtin>>
  BY <1>1, <1>8, <1>12
<1>13. CASE override \in Keyboards /\ op = <<override>>
  BY <1>8, <1>13
<1>14. QED
  BY <1>7, <1>10, <1>11, <1>12, <1>13

LEMMA OpenDefaultInv == ASSUME KeypadAssumption, KeypadInv, OpenDefault PROVE KeypadInv'
<1>1. /\ phase = "closed" /\ phase' = "idle"
      /\ UNCHANGED <<callback, at, shift, pending, got, user>>
  BY DEF OpenDefault
<1>2. KeypadTypeOK
  BY DEF KeypadInv
<1>0. PICK answers \in Answers, override \in Keyboards \union {None} :
          files' = [i \in DOMAIN Opened(answers, override) |->
                       [device |-> Opened(answers, override)[i], queue |-> <<>>]]
  BY DEF OpenDefault
<1> DEFINE op == Opened(answers, override)
           n  == Len(op)
<1>3. op \in Seq(Keyboards) /\ \A i, j \in DOMAIN op : op[i] = op[j] => i = j
  BY OpenedDistinct
<1>4. files' = [i \in DOMAIN op |-> [device |-> op[i], queue |-> <<>>]]
  BY <1>0
<1> HIDE DEF op
<1>5. n \in Nat /\ DOMAIN op = 1 .. n /\ \A i \in 1 .. n : op[i] \in Keyboards
  BY <1>3
<1>6. DOMAIN files' = 1 .. n /\ \A i \in 1 .. n : files'[i].device = op[i] /\ files'[i].queue = <<>>
  BY <1>4, <1>5
<1>7. files' \in Seq(OpenFiles)
  <2>1. \A i \in 1 .. n : [device |-> op[i], queue |-> <<>>] \in OpenFiles
    <3>1. <<>> \in Seq(Events)
      OBVIOUS
    <3>2. QED
      BY <1>5, <3>1 DEF OpenFiles
  <2>2. files' \in [1 .. n -> OpenFiles]
    BY <1>4, <1>5, <2>1
  <2> HIDE DEF n
  <2>3. QED
    BY <1>5, <2>2
<1>8. KeypadTypeOK'
  BY <1>1, <1>2, <1>7 DEF KeypadTypeOK, user
<1>9. OpenedOnce'
  BY <1>3, <1>5, <1>6 DEF OpenedOnce
<1>10. ShiftsKnown'
  <2>1. DOMAIN <<>> = {}
    OBVIOUS
  <2>2. QED
    BY <1>6, <2>1 DEF ShiftsKnown
<1>11. Fresh'
  BY <1>1 DEF Fresh
<1>12. CaughtUp'
  <2> SUFFICES ASSUME NEW d \in Keyboards PROVE OwnRest(d)' /\ Rest(d)'
    BY DEF CaughtUp
  <2>1. got[d] = <<>> /\ owed[d] = <<>> /\ shift = {} /\ pending = <<>> /\ down[d] \intersect Shifts = {}
    BY <1>1 DEF KeypadInv, Fresh
  <2>2. Read(d)' = <<>>
    <3>1. Under(d, <<>>) = <<>> /\ <<>> \o <<>> = <<>>
      BY UnderNone
    <3>2. QED
      BY <1>1, <2>1, <3>1 DEF Read, Waiting
  <2>3. Matches(<<>>, {}, <<>>, {}, <<>>)
    BY MatchNone
  <2>4. \A i \in Files(d)' : files'[i].queue = <<>>
    BY <1>6 DEF Files
  <2>5. shift' = {} /\ owed'[d] = <<>> /\ down'[d] \intersect Shifts = {}
    BY <1>1, <2>1 DEF user
  <2>6. Rest(d)'
    BY <2>2, <2>3, <2>4, <2>5 DEF Rest
  <2>7. Alike(<<>>, <<>>)
    BY DEF Alike
  <2>8. OwnRest(d)'
    BY <2>2, <2>3, <2>4, <2>5, <2>7 DEF OwnRest
  <2>9. QED
    BY <2>6, <2>8
<1>13. QED
  BY <1>8, <1>9, <1>10, <1>11, <1>12 DEF KeypadInv

-----------------------------------------------------------------------------
(* The theorem.                                                            *)

LEMMA KeypadStep == ASSUME KeypadAssumption, KeypadInv, [Next]_vars PROVE KeypadInv'
<1>1. at \in Nat
  BY DEF KeypadInv, KeypadTypeOK
<1>2. CASE OpenDefault
  BY <1>2, OpenDefaultInv
<1>3. CASE Close
  BY <1>3, CloseInv
<1>4. CASE PollBegin
  BY <1>4, NothingRead DEF PollBegin
<1>5. CASE PollRead
  BY <1>5, PollReadInv
<1>6. CASE PollNext
  <2>1. at + 1 \in Nat /\ at + 1 >= 1
    BY <1>1
  <2>2. /\ phase = "polling" /\ phase' = phase /\ at' = at + 1
        /\ UNCHANGED <<callback, files, shift, pending, got, user>>
    BY <1>6 DEF PollNext
  <2>3. QED
    BY <2>1, <2>2, NothingRead
<1>7. CASE PollEnd
  BY <1>7, NothingRead DEF PollEnd
<1>8. CASE ReadCb
  BY <1>8, ReadCbInv
<1>9. CASE User
  <2>1. PICK d \in Keyboards :
            \/ Unplug(d)
            \/ \E code \in Keys[d] : Press(d, code) \/ Release(d, code) \/ Repeat(d, code)
    BY <1>9 DEF User
  <2>2. CASE Unplug(d)
    BY <2>2, UnplugInv
  <2>3. CASE \E code \in Keys[d] : Press(d, code) \/ Release(d, code) \/ Repeat(d, code)
    BY <2>3, UserInv
  <2>4. QED
    BY <2>1, <2>2, <2>3
<1>10. CASE UNCHANGED vars
  BY <1>10, StutterInv
<1>11. QED
  BY <1>2, <1>3, <1>4, <1>5, <1>6, <1>7, <1>8, <1>9, <1>10 DEF Next

\* What is typed on a keyboard whose events the kernel kept arrives, once and in
\* order, and all of it as soon as its queue is read, and with the character of its
\* own shift unless another keyboard's shift was used: whatever the devices opened,
\* the interleaving of the users with poll, and whether LVGL or the callback takes
\* the keys (openDefault, poll, pushKeyEvent and readCb).
THEOREM TypedKeysAreDelivered == Spec => []TypedIsDelivered
<1>1. Init => KeypadInv
  BY KeypadAssumption, KeypadInit
<1>2. KeypadInv /\ [Next]_vars => KeypadInv'
  BY KeypadAssumption, KeypadStep
<1>3. KeypadInv => TypedIsDelivered
  BY InvDelivers
<1>4. QED
  BY <1>1, <1>2, <1>3, PTL DEF Spec
=============================================================================
