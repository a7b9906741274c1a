--------------------------- MODULE SharedTheorems ---------------------------
(***************************************************************************)
(* Facts that the proofs about several components share: sequences,        *)
(* remainders, and circular buffers.  A circular buffer has S slots, used  *)
(* through two free-running counters that wrap modulo M, a multiple of S.  *)
(* pipe.c, uart.c, console.c and the rings of virtio_disk.c are of this    *)
(* kind.                                                                   *)
(***************************************************************************)
EXTENDS Integers, Sequences, TLAPS

USE ZenonT(60), SMTT(30)

(* Two sequences with the same entries are equal.                          *)
LEMMA SameEntries ==
  ASSUME NEW A, NEW s \in Seq(A), NEW t \in Seq(A), Len(s) = Len(t),
         \A i \in 1 .. Len(s) : s[i] = t[i]
  PROVE  s = t
  BY SMTT(30)

LEMMA Appended ==
  ASSUME NEW A, NEW s \in Seq(A), NEW x \in A
  PROVE  /\ Append(s, x) \in Seq(A) /\ Len(Append(s, x)) = Len(s) + 1
         /\ \A i \in 1 .. Len(s) : Append(s, x)[i] = s[i]
         /\ Append(s, x)[Len(s) + 1] = x
  BY SMTT(30)

LEMMA WithoutHead ==
  ASSUME NEW A, NEW s \in Seq(A), s # <<>>
  PROVE  /\ Head(s) = s[1] /\ Tail(s) \in Seq(A) /\ Len(Tail(s)) = Len(s) - 1
         /\ \A i \in 1 .. Len(s) - 1 : Tail(s)[i] = s[i + 1]
  BY SMTT(30)

LEMMA Joined ==
  ASSUME NEW A, NEW s \in Seq(A), NEW t \in Seq(A)
  PROVE  /\ s \o t \in Seq(A) /\ Len(s \o t) = Len(s) + Len(t)
         /\ \A i \in 1 .. Len(s) + Len(t) :
              (s \o t)[i] = IF i <= Len(s) THEN s[i] ELSE t[i - Len(s)]
  BY SMTT(30)

-----------------------------------------------------------------------------
Wraps(M, S) == M \in Nat \ {0} /\ S \in Nat \ {0} /\ S <= M /\ M % S = 0

(* The number of entries between the counters r and w.                     *)
Distance(r, w, M) == (w - r) % M

(* The slot of the entry that is i places after counter r.                 *)
Slot(r, i, S) == (r + i) % S

(* The contents of the slots.                                              *)
Slots(S, B) == [0 .. S - 1 -> B]

(* The n entries from counter r on.                                        *)
Entry(d, r, n, S) == [k \in 1 .. n |-> d[(r + k - 1) % S]]

LEMMA Quotient ==
  ASSUME NEW b \in Nat \ {0}, NEW a \in Int
  PROVE  /\ a \div b \in Int /\ a % b \in 0 .. b - 1
         /\ a = (b * (a \div b)) + (a % b)
  BY SMTT(30)

LEMMA Remainder ==
  ASSUME NEW b \in Nat \ {0}, NEW q \in Int, NEW r \in 0 .. b - 1,
         NEW a \in Int, a = (b * q) + r
  PROVE  a % b = r
  BY SMTT(30)

(* Numbers a multiple of b apart have the same remainder.                  *)
LEMMA SameRemainder ==
  ASSUME NEW b \in Nat \ {0}, NEW a \in Int, NEW q \in Int,
         NEW x \in Int, x = a + (b * q)
  PROVE  x % b = a % b
<1> DEFINE d == a \div b
           r == a % b
           y == d + q
<1>1. d \in Int /\ r \in 0 .. b - 1 /\ a = (b * d) + r
  BY Quotient
<1> HIDE DEF d, r
<1>2. y \in Int /\ x = (b * y) + r
  BY <1>1, SMTT(30)
<1> HIDE DEF y
<1>3. x % b = r
  BY <1>1, <1>2, Remainder, SMTT(30)
<1>4. QED
  BY <1>3 DEF r

(* Numbers less than b apart have different remainders.                    *)
LEMMA OtherRemainder ==
  ASSUME NEW b \in Nat \ {0}, NEW a \in Int, NEW c \in 1 .. b - 1,
         NEW x \in Int, x = a + c
  PROVE  x % b # a % b
<1> DEFINE d == a \div b
           r == a % b
           y == d + 1
           z == r + c
           w == z - b
<1>1. d \in Int /\ r \in 0 .. b - 1 /\ a = (b * d) + r
  BY Quotient
<1> HIDE DEF d, r
<1>2. CASE z < b
  <2>1. z \in 0 .. b - 1 /\ d \in Int /\ x = (b * d) + z
    BY <1>1, <1>2, SMTT(30)
  <2>2. z # r
    BY <1>1, SMTT(30)
  <2> HIDE DEF z
  <2>3. x % b = z
    BY <2>1, Remainder, SMTT(30)
  <2>4. QED
    BY <2>2, <2>3 DEF r
<1>3. CASE ~(z < b)
  <2>1. w \in 0 .. b - 1 /\ y \in Int /\ x = (b * y) + w
    BY <1>1, <1>3, SMTT(30)
  <2>2. w # r
    BY <1>1, SMTT(30)
  <2> HIDE DEF w, y
  <2>3. x % b = w
    BY <2>1, Remainder, SMTT(30)
  <2>4. QED
    BY <2>2, <2>3 DEF r
<1>4. QED
  BY <1>2, <1>3

(* The slot of a counter does not depend on whether it has wrapped.        *)
LEMMA SlotWraps ==
  ASSUME NEW M, NEW S, Wraps(M, S), NEW a \in 0 .. 2 * M - 1
  PROVE  (a % M) % S = a % S
<1> DEFINE q == M \div S
           y == -q
           x == a - M
<1>1. q \in Int /\ M = S * q
  BY Quotient, SMTT(30) DEF Wraps
<1> HIDE DEF q
<1>2. S \in Nat \ {0} /\ a \in Int /\ y \in Int
      /\ x \in Int /\ x = a + (S * y)
  BY <1>1, SMTT(30) DEF Wraps
<1> HIDE DEF x, y
<1>3. x % S = a % S
  BY <1>2, SameRemainder
<1>4. a % M = a \/ a % M = x
  BY SMTT(30) DEF x, Wraps
<1>5. QED
  BY <1>3, <1>4

LEMMA DistanceCases ==
  ASSUME NEW M \in Nat \ {0}, NEW r \in 0 .. M - 1, NEW w \in 0 .. M - 1
  PROVE  Distance(r, w, M) = IF w >= r THEN w - r ELSE w - r + M
<1>1. CASE w >= r
  BY <1>1, SMTT(30) DEF Distance
<1>2. CASE ~(w >= r)
  BY <1>2, SMTT(30) DEF Distance
<1>3. QED
  BY <1>1, <1>2

LEMMA SuccCases ==
  ASSUME NEW M \in Nat \ {0}, NEW x \in 0 .. M - 1
  PROVE  /\ (x + 1) % M \in 0 .. M - 1
         /\ (x + 1) % M = IF x + 1 = M THEN 0 ELSE x + 1
<1>1. CASE x + 1 = M
  BY <1>1, SMTT(30)
<1>2. CASE x + 1 # M
  BY <1>2, SMTT(30)
<1>3. QED
  BY <1>1, <1>2

(* Between equal counters there is nothing, and w is the slot after the    *)
(* last entry.                                                             *)
LEMMA DistanceFacts ==
  ASSUME NEW M, NEW S, Wraps(M, S), NEW r \in 0 .. M - 1, NEW w \in 0 .. M - 1
  PROVE  /\ Distance(r, w, M) \in 0 .. M - 1
         /\ r = w <=> Distance(r, w, M) = 0
         /\ w % S = (r + Distance(r, w, M)) % S
<1> DEFINE n == Distance(r, w, M)
<1>1. n = IF w >= r THEN w - r ELSE w - r + M
  BY DistanceCases DEF Wraps
<1> HIDE DEF n
<1>2. n \in 0 .. M - 1 /\ (r = w <=> n = 0) /\ r + n \in 0 .. 2 * M - 1
  BY <1>1, SMTT(30) DEF Wraps
<1>3. w = (r + n) % M
  BY <1>1, SMTT(30) DEF Wraps
<1>4. w % S = (r + n) % S
  BY <1>2, <1>3, SlotWraps
<1>5. QED
  BY <1>2, <1>4 DEF n

(* The test for a full buffer.                                             *)
LEMMA FullFacts ==
  ASSUME NEW M, NEW S, Wraps(M, S), S < M, NEW r \in 0 .. M - 1, NEW w \in 0 .. M - 1
  PROVE  w = (r + S) % M <=> Distance(r, w, M) = S
<1>1. Distance(r, w, M) = IF w >= r THEN w - r ELSE w - r + M
  BY DistanceCases DEF Wraps
<1>2. (r + S) % M = IF r + S < M THEN r + S ELSE r + S - M
  <2>1. CASE r + S < M
    BY <2>1, SMTT(30) DEF Wraps
  <2>2. CASE ~(r + S < M)
    BY <2>2, SMTT(30) DEF Wraps
  <2>3. QED
    BY <2>1, <2>2
<1>3. QED
  BY <1>1, <1>2, SMTT(30) DEF Wraps

LEMMA DistanceGrows ==
  ASSUME NEW M \in Nat \ {0}, NEW r \in 0 .. M - 1, NEW w \in 0 .. M - 1,
         Distance(r, w, M) + 1 < M
  PROVE  Distance(r, (w + 1) % M, M) = Distance(r, w, M) + 1
<1> DEFINE v == (w + 1) % M
           n == Distance(r, w, M)
<1>1. v \in 0 .. M - 1 /\ v = (IF w + 1 = M THEN 0 ELSE w + 1)
  BY SuccCases
<1>2. n = IF w >= r THEN w - r ELSE w - r + M
  BY DistanceCases
<1> HIDE DEF v, n
<1>3. Distance(r, v, M) = IF v >= r THEN v - r ELSE v - r + M
  BY <1>1, DistanceCases
<1>4. Distance(r, v, M) = n + 1
  BY <1>1, <1>2, <1>3, SMTT(30) DEF n
<1>5. QED
  BY <1>4 DEF n, v

LEMMA DistanceShrinks ==
  ASSUME NEW M \in Nat \ {0}, NEW r \in 0 .. M - 1, NEW w \in 0 .. M - 1, r # w
  PROVE  Distance((r + 1) % M, w, M) = Distance(r, w, M) - 1
<1> DEFINE v == (r + 1) % M
           n == Distance(r, w, M)
<1>1. v \in 0 .. M - 1 /\ v = (IF r + 1 = M THEN 0 ELSE r + 1)
  BY SuccCases
<1>2. n = IF w >= r THEN w - r ELSE w - r + M
  BY DistanceCases
<1> HIDE DEF v, n
<1>3. Distance(v, w, M) = IF w >= v THEN w - v ELSE w - v + M
  BY <1>1, DistanceCases
<1>4. Distance(v, w, M) = n - 1
  BY <1>1, <1>2, <1>3, SMTT(30)
<1>5. QED
  BY <1>4 DEF n, v

(* Different entries of a ring that is not over-full are in different      *)
(* slots.                                                                  *)
LEMMA SlotsDiffer ==
  ASSUME NEW S \in Nat \ {0}, NEW r \in Nat, NEW i \in 0 .. S - 1, NEW j \in 0 .. S - 1, i # j
  PROVE  Slot(r, i, S) # Slot(r, j, S)
<1> DEFINE a == r + i
           b == r + j
           c == j - i
           e == i - j
<1>1. a \in Int /\ b \in Int
  BY SMTT(30)
<1>2. CASE i < j
  <2>1. c \in 1 .. S - 1 /\ b = a + c
    BY <1>2, SMTT(30)
  <2> HIDE DEF a, b, c
  <2>2. b % S # a % S
    BY <1>1, <2>1, OtherRemainder
  <2>3. QED
    BY <2>2 DEF a, b, Slot
<1>3. CASE j < i
  <2>1. e \in 1 .. S - 1 /\ a = b + e
    BY <1>3, SMTT(30)
  <2> HIDE DEF a, b, e
  <2>2. a % S # b % S
    BY <1>1, <2>1, OtherRemainder
  <2>3. QED
    BY <2>2 DEF a, b, Slot
<1>4. QED
  BY <1>2, <1>3, SMTT(30)

(* The next slot after counter r, wrapped or not.                          *)
LEMMA NextSlot ==
  ASSUME NEW M, NEW S, Wraps(M, S), NEW r \in 0 .. M - 1, NEW k \in 0 .. M - 1
  PROVE  Slot((r + 1) % M, k, S) = Slot(r, k + 1, S)
<1> DEFINE v == (r + 1) % M
           a == v + k
           b == r + (k + 1)
<1>1. v \in 0 .. M - 1 /\ v = (IF r + 1 = M THEN 0 ELSE r + 1)
  BY SuccCases, SMTT(30) DEF Wraps
<1> HIDE DEF v
<1>2. CASE r + 1 = M
  <2> DEFINE q == M \div S
  <2>1. q \in Int /\ M = S * q
    BY Quotient, SMTT(30) DEF Wraps
  <2> HIDE DEF q
  <2>2. a \in Int /\ b \in Int /\ b = a + (S * q) /\ S \in Nat \ {0}
    BY <1>1, <1>2, <2>1, SMTT(30) DEF Wraps
  <2> HIDE DEF a, b
  <2>3. b % S = a % S
    BY <2>1, <2>2, SameRemainder
  <2>4. QED
    BY <2>3 DEF a, b, v, Slot
<1>3. CASE r + 1 # M
  <2>1. a = b
    BY <1>1, <1>3, SMTT(30) DEF Wraps
  <2>2. QED
    BY <2>1 DEF v, Slot
<1>4. QED
  BY <1>2, <1>3

-----------------------------------------------------------------------------
LEMMA EntryAt ==
  ASSUME NEW S, NEW r \in Nat, NEW n, NEW d
  PROVE  \A k \in 1 .. n : Entry(d, r, n, S)[k] = d[Slot(r, k - 1, S)]
<1> SUFFICES ASSUME NEW k \in 1 .. n
             PROVE  d[(r + k - 1) % S] = d[(r + (k - 1)) % S]
  BY DEF Entry, Slot
<1>1. r + k - 1 = r + (k - 1)
  OBVIOUS
<1>2. QED
  BY <1>1

LEMMA EntryType ==
  ASSUME NEW S \in Nat \ {0}, NEW r \in Nat, NEW n \in Nat, NEW B,
         NEW d \in Slots(S, B)
  PROVE  Entry(d, r, n, S) \in Seq(B) /\ Len(Entry(d, r, n, S)) = n
<1> DEFINE q == Entry(d, r, n, S)
<1>1. ASSUME NEW k \in 1 .. n
      PROVE  d[(r + k - 1) % S] \in B
  <2> DEFINE a == r + k - 1
  <2>1. a \in Int
    BY SMTT(30)
  <2> HIDE DEF a
  <2>2. a % S \in 0 .. S - 1
    BY <2>1, Quotient
  <2>3. d[a % S] \in B
    BY <2>2 DEF Slots
  <2>4. QED
    BY <2>3 DEF a
<1>2. q = [k \in 1 .. n |-> d[(r + k - 1) % S]]
  BY DEF Entry
<1> HIDE DEF q
<1>3. q \in [1 .. n -> B]
  BY <1>1, <1>2
<1>4. q \in Seq(B) /\ Len(q) = n
  BY <1>3, SMTT(30)
<1>5. QED
  BY <1>4 DEF q

LEMMA SlotInRange ==
  ASSUME NEW S \in Nat \ {0}, NEW r \in Nat, NEW n \in Nat
  PROVE  Slot(r, n, S) \in 0 .. S - 1
<1>1. r + n \in Int
  BY SMTT(30)
<1>2. QED
  BY <1>1, Quotient DEF Slot

(* Writing the slot after the last entry appends: no slot in use is        *)
(* written again.                                                          *)
LEMMA EntryAppends ==
  ASSUME NEW S \in Nat \ {0}, NEW r \in Nat, NEW n \in 0 .. S - 1, NEW B,
         NEW d \in Slots(S, B), NEW e \in Slots(S, B), NEW b \in B,
         e[Slot(r, n, S)] = b,
         \A i \in 0 .. S - 1 : i # Slot(r, n, S) => e[i] = d[i]
  PROVE  Entry(e, r, n + 1, S) = Append(Entry(d, r, n, S), b)
<1> DEFINE s == Slot(r, n, S)
           q == Entry(d, r, n, S)
           t == Entry(e, r, n + 1, S)
<1>1. s \in 0 .. S - 1
  <2>1. r + n \in Int
    BY SMTT(30)
  <2>2. QED
    BY <2>1, Quotient DEF Slot
<1>2. e \in Slots(S, B) /\ e[s] = b /\ \A i \in 0 .. S - 1 : i # s => e[i] = d[i]
  OBVIOUS
<1>3. q \in Seq(B) /\ Len(q) = n /\ \A k \in 1 .. n : q[k] = d[Slot(r, k - 1, S)]
  <2>1. n \in Nat
    BY SMTT(30)
  <2>2. q \in Seq(B) /\ Len(q) = n
    BY <2>1, EntryAt, EntryType, SMTT(30)
  <2>3. \A k \in 1 .. n : q[k] = d[Slot(r, k - 1, S)]
    BY <2>1, EntryAt, EntryType, SMTT(30)
  <2>4. QED
    BY <2>2, <2>3
<1>4. t \in Seq(B) /\ Len(t) = n + 1 /\ \A k \in 1 .. n + 1 : t[k] = e[Slot(r, k - 1, S)]
  <2>1. n + 1 \in Nat
    BY SMTT(30)
  <2>2. t \in Seq(B) /\ Len(t) = n + 1
    BY <1>2, <2>1, EntryAt, EntryType, SMTT(30)
  <2>3. \A k \in 1 .. n + 1 : t[k] = e[Slot(r, k - 1, S)]
    BY <1>2, <2>1, EntryAt, EntryType, SMTT(30)
  <2>4. QED
    BY <2>2, <2>3
<1> HIDE DEF q, t
<1>5. t[n + 1] = b
  <2>1. r + ((n + 1) - 1) = r + n /\ n + 1 \in 1 .. n + 1
    BY SMTT(30)
  <2>2. t[n + 1] = e[s]
    BY <1>4, <2>1, SMTT(30)
  <2>3. QED
    BY <1>2, <2>2
<1>6. ASSUME NEW k \in 1 .. n
      PROVE  t[k] = q[k]
  <2> DEFINE i == k - 1
             a == Slot(r, i, S)
  <2>1. i \in 0 .. S - 1 /\ i # n /\ k \in 1 .. n + 1 /\ r + i \in Int
    BY SMTT(30)
  <2>2. t[k] = e[a] /\ q[k] = d[a]
    BY <1>3, <1>4, <2>1
  <2>3. a # s
    BY <2>1, SlotsDiffer
  <2>4. a \in 0 .. S - 1
    BY <2>1, Quotient DEF Slot
  <2>5. QED
    BY <1>2, <2>2, <2>3, <2>4
<1>7. /\ Append(q, b) \in Seq(B) /\ Len(Append(q, b)) = n + 1
      /\ \A k \in 1 .. n : Append(q, b)[k] = q[k]
      /\ Append(q, b)[n + 1] = b
  BY <1>3, Appended, SMTT(30)
<1>8. \A k \in 1 .. n + 1 : t[k] = Append(q, b)[k]
  BY <1>5, <1>6, <1>7, SMTT(30)
<1>9. t = Append(q, b)
  BY <1>4, <1>7, <1>8, SameEntries
<1>10. QED
  BY <1>9 DEF q, t

(* Advancing r takes the first entry, whatever is left in its slot.        *)
LEMMA EntryTail ==
  ASSUME NEW M, NEW S, Wraps(M, S), NEW r \in 0 .. M - 1, NEW n \in 1 .. S, NEW B,
         NEW d \in Slots(S, B), NEW e \in Slots(S, B),
         \A i \in 0 .. S - 1 : i # r % S => e[i] = d[i]
  PROVE  /\ Entry(d, r, n, S) # << >>
         /\ Head(Entry(d, r, n, S)) = d[r % S]
         /\ Entry(e, (r + 1) % M, n - 1, S) = Tail(Entry(d, r, n, S))
<1> DEFINE v == (r + 1) % M
           q == Entry(d, r, n, S)
           t == Entry(e, v, n - 1, S)
<1>1. v \in 0 .. M - 1 /\ v \in Nat /\ n - 1 \in Nat /\ n \in Nat /\ r \in Nat
      /\ S \in Nat \ {0} /\ M \in Nat \ {0}
  BY SuccCases, SMTT(30) DEF Wraps
<1>2. q \in Seq(B) /\ Len(q) = n /\ \A k \in 1 .. n : q[k] = d[Slot(r, k - 1, S)]
  <2>1. q \in Seq(B) /\ Len(q) = n
    BY <1>1, EntryType, SMTT(30)
  <2>2. \A k \in 1 .. n : q[k] = d[Slot(r, k - 1, S)]
    BY <1>1, EntryAt, SMTT(30)
  <2>3. QED
    BY <2>1, <2>2
<1> HIDE DEF v
<1>3. t \in Seq(B) /\ Len(t) = n - 1 /\ \A k \in 1 .. n - 1 : t[k] = e[Slot(v, k - 1, S)]
  <2>1. t \in Seq(B) /\ Len(t) = n - 1
    BY <1>1, EntryType, SMTT(60)
  <2>2. \A k \in 1 .. n - 1 : t[k] = e[Slot(v, k - 1, S)]
    BY <1>1, EntryAt, SMTT(30)
  <2>3. QED
    BY <2>1, <2>2
<1> HIDE DEF q, t
<1>4. q # << >> /\ Tail(q) \in Seq(B) /\ Len(Tail(q)) = n - 1 /\ Head(q) = q[1]
      /\ \A k \in 1 .. n - 1 : Tail(q)[k] = q[k + 1]
  BY <1>1, <1>2, WithoutHead, SMTT(30)
<1>5. q[1] = d[r % S]
  <2>1. 1 \in 1 .. n /\ r + (1 - 1) = r
    BY <1>1, SMTT(30)
  <2>2. QED
    BY <1>2, <2>1 DEF Slot
<1>6. ASSUME NEW k \in 1 .. n - 1
      PROVE  t[k] = Tail(q)[k]
  <2> DEFINE i == k - 1
             a == Slot(r, i + 1, S)
  <2>1. i \in 0 .. M - 1 /\ i + 1 \in 1 .. S - 1 /\ k + 1 \in 1 .. n /\ r + (i + 1) \in Int
        /\ (k + 1) - 1 = i + 1 /\ i + 1 \in 0 .. S - 1 /\ 0 \in 0 .. S - 1 /\ i + 1 # 0
        /\ r \in Nat /\ r + 0 = r
    BY <1>1, SMTT(30) DEF Wraps
  <2>2. t[k] = e[Slot(v, i, S)] /\ q[k + 1] = d[a]
    BY <1>2, <1>3, <2>1
  <2>3. Slot(v, i, S) = a
    BY <2>1, NextSlot DEF v
  <2>4. a # Slot(r, 0, S)
    BY <1>1, <2>1, SlotsDiffer
  <2>5. a \in 0 .. S - 1
    BY <1>1, <2>1, Quotient DEF Slot
  <2> HIDE DEF a, i
  <2>6. a # r % S
    BY <2>1, <2>4 DEF Slot
  <2>7. QED
    BY <1>4, <2>2, <2>3, <2>5, <2>6
<1>7. t = Tail(q)
  BY <1>3, <1>4, <1>6, SameEntries
<1>8. QED
  BY <1>4, <1>5, <1>7 DEF q, t, v

-----------------------------------------------------------------------------
(* Buffers with a third counter, between the other two.                    *)
LEMMA DistanceAdds ==
  ASSUME NEW M \in Nat \ {0}, NEW r \in 0 .. M - 1, NEW w \in 0 .. M - 1, NEW e \in 0 .. M - 1,
         Distance(r, w, M) + Distance(w, e, M) < M
  PROVE  Distance(r, e, M) = Distance(r, w, M) + Distance(w, e, M)
<1>1. /\ Distance(r, w, M) = IF w >= r THEN w - r ELSE w - r + M
      /\ Distance(w, e, M) = IF e >= w THEN e - w ELSE e - w + M
      /\ Distance(r, e, M) = IF e >= r THEN e - r ELSE e - r + M
  BY DistanceCases
<1>2. QED
  BY <1>1, SMTT(30)

LEMMA DistanceBack ==
  ASSUME NEW M \in Nat \ {0}, NEW w \in 0 .. M - 1, NEW e \in 0 .. M - 1, w # e
  PROVE  /\ (e - 1) % M \in 0 .. M - 1
         /\ Distance(w, (e - 1) % M, M) = Distance(w, e, M) - 1
<1> DEFINE v == (e - 1) % M
<1>1. v = IF e = 0 THEN M - 1 ELSE e - 1
  <2>1. CASE e = 0
    BY <2>1, SMTT(30)
  <2>2. CASE e # 0
    BY <2>2, SMTT(30)
  <2>3. QED
    BY <2>1, <2>2
<1>2. v \in 0 .. M - 1
  BY <1>1, SMTT(30)
<1> HIDE DEF v
<1>3. /\ Distance(w, e, M) = IF e >= w THEN e - w ELSE e - w + M
      /\ Distance(w, v, M) = IF v >= w THEN v - w ELSE v - w + M
  BY <1>2, DistanceCases
<1>4. Distance(w, v, M) = Distance(w, e, M) - 1
  BY <1>1, <1>3, SMTT(30)
<1>5. QED
  BY <1>2, <1>4 DEF v

LEMMA DistanceWhole ==
  ASSUME NEW M \in Nat \ {0}, NEW w \in 0 .. M - 1, NEW e \in 0 .. M - 1
  PROVE  (e - Distance(w, e, M)) % M = w
<1>1. CASE e >= w
  <2>1. e - Distance(w, e, M) = w
    BY <1>1, DistanceCases, SMTT(30)
  <2>2. QED
    BY <2>1, SMTT(30)
<1>2. CASE ~(e >= w)
  <2>1. Distance(w, e, M) = e - w + M
    BY <1>2, DistanceCases
  <2>2. e - Distance(w, e, M) = w - M
    BY <2>1, SMTT(30)
  <2>3. (w - M) % M = w
    BY SMTT(30)
  <2>4. QED
    BY <2>2, <2>3
<1>3. QED
  BY <1>1, <1>2

(* Counting on from w is counting on from r, which is behind it.           *)
LEMMA SlotShift ==
  ASSUME NEW M, NEW S, Wraps(M, S), NEW r \in 0 .. M - 1, NEW w \in 0 .. M - 1, NEW i \in Nat
  PROVE  Slot(w, i, S) = Slot(r, Distance(r, w, M) + i, S)
<1> DEFINE n == Distance(r, w, M)
           a == r + (n + i)
           x == w + i
<1>1. n = IF w >= r THEN w - r ELSE w - r + M
  BY DistanceCases DEF Wraps
<1>2. n \in Int /\ a \in Int /\ x \in Int /\ S \in Nat \ {0} /\ M \in Nat
  BY <1>1, SMTT(30) DEF Wraps
<1>3. a = x \/ x = a - M
  BY <1>1, <1>2, SMTT(30)
<1> HIDE DEF n
<1>4. CASE a = x
  BY <1>4 DEF Slot, n
<1>5. CASE x = a - M
  <2> DEFINE q == M \div S
             y == -q
  <2>1. q \in Int /\ M = S * q
    BY <1>2, Quotient, SMTT(30) DEF Wraps
  <2> HIDE DEF q
  <2>2. y \in Int /\ a - M = a + (S * y)
    BY <1>2, <2>1, SMTT(30)
  <2> HIDE DEF y, a, x
  <2>3. x = a + (S * y)
    BY <1>5, <2>2
  <2>4. x % S = a % S
    BY <1>2, <2>2, <2>3, SameRemainder
  <2>5. QED
    BY <2>4 DEF a, x, n, Slot
<1>6. QED
  BY <1>3, <1>4, <1>5

(* Slots that are not in use do not matter.                                *)
LEMMA EntrySame ==
  ASSUME NEW S, NEW r \in Nat, NEW n \in Nat, NEW d, NEW e,
         \A i \in 0 .. n - 1 : e[Slot(r, i, S)] = d[Slot(r, i, S)]
  PROVE  Entry(e, r, n, S) = Entry(d, r, n, S)
<1>1. ASSUME NEW k \in 1 .. n
      PROVE  e[(r + k - 1) % S] = d[(r + k - 1) % S]
  <2>1. k - 1 \in 0 .. n - 1 /\ r + k - 1 = r + (k - 1)
    BY SMTT(30)
  <2>2. e[Slot(r, k - 1, S)] = d[Slot(r, k - 1, S)]
    BY <2>1
  <2>3. QED
    BY <2>1, <2>2 DEF Slot
<1>2. QED
  BY <1>1 DEF Entry

LEMMA EntryEmpty ==
  ASSUME NEW S, NEW r, NEW d
  PROVE  Entry(d, r, 0, S) = <<>>
  BY SMTT(30) DEF Entry

LEMMA EntryFront ==
  ASSUME NEW S \in Nat \ {0}, NEW r \in Nat, NEW n \in Nat \ {0}, NEW B, NEW d \in Slots(S, B)
  PROVE  Entry(d, r, n - 1, S) = SubSeq(Entry(d, r, n, S), 1, n - 1)
<1> DEFINE q == Entry(d, r, n, S)
           t == Entry(d, r, n - 1, S)
<1>1. n - 1 \in Nat /\ n \in Nat
  BY SMTT(30)
<1>2. q \in Seq(B) /\ Len(q) = n /\ t \in Seq(B) /\ Len(t) = n - 1
  BY <1>1, EntryType, SMTT(30)
<1>3. \A k \in 1 .. n - 1 : q[k] = t[k]
  <2> SUFFICES ASSUME NEW k \in 1 .. n - 1 PROVE q[k] = t[k]
    OBVIOUS
  <2>1. k \in 1 .. n
    BY SMTT(30)
  <2>2. q[k] = d[Slot(r, k - 1, S)] /\ t[k] = d[Slot(r, k - 1, S)]
    BY <2>1, EntryAt, SMTT(30)
  <2>3. QED
    BY <2>2
<1> HIDE DEF q, t
<1>4. /\ SubSeq(q, 1, n - 1) \in Seq(B) /\ Len(SubSeq(q, 1, n - 1)) = n - 1
      /\ \A k \in 1 .. n - 1 : SubSeq(q, 1, n - 1)[k] = q[k]
  BY <1>1, <1>2, SMTT(30)
<1>5. t = SubSeq(q, 1, n - 1)
  BY <1>2, <1>3, <1>4, SameEntries
<1>6. QED
  BY <1>5 DEF q, t

(* Counter w is n places after counter r.                                  *)
Behind(r, w, n, S) == \A i \in Nat : Slot(w, i, S) = Slot(r, n + i, S)

Joins(u, s, t) == u = s \o t

LEMMA EntrySplit ==
  ASSUME NEW S \in Nat \ {0}, NEW r \in Nat, NEW w \in Nat, NEW n \in Nat, NEW m \in Nat,
         NEW o \in Nat, o = n + m, NEW B, NEW d \in Slots(S, B),
         Behind(r, w, n, S)
  PROVE  Joins(Entry(d, r, o, S), Entry(d, r, n, S), Entry(d, w, m, S))
<1> DEFINE q == Entry(d, r, n, S)
           t == Entry(d, w, m, S)
           u == Entry(d, r, o, S)
<1>1. /\ q \in Seq(B) /\ Len(q) = n /\ t \in Seq(B) /\ Len(t) = m
      /\ u \in Seq(B) /\ Len(u) = o
  <2>1. q \in Seq(B) /\ Len(q) = n
    BY EntryType, SMTT(30)
  <2>2. t \in Seq(B) /\ Len(t) = m
    BY EntryType, SMTT(30)
  <2>3. u \in Seq(B) /\ Len(u) = o
    BY EntryType, SMTT(30)
  <2>4. QED
    BY <2>1, <2>2, <2>3
<1>2. /\ \A k \in 1 .. n : q[k] = d[Slot(r, k - 1, S)]
      /\ \A k \in 1 .. m : t[k] = d[Slot(w, k - 1, S)]
      /\ \A k \in 1 .. o : u[k] = d[Slot(r, k - 1, S)]
  BY EntryAt, SMTT(30)
<1> HIDE DEF q, t, u
<1>3. /\ q \o t \in Seq(B) /\ Len(q \o t) = o
      /\ \A k \in 1 .. o : (q \o t)[k] = IF k <= n THEN q[k] ELSE t[k - n]
  BY <1>1, Joined
<1>4. ASSUME NEW k \in 1 .. o
      PROVE  (q \o t)[k] = u[k]
  <2>1. CASE k <= n
    <3>1. k \in 1 .. n
      BY <2>1, SMTT(30)
    <3>2. q[k] = u[k]
      BY <1>2, <3>1
    <3>3. QED
      BY <1>3, <2>1, <3>2
  <2>2. CASE ~(k <= n)
    <3> DEFINE i == (k - n) - 1
    <3>1. k - n \in 1 .. m /\ i \in Nat /\ n + i = k - 1
      BY <2>2, SMTT(30)
    <3>2. t[k - n] = d[Slot(w, i, S)]
      BY <1>2, <3>1
    <3>3. Slot(w, i, S) = Slot(r, k - 1, S)
      BY <3>1 DEF Behind
    <3>4. QED
      BY <1>2, <1>3, <2>2, <3>2, <3>3
  <2>3. QED
    BY <2>1, <2>2
<1>5. u = q \o t
  BY <1>1, <1>3, <1>4, SameEntries
<1>6. QED
  BY <1>5 DEF q, t, u, Joins

-----------------------------------------------------------------------------
(* A circular buffer with three counters: from r to w are the entries that *)
(* can be taken, members of B, and from w to e those that can still be     *)
(* taken back, members of A.  The counters never pass each other.          *)
Cycle(M, S) == Wraps(M, S) /\ S < M

Nested(A, B, C) == A \subseteq B /\ B \subseteq C

Part(M, S, r, w, d) == Entry(d, r, Distance(r, w, M), S)

Good(M, S, A, B, r, w, e, d) ==
  LET n == Distance(r, w, M)
      m == Distance(w, e, M)
  IN /\ n + m <= S
     /\ \A i \in 0 .. S - 1 :
          /\ i < n => d[Slot(r, i, S)] \in B
          /\ n <= i /\ i < n + m => d[Slot(r, i, S)] \in A

(* Contents f and d differ at most in slot s, or in the m slots from w on. *)
OnlyAt(s, f, d, S) == \A i \in 0 .. S - 1 : i # s => f[i] = d[i]
OnlyFrom(w, m, f, d, S) ==
  \A i \in 0 .. S - 1 : (\A k \in 0 .. m - 1 : i # Slot(w, k, S)) => f[i] = d[i]

LEMMA RingSizes ==
  ASSUME NEW M, NEW S, Cycle(M, S)
  PROVE  Wraps(M, S) /\ S \in Nat \ {0} /\ M \in Nat \ {0} /\ S < M
  BY DEF Cycle, Wraps

LEMMA GoodFacts ==
  ASSUME NEW M, NEW S, Cycle(M, S), NEW A, NEW B, NEW C, Nested(A, B, C),
         NEW r \in 0 .. M - 1, NEW w \in 0 .. M - 1, NEW e \in 0 .. M - 1, NEW d \in Slots(S, C), Good(M, S, A, B, r, w, e, d)
  PROVE  /\ Distance(r, w, M) \in Nat /\ Distance(w, e, M) \in Nat
         /\ Distance(r, w, M) + Distance(w, e, M) <= S
         /\ Distance(r, e, M) = Distance(r, w, M) + Distance(w, e, M)
         /\ r = w <=> Distance(r, w, M) = 0
         /\ w = e <=> Distance(w, e, M) = 0
         /\ Part(M, S, r, w, d) \in Seq(C) /\ Len(Part(M, S, r, w, d)) = Distance(r, w, M)
         /\ Part(M, S, w, e, d) \in Seq(C) /\ Len(Part(M, S, w, e, d)) = Distance(w, e, M)
<1> DEFINE n == Distance(r, w, M)
           m == Distance(w, e, M)
<1>1. n \in Nat /\ m \in Nat /\ (r = w <=> n = 0) /\ (w = e <=> m = 0)
  <2>1. n \in 0 .. M - 1 /\ (r = w <=> n = 0)
    BY RingSizes, DistanceFacts
  <2>2. m \in 0 .. M - 1 /\ (w = e <=> m = 0)
    BY RingSizes, DistanceFacts
  <2>3. QED
    BY <2>1, <2>2, SMTT(30)
<1>2. n + m <= S
  BY DEF Good
<1>3. n + m < M
  BY <1>1, <1>2, RingSizes, SMTT(30)
<1>4. Distance(r, e, M) = n + m
  BY <1>3, RingSizes, DistanceAdds
<1> HIDE DEF n, m
<1>5. Entry(d, r, n, S) \in Seq(C) /\ Len(Entry(d, r, n, S)) = n
  <2>1. r \in Nat /\ S \in Nat \ {0}
    BY RingSizes, SMTT(30)
  <2>2. QED
    BY <1>1, <2>1, EntryType, SMTT(30)
<1>6. Entry(d, w, m, S) \in Seq(C) /\ Len(Entry(d, w, m, S)) = m
  <2>1. w \in Nat /\ S \in Nat \ {0}
    BY RingSizes, SMTT(30)
  <2>2. QED
    BY <1>1, <2>1, EntryType, SMTT(30)
<1>7. QED
  BY <1>1, <1>2, <1>4, <1>5, <1>6 DEF n, m, Part

LEMMA IndexSlot ==
  ASSUME NEW M, NEW S, Cycle(M, S), NEW r \in 0 .. M - 1, NEW w \in 0 .. M - 1
  PROVE  w % S = Slot(r, Distance(r, w, M), S)
<1>1. r \in 0 .. M - 1 /\ w \in 0 .. M - 1 /\ Wraps(M, S)
  BY RingSizes
<1>2. w % S = (r + Distance(r, w, M)) % S
  BY <1>1, DistanceFacts, SMTT(30)
<1>3. QED
  BY <1>2 DEF Slot

(* The places of the two parts, counted from r.                            *)
LEMMA PartPlaces ==
  ASSUME NEW M, NEW S, Cycle(M, S), NEW A, NEW B, NEW C, Nested(A, B, C),
         NEW r \in 0 .. M - 1, NEW w \in 0 .. M - 1, NEW e \in 0 .. M - 1, NEW d \in Slots(S, C), Good(M, S, A, B, r, w, e, d)
  PROVE  /\ \A i \in Nat : Slot(w, i, S) = Slot(r, Distance(r, w, M) + i, S)
         /\ r % S = Slot(r, 0, S)
         /\ e % S = Slot(r, Distance(r, w, M) + Distance(w, e, M), S)
         /\ \A i \in Nat : Slot(r, i, S) \in 0 .. S - 1
         /\ \A i, j \in 0 .. S - 1 : i # j => Slot(r, i, S) # Slot(r, j, S)
<1>1. \A i \in Nat : Slot(w, i, S) = Slot(r, Distance(r, w, M) + i, S)
  BY RingSizes, SlotShift
<1>2. r \in Nat
  BY SMTT(30)
<1>3. r % S = Slot(r, 0, S)
  BY <1>2, RingSizes, SMTT(30) DEF Slot
<1>4. e % S = Slot(r, Distance(r, e, M), S)
  BY IndexSlot
<1>5. e % S = Slot(r, Distance(r, w, M) + Distance(w, e, M), S)
  BY <1>4, GoodFacts, SMTT(30)
<1>6. \A i \in Nat : Slot(r, i, S) \in 0 .. S - 1
  BY <1>2, RingSizes, SlotInRange
<1>7. \A i, j \in 0 .. S - 1 : i # j => Slot(r, i, S) # Slot(r, j, S)
  BY <1>2, RingSizes, SlotsDiffer
<1>8. QED
  BY <1>1, <1>3, <1>5, <1>6, <1>7

(* The buffer that differs in slots that are not in use holds the same.    *)
LEMMA SameParts ==
  ASSUME NEW M, NEW S, Cycle(M, S), NEW A, NEW B, NEW C, Nested(A, B, C),
         NEW r \in 0 .. M - 1, NEW w \in 0 .. M - 1, NEW e \in 0 .. M - 1,
         NEW d \in Slots(S, C), NEW f \in Slots(S, C), Good(M, S, A, B, r, w, e, d),
         NEW m \in Nat, m <= Distance(w, e, M),
         \A i \in 0 .. S - 1 : i < Distance(r, w, M) + m
            => f[Slot(r, i, S)] = d[Slot(r, i, S)]
  PROVE  /\ Part(M, S, r, w, f) = Part(M, S, r, w, d)
         /\ Entry(f, w, m, S) = Entry(d, w, m, S)
<1> DEFINE n == Distance(r, w, M)
<1>1. n \in Nat /\ n + m <= S /\ r \in Nat /\ w \in Nat
  BY GoodFacts, RingSizes, SMTT(30)
<1>2. \A i \in Nat : Slot(w, i, S) = Slot(r, n + i, S)
  BY PartPlaces, SMTT(30)
<1> HIDE DEF n
<1>3. \A i \in 0 .. n - 1 : f[Slot(r, i, S)] = d[Slot(r, i, S)]
  BY <1>1, RingSizes, SMTT(30) DEF n
<1>4. ASSUME NEW i \in 0 .. m - 1
      PROVE  f[Slot(w, i, S)] = d[Slot(w, i, S)]
  <2>1. n + i \in 0 .. S - 1 /\ n + i < n + m /\ i \in Nat
    BY <1>1, RingSizes, SMTT(30)
  <2>2. QED
    BY <1>2, <2>1 DEF n
<1>5. Entry(f, r, n, S) = Entry(d, r, n, S)
  BY <1>1, <1>3, EntrySame, SMTT(30)
<1>6. Entry(f, w, m, S) = Entry(d, w, m, S)
  BY <1>1, <1>4, EntrySame, SMTT(30)
<1>7. QED
  BY <1>5, <1>6 DEF Part, n

(* consoleread() takes the character at r.                                 *)
LEMMA TakeGood ==
  ASSUME NEW M, NEW S, Cycle(M, S), NEW A, NEW B, NEW C, Nested(A, B, C),
         NEW r \in 0 .. M - 1, NEW w \in 0 .. M - 1, NEW e \in 0 .. M - 1,
         NEW d \in Slots(S, C), NEW f \in Slots(S, C), Good(M, S, A, B, r, w, e, d), r # w,
         OnlyAt(r % S, f, d, S), NEW v, v = (r + 1) % M
  PROVE  /\ v \in 0 .. M - 1
         /\ Good(M, S, A, B, v, w, e, f)
         /\ Part(M, S, r, w, d) # <<>> /\ Head(Part(M, S, r, w, d)) = d[r % S]
         /\ d[r % S] \in B /\ r % S \in 0 .. S - 1
         /\ Part(M, S, v, w, f) = Tail(Part(M, S, r, w, d))
         /\ Part(M, S, w, e, f) = Part(M, S, w, e, d)
<1> DEFINE n == Distance(r, w, M)
           m == Distance(w, e, M)
<1>1. n \in Nat /\ m \in Nat /\ n # 0 /\ n + m <= S /\ S \in Nat \ {0} /\ w \in Nat /\ r \in Nat
  BY GoodFacts, RingSizes, SMTT(30)
<1>2. v \in 0 .. M - 1 /\ Distance(v, w, M) = n - 1
  BY RingSizes, SuccCases, DistanceShrinks
<1>3. /\ \A i \in Nat : Slot(w, i, S) = Slot(r, n + i, S)
      /\ r % S = Slot(r, 0, S) /\ r % S \in 0 .. S - 1
      /\ \A i \in Nat : Slot(r, i, S) \in 0 .. S - 1
      /\ \A i, j \in 0 .. S - 1 : i # j => Slot(r, i, S) # Slot(r, j, S)
  BY PartPlaces, SMTT(30)
<1>4. \A i \in 0 .. S - 1 : Slot(v, i, S) = Slot(r, i + 1, S)
  <2>1. \A i \in 0 .. M - 1 : Slot(v, i, S) = Slot(r, i + 1, S)
    BY RingSizes, NextSlot
  <2>2. \A i \in 0 .. S - 1 : i \in 0 .. M - 1
    BY RingSizes, SMTT(30)
  <2>3. QED
    BY <2>1, <2>2
<1>5. \A i \in 0 .. S - 1 : /\ i < n => d[Slot(r, i, S)] \in B
                            /\ n <= i /\ i < n + m => d[Slot(r, i, S)] \in A
  BY DEF Good
<1> HIDE DEF n, m
<1>6. ASSUME NEW i \in 1 .. S - 1
      PROVE  f[Slot(r, i, S)] = d[Slot(r, i, S)]
  <2>1. i \in 0 .. S - 1 /\ 0 \in 0 .. S - 1 /\ i # 0 /\ i \in Nat
    BY <1>1, SMTT(30)
  <2>2. Slot(r, i, S) # r % S /\ Slot(r, i, S) \in 0 .. S - 1
    BY <1>3, <2>1
  <2>3. QED
    BY <2>2 DEF OnlyAt
<1>7. Good(M, S, A, B, v, w, e, f)
  <2> DEFINE k == n - 1
  <2>1. k \in Nat /\ k + m <= S
    BY <1>1, SMTT(30)
  <2>2. ASSUME NEW i \in 0 .. S - 1
        PROVE  /\ i < k => f[Slot(v, i, S)] \in B
               /\ k <= i /\ i < k + m => f[Slot(v, i, S)] \in A
    <3>1. CASE i < k + m
      <4>1. i + 1 \in 1 .. S - 1 /\ i + 1 \in 0 .. S - 1
        BY <1>1, <2>1, <3>1, SMTT(30)
      <4>2. f[Slot(v, i, S)] = d[Slot(r, i + 1, S)]
        BY <1>4, <1>6, <4>1
      <4>3. /\ i + 1 < n => d[Slot(r, i + 1, S)] \in B
            /\ n <= i + 1 /\ i + 1 < n + m => d[Slot(r, i + 1, S)] \in A
        BY <1>5, <4>1
      <4>4. (i < k <=> i + 1 < n) /\ (k <= i <=> n <= i + 1) /\ (i < k + m <=> i + 1 < n + m)
        BY <1>1, SMTT(30)
      <4>5. QED
        BY <4>2, <4>3, <4>4
    <3>2. CASE ~(i < k + m)
      BY <1>1, <3>2, SMTT(30)
    <3>3. QED
      BY <3>1, <3>2
  <2>3. QED
    BY <1>2, <2>1, <2>2 DEF Good, m
<1>8. d[r % S] \in B
  <2>1. 0 \in 0 .. S - 1 /\ 0 < n
    BY <1>1, SMTT(30)
  <2>2. QED
    BY <1>3, <1>5, <2>1
<1>9. /\ Entry(d, r, n, S) # <<>>
      /\ Head(Entry(d, r, n, S)) = d[r % S]
      /\ Entry(f, v, n - 1, S) = Tail(Entry(d, r, n, S))
  <2>1. n \in 1 .. S
    BY <1>1, SMTT(30)
  <2>2. /\ Wraps(M, S) /\ r \in 0 .. M - 1
        /\ d \in Slots(S, C) /\ f \in Slots(S, C)
        /\ \A i \in 0 .. S - 1 : i # r % S => f[i] = d[i]
    BY RingSizes DEF OnlyAt
  <2>3. QED
    BY <2>1, <2>2, EntryTail, SMTT(120)
<1>10. Entry(f, w, m, S) = Entry(d, w, m, S)
  <2>1. ASSUME NEW i \in 0 .. m - 1
        PROVE  f[Slot(w, i, S)] = d[Slot(w, i, S)]
    <3>1. n + i \in 1 .. S - 1 /\ i \in Nat
      BY <1>1, SMTT(30)
    <3>2. QED
      BY <1>3, <1>6, <3>1
  <2>2. QED
    BY <1>1, <2>1, EntrySame, SMTT(30)
<1>11. QED
  BY <1>2, <1>3, <1>7, <1>8, <1>9, <1>10 DEF n, m, Part

(* consoleintr() stores a character at e, and may deliver the line.        *)
LEMMA PutGood ==
  ASSUME NEW M, NEW S, Cycle(M, S), NEW A, NEW B, NEW C, Nested(A, B, C),
         NEW r \in 0 .. M - 1, NEW w \in 0 .. M - 1, NEW e \in 0 .. M - 1,
         NEW d \in Slots(S, C), NEW f \in Slots(S, C), NEW c \in B, Good(M, S, A, B, r, w, e, d),
         Distance(r, e, M) < S,
         f[e % S] = c, OnlyAt(e % S, f, d, S), NEW v, v = (e + 1) % M
  PROVE  /\ v \in 0 .. M - 1
         /\ v = (r + S) % M <=> Distance(r, w, M) + Distance(w, e, M) + 1 = S
         /\ c \in A => Good(M, S, A, B, r, w, v, f)
         /\ Part(M, S, r, w, f) = Part(M, S, r, w, d)
         /\ Part(M, S, w, v, f) = Append(Part(M, S, w, e, d), c)
         /\ Good(M, S, A, B, r, v, v, f)
         /\ Joins(Part(M, S, r, v, f), Part(M, S, r, w, d), Append(Part(M, S, w, e, d), c))
         /\ Part(M, S, v, v, f) = <<>>
<1> DEFINE n == Distance(r, w, M)
           m == Distance(w, e, M)
           o == n + m
<1>1. /\ n \in Nat /\ m \in Nat /\ o \in Nat /\ o < S /\ o + 1 < M
      /\ m + 1 < M /\ S \in Nat \ {0}
      /\ w \in Nat /\ r \in Nat /\ Distance(r, e, M) = o
  BY GoodFacts, RingSizes, SMTT(30)
<1>2. v \in 0 .. M - 1
  BY RingSizes, SuccCases
<1>3. Distance(r, v, M) = o + 1
  BY <1>1, RingSizes, DistanceGrows
<1>4. Distance(w, v, M) = m + 1
  BY <1>1, RingSizes, DistanceGrows
<1>5. Distance(v, v, M) = 0
  BY <1>2, RingSizes, DistanceFacts, SMTT(30)
<1>6. /\ \A i \in Nat : Slot(w, i, S) = Slot(r, n + i, S)
      /\ e % S = Slot(r, o, S) /\ e % S \in 0 .. S - 1
      /\ \A i \in Nat : Slot(r, i, S) \in 0 .. S - 1
      /\ \A i, j \in 0 .. S - 1 : i # j => Slot(r, i, S) # Slot(r, j, S)
  BY <1>1, PartPlaces, SMTT(30)
<1>7. \A i \in 0 .. S - 1 : /\ i < n => d[Slot(r, i, S)] \in B
                            /\ n <= i /\ i < o => d[Slot(r, i, S)] \in A
  BY DEF Good
<1> HIDE DEF o, n, m
<1>8. v = (r + S) % M <=> o + 1 = S
  <2>1. v = (r + S) % M <=> Distance(r, v, M) = S
    BY <1>2, RingSizes, FullFacts
  <2>2. QED
    BY <1>3, <2>1
<1>9. /\ f[Slot(r, o, S)] = c
      /\ \A i \in 0 .. S - 1 : i < o => f[Slot(r, i, S)] = d[Slot(r, i, S)]
  <2>1. f[Slot(r, o, S)] = c
    BY <1>6
  <2>2. ASSUME NEW i \in 0 .. S - 1, i < o
        PROVE  f[Slot(r, i, S)] = d[Slot(r, i, S)]
    <3>1. i # o /\ o \in 0 .. S - 1 /\ i \in Nat
      BY <1>1, <2>2, SMTT(30)
    <3>2. Slot(r, i, S) # e % S /\ Slot(r, i, S) \in 0 .. S - 1
      BY <1>6, <3>1
    <3>3. QED
      BY <3>2 DEF OnlyAt
  <2>3. QED
    BY <2>1, <2>2
<1>10. Part(M, S, r, w, f) = Part(M, S, r, w, d)
  BY <1>1, <1>9, SameParts, SMTT(30) DEF o, m, n
<1>11. Entry(f, w, m + 1, S) = Append(Entry(d, w, m, S), c)
  <2>1. m \in 0 .. S - 1 /\ c \in C /\ d \in Slots(S, C) /\ f \in Slots(S, C)
    BY <1>1, SMTT(30) DEF o, Nested
  <2>2. Slot(w, m, S) = e % S
    BY <1>1, <1>6 DEF o
  <2>3. f[Slot(w, m, S)] = c /\ \A i \in 0 .. S - 1 : i # Slot(w, m, S) => f[i] = d[i]
    BY <2>2 DEF OnlyAt
  <2>4. QED
    BY <1>1, <2>1, <2>3, EntryAppends, SMTT(120)
<1>12. Good(M, S, A, B, r, v, v, f)
  <2>1. ASSUME NEW i \in 0 .. S - 1, i < o + 1
        PROVE  f[Slot(r, i, S)] \in B
    <3>1. CASE i < o
      <4>1. d[Slot(r, i, S)] \in A \cup B
        BY <1>1, <1>7, <3>1, SMTT(30)
      <4>2. QED
        BY <1>9, <3>1, <4>1 DEF Nested
    <3>2. CASE i = o
      BY <1>9, <3>2
    <3>3. QED
      BY <1>1, <2>1, <3>1, <3>2, SMTT(30)
  <2>2. (o + 1) + 0 <= S /\ \A i \in 0 .. S - 1 : ~(o + 1 <= i /\ i < (o + 1) + 0)
    BY <1>1, SMTT(30)
  <2>3. QED
    BY <1>3, <1>5, <2>1, <2>2 DEF Good
<1>13. ASSUME c \in A PROVE Good(M, S, A, B, r, w, v, f)
  <2>1. ASSUME NEW i \in 0 .. S - 1
        PROVE  /\ i < n => f[Slot(r, i, S)] \in B
               /\ n <= i /\ i < n + (m + 1) => f[Slot(r, i, S)] \in A
    <3>1. CASE i < o
      BY <1>1, <1>7, <1>9, <3>1
    <3>2. CASE i = o
      BY <1>1, <1>9, <1>13, <3>2 DEF o
    <3>3. CASE i > o
      BY <1>1, <3>3, SMTT(30) DEF o
    <3>4. QED
      BY <1>1, <3>1, <3>2, <3>3, SMTT(30)
  <2>2. n + (m + 1) <= S
    BY <1>1, SMTT(30) DEF o
  <2>3. QED
    BY <1>4, <2>1, <2>2 DEF Good, n
<1>14. Entry(f, r, o + 1, S) = Entry(d, r, n, S) \o Append(Entry(d, w, m, S), c)
  <2> DEFINE k == m + 1
  <2>1. k \in Nat /\ n + k = o + 1 /\ Behind(r, w, n, S) /\ f \in Slots(S, C)
    BY <1>1, <1>6, SMTT(30) DEF o, Behind
  <2> HIDE DEF k
  <2> SUFFICES Entry(f, r, o + 1, S) = Entry(f, r, n, S) \o Entry(f, w, k, S)
    <3>1. Entry(f, r, n, S) = Entry(d, r, n, S)
      BY <1>10 DEF Part, n
    <3>2. QED
      BY <1>11, <2>1, <3>1 DEF k
  <2> DEFINE j == o + 1
  <2>2. /\ S \in Nat \ {0} /\ r \in Nat /\ w \in Nat /\ n \in Nat
        /\ j \in Nat /\ j = n + k
    BY <1>1, <2>1, SMTT(30)
  <2> HIDE DEF j
  <2>3. Joins(Entry(f, r, j, S), Entry(f, r, n, S), Entry(f, w, k, S))
    BY <2>1, <2>2, EntrySplit
  <2>4. QED
    BY <2>3 DEF j, Joins
<1>15. Entry(f, v, 0, S) = <<>>
  BY EntryEmpty
<1>16. /\ Part(M, S, w, v, f) = Append(Part(M, S, w, e, d), c)
       /\ Part(M, S, r, v, f) = Part(M, S, r, w, d) \o Append(Part(M, S, w, e, d), c)
       /\ Part(M, S, v, v, f) = <<>>
  BY <1>3, <1>4, <1>5, <1>11, <1>14, <1>15 DEF Part, n, m
<1>17. QED
  BY <1>2, <1>8, <1>10, <1>12, <1>13, <1>16 DEF n, m, o, Joins

(* A backspace takes the last character of the line back.                  *)
LEMMA EraseGood ==
  ASSUME NEW M, NEW S, Cycle(M, S), NEW A, NEW B, NEW C, Nested(A, B, C),
         NEW r \in 0 .. M - 1, NEW w \in 0 .. M - 1, NEW e \in 0 .. M - 1,
         NEW d \in Slots(S, C), NEW f \in Slots(S, C), Good(M, S, A, B, r, w, e, d), w # e,
         NEW v, v = (e - 1) % M, OnlyAt(v % S, f, d, S)
  PROVE  /\ v \in 0 .. M - 1
         /\ Good(M, S, A, B, r, w, v, f)
         /\ Part(M, S, r, w, f) = Part(M, S, r, w, d)
         /\ Part(M, S, w, e, d) # <<>>
         /\ Part(M, S, w, v, f)
              = SubSeq(Part(M, S, w, e, d), 1, Len(Part(M, S, w, e, d)) - 1)
<1> DEFINE n == Distance(r, w, M)
           m == Distance(w, e, M)
           k == m - 1
<1>1. /\ n \in Nat /\ m \in Nat /\ n + m <= S /\ m # 0 /\ S \in Nat \ {0}
      /\ w \in Nat /\ r \in Nat /\ Part(M, S, w, e, d) \in Seq(C) /\ Len(Part(M, S, w, e, d)) = m
  BY GoodFacts, RingSizes, SMTT(120)
<1>2. v \in 0 .. M - 1 /\ Distance(w, v, M) = k
  BY RingSizes, DistanceBack
<1>3. k \in Nat /\ k < m /\ n + k \in 0 .. S - 1 /\ n + k < M
  BY <1>1, RingSizes, SMTT(120)
<1>4. v % S = Slot(r, n + k, S)
  <2>1. Distance(r, v, M) = n + k
    <3>1. Distance(r, w, M) + Distance(w, v, M) < M
      BY <1>2, <1>3
    <3>2. Distance(r, v, M) = Distance(r, w, M) + Distance(w, v, M)
      BY <1>2, <3>1, RingSizes, DistanceAdds
    <3>3. QED
      BY <1>2, <3>2
  <2>2. v % S = Slot(r, Distance(r, v, M), S)
    BY <1>2, IndexSlot
  <2>3. QED
    BY <2>1, <2>2
<1>5. /\ \A i \in Nat : Slot(r, i, S) \in 0 .. S - 1
      /\ \A i, j \in 0 .. S - 1 : i # j => Slot(r, i, S) # Slot(r, j, S)
  BY PartPlaces, SMTT(30)
<1>6. \A i \in 0 .. S - 1 : /\ i < n => d[Slot(r, i, S)] \in B
                            /\ n <= i /\ i < n + m => d[Slot(r, i, S)] \in A
  BY DEF Good
<1>7. \A i \in 0 .. S - 1 : i # v % S => f[i] = d[i]
  BY DEF OnlyAt
<1> HIDE DEF n, m, k
<1>8. ASSUME NEW i \in 0 .. S - 1, i < n + k
      PROVE  f[Slot(r, i, S)] = d[Slot(r, i, S)]
  <2>1. i # n + k /\ i \in Nat
    BY <1>3, <1>8, SMTT(30)
  <2>2. Slot(r, i, S) # v % S /\ Slot(r, i, S) \in 0 .. S - 1
    BY <1>3, <1>4, <1>5, <2>1
  <2>3. QED
    BY <1>7, <2>2
<1>9. Good(M, S, A, B, r, w, v, f)
  <2>1. n + k <= S
    BY <1>1, <1>3, SMTT(30)
  <2>2. ASSUME NEW i \in 0 .. S - 1
        PROVE  /\ i < n => f[Slot(r, i, S)] \in B
               /\ n <= i /\ i < n + k => f[Slot(r, i, S)] \in A
    <3>1. CASE i < n + k
      <4>1. i < n + m
        BY <1>1, <1>3, <3>1, SMTT(30)
      <4>2. QED
        BY <1>6, <1>8, <3>1, <4>1
    <3>2. CASE ~(i < n + k)
      BY <1>1, <1>3, <3>2, SMTT(30)
    <3>3. QED
      BY <3>1, <3>2
  <2>3. QED
    BY <1>2, <2>1, <2>2 DEF Good, n
<1>10. Part(M, S, r, w, f) = Part(M, S, r, w, d) /\ Entry(f, w, k, S) = Entry(d, w, k, S)
  <2>1. k <= Distance(w, e, M)
    BY <1>1, <1>3, SMTT(30) DEF m
  <2>2. QED
    BY <1>3, <1>8, <2>1, SameParts, SMTT(30) DEF n
<1>11. Entry(d, w, k, S) = SubSeq(Entry(d, w, m, S), 1, k)
  <2>1. m \in Nat \ {0} /\ d \in Slots(S, C)
    BY <1>1
  <2>2. QED
    BY <1>1, <2>1, EntryFront, SMTT(30) DEF k
<1>12. Part(M, S, w, e, d) # <<>>
  BY <1>1, SMTT(30)
<1>13. Part(M, S, w, v, f) = SubSeq(Part(M, S, w, e, d), 1, Len(Part(M, S, w, e, d)) - 1)
  BY <1>1, <1>2, <1>10, <1>11 DEF Part, m, k
<1>14. QED
  BY <1>2, <1>9, <1>10, <1>12, <1>13

(* ^U takes the whole line back.                                           *)
LEMMA KillGood ==
  ASSUME NEW M, NEW S, Cycle(M, S), NEW A, NEW B, NEW C, Nested(A, B, C),
         NEW r \in 0 .. M - 1, NEW w \in 0 .. M - 1, NEW e \in 0 .. M - 1,
         NEW d \in Slots(S, C), NEW f \in Slots(S, C), Good(M, S, A, B, r, w, e, d),
         OnlyFrom(w, Distance(w, e, M), f, d, S)
  PROVE  /\ (e - Distance(w, e, M)) % M = w
         /\ Good(M, S, A, B, r, w, w, f)
         /\ Part(M, S, r, w, f) = Part(M, S, r, w, d)
         /\ Part(M, S, w, w, f) = <<>>
<1> DEFINE n == Distance(r, w, M)
           m == Distance(w, e, M)
<1>1. n \in Nat /\ m \in Nat /\ n + m <= S /\ S \in Nat \ {0} /\ w \in Nat /\ r \in Nat
  BY GoodFacts, RingSizes, SMTT(30)
<1>2. (e - m) % M = w
  BY RingSizes, DistanceWhole
<1>3. Distance(w, w, M) = 0
  BY RingSizes, DistanceFacts
<1>4. /\ \A i \in Nat : Slot(w, i, S) = Slot(r, n + i, S)
      /\ \A i \in Nat : Slot(r, i, S) \in 0 .. S - 1
      /\ \A i, j \in 0 .. S - 1 : i # j => Slot(r, i, S) # Slot(r, j, S)
  BY PartPlaces, SMTT(30)
<1>5. \A i \in 0 .. S - 1 : i < n => d[Slot(r, i, S)] \in B
  BY DEF Good
<1>6. \A i \in 0 .. S - 1 : (\A k \in 0 .. m - 1 : i # Slot(w, k, S)) => f[i] = d[i]
  BY DEF OnlyFrom
<1> HIDE DEF n, m
<1>7. ASSUME NEW i \in 0 .. S - 1, i < n
      PROVE  f[Slot(r, i, S)] = d[Slot(r, i, S)]
  <2>1. ASSUME NEW k \in 0 .. m - 1 PROVE Slot(r, i, S) # Slot(w, k, S)
    <3>1. k \in Nat /\ n + k \in 0 .. S - 1 /\ n + k # i
      BY <1>1, <1>7, SMTT(30)
    <3>2. QED
      BY <1>4, <3>1
  <2>2. Slot(r, i, S) \in 0 .. S - 1
    BY <1>4, SMTT(30)
  <2>3. QED
    BY <1>6, <2>1, <2>2
<1>8. Good(M, S, A, B, r, w, w, f)
  <2>1. n + 0 <= S /\ \A i \in 0 .. S - 1 : ~(n <= i /\ i < n + 0)
    BY <1>1, SMTT(30)
  <2>2. \A i \in 0 .. S - 1 : i < n => f[Slot(r, i, S)] \in B
    BY <1>5, <1>7
  <2>3. QED
    BY <1>3, <2>1, <2>2 DEF Good, n
<1>9. Part(M, S, r, w, f) = Part(M, S, r, w, d)
  <2>1. 0 \in Nat /\ 0 <= Distance(w, e, M) /\ n + 0 = n
    BY <1>1, SMTT(30) DEF m
  <2>2. QED
    BY <1>7, <2>1, SameParts, SMTT(30) DEF n
<1>10. Part(M, S, w, w, f) = <<>>
  BY <1>3, EntryEmpty DEF Part
<1>11. QED
  BY <1>2, <1>8, <1>9, <1>10 DEF m

(* A queue is such a buffer with nothing to take back.                     *)
LEMMA QueuePut ==
  ASSUME NEW M, NEW S, Cycle(M, S), NEW B, NEW C, Nested(B, B, C),
         NEW r \in 0 .. M - 1, NEW w \in 0 .. M - 1,
         NEW d \in Slots(S, C), NEW f \in Slots(S, C), NEW c \in B,
         Good(M, S, B, B, r, w, w, d), w # (r + S) % M,
         f[w % S] = c, OnlyAt(w % S, f, d, S), NEW v, v = (w + 1) % M
  PROVE  /\ v \in 0 .. M - 1
         /\ Good(M, S, B, B, r, v, v, f)
         /\ Part(M, S, r, v, f) = Append(Part(M, S, r, w, d), c)
         /\ Len(Part(M, S, r, w, d)) < S
<1> DEFINE q == Part(M, S, r, w, d)
<1>1. /\ Distance(r, w, M) \in Nat /\ Distance(w, w, M) = 0
      /\ Distance(r, w, M) + Distance(w, w, M) <= S
      /\ q \in Seq(C) /\ Len(q) = Distance(r, w, M)
  BY GoodFacts, SMTT(30)
<1>2. Distance(r, w, M) < S /\ S \in Nat \ {0}
  <2>1. Distance(r, w, M) # S
    BY RingSizes, FullFacts
  <2>2. S \in Nat \ {0}
    BY RingSizes
  <2>3. QED
    BY <1>1, <2>1, <2>2, SMTT(30)
<1>3. Part(M, S, w, w, d) = <<>>
  BY <1>1, EntryEmpty DEF Part
<1>4. /\ v \in 0 .. M - 1 /\ Good(M, S, B, B, r, v, v, f)
      /\ Joins(Part(M, S, r, v, f), q, Append(Part(M, S, w, w, d), c))
  BY <1>2, PutGood, SMTT(120)
<1> HIDE DEF q
<1>5. c \in C
  BY DEF Nested
<1>6. q \o Append(<<>>, c) = Append(q, c)
  BY <1>1, <1>5, SMTT(30)
<1>7. QED
  BY <1>1, <1>2, <1>3, <1>4, <1>6 DEF q, Joins

-----------------------------------------------------------------------------
(* The same, for a buffer as a whole: what its owner's invariant says.     *)
Buffer(M, S, A, B, C, r, w, e, d) ==
  /\ Cycle(M, S) /\ Nested(A, B, C)
  /\ r \in 0 .. M - 1 /\ w \in 0 .. M - 1 /\ e \in 0 .. M - 1
  /\ d \in Slots(S, C) /\ Good(M, S, A, B, r, w, e, d)

LEMMA BufferFacts ==
  ASSUME NEW M, NEW S, NEW A, NEW B, NEW C, NEW r, NEW w, NEW e, NEW d,
         Buffer(M, S, A, B, C, r, w, e, d)
  PROVE  /\ Distance(r, w, M) \in Nat /\ Distance(w, e, M) \in Nat
         /\ Distance(r, w, M) + Distance(w, e, M) <= S
         /\ Distance(r, e, M) = Distance(r, w, M) + Distance(w, e, M)
         /\ r = w <=> Distance(r, w, M) = 0
         /\ w = e <=> Distance(w, e, M) = 0
         /\ Part(M, S, r, w, d) \in Seq(C) /\ Len(Part(M, S, r, w, d)) = Distance(r, w, M)
         /\ Part(M, S, w, e, d) \in Seq(C) /\ Len(Part(M, S, w, e, d)) = Distance(w, e, M)
<1>1. /\ Cycle(M, S) /\ Nested(A, B, C)
      /\ r \in 0 .. M - 1 /\ w \in 0 .. M - 1 /\ e \in 0 .. M - 1
      /\ d \in Slots(S, C) /\ Good(M, S, A, B, r, w, e, d)
  BY DEF Buffer
<1>2. QED
  BY <1>1, GoodFacts, SMTT(30)

Takes(M, S, A, B, C, r, w, e, d, f, v) ==
  /\ Buffer(M, S, A, B, C, r, w, e, d)
  /\ r # w /\ f \in Slots(S, C) /\ OnlyAt(r % S, f, d, S) /\ v = (r + 1) % M

LEMMA BufferTake ==
  ASSUME NEW M, NEW S, NEW A, NEW B, NEW C, NEW r, NEW w, NEW e, NEW d, NEW f, NEW v,
         Takes(M, S, A, B, C, r, w, e, d, f, v)
  PROVE  /\ Buffer(M, S, A, B, C, v, w, e, f)
         /\ Part(M, S, r, w, d) # <<>> /\ Head(Part(M, S, r, w, d)) = d[r % S]
         /\ d[r % S] \in B
         /\ Part(M, S, v, w, f) = Tail(Part(M, S, r, w, d))
         /\ Part(M, S, w, e, f) = Part(M, S, w, e, d)
<1>1. /\ Cycle(M, S) /\ Nested(A, B, C)
      /\ r \in 0 .. M - 1 /\ w \in 0 .. M - 1 /\ e \in 0 .. M - 1
      /\ d \in Slots(S, C) /\ Good(M, S, A, B, r, w, e, d)
  BY DEF Takes, Buffer
<1>2. /\ r # w /\ f \in Slots(S, C) /\ OnlyAt(r % S, f, d, S) /\ v = (r + 1) % M
  BY DEF Takes
<1>3. /\ v \in 0 .. M - 1
      /\ Good(M, S, A, B, v, w, e, f)
      /\ Part(M, S, r, w, d) # <<>> /\ Head(Part(M, S, r, w, d)) = d[r % S]
      /\ d[r % S] \in B /\ r % S \in 0 .. S - 1
      /\ Part(M, S, v, w, f) = Tail(Part(M, S, r, w, d))
      /\ Part(M, S, w, e, f) = Part(M, S, w, e, d)
  BY <1>1, <1>2, TakeGood, SMTT(120)
<1>4. QED
  BY <1>1, <1>2, <1>3 DEF Buffer

Puts(M, S, A, B, C, r, w, e, d, f, v, c) ==
  /\ Buffer(M, S, A, B, C, r, w, e, d)
  /\ c \in B /\ Distance(r, e, M) < S
  /\ f \in Slots(S, C) /\ f[e % S] = c /\ OnlyAt(e % S, f, d, S) /\ v = (e + 1) % M

LEMMA BufferPut ==
  ASSUME NEW M, NEW S, NEW A, NEW B, NEW C, NEW r, NEW w, NEW e, NEW d, NEW f, NEW v, NEW c,
         Puts(M, S, A, B, C, r, w, e, d, f, v, c)
  PROVE  /\ v = (r + S) % M <=> Distance(r, w, M) + Distance(w, e, M) + 1 = S
         /\ c \in A => Buffer(M, S, A, B, C, r, w, v, f)
         /\ Part(M, S, r, w, f) = Part(M, S, r, w, d)
         /\ Part(M, S, w, v, f) = Append(Part(M, S, w, e, d), c)
         /\ Buffer(M, S, A, B, C, r, v, v, f)
         /\ Joins(Part(M, S, r, v, f), Part(M, S, r, w, d), Append(Part(M, S, w, e, d), c))
         /\ Part(M, S, v, v, f) = <<>>
<1>1. /\ Cycle(M, S) /\ Nested(A, B, C)
      /\ r \in 0 .. M - 1 /\ w \in 0 .. M - 1 /\ e \in 0 .. M - 1
      /\ d \in Slots(S, C) /\ Good(M, S, A, B, r, w, e, d)
  BY DEF Puts, Buffer
<1>2. /\ c \in B /\ Distance(r, e, M) < S
      /\ f \in Slots(S, C) /\ f[e % S] = c /\ OnlyAt(e % S, f, d, S) /\ v = (e + 1) % M
  BY DEF Puts
<1>3. /\ v \in 0 .. M - 1
      /\ v = (r + S) % M <=> Distance(r, w, M) + Distance(w, e, M) + 1 = S
      /\ c \in A => Good(M, S, A, B, r, w, v, f)
      /\ Part(M, S, r, w, f) = Part(M, S, r, w, d)
      /\ Part(M, S, w, v, f) = Append(Part(M, S, w, e, d), c)
      /\ Good(M, S, A, B, r, v, v, f)
      /\ Joins(Part(M, S, r, v, f), Part(M, S, r, w, d), Append(Part(M, S, w, e, d), c))
      /\ Part(M, S, v, v, f) = <<>>
  BY <1>1, <1>2, PutGood, SMTT(120)
<1>4. QED
  BY <1>1, <1>2, <1>3 DEF Buffer

Erases(M, S, A, B, C, r, w, e, d, f, v) ==
  /\ Buffer(M, S, A, B, C, r, w, e, d)
  /\ w # e /\ f \in Slots(S, C) /\ v = (e - 1) % M /\ OnlyAt(v % S, f, d, S)

LEMMA BufferErase ==
  ASSUME NEW M, NEW S, NEW A, NEW B, NEW C, NEW r, NEW w, NEW e, NEW d, NEW f, NEW v,
         Erases(M, S, A, B, C, r, w, e, d, f, v)
  PROVE  /\ Buffer(M, S, A, B, C, r, w, v, f)
         /\ Part(M, S, r, w, f) = Part(M, S, r, w, d)
         /\ Part(M, S, w, e, d) # <<>>
         /\ Part(M, S, w, v, f)
              = SubSeq(Part(M, S, w, e, d), 1, Len(Part(M, S, w, e, d)) - 1)
<1>1. /\ Cycle(M, S) /\ Nested(A, B, C)
      /\ r \in 0 .. M - 1 /\ w \in 0 .. M - 1 /\ e \in 0 .. M - 1
      /\ d \in Slots(S, C) /\ Good(M, S, A, B, r, w, e, d)
  BY DEF Erases, Buffer
<1>2. /\ w # e /\ f \in Slots(S, C) /\ v = (e - 1) % M /\ OnlyAt(v % S, f, d, S)
  BY DEF Erases
<1>3. /\ v \in 0 .. M - 1
      /\ Good(M, S, A, B, r, w, v, f)
      /\ Part(M, S, r, w, f) = Part(M, S, r, w, d)
      /\ Part(M, S, w, e, d) # <<>>
      /\ Part(M, S, w, v, f)
           = SubSeq(Part(M, S, w, e, d), 1, Len(Part(M, S, w, e, d)) - 1)
  BY <1>1, <1>2, EraseGood, SMTT(30)
<1>4. QED
  BY <1>1, <1>2, <1>3 DEF Buffer

Kills(M, S, A, B, C, r, w, e, d, f) ==
  /\ Buffer(M, S, A, B, C, r, w, e, d)
  /\ f \in Slots(S, C) /\ OnlyFrom(w, Distance(w, e, M), f, d, S)

LEMMA BufferKill ==
  ASSUME NEW M, NEW S, NEW A, NEW B, NEW C, NEW r, NEW w, NEW e, NEW d, NEW f,
         Kills(M, S, A, B, C, r, w, e, d, f)
  PROVE  /\ (e - Distance(w, e, M)) % M = w
         /\ Buffer(M, S, A, B, C, r, w, w, f)
         /\ Part(M, S, r, w, f) = Part(M, S, r, w, d)
         /\ Part(M, S, w, w, f) = <<>>
<1>1. /\ Cycle(M, S) /\ Nested(A, B, C)
      /\ r \in 0 .. M - 1 /\ w \in 0 .. M - 1 /\ e \in 0 .. M - 1
      /\ d \in Slots(S, C) /\ Good(M, S, A, B, r, w, e, d)
  BY DEF Kills, Buffer
<1>2. /\ f \in Slots(S, C) /\ OnlyFrom(w, Distance(w, e, M), f, d, S)
  BY DEF Kills
<1>3. /\ (e - Distance(w, e, M)) % M = w
      /\ Good(M, S, A, B, r, w, w, f)
      /\ Part(M, S, r, w, f) = Part(M, S, r, w, d)
      /\ Part(M, S, w, w, f) = <<>>
  BY <1>1, <1>2, KillGood, SMTT(30)
<1>4. QED
  BY <1>1, <1>2, <1>3 DEF Buffer

Queues(M, S, B, C, r, w, d, f, v, c) ==
  /\ Buffer(M, S, B, B, C, r, w, w, d)
  /\ c \in B /\ w # (r + S) % M
  /\ f \in Slots(S, C) /\ f[w % S] = c /\ OnlyAt(w % S, f, d, S) /\ v = (w + 1) % M

LEMMA BufferQueue ==
  ASSUME NEW M, NEW S, NEW B, NEW C, NEW r, NEW w, NEW d, NEW f, NEW v, NEW c,
         Queues(M, S, B, C, r, w, d, f, v, c)
  PROVE  /\ Buffer(M, S, B, B, C, r, v, v, f)
         /\ Part(M, S, r, v, f) = Append(Part(M, S, r, w, d), c)
         /\ Len(Part(M, S, r, w, d)) < S
<1>1. /\ Cycle(M, S) /\ Nested(B, B, C)
      /\ r \in 0 .. M - 1 /\ w \in 0 .. M - 1
      /\ d \in Slots(S, C) /\ Good(M, S, B, B, r, w, w, d)
  BY DEF Queues, Buffer
<1>2. /\ c \in B /\ w # (r + S) % M
      /\ f \in Slots(S, C) /\ f[w % S] = c /\ OnlyAt(w % S, f, d, S) /\ v = (w + 1) % M
  BY DEF Queues
<1>3. /\ v \in 0 .. M - 1
      /\ Good(M, S, B, B, r, v, v, f)
      /\ Part(M, S, r, v, f) = Append(Part(M, S, r, w, d), c)
      /\ Len(Part(M, S, r, w, d)) < S
  BY <1>1, <1>2, QueuePut, SMTT(30)
<1>4. QED
  BY <1>1, <1>2, <1>3 DEF Buffer
=============================================================================
