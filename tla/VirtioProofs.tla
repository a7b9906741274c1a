---------------------------- MODULE VirtioProofs ----------------------------
(***************************************************************************)
(* The disk driver for any number of processes, descriptors and any        *)
(* modulus of the ring indices.  The invariant says who owns a descriptor, *)
(* where the head of each request is, and that neither ring overflows.     *)
(***************************************************************************)
EXTENDS Virtio, FiniteSetTheorems, SharedTheorems, TLAPS

USE ZenonT(60), SMTT(30)

(* A process that has three descriptors.                                   *)
Working(p) == pc[p] \in {"io", "check"}
Own(p) == {head[p], next[head[p]], next[next[head[p]]]}

(* Its request before and after the device has moved the data.             *)
Asked(p) == Working(p) /\ busy[p] /\ p \notin moved
Answered(p) == Working(p) /\ busy[p] /\ p \in moved

(* The chain of a request: three descriptors that are nobody else's.       *)
Linked(p) ==
  /\ next[head[p]] \in Desc /\ next[next[head[p]]] \in Desc
  /\ next[next[next[head[p]]]] = None
  /\ head[p] # next[head[p]] /\ head[p] # next[next[head[p]]]
  /\ next[head[p]] # next[next[head[p]]]
  /\ addr[next[head[p]]] = p /\ info[head[p]].b = p

ChainInv ==
  /\ \A p \in Procs : Working(p) => Linked(p)
  /\ \A p, q \in Procs : Working(p) /\ Working(q) /\ p # q => Own(p) \cap Own(q) = {}
  /\ \A d \in Desc : d \in free <=> ~\E p \in Procs : Working(p) /\ d \in Own(p)

(* A process sleeps while the device has its request, and returns when the *)
(* data has moved.                                                         *)
StageInv ==
  /\ \A p \in moved : Working(p)
  /\ \A p \in Procs : /\ busy[p] => Working(p)
                      /\ pc[p] = "io" => busy[p]
                      /\ Working(p) /\ ~busy[p] => p \in moved

(* A ring holds different heads in the slots between its two indices and   *)
(* nothing elsewhere, and is never full.                                   *)
RingInv(ring, from, to) ==
  /\ Distance(from, to, Wrap) < NUM
  /\ \A k \in Desc : ring[Slot(from, k, NUM)] # None <=> k < Distance(from, to, Wrap)
  /\ \A s, t \in Desc : ring[s] # None /\ ring[s] = ring[t] => s = t

AvailInv ==
  /\ RingInv(avail.ring, seen, avail.idx)
  /\ \A s \in Desc : avail.ring[s] # None =>
       \E p \in Procs : Asked(p) /\ avail.ring[s] = head[p] /\ head[p] \notin fetched

FetchedInv == \A d \in fetched : \E p \in Procs : Asked(p) /\ d = head[p]

UsedInv ==
  /\ RingInv(used.ring, used_idx, used.idx)
  /\ \A s \in Desc : used.ring[s] # None =>
       \E p \in Procs : Answered(p) /\ used.ring[s] = head[p] /\ info[head[p]].status = 0
  /\ \A p \in Procs : Answered(p) => \E s \in Desc : used.ring[s] = head[p]

IrqInv == used_idx # used.idx => irq \/ handler

IInv == TypeOK /\ ChainInv /\ StageInv /\ AvailInv /\ FetchedInv /\ UsedInv /\ IrqInv

-----------------------------------------------------------------------------
(* Every set of natural numbers has a least element.                       *)
LEMMA LeastOf ==
  ASSUME NEW R, IsWellFoundedOn(R, Nat), \A x, y \in Nat : y < x => <<y, x>> \in R,
         NEW S, S \subseteq Nat, S # {}
  PROVE  \E x \in S : \A y \in S : x <= y
<1>1. PICK x \in S : \A y \in S : ~(<<y, x>> \in R)
  BY WFMin
<1>2. x \in Nat /\ \A y \in S : y \in Nat /\ ~(y < x)
  BY <1>1
<1>3. \A y \in S : x <= y
  BY <1>2, SMTT(30)
<1>4. QED
  BY <1>3

LEMMA Least ==
  ASSUME NEW S, S \subseteq Nat, S # {}
  PROVE  \E x \in S : \A y \in S : x <= y
<1>1. \A x, y \in Nat : y < x => <<y, x>> \in OpToRel(<, Nat)
  BY DEF OpToRel
<1>2. QED
  BY <1>1, NatLessThanWellFounded, LeastOf

(* alloc3_desc() takes the three lowest free descriptors, in order.        *)
LEMMA ThreeElements ==
  ASSUME NEW S, S \subseteq Nat, IsFiniteSet(S), Cardinality(S) >= 3
  PROVE  \E a, b, c \in S :
           /\ a < b /\ b < c
           /\ \A y \in S \ {a, b, c} : c < y
           /\ Cardinality({a, b, c}) = 3
           /\ Cardinality(S) = 3 => S = {a, b, c}
<1>1. Cardinality(S) \in Nat /\ S # {}
  <2>1. Cardinality(S) \in Nat
    BY FS_CardinalityType
  <2>2. Cardinality(S) # 0
    BY <2>1, SMTT(30)
  <2>3. QED
    BY <2>1, <2>2, FS_EmptySet
<1>2. PICK a \in S : \A y \in S : a <= y
  BY <1>1, Least
<1>3. IsFiniteSet(S \ {a}) /\ Cardinality(S \ {a}) = Cardinality(S) - 1
  BY <1>2, FS_RemoveElement
<1>4. S \ {a} # {}
  BY <1>1, <1>3, FS_EmptySet, SMTT(30)
<1>5. PICK b \in S \ {a} : \A y \in S \ {a} : b <= y
  BY <1>4, Least
<1> DEFINE T == (S \ {a}) \ {b}
<1>6. IsFiniteSet(T) /\ Cardinality(T) = Cardinality(S) - 2
  <2>1. IsFiniteSet(T) /\ Cardinality(T) = Cardinality(S \ {a}) - 1
    BY <1>3, <1>5, FS_RemoveElement
  <2>2. QED
    BY <1>1, <1>3, <2>1, SMTT(30)
<1>7. T # {}
  BY <1>1, <1>6, FS_EmptySet, SMTT(30)
<1>8. PICK c \in T : \A y \in T : c <= y
  BY <1>7, Least
<1>9. a < b /\ b < c /\ \A y \in S \ {a, b, c} : c < y
  BY <1>2, <1>5, <1>8, SMTT(30)
<1>10. Cardinality({a, b, c}) = 3
  <2>1. IsFiniteSet({a}) /\ Cardinality({a}) = 1
    BY FS_Singleton
  <2>2. b \notin {a}
    BY <1>9
  <2>3. IsFiniteSet({a} \cup {b}) /\ Cardinality({a} \cup {b}) = Cardinality({a}) + 1
    BY <2>1, <2>2, FS_AddElement
  <2>4. c \notin {a} \cup {b}
    BY <1>9, <1>2, <1>5, <1>8
  <2>5. Cardinality(({a} \cup {b}) \cup {c}) = Cardinality({a} \cup {b}) + 1
    BY <2>3, <2>4, FS_AddElement
  <2>6. ({a} \cup {b}) \cup {c} = {a, b, c}
    OBVIOUS
  <2>7. Cardinality({a} \cup {b}) = 2
    BY <2>1, <2>3, SMTT(30)
  <2>8. QED
    BY <2>5, <2>6, <2>7, SMTT(30)
<1>11. Cardinality(S) = 3 => S = {a, b, c}
  <2>1. {a, b, c} \in SUBSET S
    BY <1>2, <1>5, <1>8
  <2>2. QED
    BY <1>10, <2>1, FS_Subset
<1>12. QED
  BY <1>2, <1>5, <1>8, <1>9, <1>10, <1>11

LEMMA LowestFacts ==
  ASSUME free \subseteq Desc, Cardinality(free) >= 3
  PROVE  \E a, b, c \in free :
           /\ a # b /\ b # c /\ a # c
           /\ Lowest(3) = {a, b, c}
           /\ Min(Lowest(3)) = a /\ Max(Lowest(3)) = c
           /\ (CHOOSE d \in Lowest(3) : d \notin {a, c}) = b
<1>1. free \subseteq Nat /\ IsFiniteSet(free)
  <2>1. IsFiniteSet(Desc) /\ Desc \subseteq Nat
    BY VirtioAssumption, FS_Interval, SMTT(30) DEF Desc
  <2>2. IsFiniteSet(free)
    BY <2>1, FS_Subset
  <2>3. QED
    BY <2>1, <2>2
<1>2. PICK x, y, z \in free :
        /\ x < y /\ y < z
        /\ \A w \in free \ {x, y, z} : z < w
        /\ Cardinality({x, y, z}) = 3
  <2>1. \E a, b, c \in free :
           /\ a < b /\ b < c
           /\ \A y \in free \ {a, b, c} : c < y
           /\ Cardinality({a, b, c}) = 3
           /\ Cardinality(free) = 3 => free = {a, b, c}
    BY <1>1, ThreeElements
  <2>2. QED
    BY <2>1
<1>3. {x, y, z} \in SUBSET free
      /\ \A v \in {x, y, z}, w \in free \ {x, y, z} : v < w
  BY <1>1, <1>2, SMTT(30)
<1> DEFINE S == Lowest(3)
<1>4. S \in SUBSET free /\ Cardinality(S) = 3
  BY <1>2, <1>3 DEF Lowest
<1> HIDE DEF S
<1>5. S \subseteq Nat /\ IsFiniteSet(S) /\ Cardinality(S) >= 3
  BY <1>1, <1>4, FS_Subset
<1>6. PICK a, b, c \in S : a < b /\ b < c /\ S = {a, b, c}
  BY <1>4, <1>5, ThreeElements
<1>7. a \in Nat /\ b \in Nat /\ c \in Nat /\ a # b /\ b # c /\ a # c
  BY <1>5, <1>6, SMTT(30)
<1>8. Min(S) = a
  <2>1. \A v \in S : (\A w \in S : v =< w) <=> v = a
    BY <1>6, <1>7, SMTT(30)
  <2>2. QED
    BY <1>6, <2>1 DEF Min
<1>9. Max(S) = c
  <2>1. \A v \in S : (\A w \in S : v >= w) <=> v = c
    BY <1>6, <1>7, SMTT(30)
  <2>2. QED
    BY <1>6, <2>1 DEF Max
<1>10. (CHOOSE d \in S : d \notin {a, c}) = b
  BY <1>6, <1>7
<1>11. QED
  BY <1>4, <1>6, <1>7, <1>8, <1>9, <1>10 DEF S

-----------------------------------------------------------------------------
(* Steps of a ring.                                                        *)
LEMMA VirtioRing ==
  /\ Wraps(Wrap, NUM) /\ NUM \in Nat \ {0} /\ Wrap \in Nat \ {0} /\ NUM <= Wrap
  /\ None \notin Desc
<1>1. NUM <= Wrap
  <2> DEFINE q == Wrap \div NUM
  <2>1. q \in Int /\ Wrap = NUM * q
    BY VirtioAssumption, Quotient, SMTT(30)
  <2> HIDE DEF q
  <2>2. q >= 1
    BY <2>1, VirtioAssumption, SMTT(30)
  <2>3. QED
    BY <2>1, <2>2, VirtioAssumption, SMTT(30)
<1>2. QED
  BY <1>1, VirtioAssumption, SMTT(30) DEF Wraps, None, Desc

RingType == [Desc -> Desc \cup {None}]
Index == 0 .. Wrap - 1

LEMMA RingFacts ==
  ASSUME NEW from \in Index, NEW to \in Index
  PROVE  /\ Distance(from, to, Wrap) \in Nat
         /\ from = to <=> Distance(from, to, Wrap) = 0
         /\ to % NUM = Slot(from, Distance(from, to, Wrap), NUM)
         /\ from % NUM = Slot(from, 0, NUM)
         /\ \A k \in Nat : Slot(from, k, NUM) \in Desc
         /\ \A i, j \in Desc : i # j => Slot(from, i, NUM) # Slot(from, j, NUM)
<1>1. /\ Distance(from, to, Wrap) \in Nat
      /\ from = to <=> Distance(from, to, Wrap) = 0
      /\ to % NUM = Slot(from, Distance(from, to, Wrap), NUM)
  <2>1. Wraps(Wrap, NUM) /\ from \in 0 .. Wrap - 1 /\ to \in 0 .. Wrap - 1 /\ Wrap \in Nat
    BY VirtioRing DEF Index
  <2>2. /\ Distance(from, to, Wrap) \in 0 .. Wrap - 1
        /\ from = to <=> Distance(from, to, Wrap) = 0
        /\ to % NUM = (from + Distance(from, to, Wrap)) % NUM
    BY <2>1, DistanceFacts, SMTT(30)
  <2>3. QED
    BY <2>2, SMTT(30) DEF Slot
<1>2. from \in Nat /\ NUM \in Nat \ {0}
  BY VirtioRing, SMTT(30) DEF Index
<1>3. from % NUM = Slot(from, 0, NUM)
  BY <1>2, SMTT(30) DEF Slot
<1>4. \A k \in Nat : Slot(from, k, NUM) \in Desc
  BY <1>2, SlotInRange DEF Desc
<1>5. \A i, j \in Desc : i # j => Slot(from, i, NUM) # Slot(from, j, NUM)
  BY <1>2, SlotsDiffer DEF Desc
<1>6. QED
  BY <1>1, <1>3, <1>4, <1>5

(* Every slot is some distance from the first one.                         *)
LEMMA SlotOnto ==
  ASSUME NEW from \in Index, NEW s \in Desc
  PROVE  \E k \in Desc : s = Slot(from, k, NUM)
<1> DEFINE f == [k \in Desc |-> Slot(from, k, NUM)]
<1>1. f \in Injection(Desc, Desc)
  <2>1. \A k \in Desc : k \in Nat
    BY SMTT(30) DEF Desc
  <2>2. f \in [Desc -> Desc]
    BY <2>1, RingFacts
  <2>3. \A i, j \in Desc : i # j => f[i] # f[j]
    BY RingFacts
  <2> HIDE DEF f
  <2>4. QED
    BY <2>2, <2>3 DEF Injection, IsInjective
<1>2. IsFiniteSet(Desc)
  BY VirtioAssumption, FS_Interval, SMTT(30) DEF Desc
<1> HIDE DEF f
<1>3. f \in Surjection(Desc, Desc)
  BY <1>1, <1>2, FS_Injection
<1>4. \E k \in Desc : f[k] = s
  BY <1>3 DEF Surjection
<1>5. QED
  BY <1>4 DEF f

(* A ring whose entries leave three descriptors out has room for another.  *)
LEMMA RingSize ==
  ASSUME NEW ring \in RingType, NEW from \in Index, NEW to \in Index,
         RingInv(ring, from, to),
         NEW a \in Desc, NEW b \in Desc, NEW c \in Desc, a # b, b # c, a # c,
         \A s \in Desc : ring[s] \notin {a, b, c}
  PROVE  Distance(from, to, Wrap) + 1 < NUM
<1> DEFINE n == Distance(from, to, Wrap)
           D == ((Desc \ {a}) \ {b}) \ {c}
           f == [k \in 0 .. n - 1 |-> ring[Slot(from, k, NUM)]]
<1>1. n \in Nat /\ n < NUM
  BY RingFacts DEF RingInv
<1> HIDE DEF n
<1>2. IsFiniteSet(D) /\ Cardinality(D) = NUM - 3
  <2>1. IsFiniteSet(Desc) /\ Cardinality(Desc) = NUM
    BY VirtioAssumption, FS_Interval, SMTT(30) DEF Desc
  <2>2. IsFiniteSet(Desc \ {a}) /\ Cardinality(Desc \ {a}) = Cardinality(Desc) - 1
    BY <2>1, FS_RemoveElement
  <2>3. b \in Desc \ {a}
    OBVIOUS
  <2>4. /\ IsFiniteSet((Desc \ {a}) \ {b})
        /\ Cardinality((Desc \ {a}) \ {b}) = Cardinality(Desc \ {a}) - 1
    BY <2>2, <2>3, FS_RemoveElement
  <2>5. c \in (Desc \ {a}) \ {b}
    OBVIOUS
  <2>6. IsFiniteSet(D) /\ Cardinality(D) = Cardinality((Desc \ {a}) \ {b}) - 1
    BY <2>4, <2>5, FS_RemoveElement
  <2>7. QED
    BY <2>1, <2>2, <2>4, <2>6, VirtioAssumption, SMTT(30)
<1>3. \A k \in 0 .. n - 1 : k \in Desc /\ k \in Nat /\ k < n /\ Slot(from, k, NUM) \in Desc
  <2>1. \A k \in 0 .. n - 1 : k \in Desc /\ k \in Nat /\ k < n
    BY <1>1, VirtioAssumption, SMTT(30) DEF Desc
  <2>2. QED
    BY <2>1, RingFacts
<1>4. \A k \in 0 .. n - 1 : ring[Slot(from, k, NUM)] # None
  BY <1>3 DEF RingInv, n
<1>5. f \in [0 .. n - 1 -> D]
  BY <1>3, <1>4, SMTT(30) DEF RingType
<1>6. \A i, j \in 0 .. n - 1 : f[i] = f[j] => i = j
  <2> SUFFICES ASSUME NEW i \in 0 .. n - 1, NEW j \in 0 .. n - 1, f[i] = f[j] PROVE i = j
    OBVIOUS
  <2>1. Slot(from, i, NUM) = Slot(from, j, NUM)
    BY <1>3, <1>4 DEF RingInv
  <2>2. QED
    BY <1>3, <2>1, RingFacts
<1> HIDE DEF f, D
<1>7. f \in Injection(0 .. n - 1, D)
  BY <1>5, <1>6 DEF Injection, IsInjective
<1>8. Cardinality(0 .. n - 1) <= Cardinality(D)
  BY <1>2, <1>7, FS_Injection
<1>9. Cardinality(0 .. n - 1) = n
  BY <1>1, FS_Interval, SMTT(30)
<1>10. QED
  BY <1>1, <1>2, <1>8, <1>9, VirtioAssumption, SMTT(30) DEF n

(* An entry that is added goes to an empty slot.                           *)
LEMMA RingPut ==
  ASSUME NEW ring \in RingType, NEW from \in Index, NEW to \in Index,
         RingInv(ring, from, to), Distance(from, to, Wrap) + 1 < NUM,
         NEW d \in Desc, \A s \in Desc : ring[s] # d
  PROVE  /\ to % NUM \in Desc /\ ring[to % NUM] = None
         /\ (to + 1) % Wrap \in Index /\ from # (to + 1) % Wrap
         /\ [ring EXCEPT ![to % NUM] = d] \in RingType
         /\ RingInv([ring EXCEPT ![to % NUM] = d], from, (to + 1) % Wrap)
<1> DEFINE n == Distance(from, to, Wrap)
           s == to % NUM
           v == (to + 1) % Wrap
           r == [ring EXCEPT ![s] = d]
<1>1. n \in Nat /\ n + 1 < NUM /\ n + 1 < Wrap /\ s = Slot(from, n, NUM) /\ n \in Desc
  BY RingFacts, VirtioRing, SMTT(30) DEF Desc
<1>2. s \in Desc
  BY <1>1, RingFacts
<1>3. v \in Index /\ Distance(from, v, Wrap) = n + 1
  BY <1>1, VirtioRing, SuccCases, DistanceGrows DEF Index
<1> HIDE DEF n, s, v
<1>4. ring[s] = None
  BY <1>1, SMTT(30) DEF RingInv, n
<1>5. from # v
  BY <1>1, <1>3, RingFacts, SMTT(30)
<1>6. r \in RingType /\ r[s] = d /\ \A t \in Desc \ {s} : r[t] = ring[t]
  BY <1>2 DEF RingType
<1>7. d # None
  BY VirtioRing
<1> HIDE DEF r
<1>8. ASSUME NEW k \in Desc
      PROVE  r[Slot(from, k, NUM)] # None <=> k < n + 1
  <2>1. CASE k = n
    BY <1>1, <1>6, <1>7, <2>1, SMTT(30)
  <2>2. CASE k # n
    <3>1. k \in Nat /\ Slot(from, k, NUM) \in Desc /\ Slot(from, k, NUM) # s
      BY <1>1, <2>2, RingFacts, SMTT(30) DEF Desc
    <3>2. r[Slot(from, k, NUM)] = ring[Slot(from, k, NUM)]
      BY <1>6, <3>1
    <3>3. ring[Slot(from, k, NUM)] # None <=> k < n
      BY DEF RingInv, n
    <3>4. QED
      BY <1>1, <2>2, <3>1, <3>2, <3>3, SMTT(30)
  <2>3. QED
    BY <2>1, <2>2
<1>9. \A t, u \in Desc : r[t] # None /\ r[t] = r[u] => t = u
  BY <1>2, <1>4, <1>6 DEF RingInv
<1>10. RingInv(r, from, v)
  BY <1>1, <1>3, <1>8, <1>9, SMTT(30) DEF RingInv
<1>11. QED
  BY <1>2, <1>3, <1>4, <1>5, <1>6, <1>10 DEF r, s, v

(* The first entry is taken out.                                           *)
LEMMA RingGet ==
  ASSUME NEW ring \in RingType, NEW from \in Index, NEW to \in Index,
         RingInv(ring, from, to), from # to
  PROVE  /\ from % NUM \in Desc /\ ring[from % NUM] \in Desc
         /\ (from + 1) % Wrap \in Index
         /\ [ring EXCEPT ![from % NUM] = None] \in RingType
         /\ RingInv([ring EXCEPT ![from % NUM] = None], (from + 1) % Wrap, to)
<1> DEFINE n == Distance(from, to, Wrap)
           s == from % NUM
           v == (from + 1) % Wrap
           r == [ring EXCEPT ![s] = None]
<1>1. n \in Nat /\ n # 0 /\ n < NUM /\ s = Slot(from, 0, NUM) /\ 0 \in Desc /\ s \in Desc
  BY RingFacts, VirtioRing, SMTT(30) DEF Desc, RingInv
<1>2. v \in Index /\ Distance(v, to, Wrap) = n - 1
  BY VirtioRing, SuccCases, DistanceShrinks DEF Index
<1>3. ASSUME NEW k \in Desc
      PROVE  Slot(v, k, NUM) = Slot(from, k + 1, NUM)
  BY VirtioRing, NextSlot, SMTT(30) DEF Index, Desc
<1> HIDE DEF n, s, v
<1>4. ring[s] \in Desc
  BY <1>1, SMTT(30) DEF RingInv, RingType, n
<1>5. r \in RingType /\ r[s] = None /\ \A t \in Desc \ {s} : r[t] = ring[t]
  BY <1>1 DEF RingType
<1> HIDE DEF r
<1>6. ASSUME NEW k \in Desc
      PROVE  r[Slot(v, k, NUM)] # None <=> k < n - 1
  <2>1. CASE k + 1 \in Desc
    <3>1. Slot(from, k + 1, NUM) \in Desc /\ Slot(from, k + 1, NUM) # s
      BY <1>1, <2>1, RingFacts, SMTT(30) DEF Desc
    <3>2. r[Slot(v, k, NUM)] = ring[Slot(from, k + 1, NUM)]
      BY <1>3, <1>5, <3>1
    <3>3. ring[Slot(from, k + 1, NUM)] # None <=> k + 1 < n
      BY <2>1 DEF RingInv, n
    <3>4. QED
      BY <1>1, <3>2, <3>3, SMTT(30) DEF Desc
  <2>2. CASE k + 1 \notin Desc
    <3>1. k + 1 = NUM
      BY <2>2, VirtioAssumption, SMTT(30) DEF Desc
    <3>2. Slot(from, k + 1, NUM) = s
      <4> DEFINE x == from + NUM
      <4>1. x \in Int /\ from \in Int /\ NUM \in Nat \ {0}
        BY VirtioAssumption, SMTT(30) DEF Index
      <4> PICK one \in Int : one = 1
        BY SMTT(30)
      <4>2. x = from + (NUM * one)
        BY <4>1, SMTT(30)
      <4> HIDE DEF x
      <4>3. x % NUM = from % NUM
        BY <4>1, <4>2, SameRemainder
      <4>4. QED
        BY <3>1, <4>3 DEF x, s, Slot
    <3>3. QED
      BY <1>1, <1>3, <1>5, <3>1, <3>2, SMTT(30) DEF Desc
  <2>3. QED
    BY <2>1, <2>2
<1>7. \A t, u \in Desc : r[t] # None /\ r[t] = r[u] => t = u
  BY <1>1, <1>5 DEF RingInv
<1>8. RingInv(r, v, to)
  <2>1. Distance(v, to, Wrap) < NUM
    BY <1>1, <1>2, VirtioAssumption, SMTT(30)
  <2>2. \A k \in Desc : r[Slot(v, k, NUM)] # None <=> k < Distance(v, to, Wrap)
    BY <1>2, <1>6
  <2>3. QED
    BY <1>7, <2>1, <2>2 DEF RingInv
<1>9. QED
  BY <1>1, <1>2, <1>4, <1>5, <1>8 DEF r, s, v

(* A ring with different indices has an entry, and an entry means that the *)
(* indices differ.                                                         *)
LEMMA RingOccupied ==
  ASSUME NEW ring \in RingType, NEW from \in Index, NEW to \in Index,
         RingInv(ring, from, to), NEW s \in Desc, ring[s] # None
  PROVE  from # to
<1>1. PICK k \in Desc : s = Slot(from, k, NUM)
  BY SlotOnto
<1>2. k < Distance(from, to, Wrap) /\ k \in Nat
  BY <1>1, SMTT(30) DEF RingInv, Desc
<1>3. QED
  BY <1>2, RingFacts, SMTT(30)

-----------------------------------------------------------------------------
(* The types of the rings, apart.                                          *)
RingTypes ==
  /\ avail.ring \in RingType /\ avail.idx \in Index
  /\ used.ring \in RingType /\ used.idx \in Index
  /\ seen \in Index /\ used_idx \in Index

LEMMA RingsTyped == TypeOK => RingTypes
  BY DEF TypeOK, Ring, RingType, Index, RingTypes

LEMMA PutRing ==
  ASSUME NEW r \in Ring, NEW d \in Desc \cup {None}
  PROVE  Put(r, d) \in Ring
<1>1. r.idx % NUM \in Desc /\ (r.idx + 1) % Wrap \in 0 .. Wrap - 1
  BY VirtioAssumption, SMTT(30) DEF Ring, Desc
<1>2. QED
  BY <1>1 DEF Put, Ring

(* Three descriptors of a working process.                                 *)
LEMMA OwnFacts ==
  ASSUME TypeOK, NEW p \in Procs, Linked(p)
  PROVE  /\ Own(p) = Chain(head[p])
         /\ Own(p) \subseteq Desc
         /\ Cardinality(Own(p)) = 3
         /\ head[p] \in Own(p) /\ head[p] \in Desc
<1> DEFINE a == head[p]
           b == next[a]
           c == next[b]
<1>1. a \in Desc /\ b \in Desc /\ c \in Desc /\ a # b /\ b # c /\ a # c
  BY DEF Linked, TypeOK
<1>2. Own(p) = {a, b, c}
  BY DEF Own
<1>3. Chain(a) = {a, b, c}
  BY <1>1, VirtioRing DEF Chain
<1> HIDE DEF a, b, c
<1>4. Cardinality({a, b, c}) = 3
  <2>1. IsFiniteSet({a}) /\ Cardinality({a}) = 1
    BY FS_Singleton
  <2>2. b \notin {a}
    BY <1>1
  <2>3. IsFiniteSet({a} \cup {b}) /\ Cardinality({a} \cup {b}) = Cardinality({a}) + 1
    BY <2>1, <2>2, FS_AddElement
  <2>4. c \notin {a} \cup {b}
    BY <1>1
  <2>5. Cardinality(({a} \cup {b}) \cup {c}) = Cardinality({a} \cup {b}) + 1
    BY <2>3, <2>4, FS_AddElement
  <2>6. ({a} \cup {b}) \cup {c} = {a, b, c}
    OBVIOUS
  <2>7. Cardinality({a} \cup {b}) = 2
    BY <2>1, <2>3, SMTT(30)
  <2>8. QED
    BY <2>5, <2>6, <2>7, SMTT(30)
<1>5. QED
  BY <1>1, <1>2, <1>3, <1>4 DEF a

(* The chains stay when nobody gets or frees descriptors.                  *)
LEMMA ChainFrame ==
  ASSUME TypeOK, ChainInv, UNCHANGED <<free, next, addr, head>>,
         \A q \in Procs : Working(q)' <=> Working(q),
         \A d \in Desc : info'[d].b = info[d].b
  PROVE  ChainInv'
<1>1. \A q \in Procs : Own(q)' = Own(q)
  BY DEF Own
<1>2. \A q \in Procs : Working(q) => Linked(q)'
  BY DEF ChainInv, Linked, TypeOK
<1>3. QED
  BY <1>1, <1>2, SMTT(30) DEF ChainInv

LEMMA InitInv == Init => IInv
<1> SUFFICES ASSUME Init PROVE IInv
  OBVIOUS
<1>1. TypeOK
  <2>1. 0 \in Desc /\ 0 \in 0 .. Wrap - 1
    BY VirtioAssumption, SMTT(30) DEF Desc
  <2>2. Empty \in Ring
    BY <2>1 DEF Empty, Ring
  <2>3. QED
    BY <2>1, <2>2 DEF Init, TypeOK
<1>2. \A p \in Procs : ~Working(p)
  BY DEF Init, Working
<1>3. ChainInv /\ StageInv /\ FetchedInv /\ IrqInv
  BY <1>2 DEF Init, ChainInv, StageInv, FetchedInv, IrqInv, Empty
<1>4. RingInv(Empty.ring, 0, Empty.idx)
  <2>1. 0 \in Index /\ Empty.idx = 0 /\ \A s \in Desc : Empty.ring[s] = None
    BY VirtioAssumption, SMTT(30) DEF Index, Empty
  <2>2. Distance(0, 0, Wrap) = 0
    BY <2>1, RingFacts
  <2>3. \A k \in Desc : k \in Nat /\ Slot(0, k, NUM) \in Desc
    BY <2>1, RingFacts, SMTT(30) DEF Desc
  <2>4. QED
    BY <2>1, <2>2, <2>3, VirtioAssumption, SMTT(30) DEF RingInv
<1>5. AvailInv /\ UsedInv
  <2>1. avail = Empty /\ used = Empty /\ used_idx = 0 /\ seen = 0
    BY DEF Init
  <2>2. \A s \in Desc : Empty.ring[s] = None
    BY DEF Empty
  <2>3. QED
    BY <1>2, <1>4, <2>1, <2>2 DEF AvailInv, UsedInv, Answered
<1>6. QED
  BY <1>1, <1>3, <1>5 DEF IInv

(* Steps that only move processes from one place to another.               *)
LEMMA WaitInv ==
  ASSUME IInv,
         UNCHANGED <<free, next, addr, info, busy, used_idx, handler, head, device, avail, irq, moved>>,
         pc' \in [Procs -> {"idle", "alloc", "nodesc", "io", "check"}],
         \A q \in Procs : Working(q)' <=> Working(q),
         \A q \in Procs : pc'[q] = "io" => pc[q] = "io" \/ busy[q]
  PROVE  IInv'
<1>1. TypeOK'
  BY DEF IInv, TypeOK, device
<1>2. ChainInv'
  BY ChainFrame DEF IInv, TypeOK
<1>3. StageInv'
  BY DEF IInv, StageInv, TypeOK
<1>4. \A q \in Procs : (Asked(q)' <=> Asked(q)) /\ (Answered(q)' <=> Answered(q))
  BY DEF Asked, Answered
<1>5. AvailInv' /\ FetchedInv'
  BY <1>4 DEF IInv, AvailInv, FetchedInv, device
<1>6. UsedInv' /\ IrqInv'
  BY <1>4 DEF IInv, UsedInv, IrqInv, device
<1>7. QED
  BY <1>1, <1>2, <1>3, <1>5, <1>6 DEF IInv

LEMMA SmallSteps ==
  ASSUME IInv, NEW p \in Procs,
         call(p) \/ no_desc(p) \/ kill(p) \/ (finish(p) /\ StillBusy(p))
  PROVE  IInv'
<1> DEFINE Places == {"idle", "alloc", "nodesc", "io", "check"}
<1>1. pc \in [Procs -> Places]
  BY DEF IInv, TypeOK
<1>2. CASE call(p) \/ kill(p)
  <2>1. UNCHANGED <<free, next, addr, info, busy, used_idx, handler, head, device, avail, irq, moved>>
    BY <1>2 DEF call, kill
  <2>2. /\ pc' \in [Procs -> Places]
        /\ \A q \in Procs : (Working(q)' <=> Working(q)) /\ (pc'[q] = "io" => pc[q] = "io")
    BY <1>1, <1>2 DEF call, kill, Working
  <2>3. QED
    BY <2>1, <2>2, WaitInv
<1>3. CASE no_desc(p)
  <2>1. /\ UNCHANGED <<free, next, addr, info, busy, used_idx, handler, head, device, avail, irq, moved>>
        /\ pc[p] = "alloc"
    BY <1>3 DEF no_desc, alloc3_fail
  <2>2. /\ pc' \in [Procs -> Places]
        /\ \A q \in Procs : pc'[q] = pc[q] \/ (pc[q] \in {"alloc", "nodesc"}
                                               /\ pc'[q] \in {"alloc", "nodesc"})
    BY <1>1, <1>3 DEF no_desc, WakeFree
  <2>3. QED
    BY <2>1, <2>2, WaitInv DEF Working
<1>4. CASE finish(p) /\ StillBusy(p)
  <2>1. UNCHANGED <<free, next, addr, info, busy, used_idx, handler, head, device, avail, irq, moved>>
    BY <1>4 DEF finish
  <2>2. pc[p] = "check" /\ busy[p] /\ pc' = [pc EXCEPT ![p] = "io"]
    BY <1>4 DEF finish, StillBusy
  <2>3. QED
    BY <1>1, <2>1, <2>2, WaitInv DEF Working
<1>5. QED
  BY <1>2, <1>3, <1>4

(* The handler starts and ends.                                            *)
LEMMA HandlerInv ==
  ASSUME IInv, intr_begin \/ intr_end
  PROVE  IInv'
<1>1. UNCHANGED <<free, next, addr, info, busy, used_idx, pc, head, device, avail, moved>>
  BY DEF intr_begin, intr_end
<1>2. TypeOK'
  BY <1>1 DEF IInv, TypeOK, device, intr_begin, intr_end
<1>3. ChainInv' /\ StageInv'
  BY <1>1 DEF IInv, ChainInv, StageInv, Working, Own, Linked
<1>4. \A q \in Procs : (Asked(q)' <=> Asked(q)) /\ (Answered(q)' <=> Answered(q))
  BY <1>1 DEF Asked, Answered, Working
<1>5. AvailInv' /\ FetchedInv' /\ UsedInv'
  BY <1>1, <1>4 DEF IInv, AvailInv, FetchedInv, UsedInv, device
<1>6. IrqInv'
  BY DEF IInv, IrqInv, intr_begin, intr_end, device
<1>7. QED
  BY <1>2, <1>3, <1>5, <1>6 DEF IInv

LEMMA FetchInv ==
  ASSUME IInv, device_fetch
  PROVE  IInv'
<1> DEFINE s == seen % NUM
           d == avail.ring[s]
           r == [avail.ring EXCEPT ![s] = None]
           v == (seen + 1) % Wrap
<1> USE DEF IInv
<1>1. /\ UNCHANGED <<driver, used, irq, moved>> /\ seen # avail.idx
      /\ fetched' = fetched \cup {d} /\ seen' = v
      /\ avail'.ring = r /\ avail'.idx = avail.idx /\ avail' = [avail EXCEPT !.ring = r]
  BY DEF device_fetch, TypeOK, Ring
<1>2. RingTypes
  BY RingsTyped
<1>3. s \in Desc /\ d \in Desc /\ v \in Index /\ r \in RingType /\ RingInv(r, v, avail.idx)
  BY <1>1, <1>2, RingGet DEF AvailInv, RingTypes
<1>4. \A t \in Desc : r[t] # None => t # s /\ r[t] = avail.ring[t]
  BY <1>2, <1>3 DEF RingTypes, RingType
<1>5. PICK p \in Procs : Asked(p) /\ d = head[p]
  BY <1>3, VirtioRing DEF AvailInv
<1>6. \A t \in Desc : r[t] # None => r[t] # d
  BY <1>3, <1>4 DEF AvailInv, RingInv
<1> HIDE DEF s, d, r, v
<1>7. TypeOK'
  <2>1. avail' \in Ring
    BY <1>1, <1>2, <1>3 DEF Ring, RingType, RingTypes, Index, TypeOK
  <2>2. QED
    BY <1>1, <1>3, <2>1 DEF TypeOK, driver, Index
<1>8. ChainInv' /\ StageInv' /\ IrqInv'
  BY <1>1 DEF ChainInv, StageInv, Working, Own, Linked, IrqInv, driver
<1>9. \A q \in Procs : (Asked(q)' <=> Asked(q)) /\ (Answered(q)' <=> Answered(q))
  BY <1>1 DEF Asked, Answered, Working, driver
<1>10. head' = head
  BY <1>1 DEF driver
<1>11. AvailInv'
  <2>1. RingInv(avail'.ring, seen', avail'.idx)
    BY <1>1, <1>3
  <2>2. ASSUME NEW t \in Desc, r[t] # None
        PROVE  \E q \in Procs : Asked(q) /\ r[t] = head[q] /\ head[q] \notin fetched'
    <3>1. r[t] = avail.ring[t] /\ r[t] # d
      BY <1>4, <1>6, <2>2
    <3>2. QED
      BY <1>1, <2>2, <3>1 DEF AvailInv
  <2>3. QED
    BY <1>1, <1>9, <1>10, <2>1, <2>2 DEF AvailInv
<1>12. FetchedInv'
  BY <1>1, <1>5, <1>9, <1>10 DEF FetchedInv
<1>13. UsedInv'
  BY <1>1, <1>9 DEF UsedInv, driver
<1>14. QED
  BY <1>7, <1>8, <1>11, <1>12, <1>13

LEMMA ServeInv ==
  ASSUME IInv, NEW d \in Desc, device_serve(d)
  PROVE  IInv'
<1> USE DEF IInv
<1>1. PICK p \in Procs : Asked(p) /\ d = head[p]
  BY DEF device_serve, FetchedInv
<1>2. Working(p) /\ Linked(p)
  BY <1>1 DEF Asked, ChainInv
<1>3. /\ UNCHANGED <<free, next, addr, busy, used_idx, handler, pc, head, seen, avail>>
      /\ fetched' = fetched \ {d} /\ moved' = moved \cup {p} /\ irq' = TRUE
      /\ used' = Put(used, d)
  BY <1>1, <1>2 DEF device_serve, Linked
<1>4. /\ info' \in [Desc -> [b : Procs \cup {NoProc}, status : {0, 255}]]
      /\ info'[d].status = 0
      /\ \A e \in Desc : /\ info'[e].b = info[e].b
                         /\ info[e].status = 0 => info'[e].status = 0
  BY SMTT(30) DEF device_serve, TypeOK
<1>5. \A q \in Procs : /\ Working(q)' <=> Working(q)
                       /\ Asked(q)' <=> Asked(q) /\ q # p
                       /\ Answered(q)' <=> Answered(q) \/ q = p
  BY <1>1, <1>3 DEF Asked, Answered, Working
<1>6. \A q \in Procs : Working(q) /\ q # p => head[q] \notin Own(p) /\ head[q] # d
  BY <1>1, <1>2 DEF ChainInv, Own
<1>7. TypeOK'
  BY <1>3, <1>4, PutRing, SMTT(30) DEF TypeOK
<1>8. ChainInv'
  BY <1>3, <1>4, <1>5, ChainFrame
<1>9. StageInv'
  BY <1>1, <1>2, <1>3, <1>5, SMTT(30) DEF StageInv, Asked, TypeOK
<1>10. AvailInv'
  <2>1. \A s \in Desc : avail.ring[s] # None => avail.ring[s] # d
    BY <1>1 DEF AvailInv, device_serve
  <2>2. QED
    BY <1>1, <1>3, <1>5, <2>1 DEF AvailInv
<1>11. FetchedInv'
  BY <1>1, <1>3, <1>5 DEF FetchedInv
<1>12. IrqInv'
  BY <1>3 DEF IrqInv
<1>13. RingTypes
  BY RingsTyped
<1>14. \A s \in Desc : used.ring[s] \notin Own(p)
  <2> SUFFICES ASSUME NEW s \in Desc, used.ring[s] \in Own(p) PROVE FALSE
    OBVIOUS
  <2>1. used.ring[s] # None
    BY <1>2, OwnFacts, VirtioRing
  <2>2. PICK q \in Procs : Answered(q) /\ used.ring[s] = head[q]
    BY <2>1 DEF UsedInv
  <2>3. QED
    BY <1>1, <1>6, <2>2 DEF Asked, Answered
<1>15. /\ Distance(used_idx, used.idx, Wrap) + 1 < NUM
       /\ \A s \in Desc : used.ring[s] # d
  BY <1>1, <1>2, <1>13, <1>14, RingSize DEF Own, Linked, UsedInv, RingTypes
<1> DEFINE r == [used.ring EXCEPT ![used.idx % NUM] = d]
           v == (used.idx + 1) % Wrap
<1>16. /\ used.idx % NUM \in Desc /\ used.ring[used.idx % NUM] = None
       /\ RingInv(r, used_idx, v)
  BY <1>13, <1>15, RingPut, SMTT(30) DEF UsedInv, RingTypes
<1>17. /\ used'.ring = r /\ used'.idx = v
       /\ r[used.idx % NUM] = d /\ \A s \in Desc \ {used.idx % NUM} : r[s] = used.ring[s]
  BY <1>3, <1>13, <1>16 DEF Put, RingTypes, RingType
<1> HIDE DEF r, v
<1>18. UsedInv'
  <2>1. RingInv(used'.ring, used_idx', used'.idx)
    BY <1>3, <1>16, <1>17
  <2>2. ASSUME NEW s \in Desc, r[s] # None
        PROVE  \E q \in Procs : /\ Answered(q)' /\ r[s] = head[q]
                                /\ info'[head[q]].status = 0
    <3>1. CASE s = used.idx % NUM
      BY <1>1, <1>4, <1>5, <1>17, <3>1, ZenonT(180)
    <3>2. CASE s # used.idx % NUM
      BY <1>4, <1>5, <1>17, <2>2, <3>2, SMTT(30) DEF UsedInv, TypeOK
    <3>3. QED
      BY <3>1, <3>2
  <2>3. ASSUME NEW q \in Procs, Answered(q)'
        PROVE  \E s \in Desc : r[s] = head[q]
    <3>1. CASE q = p
      BY <1>1, <1>16, <1>17, <3>1
    <3>2. CASE q # p
      <4>1. PICK s \in Desc : used.ring[s] = head[q]
        BY <1>5, <2>3, <3>2 DEF UsedInv
      <4>2. head[q] # None
        BY VirtioRing, SMTT(30) DEF TypeOK
      <4>3. QED
        BY <1>16, <1>17, <4>1, <4>2
    <3>3. QED
      BY <3>1, <3>2
  <2>4. QED
    BY <1>3, <1>17, <2>1, <2>2, <2>3 DEF UsedInv
<1>19. QED
  BY <1>7, <1>8, <1>9, <1>10, <1>11, <1>12, <1>18

(* The entry that the handler meets is the head of a request whose data    *)
(* has moved.                                                              *)
LEMMA CompletedFacts ==
  ASSUME IInv, used_idx # used.idx
  PROVE  /\ Completed \in Desc
         /\ \E p \in Procs : /\ Answered(p) /\ Completed = head[p]
                             /\ info[Completed].status = 0 /\ info[Completed].b = p
<1>1. RingTypes
  BY RingsTyped DEF IInv
<1>2. used_idx % NUM \in Desc /\ Completed \in Desc
  BY <1>1, RingGet DEF IInv, UsedInv, RingTypes, Completed
<1>3. PICK p \in Procs : Answered(p) /\ Completed = head[p] /\ info[head[p]].status = 0
  BY <1>2, VirtioRing DEF IInv, UsedInv, Completed
<1>4. info[head[p]].b = p
  BY <1>3 DEF Answered, IInv, ChainInv, Linked
<1>5. QED
  BY <1>2, <1>3, <1>4

LEMMA LoopInv ==
  ASSUME IInv, intr_loop
  PROVE  IInv'
<1> DEFINE s == used_idx % NUM
           d == Completed
           r == [used.ring EXCEPT ![s] = None]
           v == (used_idx + 1) % Wrap
<1> USE DEF IInv
<1>1. PICK p \in Procs : Answered(p) /\ d = head[p] /\ info[d].b = p /\ d \in Desc
  BY CompletedFacts DEF intr_loop
<1>2. /\ UNCHANGED <<free, next, addr, info, head, seen, fetched, avail, irq, moved>>
      /\ handler' = TRUE /\ used_idx # used.idx /\ used_idx' = v
      /\ used'.ring = r /\ used'.idx = used.idx /\ used' = [used EXCEPT !.ring = r]
      /\ busy' = [busy EXCEPT ![p] = FALSE]
      /\ pc' = [pc EXCEPT ![p] = IF @ = "io" THEN "check" ELSE @]
  BY <1>1 DEF intr_loop, Looping, TypeOK, Ring
<1>3. RingTypes
  BY RingsTyped
<1>4. s \in Desc /\ v \in Index /\ r \in RingType /\ RingInv(r, v, used.idx)
  BY <1>2, <1>3, RingGet DEF UsedInv, RingTypes
<1>5. \A t \in Desc : (t # s => r[t] = used.ring[t]) /\ (r[t] # None => t # s)
  BY <1>3, <1>4 DEF RingTypes, RingType
<1>6. used.ring[s] = d
  BY DEF Completed
<1>7. \A t \in Desc : r[t] # None => r[t] # d
  BY <1>4, <1>5, <1>6, ZenonT(180) DEF UsedInv, RingInv
<1> HIDE DEF s, d, r, v
<1>8. \A q \in Procs : /\ Working(q)' <=> Working(q)
                       /\ Asked(q)' <=> Asked(q)
                       /\ Answered(q)' <=> Answered(q) /\ q # p
  BY <1>1, <1>2, SMTT(30) DEF Asked, Answered, Working, TypeOK
<1>9. TypeOK'
  <2>1. used' \in Ring
    BY <1>2, <1>3, <1>4 DEF Ring, RingType, RingTypes, Index, TypeOK
  <2>2. QED
    BY <1>2, <1>4, <2>1 DEF TypeOK, Index
<1>10. ChainInv'
  BY <1>2, <1>8, ChainFrame
<1>11. StageInv'
  <2>1. p \in moved /\ Working(p)
    BY <1>1 DEF Answered
  <2>2. \A q \in Procs : /\ busy'[q] => busy[q]
                         /\ pc'[q] = "io" => pc[q] = "io" /\ q # p
                         /\ q # p => busy'[q] = busy[q]
    BY <1>2 DEF TypeOK
  <2>3. QED
    BY <1>2, <1>8, <2>1, <2>2 DEF StageInv, TypeOK
<1>12. AvailInv' /\ FetchedInv' /\ IrqInv'
  BY <1>2, <1>8 DEF AvailInv, FetchedInv, IrqInv
<1>13. UsedInv'
  <2>1. RingInv(used'.ring, used_idx', used'.idx)
    BY <1>2, <1>4
  <2>2. ASSUME NEW t \in Desc, r[t] # None
        PROVE  \E q \in Procs : /\ Answered(q)' /\ r[t] = head[q]
                                /\ info[head[q]].status = 0
    <3>1. r[t] = used.ring[t] /\ r[t] # d
      BY <1>5, <1>7, <2>2
    <3>2. PICK q \in Procs : /\ Answered(q) /\ r[t] = head[q]
                             /\ info[head[q]].status = 0
      BY <2>2, <3>1, SMTT(30) DEF UsedInv
    <3>3. QED
      BY <1>1, <1>8, <3>1, <3>2
  <2>3. ASSUME NEW q \in Procs, Answered(q)'
        PROVE  \E t \in Desc : r[t] = head[q]
    <3>1. Answered(q) /\ q # p
      BY <1>8, <2>3
    <3>2. PICK t \in Desc : used.ring[t] = head[q]
      BY <3>1 DEF UsedInv
    <3>3. head[q] # head[p]
      BY <1>1, <3>1, ZenonT(180) DEF ChainInv, Own, Answered
    <3>4. QED
      BY <1>1, <1>5, <1>6, <3>2, <3>3
  <2>4. QED
    BY <1>2, <2>1, <2>2, <2>3 DEF UsedInv
<1>14. QED
  BY <1>9, <1>10, <1>11, <1>12, <1>13

(* A request gets three free descriptors, and finds room in the avail ring.*)
LEMMA SubmitInv ==
  ASSUME IInv, NEW p \in Procs, submit(p)
  PROVE  IInv'
<1> USE DEF IInv
<1>1. PICK a, b, c \in free :
        /\ a # b /\ b # c /\ a # c
        /\ Lowest(3) = {a, b, c}
        /\ Min(Lowest(3)) = a /\ Max(Lowest(3)) = c
        /\ (CHOOSE d \in Lowest(3) : d \notin {a, c}) = b
  BY LowestFacts DEF submit, TypeOK
<1>2. /\ pc[p] = "alloc" /\ free' = free \ {a, b, c}
      /\ next' = [next EXCEPT ![a] = b, ![b] = c, ![c] = None]
      /\ addr' = [addr EXCEPT ![b] = p]
      /\ info' = [info EXCEPT ![a] = [b |-> p, status |-> 255]]
      /\ busy' = [busy EXCEPT ![p] = TRUE]
      /\ head' = [head EXCEPT ![p] = a]
      /\ avail' = Put(avail, a)
      /\ pc' = [pc EXCEPT ![p] = "io"]
      /\ UNCHANGED <<used_idx, handler, device, irq, moved>>
  BY <1>1 DEF submit
<1>3. a \in Desc /\ b \in Desc /\ c \in Desc
  BY DEF TypeOK
<1>4. TypeOK'
  <2>1. avail' \in Ring
    BY <1>2, <1>3, PutRing DEF TypeOK
  <2>2. next' \in [Desc -> Desc \cup {None}] /\ addr' \in [Desc -> Procs \cup {NoProc}]
    BY <1>2, <1>3 DEF TypeOK
  <2>3. info' \in [Desc -> [b : Procs \cup {NoProc}, status : {0, 255}]]
    BY <1>2, <1>3 DEF TypeOK
  <2>4. QED
    BY <1>2, <1>3, <2>1, <2>2, <2>3 DEF TypeOK, device
<1>5. /\ next'[a] = b /\ next'[b] = c /\ next'[c] = None /\ addr'[b] = p
      /\ info'[a].b = p /\ head'[p] = a /\ pc'[p] = "io" /\ busy'[p] = TRUE
  BY <1>1, <1>2, <1>3, SMTT(30) DEF TypeOK
<1>6. /\ \A d \in Desc \ {a, b, c} :
           next'[d] = next[d] /\ addr'[d] = addr[d] /\ info'[d] = info[d]
      /\ \A q \in Procs \ {p} :
           head'[q] = head[q] /\ pc'[q] = pc[q] /\ busy'[q] = busy[q]
  BY <1>2, <1>3, SMTT(30) DEF TypeOK
<1>7. \A q \in Procs : Working(q) => q # p /\ Linked(q) /\ Own(q) \cap {a, b, c} = {}
  BY <1>2, <1>3 DEF ChainInv, Working
<1>8. ~Working(p) /\ p \notin moved /\ ~busy[p] /\ Working(p)'
  BY <1>2, <1>5 DEF Working, StageInv
<1>9. \A q \in Procs \ {p} : Working(q)' <=> Working(q)
  BY <1>6 DEF Working
<1>10. \A q \in Procs : Working(q) =>
         Own(q)' = Own(q) /\ Linked(q)' /\ head'[q] = head[q] /\ info'[head[q]] = info[head[q]]
  <2> SUFFICES ASSUME NEW q \in Procs, Working(q)
               PROVE  Own(q)' = Own(q) /\ Linked(q)' /\ head'[q] = head[q]
                      /\ info'[head[q]] = info[head[q]]
    OBVIOUS
  <2> DEFINE x == head[q]
             y == next[x]
             z == next[y]
  <2>1. /\ x \in Desc \ {a, b, c} /\ y \in Desc \ {a, b, c} /\ z \in Desc \ {a, b, c}
        /\ q # p /\ Linked(q)
    BY <1>7 DEF Own, Linked, TypeOK
  <2>2. head'[q] = x /\ next'[x] = y /\ next'[y] = z /\ next'[z] = next[z]
    BY <1>6, <2>1
  <2>3. addr'[y] = addr[y] /\ info'[x] = info[x]
    BY <1>6, <2>1
  <2>4. Own(q)' = Own(q)
    BY <2>2 DEF Own
  <2>5. Linked(q)'
    BY <2>1, <2>2, <2>3 DEF Linked
  <2>6. QED
    BY <2>2, <2>3, <2>4, <2>5
<1>11. Own(p)' = {a, b, c} /\ Linked(p)'
  BY <1>1, <1>3, <1>5 DEF Own, Linked
<1>12. ChainInv'
  <2>1. \A q \in Procs : Working(q)' => Linked(q)'
    BY <1>8, <1>9, <1>10, <1>11
  <2>2. \A q, o \in Procs : Working(q)' /\ Working(o)' /\ q # o => Own(q)' \cap Own(o)' = {}
    <3>1. \A q \in Procs : Working(q)' =>
            (q = p /\ Own(q)' = {a, b, c}) \/ (Working(q) /\ Own(q)' = Own(q) /\ Own(q) \cap {a, b, c} = {})
      BY <1>7, <1>9, <1>10, <1>11
    <3>2. \A q, o \in Procs : Working(q) /\ Working(o) /\ q # o => Own(q) \cap Own(o) = {}
      BY DEF ChainInv
    <3>3. QED
      BY <3>1, <3>2
  <2>3. ASSUME NEW d \in Desc
        PROVE  d \in free' <=> ~\E q \in Procs : Working(q)' /\ d \in Own(q)'
    <3>1. d \in free <=> ~\E q \in Procs : Working(q) /\ d \in Own(q)
      BY DEF ChainInv
    <3>2. (\E q \in Procs : Working(q)' /\ d \in Own(q)')
            <=> d \in {a, b, c} \/ \E q \in Procs : Working(q) /\ d \in Own(q)
      BY <1>8, <1>9, <1>10, <1>11
    <3>3. QED
      BY <1>2, <3>1, <3>2
  <2>4. QED
    BY <2>1, <2>2, <2>3 DEF ChainInv
<1>13. StageInv'
  BY <1>2, <1>5, <1>6, <1>8, <1>9, SMTT(30) DEF StageInv, TypeOK
<1>14. /\ \A q \in Procs : /\ Asked(q)' <=> Asked(q) \/ q = p
                           /\ Answered(q)' <=> Answered(q)
       /\ ~Asked(p) /\ ~Answered(p)
  BY <1>2, <1>5, <1>6, <1>8, <1>9, SMTT(30) DEF Asked, Answered
<1>15. FetchedInv'
  BY <1>2, <1>10, <1>14, SMTT(30) DEF FetchedInv, Asked, device
<1>16. a \notin fetched
  BY <1>7 DEF FetchedInv, Asked, Own
<1>17. RingTypes
  BY RingsTyped
<1>18. \A s \in Desc : avail.ring[s] \notin {a, b, c}
  <2> SUFFICES ASSUME NEW s \in Desc, avail.ring[s] \in {a, b, c} PROVE FALSE
    OBVIOUS
  <2>1. PICK q \in Procs : Asked(q) /\ avail.ring[s] = head[q]
    BY <1>3, VirtioRing DEF AvailInv
  <2>2. QED
    BY <1>7, <2>1 DEF Asked, Own
<1>19. Distance(seen, avail.idx, Wrap) + 1 < NUM
  BY <1>1, <1>3, <1>17, <1>18, RingSize DEF AvailInv, RingTypes
<1> DEFINE r == [avail.ring EXCEPT ![avail.idx % NUM] = a]
           v == (avail.idx + 1) % Wrap
<1>20. avail.idx % NUM \in Desc /\ RingInv(r, seen, v)
  BY <1>3, <1>17, <1>18, <1>19, RingPut, ZenonT(180) DEF AvailInv, RingTypes
<1>21. /\ avail'.ring = r /\ avail'.idx = v
       /\ r[avail.idx % NUM] = a /\ \A s \in Desc \ {avail.idx % NUM} : r[s] = avail.ring[s]
  BY <1>2, <1>17, <1>20 DEF Put, RingTypes, RingType
<1> HIDE DEF r, v
<1>22. AvailInv'
  <2>1. RingInv(avail'.ring, seen', avail'.idx)
    BY <1>2, <1>20, <1>21 DEF device
  <2>2. ASSUME NEW s \in Desc, r[s] # None
        PROVE  \E q \in Procs : Asked(q)' /\ r[s] = head'[q] /\ head'[q] \notin fetched'
    <3>1. CASE s = avail.idx % NUM
      <4>1. head'[p] = a /\ r[s] = a /\ Asked(p)'
        BY <1>5, <1>14, <1>21, <3>1
      <4>2. fetched' = fetched
        BY <1>2 DEF device
      <4>3. QED
        BY <1>16, <4>1, <4>2
    <3>2. CASE s # avail.idx % NUM
      <4>1. PICK q \in Procs : Asked(q) /\ r[s] = head[q] /\ head[q] \notin fetched
        BY <1>21, <2>2, <3>2 DEF AvailInv
      <4>2. QED
        BY <1>2, <1>10, <1>14, <4>1, SMTT(30) DEF Asked, device
    <3>3. QED
      BY <3>1, <3>2
  <2>3. QED
    BY <1>21, <2>1, <2>2 DEF AvailInv
<1>23. UsedInv' /\ IrqInv'
  <2>1. \A q \in Procs : Answered(q) => head'[q] = head[q] /\ info'[head[q]] = info[head[q]]
    BY <1>10 DEF Answered
  <2>2. used' = used /\ used_idx' = used_idx
    BY <1>2 DEF device
  <2>3. QED
    BY <1>2, <1>14, <2>1, <2>2, SMTT(30) DEF UsedInv, IrqInv
<1>24. QED
  BY <1>4, <1>12, <1>13, <1>15, <1>22, <1>23

(* A request that is done gives its three descriptors back.                *)
LEMMA FinishInv ==
  ASSUME IInv, NEW p \in Procs, finish(p), ~StillBusy(p)
  PROVE  IInv'
<1> USE DEF IInv
<1> DEFINE C == Own(p)
<1>1. /\ Working(p) /\ Linked(p) /\ ~busy[p] /\ p \in moved
      /\ ~Asked(p) /\ ~Answered(p)
  BY DEF finish, StillBusy, Working, ChainInv, StageInv, Asked, Answered
<1>2. C = Chain(head[p]) /\ C \subseteq Desc /\ head[p] \in C /\ head[p] \in Desc
  BY <1>1, OwnFacts
<1>3. /\ free' = free \cup C
      /\ next' = [d \in Desc |-> IF d \in C THEN None ELSE next[d]]
      /\ addr' = [d \in Desc |-> IF d \in C THEN NoProc ELSE addr[d]]
      /\ info' = [info EXCEPT ![head[p]].b = NoProc]
      /\ head' = [head EXCEPT ![p] = 0]
      /\ pc' = [WakeFree(p) EXCEPT ![p] = "idle"]
      /\ moved' = moved \ {p}
      /\ UNCHANGED <<busy, used_idx, handler, device, avail, irq>>
  BY <1>2, ZenonT(180) DEF finish, free_chain_Wakes
<1> HIDE DEF C
<1>4. TypeOK'
  <2>1. 0 \in Desc
    BY VirtioAssumption, SMTT(30) DEF Desc
  <2>2. info' \in [Desc -> [b : Procs \cup {NoProc}, status : {0, 255}]]
    BY <1>2, <1>3, SMTT(30) DEF TypeOK
  <2>3. pc' \in [Procs -> {"idle", "alloc", "nodesc", "io", "check"}]
    BY <1>3 DEF TypeOK, WakeFree
  <2>4. next' \in [Desc -> Desc \cup {None}] /\ addr' \in [Desc -> Procs \cup {NoProc}]
    BY <1>3 DEF TypeOK
  <2>5. free' \subseteq Desc /\ head' \in [Procs -> Desc]
    BY <1>2, <1>3, <2>1 DEF TypeOK
  <2>6. QED
    BY <1>3, <2>2, <2>3, <2>4, <2>5 DEF TypeOK, device
<1>5. /\ \A d \in Desc \ C : next'[d] = next[d] /\ addr'[d] = addr[d]
      /\ \A d \in Desc \ {head[p]} : info'[d] = info[d]
      /\ \A q \in Procs \ {p} : head'[q] = head[q]
  BY <1>2, <1>3, SMTT(30) DEF TypeOK
<1>6. \A q \in Procs : /\ Working(q)' <=> Working(q) /\ q # p
                       /\ pc'[q] = "io" => pc[q] = "io" /\ q # p
  BY <1>3 DEF Working, TypeOK, WakeFree
<1>7. \A q \in Procs : Working(q) /\ q # p => Linked(q) /\ Own(q) \cap C = {}
  BY <1>1 DEF ChainInv, C
<1>8. \A q \in Procs : Working(q) /\ q # p =>
        Own(q)' = Own(q) /\ Linked(q)' /\ head'[q] = head[q] /\ info'[head[q]] = info[head[q]]
  <2> SUFFICES ASSUME NEW q \in Procs, Working(q), q # p
               PROVE  Own(q)' = Own(q) /\ Linked(q)' /\ head'[q] = head[q]
                      /\ info'[head[q]] = info[head[q]]
    OBVIOUS
  <2> DEFINE x == head[q]
             y == next[x]
             z == next[y]
  <2>1. x \in Desc \ C /\ y \in Desc \ C /\ z \in Desc \ C /\ Linked(q) /\ x # head[p]
    BY <1>2, <1>7 DEF Own, Linked, TypeOK
  <2>2. head'[q] = x /\ next'[x] = y /\ next'[y] = z /\ next'[z] = next[z]
    BY <1>5, <2>1
  <2>3. addr'[y] = addr[y] /\ info'[x] = info[x]
    BY <1>5, <2>1
  <2>4. Own(q)' = Own(q)
    BY <2>2 DEF Own
  <2>5. Linked(q)'
    BY <2>1, <2>2, <2>3 DEF Linked
  <2>6. QED
    BY <2>2, <2>3, <2>4, <2>5
<1>9. ChainInv'
  <2>1. \A q \in Procs : Working(q)' => Linked(q)'
    BY <1>6, <1>8
  <2>2. \A q, o \in Procs : Working(q)' /\ Working(o)' /\ q # o => Own(q)' \cap Own(o)' = {}
    BY <1>6, <1>8 DEF ChainInv
  <2>3. ASSUME NEW d \in Desc
        PROVE  d \in free' <=> ~\E q \in Procs : Working(q)' /\ d \in Own(q)'
    <3>1. d \in free <=> ~\E q \in Procs : Working(q) /\ d \in Own(q)
      BY DEF ChainInv
    <3>2. (\E q \in Procs : Working(q)' /\ d \in Own(q)')
            <=> \E q \in Procs : Working(q) /\ q # p /\ d \in Own(q)
      BY <1>6, <1>8
    <3>3. d \in C => ~\E q \in Procs : Working(q) /\ q # p /\ d \in Own(q)
      BY <1>7
    <3>4. QED
      BY <1>1, <1>3, <3>1, <3>2, <3>3 DEF C
  <2>4. QED
    BY <2>1, <2>2, <2>3 DEF ChainInv
<1>10. StageInv'
  BY <1>1, <1>3, <1>6 DEF StageInv, TypeOK
<1>11. \A q \in Procs : (Asked(q)' <=> Asked(q)) /\ (Answered(q)' <=> Answered(q))
  BY <1>1, <1>3, <1>6 DEF Asked, Answered
<1>12. \A q \in Procs : Asked(q) \/ Answered(q) =>
         head'[q] = head[q] /\ info'[head[q]] = info[head[q]]
  BY <1>1, <1>8 DEF Asked, Answered
<1>13. AvailInv' /\ FetchedInv'
  <2>1. avail' = avail /\ seen' = seen /\ fetched' = fetched
    BY <1>3 DEF device
  <2>2. QED
    BY <1>11, <1>12, <2>1, SMTT(30) DEF AvailInv, FetchedInv
<1>14. UsedInv' /\ IrqInv'
  <2>1. used' = used /\ used_idx' = used_idx
    BY <1>3 DEF device
  <2>2. QED
    BY <1>3, <1>11, <1>12, <2>1, SMTT(30) DEF UsedInv, IrqInv
<1>15. QED
  BY <1>4, <1>9, <1>10, <1>13, <1>14

LEMMA StutterInv ==
  ASSUME IInv, UNCHANGED vars
  PROVE  IInv'
<1>1. UNCHANGED <<free, next, addr, info, pc, head, busy, used_idx, handler, avail, used, seen,
                  fetched, irq, moved>>
  BY DEF vars, driver, device
<1>2. /\ TypeOK' = TypeOK /\ StageInv' = StageInv /\ IrqInv' = IrqInv
  BY <1>1, ZenonT(180) DEF TypeOK, StageInv, IrqInv, Working
<1>3. ChainInv' = ChainInv
  BY <1>1, ZenonT(180) DEF ChainInv, Working, Own, Linked
<1>4. AvailInv' = AvailInv /\ FetchedInv' = FetchedInv
  BY <1>1 DEF AvailInv, FetchedInv, RingInv, Asked, Working
<1>5. UsedInv' = UsedInv
  BY <1>1, ZenonT(180) DEF UsedInv, RingInv, Answered, Working
<1>6. QED
  BY <1>2, <1>3, <1>4, <1>5 DEF IInv

LEMMA NextInv == IInv /\ [Next]_vars => IInv'
<1> SUFFICES ASSUME IInv, [Next]_vars PROVE IInv'
  OBVIOUS
<1>1. CASE \E p \in Procs : call(p) \/ no_desc(p) \/ kill(p)
  BY <1>1, SmallSteps
<1>2. CASE \E p \in Procs : submit(p)
  BY <1>2, SubmitInv
<1>3. CASE \E p \in Procs : finish(p)
  BY <1>3, SmallSteps, FinishInv
<1>4. CASE intr_begin \/ intr_end
  BY <1>4, HandlerInv
<1>5. CASE intr_loop
  BY <1>5, LoopInv
<1>6. CASE device_fetch
  BY <1>6, FetchInv
<1>7. CASE \E d \in Desc : device_serve(d)
  BY <1>7, ServeInv
<1>8. CASE UNCHANGED vars
  BY <1>8, StutterInv
<1>9. QED
  BY <1>1, <1>2, <1>3, <1>4, <1>5, <1>6, <1>7, <1>8 DEF Next, run, intr, serve

(* The inductive invariant of the disk driver holds.                       *)
THEOREM Invariance == Spec => []IInv
  BY InitInv, NextInv, PTL DEF Spec

-----------------------------------------------------------------------------
(* Descriptors are conserved: each is free or belongs to the chain of one  *)
(* process, and a request in progress has three of its own; alloc3_desc()  *)
(* and free_chain() lose none and hand none out twice.                     *)
THEOREM Descriptors == Spec => []DescriptorsBalance
<1>1. IInv => DescriptorsBalance
  <2> SUFFICES ASSUME IInv PROVE DescriptorsBalance
    OBVIOUS
  <2> DEFINE active == {p \in Procs : pc[p] \in {"io", "check"}}
  <2>1. \A p \in active : /\ p \in Procs /\ Working(p) /\ Chain(head[p]) = Own(p)
                          /\ Own(p) \subseteq Desc /\ Cardinality(Own(p)) = 3
    BY OwnFacts DEF IInv, ChainInv, Working
  <2>2. \A p \in Procs : Working(p) <=> p \in active
    BY DEF Working
  <2> HIDE DEF active
  <2>3. free = Desc \ UNION {Chain(head[p]) : p \in active}
    <3>1. \A d \in Desc : d \in free <=> ~\E p \in active : d \in Own(p)
      BY <2>1, <2>2 DEF IInv, ChainInv
    <3>2. \A d \in Desc : d \in UNION {Chain(head[p]) : p \in active}
                            <=> \E p \in active : d \in Own(p)
      BY <2>1
    <3>3. QED
      BY <3>1, <3>2 DEF IInv, TypeOK
  <2>4. \A p, q \in active : p # q => Chain(head[p]) \cap Chain(head[q]) = {}
    BY <2>1 DEF IInv, ChainInv
  <2>5. QED
    BY <2>1, <2>3, <2>4 DEF DescriptorsBalance, active, IInv
<1>2. QED
  BY Invariance, <1>1, PTL

(* No completion is overlooked: while a process whose data has moved still *)
(* sleeps, an interrupt is pending or the handler has its entry to come.   *)
THEOREM Announced == Spec => []CompletionIsAnnounced
<1>1. IInv => CompletionIsAnnounced
  <2> SUFFICES ASSUME IInv, NEW p \in moved, pc[p] = "io"
               PROVE  irq \/ (handler /\ used_idx # used.idx)
    BY DEF CompletionIsAnnounced
  <2>1. p \in Procs /\ Answered(p)
    BY DEF IInv, TypeOK, StageInv, Answered, Working
  <2>2. PICK s \in Desc : used.ring[s] = head[p]
    BY <2>1 DEF IInv, UsedInv
  <2>3. used.ring[s] # None
    BY <2>1, <2>2, VirtioRing, SMTT(30) DEF IInv, TypeOK
  <2>4. used_idx # used.idx
    BY <2>3, RingsTyped, RingOccupied DEF IInv, UsedInv, RingTypes
  <2>5. QED
    BY <2>4 DEF IInv, IrqInv
<1>2. QED
  BY Invariance, <1>1, PTL

(* The status byte of a completion that the handler finds is 0.            *)
NoStatusPanic == handler /\ used_idx # used.idx => info[Completed].status = 0

(* virtio_disk_intr() never reaches its panic("virtio_disk_intr status").  *)
THEOREM Statuses == Spec => []NoStatusPanic
<1>1. IInv => NoStatusPanic
  BY CompletedFacts DEF NoStatusPanic
<1>2. QED
  BY Invariance, <1>1, PTL

-----------------------------------------------------------------------------
(* A step of the driver moves at most one request, from one stage to the   *)
(* next.                                                                   *)
LEMMA StepRefines == IInv /\ [Next]_vars => [Served!Next]_Request
<1> SUFFICES ASSUME IInv, [Next]_vars PROVE Served!Next \/ Request' = Request
  OBVIOUS
<1> DEFINE Stage(q) == IF pc[q] = "idle" THEN "none"
                       ELSE IF q \in moved THEN "moved" ELSE "asked"
           Moves(p, from, to) == /\ Stage(p) = from /\ Stage(p)' = to
                                 /\ \A q \in Procs \ {p} : Stage(q)' = Stage(q)
<1>1. Request = [q \in Procs |-> Stage(q)] /\ Request' = [q \in Procs |-> Stage(q)']
  BY DEF Request
<1>2. ASSUME NEW p \in Procs, NEW from, NEW to, Moves(p, from, to)
      PROVE  Served!Move(p, from, to)
  BY <1>1, <1>2 DEF Served!Move
<1>3. ASSUME \A q \in Procs : Stage(q)' = Stage(q)
      PROVE  Request' = Request
  BY <1>1, <1>3
<1>4. moved \subseteq Procs /\ pc \in [Procs -> {"idle", "alloc", "nodesc", "io", "check"}]
  BY DEF IInv, TypeOK
<1>5. \A p \in moved : Working(p)
  BY DEF IInv, StageInv
<1>6. ASSUME NEW p \in Procs, call(p) PROVE Served!Next
  <2>1. Moves(p, "none", "asked")
    BY <1>4, <1>5, <1>6 DEF call, Working
  <2>2. QED
    BY <1>2, <2>1 DEF Served!Next
<1>7. ASSUME NEW p \in Procs, no_desc(p) \/ submit(p) \/ kill(p) PROVE Request' = Request
  <2>1. CASE no_desc(p)
    <3>1. moved' = moved /\ \A q \in Procs : pc'[q] = "idle" <=> pc[q] = "idle"
      BY <1>4, <2>1 DEF no_desc, WakeFree
    <3>2. QED
      BY <1>3, <3>1
  <2>2. CASE submit(p)
    <3>1. moved' = moved /\ pc[p] = "alloc" /\ pc' = [pc EXCEPT ![p] = "io"]
      BY <2>2 DEF submit
    <3>2. QED
      BY <1>3, <1>4, <3>1
  <2>3. CASE kill(p)
    BY <1>3, <1>4, <2>3 DEF kill
  <2>4. QED
    BY <1>7, <2>1, <2>2, <2>3
<1>8. ASSUME NEW p \in Procs, finish(p) PROVE Served!Next \/ Request' = Request
  <2>1. CASE StillBusy(p)
    BY <1>3, <1>4, <1>8, <2>1 DEF finish
  <2>2. CASE ~StillBusy(p)
    <3>1. p \in moved /\ pc[p] = "check"
      BY <1>8, <2>2 DEF finish, StillBusy, IInv, StageInv, Working
    <3>2. moved' = moved \ {p} /\ pc' = [WakeFree(p) EXCEPT ![p] = "idle"]
      BY <1>8, <2>2 DEF finish, free_chain_Wakes
    <3>3. pc'[p] = "idle" /\ \A q \in Procs \ {p} : pc'[q] = "idle" <=> pc[q] = "idle"
      BY <1>4, <3>2 DEF WakeFree
    <3>4. Moves(p, "moved", "none")
      BY <3>1, <3>2, <3>3
    <3>5. QED
      BY <1>2, <3>4 DEF Served!Next
  <2>3. QED
    BY <2>1, <2>2
<1>9. ASSUME intr \/ device_fetch PROVE Request' = Request
  <2>1. CASE intr_begin \/ intr_end \/ device_fetch
    BY <1>3, <2>1 DEF intr_begin, intr_end, device_fetch, driver
  <2>2. CASE intr_loop
    <3>1. moved' = moved /\ \E p : pc' = [pc EXCEPT ![p] = IF @ = "io" THEN "check" ELSE @]
      BY <2>2 DEF intr_loop
    <3>2. \A q \in Procs : pc'[q] = "idle" <=> pc[q] = "idle"
      BY <1>4, <3>1
    <3>3. QED
      BY <1>3, <3>1, <3>2
  <2>3. QED
    BY <1>9, <2>1, <2>2 DEF intr
<1>10. ASSUME NEW d \in Desc, device_serve(d) PROVE Served!Next
  <2>1. PICK p \in Procs : Asked(p) /\ d = head[p]
    BY <1>10 DEF device_serve, IInv, FetchedInv
  <2>2. addr[next[d]] = p /\ pc[p] # "idle" /\ p \notin moved
    BY <2>1 DEF Asked, Working, IInv, ChainInv, Linked
  <2>3. moved' = moved \cup {p} /\ pc' = pc
    BY <1>10, <2>2 DEF device_serve
  <2>4. Moves(p, "asked", "moved")
    BY <2>2, <2>3
  <2>5. QED
    BY <1>2, <2>4 DEF Served!Next
<1>11. CASE UNCHANGED vars
  BY <1>3, <1>11 DEF vars, driver
<1>12. QED
  BY <1>6, <1>7, <1>8, <1>9, <1>10, <1>11 DEF Next, run, serve

(* The driver implements Requests: the data of every request moves exactly *)
(* once, after the call of virtio_disk_rw() and before its return, in      *)
(* whatever order the device completes the requests.                       *)
THEOREM Refinement == Spec => RequestsAreServed
<1>1. Init => Served!Init
  BY DEF Init, Served!Init, Request
<1>2. QED
  BY Invariance, StepRefines, <1>1, PTL DEF Spec, RequestsAreServed, Served!Spec
=============================================================================
