---------------------------- MODULE WhoSetProofs ----------------------------
(***************************************************************************)
(* Theorems about WhoSet: for every hash function, every set of ids and    *)
(* every number of doublings the table holds each id once, counts its live *)
(* slots, keeps an empty slot, and implements IdSet.                       *)
(***************************************************************************)
EXTENDS WhoSet, FiniteSetTheorems, TLAPS

Held(k, d, c) == {k[j] : j \in LiveIn(k, d, c)}

NoDead(c) == [j \in Slots(c) |-> FALSE]

IsTable(k, d, c) ==
  /\ c \in Nat
  /\ k \in [Slots(c) -> Ids \cup {Free}]
  /\ d \in [Slots(c) -> BOOLEAN]

Once(k, d, c) == \A i, j \in LiveIn(k, d, c) : k[i] = k[j] => i = j

\* A probe for a live id finds no empty slot before it.
Reach(k, d, c) ==
  \A j \in LiveIn(k, d, c), i \in Slots(c) :
    Steps(SlotOf(k[j], c), i, c) < Steps(SlotOf(k[j], c), j, c) => k[i] # Free

Sound(k, d, c) == IsTable(k, d, c) /\ Once(k, d, c) /\ Reach(k, d, c)

\* The old slots who_set_grow has moved.
Passed == {i \in Live : i < moved}

Counted ==
  /\ cap \in Nat /\ (cap = 0 \/ cap >= 2)
  /\ n = Cardinality(Live)
  /\ used \in Nat /\ used <= cap \div 2
  /\ Cardinality(Taken(key, cap)) <= used

Growing ==
  putting # Free =>
    /\ Sound(nkey, NoDead(NewCap), NewCap)
    /\ Held(nkey, NoDead(NewCap), NewCap) = {key[i] : i \in Passed}
    /\ Cardinality(Taken(nkey, NewCap)) = Cardinality(Passed)

IInv ==
  /\ Counted
  /\ Sound(key, del, cap)
  /\ putting \in Ids \cup {Free} /\ moved \in 0..cap
  /\ dead \in BOOLEAN /\ (dead => putting = Free)
  /\ Growing

-----------------------------------------------------------------------------
(* Going around the table.                                                 *)

LEMMA SlotInTable ==
  ASSUME NEW id \in Ids, NEW c \in Nat, c >= 1
  PROVE  SlotOf(id, c) \in Slots(c)
BY TableAssumption DEF SlotOf, Slots

LEMMA StepsCount ==
  ASSUME NEW c \in Nat, NEW i \in Slots(c)
  PROVE  /\ \A j \in Slots(c) : Steps(i, j, c) \in Int
         /\ \A j, k \in Slots(c) : Steps(i, j, c) = Steps(i, k, c) => j = k
BY DEF Slots, Steps

LEMMA SlotsFinite ==
  ASSUME NEW c \in Nat, NEW S, S \subseteq Slots(c)
  PROVE  IsFiniteSet(S) /\ Cardinality(S) \in Nat /\ Cardinality(S) <= c
<1>1. IsFiniteSet(Slots(c)) /\ Cardinality(Slots(c)) = c
  BY FS_Interval DEF Slots
<1> QED
  BY <1>1, FS_Subset, FS_CardinalityType

-----------------------------------------------------------------------------
(* What a probe finds and what a put makes of the table.                   *)

\* A probe that ends at an empty slot has not missed the id.
LEMMA NotHeld ==
  ASSUME NEW k, NEW d, NEW c \in Nat, c >= 1, Sound(k, d, c), NEW id \in Ids,
         NEW end \in Met(id, Halting(id, k, d, c), c), k[end] = Free
  PROVE  id \notin Held(k, d, c)
<1> SUFFICES ASSUME NEW j \in LiveIn(k, d, c), k[j] = id PROVE FALSE
  BY DEF Held
<1>1. j \in Slots(c) /\ end \in Slots(c) /\ j # end /\ j \in Halting(id, k, d, c)
  BY TableAssumption DEF LiveIn, Met, Halting, Empties
<1>2. Steps(SlotOf(id, c), end, c) <= Steps(SlotOf(id, c), j, c)
  BY <1>1 DEF Met
<1>3. Steps(SlotOf(id, c), end, c) < Steps(SlotOf(id, c), j, c)
  BY <1>1, <1>2, SlotInTable, StepsCount
<1> QED
  BY <1>1, <1>3 DEF Sound, Reach

\* (k2, d2) is (k, d) with id, which is not in, put where a probe for it gets.
Places(k, d, c, id, j, k2, d2) ==
  /\ c \in Nat /\ c >= 1
  /\ id \in Ids /\ id \notin Held(k, d, c)
  /\ j \in Slots(c) /\ j \notin LiveIn(k, d, c)
  /\ Sound(k, d, c)
  /\ \A i \in Slots(c) :
       Steps(SlotOf(id, c), i, c) < Steps(SlotOf(id, c), j, c) => k[i] # Free
  /\ IsTable(k2, d2, c)
  /\ k2[j] = id /\ d2[j] = FALSE
  /\ \A i \in Slots(c) \ {j} : k2[i] = k[i] /\ d2[i] = d[i]

\* That keeps the table sound and adds the id.
LEMMA Placing ==
  ASSUME NEW k, NEW d, NEW c, NEW id, NEW j, NEW k2, NEW d2,
         Places(k, d, c, id, j, k2, d2)
  PROVE  /\ Sound(k2, d2, c)
         /\ Held(k2, d2, c) = Held(k, d, c) \cup {id}
         /\ LiveIn(k2, d2, c) = LiveIn(k, d, c) \cup {j}
         /\ Taken(k2, c) = Taken(k, c) \cup {j}
<1>0. /\ c \in Nat /\ c >= 1
      /\ id \in Ids /\ id \notin Held(k, d, c)
      /\ j \in Slots(c) /\ j \notin LiveIn(k, d, c)
      /\ Sound(k, d, c)
      /\ \A i \in Slots(c) :
           Steps(SlotOf(id, c), i, c) < Steps(SlotOf(id, c), j, c) => k[i] # Free
      /\ IsTable(k2, d2, c)
      /\ k2[j] = id /\ d2[j] = FALSE
      /\ \A i \in Slots(c) \ {j} : k2[i] = k[i] /\ d2[i] = d[i]
  BY DEF Places
<1> USE <1>0
<1>1. IsTable(k, d, c) /\ Once(k, d, c) /\ Reach(k, d, c)
  BY DEF Sound
<1>2. /\ k2[j] = id /\ ~ d2[j]
      /\ \A i \in Slots(c) \ {j} : k2[i] = k[i] /\ d2[i] = d[i]
  OBVIOUS
<1>3. id # Free
  BY TableAssumption
<1>5. LiveIn(k2, d2, c) = LiveIn(k, d, c) \cup {j}
  BY <1>2, <1>3 DEF LiveIn
<1>6. Taken(k2, c) = Taken(k, c) \cup {j}
  BY <1>2, <1>3 DEF Taken
<1>7. \A i \in LiveIn(k, d, c) : i \in Slots(c) /\ k2[i] = k[i] /\ k[i] # id
  BY <1>2 DEF LiveIn, Held
<1>8. Held(k2, d2, c) = Held(k, d, c) \cup {id}
  <2>1. ASSUME NEW x \in Held(k2, d2, c) PROVE x \in Held(k, d, c) \cup {id}
    <3>1. PICK i \in LiveIn(k2, d2, c) : x = k2[i]
      BY <2>1 DEF Held
    <3> QED
      BY <1>2, <1>5, <1>7, <3>1 DEF Held
  <2>2. ASSUME NEW x \in Held(k, d, c) PROVE x \in Held(k2, d2, c)
    <3>1. PICK i \in LiveIn(k, d, c) : x = k[i]
      BY <2>2 DEF Held
    <3> QED
      BY <1>5, <1>7, <3>1 DEF Held
  <2>3. id \in Held(k2, d2, c)
    BY <1>2, <1>5 DEF Held
  <2> QED
    BY <2>1, <2>2, <2>3
<1>9. Once(k2, d2, c)
  BY <1>1, <1>2, <1>5, <1>7 DEF Once
<1>10. Reach(k2, d2, c)
  <2> SUFFICES ASSUME NEW l \in LiveIn(k2, d2, c), NEW i \in Slots(c),
                      Steps(SlotOf(k2[l], c), i, c) < Steps(SlotOf(k2[l], c), l, c)
               PROVE  k2[i] # Free
    BY DEF Reach
  <2>1. CASE l = j
    BY <1>2, <1>3, <2>1
  <2>2. CASE l \in LiveIn(k, d, c)
    BY <1>1, <1>2, <1>3, <1>7, <2>2 DEF Reach
  <2> QED
    BY <1>5, <2>1, <2>2
<1> QED
  BY <1>1, <1>2, <1>5, <1>6, <1>8, <1>9, <1>10 DEF Sound, IsTable

LEMMA PutInAdds ==
  ASSUME NEW k, NEW d, NEW c \in Nat, c >= 1, Sound(k, d, c), NEW id \in Ids,
         NEW live, NEW use, PutIn(id, k, d, c, live, use)
  PROVE  /\ cap' = c
         /\ Sound(key', del', c)
         /\ Held(key', del', c) = Held(k, d, c) \cup {id}
         /\ \/ /\ n' = live /\ used' = use
               /\ LiveIn(key', del', c) = LiveIn(k, d, c)
               /\ Taken(key', c) = Taken(k, c)
            \/ \E j \in Slots(c) :
                 /\ n' = live + 1 /\ used' = use + 1
                 /\ j \notin LiveIn(k, d, c)
                 /\ LiveIn(key', del', c) = LiveIn(k, d, c) \cup {j}
                 /\ Taken(key', c) = Taken(k, c) \cup {j}
<1>1. PICK end \in Met(id, Halting(id, k, d, c), c) :
        /\ cap' = c
        /\ \/ /\ k[end] = id
              /\ key' = k /\ del' = d
              /\ n' = live /\ used' = use
           \/ /\ k[end] = Free
              /\ LET holes == Before(id, end, {j \in Slots(c) : k[j] # Free /\ d[j]}, c)
                 IN \E j \in IF holes = {} THEN {end} ELSE Met(id, holes, c) :
                      /\ key' = [k EXCEPT ![j] = id]
                      /\ del' = [d EXCEPT ![j] = FALSE]
              /\ n' = live + 1 /\ used' = use + 1
  BY DEF PutIn
<1>2. CASE k[end] = id /\ key' = k /\ del' = d /\ n' = live /\ used' = use
  <2>1. end \in LiveIn(k, d, c)
    BY <1>2, TableAssumption DEF Met, Halting, Empties
  <2>2. id \in Held(k, d, c)
    BY <1>2, <2>1 DEF Held
  <2> QED
    BY <1>1, <1>2, <2>2
<1>3. ASSUME k[end] = Free, n' = live + 1, used' = use + 1, NEW j \in Slots(c),
             j \notin LiveIn(k, d, c),
             Steps(SlotOf(id, c), j, c) <= Steps(SlotOf(id, c), end, c),
             key' = [k EXCEPT ![j] = id], del' = [d EXCEPT ![j] = FALSE]
      PROVE  /\ Sound(key', del', c)
             /\ Held(key', del', c) = Held(k, d, c) \cup {id}
             /\ j \notin LiveIn(k, d, c)
             /\ LiveIn(key', del', c) = LiveIn(k, d, c) \cup {j}
             /\ Taken(key', c) = Taken(k, c) \cup {j}
  <2>1. id \notin Held(k, d, c)
    BY <1>3, NotHeld
  <2>2. \A i \in Slots(c) :
          Steps(SlotOf(id, c), i, c) < Steps(SlotOf(id, c), j, c) => k[i] # Free
    <3> SUFFICES ASSUME NEW i \in Slots(c), k[i] = Free,
                        Steps(SlotOf(id, c), i, c) < Steps(SlotOf(id, c), j, c)
                 PROVE  FALSE
      OBVIOUS
    <3>1. end \in Slots(c) /\ i \in Halting(id, k, d, c)
      BY DEF Met, Halting, Empties, LiveIn
    <3>2. Steps(SlotOf(id, c), end, c) <= Steps(SlotOf(id, c), i, c)
      BY <3>1 DEF Met
    <3> QED
      BY <1>3, <3>1, <3>2, SlotInTable, StepsCount
  <2> QED
    <3>1. /\ IsTable(key', del', c) /\ key'[j] = id /\ del'[j] = FALSE
          /\ \A i \in Slots(c) \ {j} : key'[i] = k[i] /\ del'[i] = d[i]
      BY <1>3 DEF Sound, IsTable
    <3>2. Places(k, d, c, id, j, key', del')
      BY <1>3, <2>1, <2>2, <3>1 DEF Places
    <3>3. /\ Sound(key', del', c)
          /\ Held(key', del', c) = Held(k, d, c) \cup {id}
          /\ LiveIn(key', del', c) = LiveIn(k, d, c) \cup {j}
          /\ Taken(key', c) = Taken(k, c) \cup {j}
      BY ONLY <3>2, Placing
    <3> QED
      BY <1>3, <3>3
<1>4. ASSUME k[end] = Free, n' = live + 1, used' = use + 1,
             NEW holes, holes = Before(id, end, {j \in Slots(c) : k[j] # Free /\ d[j]}, c),
             NEW j \in IF holes = {} THEN {end} ELSE Met(id, holes, c),
             key' = [k EXCEPT ![j] = id], del' = [d EXCEPT ![j] = FALSE]
      PROVE  /\ j \in Slots(c) /\ j \notin LiveIn(k, d, c)
             /\ Steps(SlotOf(id, c), j, c) <= Steps(SlotOf(id, c), end, c)
  <2>1. end \in Slots(c)
    BY DEF Met, Halting, Empties, LiveIn
  <2>2. CASE holes = {}
    BY <1>4, <2>1, <2>2, SlotInTable, StepsCount DEF LiveIn
  <2>3. CASE holes # {}
    <3>1. j \in holes
      BY <1>4, <2>3 DEF Met
    <3>2. /\ j \in Slots(c) /\ d[j]
          /\ Steps(SlotOf(id, c), j, c) < Steps(SlotOf(id, c), end, c)
      BY <1>4, <3>1 DEF Before
    <3> QED
      BY <2>1, <3>2, SlotInTable, StepsCount DEF LiveIn
  <2> QED
    BY <2>2, <2>3
<1> QED
  BY <1>1, <1>2, <1>3, <1>4

\* And the counters go on counting.
LEMMA PutInCounts ==
  ASSUME NEW k, NEW d, NEW c \in Nat, c >= 1, Sound(k, d, c), NEW id \in Ids,
         NEW live, NEW use \in Nat, PutIn(id, k, d, c, live, use),
         live = Cardinality(LiveIn(k, d, c)),
         Cardinality(Taken(k, c)) <= use, use < c \div 2
  PROVE  /\ n' = Cardinality(LiveIn(key', del', c))
         /\ used' \in Nat /\ used' <= c \div 2
         /\ Cardinality(Taken(key', c)) <= used'
<1>1. IsFiniteSet(LiveIn(k, d, c)) /\ Cardinality(LiveIn(k, d, c)) \in Nat
  BY SlotsFinite DEF LiveIn
<1>2. IsFiniteSet(Taken(k, c)) /\ Cardinality(Taken(k, c)) \in Nat
  BY SlotsFinite DEF Taken
<1>3. CASE /\ n' = live /\ used' = use
           /\ LiveIn(key', del', c) = LiveIn(k, d, c)
           /\ Taken(key', c) = Taken(k, c)
  BY <1>3
<1>4. ASSUME NEW j \in Slots(c), n' = live + 1, used' = use + 1,
             j \notin LiveIn(k, d, c),
             LiveIn(key', del', c) = LiveIn(k, d, c) \cup {j},
             Taken(key', c) = Taken(k, c) \cup {j}
      PROVE  /\ n' = Cardinality(LiveIn(key', del', c))
             /\ used' \in Nat /\ used' <= c \div 2
             /\ Cardinality(Taken(key', c)) <= used'
  <2>1. Cardinality(LiveIn(key', del', c)) = Cardinality(LiveIn(k, d, c)) + 1
    BY <1>1, <1>4, FS_AddElement
  <2>2. Cardinality(Taken(key', c)) <= Cardinality(Taken(k, c)) + 1
    <3>1. CASE j \in Taken(k, c)
      <4>1. Taken(key', c) = Taken(k, c)
        BY <1>4, <3>1
      <4> QED
        BY <1>2, <4>1
    <3>2. CASE j \notin Taken(k, c)
      <4>1. Cardinality(Taken(k, c) \cup {j}) = Cardinality(Taken(k, c)) + 1
        BY <1>2, <3>2, FS_AddElement
      <4> QED
        BY <1>2, <1>4, <4>1
    <3> QED
      BY <3>1, <3>2
  <2>3. Cardinality(Taken(key', c)) \in Nat
    BY SlotsFinite DEF Taken
  <2> QED
    BY <1>2, <1>4, <2>1, <2>2, <2>3
<1> QED
  BY <1>3, <1>4, PutInAdds

-----------------------------------------------------------------------------
(* The invariant.                                                          *)

LEMMA CapTypes ==
  ASSUME IInv
  PROVE  /\ cap \in Nat /\ NewCap \in Nat /\ NewCap >= 2 /\ NewCap >= cap
         /\ n \in Nat /\ used \in Nat
         /\ n <= Cardinality(Taken(key, cap)) /\ n <= used
         /\ n < NewCap \div 2
         /\ IsFiniteSet(Live)
<1>1. cap \in Nat /\ (cap = 0 \/ cap >= 2) /\ used \in Nat /\ used <= cap \div 2
  BY DEF IInv, Counted
<1>2. NewCap \in Nat /\ NewCap >= 2 /\ NewCap >= cap /\ cap \div 2 < NewCap \div 2
  BY <1>1, TableAssumption DEF NewCap
<1>3. Live \subseteq Taken(key, cap) /\ Taken(key, cap) \subseteq Slots(cap)
  BY DEF Live, LiveIn, Taken
<1>4. /\ IsFiniteSet(Live) /\ IsFiniteSet(Taken(key, cap))
      /\ Cardinality(Live) \in Nat /\ Cardinality(Taken(key, cap)) \in Nat
      /\ Cardinality(Live) <= Cardinality(Taken(key, cap))
  BY <1>1, <1>3, SlotsFinite, FS_Subset
<1> QED
  BY <1>1, <1>2, <1>4 DEF IInv, Counted

LEMMA InitHolds ==
  ASSUME Init
  PROVE  IInv
<1>1. Slots(cap) = {}
  BY DEF Init, Slots
<1>2. Live = {} /\ Taken(key, cap) = {}
  BY <1>1 DEF Live, LiveIn, Taken
<1>3. Counted
  BY <1>2, FS_EmptySet DEF Init, Counted
<1>4. Sound(key, del, cap)
  BY <1>1, <1>2 DEF Init, Sound, IsTable, Once, Reach, Live
<1>5. putting = Free /\ dead \in BOOLEAN
  BY DEF Init
<1>6. moved \in 0..cap
  <2>1. moved = 0 /\ cap = 0
    BY DEF Init
  <2> QED
    BY <2>1
<1> QED
  BY <1>3, <1>4, <1>5, <1>6 DEF IInv, Growing

LEMMA PutKeeps ==
  ASSUME IInv, NEW id \in Ids, Put(id)
  PROVE  IInv' /\ Held(key', del', cap') = Held(key, del, cap) \cup {id}
<1>1. /\ Sound(key, del, cap) /\ Counted /\ putting = Free
      /\ PutIn(id, key, del, cap, n, used)
      /\ UNCHANGED <<putting, nkey, moved, dead>>
  BY DEF IInv, Put, Idle, growth
<1>2. cap \in Nat /\ used \in Nat /\ cap >= 1 /\ used < cap \div 2
  BY DEF IInv, Counted, Put, Full
<1>3. cap' = cap
  BY <1>1, <1>2, PutInAdds
<1>4. Sound(key', del', cap') /\ Held(key', del', cap') = Held(key, del, cap) \cup {id}
  BY <1>1, <1>2, <1>3, PutInAdds
<1>5. Counted'
  <2>1. n = Cardinality(LiveIn(key, del, cap)) /\ Cardinality(Taken(key, cap)) <= used
    BY <1>1 DEF Counted, Live
  <2>2. /\ n' = Cardinality(LiveIn(key', del', cap))
        /\ used' \in Nat /\ used' <= cap \div 2
        /\ Cardinality(Taken(key', cap)) <= used'
    BY <1>1, <1>2, <2>1, PutInCounts
  <2> QED
    BY <1>1, <1>3, <2>2 DEF Counted, Live
<1> QED
  BY <1>1, <1>3, <1>4, <1>5 DEF IInv, Growing

LEMMA GrowKeeps ==
  ASSUME IInv, NEW id \in Ids, Grow(id)
  PROVE  IInv'
<1>1. /\ UNCHANGED <<key, del, cap, n, used, dead>> /\ ~ dead
      /\ putting' = id /\ moved' = 0
      /\ nkey' = [j \in Slots(NewCap) |-> Free]
  BY DEF Grow, table, Idle
<1>2. NewCap' = NewCap /\ Live' = Live
  BY <1>1 DEF NewCap, Live
<1>3. Passed' = {}
  BY <1>1, <1>2 DEF Passed, Live, LiveIn, Slots
<1>4. Taken(nkey', NewCap) = {} /\ LiveIn(nkey', NoDead(NewCap), NewCap) = {}
  BY <1>1 DEF Taken, LiveIn
<1>5. Sound(nkey', NoDead(NewCap), NewCap)
  BY <1>1, <1>4, CapTypes DEF Sound, IsTable, Once, Reach, NoDead
<1>6. Growing'
  BY <1>2, <1>3, <1>4, <1>5, FS_EmptySet DEF Growing, Held
<1>7. Counted' /\ Sound(key', del', cap')
  BY <1>1, <1>2 DEF IInv, Counted
<1> QED
  BY <1>1, <1>6, <1>7 DEF IInv, Counted

\* One more old slot is passed.
LEMMA PassOne ==
  ASSUME IInv, Move
  PROVE  /\ Live' = Live /\ NewCap' = NewCap
         /\ Passed' = IF Carried(moved) THEN Passed \cup {moved} ELSE Passed
         /\ moved \notin Passed /\ moved \in Slots(cap)
         /\ Carried(moved) => moved \in Live
<1>1. /\ UNCHANGED <<key, del, cap>> /\ moved' = moved + 1
      /\ cap \in Nat /\ moved \in 0..cap /\ moved < cap
  BY DEF Move, table, IInv, Counted
<1>2. Live' = Live /\ NewCap' = NewCap /\ moved \in Slots(cap)
  BY <1>1 DEF Live, NewCap, Slots
<1>3. \A i \in Live : i \in Int
  BY <1>1 DEF Live, LiveIn, Slots
<1>4. Passed' = {i \in Live : i < moved + 1}
  BY <1>1, <1>2 DEF Passed
<1>5. Carried(moved) <=> moved \in Live
  BY <1>2 DEF Carried, Live, LiveIn
<1>6. \A i \in Live : i < moved + 1 <=> i < moved \/ i = moved
  BY <1>1, <1>3
<1>7. moved \notin Passed
  BY <1>1 DEF Passed
<1> QED
  BY <1>2, <1>4, <1>5, <1>6, <1>7 DEF Passed

LEMMA MoveKeeps ==
  ASSUME IInv, Move
  PROVE  IInv'
<1>1. /\ UNCHANGED <<key, del, cap, n, used, putting, dead>> /\ moved' = moved + 1
      /\ putting # Free /\ moved < cap
  BY DEF Move, table
<1>2. Counted' /\ Sound(key', del', cap') /\ moved' \in 0..cap'
  BY <1>1, CapTypes, PassOne DEF IInv, Counted
<1> DEFINE c == NewCap
           d == NoDead(NewCap)
<1>3. /\ Sound(nkey, d, c) /\ Held(nkey, d, c) = {key[i] : i \in Passed}
      /\ Cardinality(Taken(nkey, c)) = Cardinality(Passed)
  BY <1>1 DEF IInv, Growing
<1>4. c \in Nat /\ c >= 1
  BY CapTypes
<1>5. CASE ~ Carried(moved)
  <2>1. nkey' = nkey /\ Passed' = Passed
    BY <1>5, PassOne DEF Move
  <2> QED
    BY <1>1, <1>2, <1>3, <2>1, PassOne DEF IInv, Growing
<1>6. CASE Carried(moved)
  <2>1. moved \in Live /\ Passed' = Passed \cup {moved} /\ moved \notin Passed
    BY <1>6, PassOne
  <2>2. key[moved] \in Ids
    BY <1>6, PassOne DEF IInv, Sound, IsTable, Carried
  <2>3. PICK j \in Met(key[moved], Empties(nkey, c), c) :
          nkey' = [nkey EXCEPT ![j] = key[moved]]
    BY <1>6 DEF Move
  <2>4. key[moved] \notin Held(nkey, d, c)
    BY <1>3, <2>1 DEF Passed, IInv, Sound, Once, Live
  <2>5. j \in Slots(c) /\ nkey[j] = Free /\ j \notin Taken(nkey, c)
    BY <2>3 DEF Met, Empties, Taken
  <2>6. \A i \in Slots(c) :
          Steps(SlotOf(key[moved], c), i, c) < Steps(SlotOf(key[moved], c), j, c)
            => nkey[i] # Free
    <3> SUFFICES ASSUME NEW i \in Slots(c), nkey[i] = Free,
                        Steps(SlotOf(key[moved], c), i, c)
                          < Steps(SlotOf(key[moved], c), j, c)
                 PROVE  FALSE
      OBVIOUS
    <3>1. Steps(SlotOf(key[moved], c), j, c) <= Steps(SlotOf(key[moved], c), i, c)
      BY <2>3 DEF Met, Empties
    <3> HIDE DEF c
    <3> QED
      BY <1>4, <2>2, <2>5, <3>1, SlotInTable, StepsCount
  <2>7. /\ IsTable(nkey', d, c) /\ nkey'[j] = key[moved] /\ d[j] = FALSE
        /\ \A i \in Slots(c) \ {j} : nkey'[i] = nkey[i] /\ d[i] = d[i]
    BY <1>3, <2>2, <2>3, <2>5 DEF Sound, IsTable, NoDead
  <2>8. Places(nkey, d, c, key[moved], j, nkey', d)
    <3>1. j \notin LiveIn(nkey, d, c)
      BY <2>5 DEF LiveIn
    <3> HIDE DEF c, d
    <3> QED
      BY <1>3, <1>4, <2>2, <2>4, <2>5, <2>6, <2>7, <3>1 DEF Places
  <2>9. /\ Sound(nkey', d, c)
        /\ Held(nkey', d, c) = Held(nkey, d, c) \cup {key[moved]}
        /\ Taken(nkey', c) = Taken(nkey, c) \cup {j}
    <3> HIDE DEF c, d
    <3> QED
      BY ONLY <2>8, Placing
  <2>10. Held(nkey', d, c) = {key[i] : i \in Passed'}
    BY <1>3, <2>1, <2>9
  <2>11. Cardinality(Taken(nkey', c)) = Cardinality(Passed')
    <3>1. IsFiniteSet(Taken(nkey, c)) /\ IsFiniteSet(Passed)
      BY <1>4, CapTypes, SlotsFinite, FS_Subset DEF Taken, Passed
    <3>2. Cardinality(Passed') = Cardinality(Passed) + 1
      BY <2>1, <3>1, FS_AddElement
    <3>3. Cardinality(Taken(nkey', c)) = Cardinality(Taken(nkey, c)) + 1
      BY <2>5, <2>9, <3>1, FS_AddElement
    <3> QED
      BY <1>3, <3>2, <3>3
  <2>12. Growing'
    BY <1>1, <2>9, <2>10, <2>11, PassOne DEF Growing
  <2> QED
    BY <1>1, <1>2, <2>12 DEF IInv
<1> QED
  BY <1>5, <1>6

LEMMA GrownKeeps ==
  ASSUME IInv, Grown
  PROVE  /\ IInv'
         /\ Held(key', del', cap') = Held(key, del, cap) \cup {putting}
         /\ cap' = NewCap
<1> DEFINE c == NewCap
           d == NoDead(NewCap)
<1>1. /\ putting \in Ids /\ moved = cap
      /\ PutIn(putting, nkey, d, c, n, n)
      /\ putting' = Free /\ moved' = 0 /\ dead' = dead
  BY DEF Grown, IInv, NoDead
<1>2. /\ Sound(nkey, d, c) /\ Held(nkey, d, c) = {key[i] : i \in Passed}
      /\ Cardinality(Taken(nkey, c)) = Cardinality(Passed)
  BY <1>1, TableAssumption DEF IInv, Growing
<1>3. c \in Nat /\ c >= 1 /\ n \in Nat /\ n < c \div 2 /\ cap \in Nat
  BY CapTypes
<1>4. Passed = Live
  BY <1>1, <1>3 DEF Passed, Live, LiveIn, Slots
<1>5. /\ n = Cardinality(LiveIn(nkey, d, c)) /\ Cardinality(Taken(nkey, c)) <= n
      /\ Held(nkey, d, c) = Held(key, del, cap)
  <2>1. LiveIn(nkey, d, c) = Taken(nkey, c)
    BY DEF LiveIn, Taken, NoDead
  <2>2. n = Cardinality(Live)
    BY DEF IInv, Counted
  <2>3. Cardinality(Taken(nkey, c)) = n
    BY <1>2, <1>4, <2>2
  <2>4. Held(nkey, d, c) = {key[i] : i \in Live}
    BY <1>2, <1>4
  <2>5. Held(key, del, cap) = {key[i] : i \in Live}
    BY DEF Held, Live
  <2> HIDE DEF c, d
  <2> QED
    BY <1>3, <2>1, <2>3, <2>4, <2>5
<1> HIDE DEF c, d
<1>6. /\ cap' = c /\ Sound(key', del', c)
      /\ Held(key', del', c) = Held(nkey, d, c) \cup {putting}
  BY <1>1, <1>2, <1>3, PutInAdds
<1>7. /\ n' = Cardinality(LiveIn(key', del', c))
      /\ used' \in Nat /\ used' <= c \div 2
      /\ Cardinality(Taken(key', c)) <= used'
  BY <1>1, <1>2, <1>3, <1>5, PutInCounts
<1>8. c \in Nat /\ c >= 2
  BY CapTypes DEF c
<1>9. Counted' /\ Sound(key', del', cap') /\ Live' = LiveIn(key', del', c)
  BY <1>6, <1>7, <1>8 DEF Counted, Live
<1>10. moved' \in 0..cap' /\ putting' \in Ids \cup {Free} /\ dead' \in BOOLEAN
  BY <1>1, <1>6, <1>8 DEF IInv
<1>11. IInv'
  BY <1>1, <1>9, <1>10 DEF IInv, Growing
<1> QED
  BY <1>5, <1>6, <1>11 DEF c

LEMMA DelKeeps ==
  ASSUME IInv, NEW id \in Ids, Del(id)
  PROVE  /\ IInv'
         /\ Held(key', del', cap') = Held(key, del, cap) \ {id}
         /\ cap' = cap
<1>1. /\ putting = Free /\ cap # 0
      /\ UNCHANGED <<cap, putting, nkey, moved, dead>>
  BY DEF Del, Idle, growth
<1>2. PICK end \in Met(id, Halting(id, key, del, cap), cap) :
        \/ key[end] = Free /\ UNCHANGED <<key, del, n, used>>
        \/ key[end] = id /\ Bury(end) /\ n' = n - 1
  BY DEF Del
<1>3. Sound(key, del, cap) /\ Counted /\ cap \in Nat /\ cap >= 1
  BY <1>1 DEF IInv, Counted
<1>4. CASE key[end] = Free /\ UNCHANGED <<key, del, n, used>>
  <2>1. id \notin Held(key, del, cap)
    BY <1>3, <1>4, NotHeld
  <2>2. Counted' /\ Sound(key', del', cap')
    BY <1>1, <1>3, <1>4 DEF Counted, Live
  <2> QED
    BY <1>1, <1>4, <2>1, <2>2 DEF IInv, Growing
<1>5. CASE key[end] = id /\ Bury(end) /\ n' = n - 1
  <2>1. end \in Live
    BY <1>5, TableAssumption DEF Met, Halting, Empties, Live
  <2>2. key' = key /\ del' = [del EXCEPT ![end] = TRUE] /\ used' = used
    BY <1>5 DEF Bury
  <2>3. /\ IsTable(key, del, cap) /\ Once(key, del, cap) /\ Reach(key, del, cap)
        /\ end \in Slots(cap)
    BY <1>3, <2>1 DEF Sound, Live, LiveIn
  <2>4. IsTable(key', del', cap)
    BY <2>2, <2>3 DEF IsTable
  <2>5. LiveIn(key', del', cap) = Live \ {end}
    BY <2>2, <2>3 DEF Live, LiveIn, IsTable
  <2>6. Once(key', del', cap) /\ Reach(key', del', cap)
    BY <2>2, <2>3, <2>5 DEF Once, Reach, Live
  <2>7. Held(key', del', cap) = Held(key, del, cap) \ {id}
    BY <1>5, <2>1, <2>2, <2>3, <2>5 DEF Held, Once, Live
  <2>8. n' = Cardinality(Live')
    <3>1. n = Cardinality(Live) /\ Live' = Live \ {end}
      BY <1>1, <1>3, <2>5 DEF Counted, Live
    <3> QED
      BY <1>5, <2>1, <3>1, CapTypes, FS_RemoveElement
  <2>9. Counted'
    BY <1>1, <1>3, <2>2, <2>8 DEF Counted, Taken
  <2> QED
    BY <1>1, <2>4, <2>6, <2>7, <2>9 DEF IInv, Sound, Growing
<1> QED
  BY <1>2, <1>4, <1>5

LEMMA StepKeeps ==
  ASSUME IInv, [Next]_wvars
  PROVE  IInv'
<1>1. ASSUME NEW id \in Ids, Put(id) PROVE IInv'
  BY <1>1, PutKeeps
<1>2. ASSUME NEW id \in Ids, Grow(id) PROVE IInv'
  BY <1>2, GrowKeeps
<1>3. ASSUME NEW id \in Ids, Del(id) PROVE IInv'
  BY <1>3, DelKeeps
<1>4. ASSUME NEW id \in Ids, NullDel(id) PROVE IInv'
  BY <1>4 DEF NullDel, Idle, table, growth, IInv, Counted, Growing, Live
<1>5. CASE Move
  BY <1>5, MoveKeeps
<1>6. CASE Grown
  BY <1>6, GrownKeeps
<1>7. CASE UNCHANGED wvars
  BY <1>7 DEF wvars, IInv, Counted, Growing, Live, Passed, NewCap
<1> QED
  BY <1>1, <1>2, <1>3, <1>4, <1>5, <1>6, <1>7 DEF Next

\* IInv is an invariant.
LEMMA Invariant == Spec => []IInv
BY InitHolds, StepKeeps, PTL DEF Spec

-----------------------------------------------------------------------------
(* What follows from the invariant.                                        *)

\* Type correctness, for every hash function: the slots of the struct who_set of
\* any query hold ids, and its counters stay below half the capacity.
THEOREM TypeCorrect == Spec => []TypeOK
<1>1. IInv => TypeOK
  <2> SUFFICES ASSUME IInv PROVE TypeOK
    OBVIOUS
  <2>1. n \in Nat /\ n <= used
    BY CapTypes
  <2> QED
    BY <2>1 DEF IInv, Counted, Sound, IsTable, Growing, TypeOK
<1> QED
  BY <1>1, Invariant, PTL

\* No id is ever in two live slots, whatever the hash function and however
\* tombstones are reused and the table rehashed.
THEOREM EachOnce == Spec => []LiveOnce
<1>1. IInv => LiveOnce
  BY DEF IInv, Sound, Once, LiveOnce, Live
<1> QED
  BY <1>1, Invariant, PTL

\* n, by which split_create reserves memory, is the number of live slots.
THEOREM CountIsRight == Spec => []CountIsLive
<1>1. IInv => CountIsLive
  BY DEF IInv, Counted, CountIsLive
<1> QED
  BY <1>1, Invariant, PTL

\* used, by which the table grows, never falls short of the slots that are taken,
\* in the table and in the one a rehash fills, tombstones and reused tombstones
\* included.  It is what leaves every probe an empty slot.
THEOREM TakenSlotsAreCounted == Spec => []TakenIsCounted
<1>1. IInv => TakenIsCounted
  <2> SUFFICES ASSUME IInv PROVE TakenIsCounted
    OBVIOUS
  <2>1. Cardinality(Taken(key, cap)) <= used
    BY DEF IInv, Counted
  <2>2. ASSUME putting # Free PROVE Cardinality(Taken(nkey, NewCap)) <= n
    <3>1. Cardinality(Taken(nkey, NewCap)) = Cardinality(Passed)
      BY <2>2 DEF IInv, Growing
    <3>2. Cardinality(Passed) <= Cardinality(Live)
      BY CapTypes, FS_Subset DEF Passed
    <3> QED
      BY <3>1, <3>2 DEF IInv, Counted
  <2> QED
    BY <2>1, <2>2 DEF TakenIsCounted
<1> QED
  BY <1>1, Invariant, PTL

\* A table with fewer taken slots than slots has an empty one.
LEMMA RoomLeft ==
  ASSUME NEW k, NEW c \in Nat, Cardinality(Taken(k, c)) < c
  PROVE  Empties(k, c) # {}
<1> SUFFICES ASSUME Empties(k, c) = {} PROVE FALSE
  OBVIOUS
<1>1. Taken(k, c) = Slots(c)
  BY DEF Taken, Empties
<1>2. Cardinality(Slots(c)) = c
  BY FS_Interval DEF Slots
<1> QED
  BY <1>1, <1>2

\* Every probe of who_set_put, who_set_del and who_set_grow meets an empty slot
\* at the latest, so none of their loops goes round for ever.
THEOREM EveryProbeEnds == Spec => []ProbesEnd
<1>1. IInv => ProbesEnd
  <2> SUFFICES ASSUME IInv PROVE ProbesEnd
    OBVIOUS
  <2>1. ASSUME cap # 0 PROVE Empties(key, cap) # {}
    <3>1. /\ cap \in Nat /\ cap >= 2 /\ used \in Nat /\ used <= cap \div 2
          /\ Cardinality(Taken(key, cap)) <= used
      BY <2>1 DEF IInv, Counted
    <3>2. Cardinality(Taken(key, cap)) \in Nat
      BY <3>1, SlotsFinite DEF Taken
    <3> QED
      BY <3>1, <3>2, RoomLeft
  <2>2. ASSUME putting # Free PROVE Empties(nkey, NewCap) # {}
    <3>1. Cardinality(Taken(nkey, NewCap)) = Cardinality(Passed)
      BY <2>2 DEF IInv, Growing
    <3>2. Cardinality(Passed) \in Nat /\ Cardinality(Passed) <= Cardinality(Live)
      BY CapTypes, FS_Subset, FS_CardinalityType DEF Passed
    <3>3. n = Cardinality(Live)
      BY DEF IInv, Counted
    <3>4. Cardinality(Taken(nkey, NewCap)) < NewCap
      BY <3>1, <3>2, <3>3, CapTypes
    <3> QED
      BY <3>4, CapTypes, RoomLeft
  <2> QED
    BY <2>1, <2>2 DEF ProbesEnd
<1> QED
  BY <1>1, Invariant, PTL

-----------------------------------------------------------------------------
(* The hash table implements the set.                                      *)

LEMMA AbstractInit ==
  ASSUME Init
  PROVE  AsSet!Empty
<1>1. cap = 0 /\ last = <<>> /\ dead = FALSE
  BY DEF Init
<1>2. Live = {}
  BY <1>1 DEF Live, LiveIn, Slots
<1> QED
  BY <1>1, <1>2 DEF AsSet!Empty

LEMMA AbstractStep ==
  ASSUME IInv, [Next]_wvars
  PROVE  [AsSet!SetNext]_(AsSet!idset)
<1>0. {key[j] : j \in Live} = Held(key, del, cap)
      /\ {key[j] : j \in Live}' = Held(key', del', cap')
  BY DEF Held, Live
<1>1. ASSUME NEW id \in Ids, Put(id) PROVE AsSet!PutId(id)
  <2>1. ~ dead /\ dead' = dead /\ last' = <<"put", id>>
    BY <1>1 DEF Put, Idle
  <2>2. cap' = cap /\ cap # 0
    BY <1>1, PutInAdds DEF Put, Full, IInv, Counted
  <2>3. Held(key', del', cap') = Held(key, del, cap) \cup {id}
    BY <1>1, PutKeeps
  <2> QED
    BY <1>0, <2>1, <2>2, <2>3 DEF AsSet!PutId
<1>2. ASSUME NEW id \in Ids, Grow(id) PROVE UNCHANGED AsSet!idset
  BY <1>2 DEF Grow, table, AsSet!idset, Live
<1>3. ASSUME NEW id \in Ids, Del(id) PROVE AsSet!DelId(id)
  <2>1. ~ dead /\ dead' = dead /\ last' = <<"del", id>> /\ cap # 0
    BY <1>3 DEF Del, Idle
  <2>2. cap' = cap /\ Held(key', del', cap') = Held(key, del, cap) \ {id}
    BY <1>3, DelKeeps
  <2> QED
    BY <1>0, <2>1, <2>2 DEF AsSet!DelId
<1>4. ASSUME NEW id \in Ids, NullDel(id) PROVE AsSet!Fault(id)
  BY <1>4 DEF NullDel, Idle, table, AsSet!Fault, Live
<1>5. CASE Move
  BY <1>5 DEF Move, table, AsSet!idset, Live
<1>6. CASE Grown
  <2>1. ~ dead
    BY <1>6 DEF Grown, IInv
  <2>2. putting \in Ids /\ dead' = dead /\ last' = <<"put", putting>>
    BY <1>6 DEF Grown, IInv
  <2>3. cap' # 0
    BY <1>6, GrownKeeps, CapTypes
  <2>4. Held(key', del', cap') = Held(key, del, cap) \cup {putting}
    BY <1>6, GrownKeeps
  <2>5. PICK id \in Ids : id = putting
    BY <2>2
  <2>6. AsSet!PutId(id)
    BY <1>0, <2>1, <2>2, <2>3, <2>4, <2>5 DEF AsSet!PutId
  <2> QED
    BY <2>6 DEF AsSet!SetNext
<1>7. CASE UNCHANGED wvars
  BY <1>7 DEF wvars, AsSet!idset, Live
<1> QED
  BY <1>1, <1>2, <1>3, <1>4, <1>5, <1>6, <1>7 DEF Next, AsSet!SetNext

\* The hash table behaves as the plain set of ids that EndpointSweep sweeps
\* with: who_set_put and who_set_del add and remove one id, and nothing else.
THEOREM HashTableIsASet == Spec => IdSetSpec
BY AbstractInit, AbstractStep, Invariant, PTL DEF Spec, IdSetSpec, AsSet!SetSpec
=============================================================================
