---------------------------- MODULE HandlesProofs ----------------------------
(***************************************************************************)
(* Theorems about Handles: however stores are opened, written, closed and  *)
(* lost, no handle is shared or out of the table, and what the openers see *)
(* and what is on disk is as Durable promises.                             *)
(***************************************************************************)
EXTENDS Handles, FiniteSetTheorems, TLAPS

HoldersIn(j) == {o \in Openers : j[o] # NoJd}
HeldIn(j)    == {j[o] : o \in HoldersIn(j)}

\* What holds of the allocator i, the table st, the openers' handles j and the
\* set B of burned slots after each opening and each close: the entries of the
\* table are those held and the burned one, and with those given back they are
\* all that were ever handed out.
Good(i, st, j, B) ==
  /\ i \in [next : Nat, free : SUBSET Nat]
  /\ st \in [DOMAIN st -> Store]
  /\ j \in [Openers -> Nat \cup {NoJd}]
  /\ DOMAIN st \cup i.free = 0..(i.next - 1)
  /\ DOMAIN st \cap i.free = {}
  /\ DOMAIN st = HeldIn(j) \cup B
  /\ HeldIn(j) \cap B = {}
  /\ \A o, p \in HoldersIn(j) : j[o] = j[p] => o = p
  /\ i.next <= TableSize
  /\ \A h \in B : st[h].file = NoFile

\* Each file is behind one entry: so it is as long as the openers keep the
\* header's rule.
FilesApart ==
  \A g, h \in DOMAIN store :
    store[g].file = store[h].file /\ store[g].file # NoFile => g = h

\* A call of an opener that need not keep the rule.
Call(o) ==
  \/ \E f \in Files \cup {NoFile} : JointInit(o, f) \/ RecAxisOpen(o, f)
  \/ \E rows \in SUBSET Rows : Rewrite(o, rows)
  \/ JointClose(o)

-----------------------------------------------------------------------------
(* Room in the table.                                                      *)

LEMMA HeldAreFew ==
  ASSUME NEW j, NEW o \in Openers, j[o] = NoJd
  PROVE  /\ IsFiniteSet(HeldIn(j))
         /\ Cardinality(HeldIn(j)) + 1 <= Cardinality(Openers)
<1> DEFINE S == HoldersIn(j)
           T == HeldIn(j)
           f == [p \in S |-> j[p]]
<1>1. IsFiniteSet(Openers)
  BY HandleAssumption
<1>2. IsFiniteSet(Openers \ {o}) /\ Cardinality(Openers \ {o}) = Cardinality(Openers) - 1
  BY <1>1, FS_RemoveElement
<1>3. S \in SUBSET (Openers \ {o})
  BY DEF HoldersIn
<1>4. IsFiniteSet(S) /\ Cardinality(S) <= Cardinality(Openers \ {o})
  BY <1>2, <1>3, FS_Subset
<1>5. f \in Surjection(S, T)
  BY DEF Surjection, HeldIn
<1>6. IsFiniteSet(T) /\ Cardinality(T) <= Cardinality(S)
  BY <1>4, <1>5, FS_Surjection
<1>7. Cardinality(T) \in Nat /\ Cardinality(S) \in Nat /\ Cardinality(Openers) \in Nat
  BY <1>1, <1>4, <1>6, FS_CardinalityType
<1> QED
  BY <1>2, <1>4, <1>6, <1>7

\* When nothing was given back, the handles handed out are those held and the
\* burned one.
LEMMA NextIsFew ==
  ASSUME NEW j, NEW o \in Openers, j[o] = NoJd, NEW n \in Nat, NEW b,
         0..(n - 1) \subseteq HeldIn(j) \cup {b}
  PROVE  n <= Cardinality(Openers)
<1> DEFINE T == HeldIn(j)
<1>1. IsFiniteSet(T) /\ Cardinality(T) + 1 <= Cardinality(Openers)
  BY HeldAreFew
<1>2. IsFiniteSet(T \cup {b}) /\ Cardinality(T \cup {b}) <= Cardinality(T) + 1
  <2>1. Cardinality(T) \in Nat
    BY <1>1, FS_CardinalityType
  <2>2. /\ IsFiniteSet(T \cup {b})
        /\ Cardinality(T \cup {b}) = IF b \in T THEN Cardinality(T) ELSE Cardinality(T) + 1
    BY <1>1, FS_AddElement
  <2> HIDE DEF T
  <2> QED
    BY <2>1, <2>2
<1>3. 0..(n - 1) \in SUBSET (T \cup {b})
  OBVIOUS
<1>4. Cardinality(0..(n - 1)) <= Cardinality(T \cup {b})
  BY <1>2, <1>3, FS_Subset
<1>5. Cardinality(0..(n - 1)) = n
  BY FS_Interval
<1>6. /\ Cardinality(T) \in Nat /\ Cardinality(T \cup {b}) \in Nat
      /\ Cardinality(Openers) \in Nat
  BY <1>1, <1>2, HandleAssumption, FS_CardinalityType
<1> QED
  BY <1>1, <1>2, <1>4, <1>5, <1>6

LEMMA NextIsFewer ==
  ASSUME NEW j, NEW o \in Openers, j[o] = NoJd, NEW n \in Nat,
         0..(n - 1) \subseteq HeldIn(j)
  PROVE  n + 1 <= Cardinality(Openers)
<1> DEFINE T == HeldIn(j)
<1>1. IsFiniteSet(T) /\ Cardinality(T) + 1 <= Cardinality(Openers)
  BY HeldAreFew
<1>2. Cardinality(0..(n - 1)) <= Cardinality(T)
  BY <1>1, FS_Subset
<1>3. Cardinality(0..(n - 1)) = n
  BY FS_Interval
<1>4. Cardinality(T) \in Nat /\ Cardinality(Openers) \in Nat
  BY <1>1, HandleAssumption, FS_CardinalityType
<1> QED
  BY <1>1, <1>2, <1>3, <1>4

-----------------------------------------------------------------------------
(* The allocator.                                                          *)

LEMMA NewIdIsNew ==
  ASSUME NEW i \in [next : Nat, free : SUBSET Nat], NEW E, NEW h \in NewId(i),
         E \cup i.free = 0..(i.next - 1), E \cap i.free = {}
  PROVE  /\ Taken(i, h) \in [next : Nat, free : SUBSET Nat]
         /\ h \in Nat /\ h \notin E /\ h \notin Taken(i, h).free
         /\ Taken(i, h).free = i.free \ {h}
         /\ (E \cup {h}) \cup Taken(i, h).free = 0..(Taken(i, h).next - 1)
         /\ (E \cup {h}) \cap Taken(i, h).free = {}
         /\ \/ i.free = {} /\ h = i.next /\ Taken(i, h).next = i.next + 1
            \/ h \in i.free /\ Taken(i, h).next = i.next
<1>1. CASE i.free = {}
  <2>1. h = i.next
    BY <1>1 DEF NewId
  <2>2. Taken(i, h).next = i.next + 1 /\ Taken(i, h).free = {}
    BY <1>1, <2>1 DEF Taken
  <2>3. 0..(i.next + 1 - 1) = 0..(i.next - 1) \cup {i.next}
    OBVIOUS
  <2>4. i.next \notin E
    BY <1>1
  <2> QED
    BY <1>1, <2>1, <2>2, <2>3, <2>4 DEF Taken
<1>2. CASE i.free # {}
  <2>1. h \in i.free
    BY <1>2 DEF NewId
  <2>2. h \in 0..(i.next - 1)
    BY <2>1
  <2>3. Taken(i, h).next = i.next /\ Taken(i, h).free = i.free \ {h}
    BY <2>2 DEF Taken
  <2> QED
    BY <2>1, <2>2, <2>3 DEF Taken
<1> QED
  BY <1>1, <1>2

-----------------------------------------------------------------------------
(* One opening, one burning, one close, one rewrite.                       *)

LEMMA OpenOne ==
  ASSUME NEW i, NEW st, NEW j, NEW B, Good(i, st, j, B), NEW b, B \subseteq {b},
         NEW o \in Openers, j[o] = NoJd,
         NEW h \in NewId(i), NEW maps \in Store
  PROVE  Good(Taken(i, h), With(st, h, maps), [j EXCEPT ![o] = h], B)
<1> DEFINE k   == [j EXCEPT ![o] = h]
           new == With(st, h, maps)
<1>1. /\ i \in [next : Nat, free : SUBSET Nat]
      /\ st \in [DOMAIN st -> Store]
      /\ j \in [Openers -> Nat \cup {NoJd}]
      /\ DOMAIN st \cup i.free = 0..(i.next - 1)
      /\ DOMAIN st \cap i.free = {}
      /\ DOMAIN st = HeldIn(j) \cup B
      /\ HeldIn(j) \cap B = {}
      /\ \A p, q \in HoldersIn(j) : j[p] = j[q] => p = q
      /\ i.next <= TableSize
      /\ \A x \in B : st[x].file = NoFile
  BY DEF Good
<1>2. /\ Taken(i, h) \in [next : Nat, free : SUBSET Nat]
      /\ h \in Nat /\ h \notin DOMAIN st
      /\ (DOMAIN st \cup {h}) \cup Taken(i, h).free = 0..(Taken(i, h).next - 1)
      /\ (DOMAIN st \cup {h}) \cap Taken(i, h).free = {}
      /\ \/ i.free = {} /\ h = i.next /\ Taken(i, h).next = i.next + 1
         \/ h \in i.free /\ Taken(i, h).next = i.next
  <2>1. /\ i \in [next : Nat, free : SUBSET Nat] /\ h \in NewId(i)
        /\ DOMAIN st \cup i.free = 0..(i.next - 1) /\ DOMAIN st \cap i.free = {}
    BY <1>1
  <2> DEFINE E == DOMAIN st
  <2> HIDE DEF E, k, new
  <2>2. E \cup i.free = 0..(i.next - 1) /\ E \cap i.free = {}
    BY <2>1 DEF E
  <2> QED
    BY ONLY <2>1, <2>2, NewIdIsNew DEF E
<1>3. DOMAIN new = DOMAIN st \cup {h} /\ new \in [DOMAIN new -> Store]
  BY <1>1, <1>2 DEF With
<1>4. k \in [Openers -> Nat \cup {NoJd}] /\ h # NoJd
  BY <1>1, <1>2 DEF NoJd
<1>5. HoldersIn(k) = HoldersIn(j) \cup {o} /\ HeldIn(k) = HeldIn(j) \cup {h}
  <2>1. HoldersIn(k) = HoldersIn(j) \cup {o}
    BY <1>1, <1>4 DEF HoldersIn
  <2>2. \A p \in HoldersIn(j) : p # o /\ k[p] = j[p]
    BY <1>1 DEF HoldersIn
  <2>3. k[o] = h
    BY <1>1
  <2> QED
    BY <2>1, <2>2, <2>3 DEF HeldIn
<1>6. \A p, q \in HoldersIn(k) : k[p] = k[q] => p = q
  <2>1. \A p \in HoldersIn(j) : j[p] # h
    BY <1>1, <1>2 DEF HeldIn
  <2>2. \A p \in HoldersIn(j) : p # o /\ k[p] = j[p]
    BY <1>1 DEF HoldersIn
  <2>3. k[o] = h
    BY <1>1
  <2> QED
    BY <1>1, <1>5, <2>1, <2>2, <2>3
<1>7. Taken(i, h).next <= TableSize
  <2>1. CASE h \in i.free /\ Taken(i, h).next = i.next
    BY <1>1, <2>1
  <2>2. CASE i.free = {} /\ h = i.next /\ Taken(i, h).next = i.next + 1
    <3>1. i.next \in Nat /\ 0..(i.next - 1) \subseteq HeldIn(j) \cup {b}
      BY <1>1, <2>2
    <3>2. i.next <= Cardinality(Openers)
      BY <3>1, NextIsFew
    <3>3. Cardinality(Openers) \in Nat /\ TableSize \in Nat /\ Cardinality(Openers) < TableSize
      BY HandleAssumption, FS_CardinalityType
    <3> QED
      BY <2>2, <3>1, <3>2, <3>3
  <2> QED
    BY <1>2, <2>1, <2>2
<1>8. \A x \in B : new[x].file = NoFile
  BY <1>1, <1>2 DEF With
<1>9. DOMAIN new = HeldIn(k) \cup B /\ HeldIn(k) \cap B = {}
  <2>1. /\ DOMAIN st = HeldIn(j) \cup B /\ HeldIn(j) \cap B = {} /\ h \notin DOMAIN st
        /\ DOMAIN new = DOMAIN st \cup {h} /\ HeldIn(k) = HeldIn(j) \cup {h}
    BY <1>1, <1>2, <1>3, <1>5
  <2> QED
    BY ONLY <2>1
<1> HIDE DEF k, new
<1>10. Good(Taken(i, h), new, k, B)
  BY <1>2, <1>3, <1>4, <1>6, <1>7, <1>8, <1>9 DEF Good
<1> QED
  BY <1>10 DEF k, new

LEMMA BurnOne ==
  ASSUME NEW i, NEW st, NEW j, Good(i, st, j, {}),
         NEW o \in Openers, j[o] = NoJd,
         NEW g \in NewId(i), NEW maps \in Store, maps.file = NoFile
  PROVE  Good(Taken(i, g), With(st, g, maps), j, {g})
<1> DEFINE new == With(st, g, maps)
<1>1. /\ i \in [next : Nat, free : SUBSET Nat]
      /\ st \in [DOMAIN st -> Store]
      /\ j \in [Openers -> Nat \cup {NoJd}]
      /\ DOMAIN st \cup i.free = 0..(i.next - 1)
      /\ DOMAIN st \cap i.free = {}
      /\ DOMAIN st = HeldIn(j)
      /\ \A p, q \in HoldersIn(j) : j[p] = j[q] => p = q
      /\ i.next <= TableSize
  BY DEF Good
<1>2. /\ Taken(i, g) \in [next : Nat, free : SUBSET Nat]
      /\ g \in Nat /\ g \notin DOMAIN st
      /\ (DOMAIN st \cup {g}) \cup Taken(i, g).free = 0..(Taken(i, g).next - 1)
      /\ (DOMAIN st \cup {g}) \cap Taken(i, g).free = {}
      /\ \/ i.free = {} /\ g = i.next /\ Taken(i, g).next = i.next + 1
         \/ g \in i.free /\ Taken(i, g).next = i.next
  BY <1>1, NewIdIsNew
<1>3. /\ DOMAIN new = DOMAIN st \cup {g} /\ new \in [DOMAIN new -> Store]
      /\ new[g].file = NoFile
  BY <1>1, <1>2 DEF With
<1>4. Taken(i, g).next <= TableSize
  <2>1. CASE g \in i.free /\ Taken(i, g).next = i.next
    BY <1>1, <2>1
  <2>2. CASE i.free = {} /\ g = i.next /\ Taken(i, g).next = i.next + 1
    <3>1. i.next \in Nat /\ 0..(i.next - 1) \subseteq HeldIn(j)
      BY <1>1, <2>2
    <3>2. i.next + 1 <= Cardinality(Openers)
      BY <3>1, NextIsFewer
    <3>3. Cardinality(Openers) \in Nat /\ TableSize \in Nat /\ Cardinality(Openers) < TableSize
      BY HandleAssumption, FS_CardinalityType
    <3> QED
      BY <2>2, <3>1, <3>2, <3>3
  <2> QED
    BY <1>2, <2>1, <2>2
<1>5. DOMAIN new = HeldIn(j) \cup {g} /\ HeldIn(j) \cap {g} = {}
  BY <1>1, <1>2, <1>3
<1> HIDE DEF new
<1>6. Good(Taken(i, g), new, j, {g})
  BY <1>1, <1>2, <1>3, <1>4, <1>5 DEF Good
<1> QED
  BY <1>6 DEF new

LEMMA CloseOne ==
  ASSUME NEW i, NEW st, NEW j, NEW B, Good(i, st, j, B),
         NEW o \in Openers, j[o] # NoJd
  PROVE  Good(GivenBack(i, j[o]), Without(st, j[o]), [j EXCEPT ![o] = NoJd], B)
<1> DEFINE h   == j[o]
           k   == [j EXCEPT ![o] = NoJd]
           new == Without(st, h)
           a   == GivenBack(i, h)
<1>1. /\ i \in [next : Nat, free : SUBSET Nat]
      /\ st \in [DOMAIN st -> Store]
      /\ j \in [Openers -> Nat \cup {NoJd}]
      /\ DOMAIN st \cup i.free = 0..(i.next - 1)
      /\ DOMAIN st \cap i.free = {}
      /\ DOMAIN st = HeldIn(j) \cup B
      /\ HeldIn(j) \cap B = {}
      /\ \A p, q \in HoldersIn(j) : j[p] = j[q] => p = q
      /\ i.next <= TableSize
      /\ \A x \in B : st[x].file = NoFile
  BY DEF Good
<1>2. h \in Nat /\ h \in HeldIn(j) /\ h \in DOMAIN st /\ h \notin B
  BY <1>1 DEF HeldIn, HoldersIn
<1>3. a \in [next : Nat, free : SUBSET Nat] /\ a.next = i.next /\ a.free = i.free \cup {h}
  BY <1>1, <1>2 DEF GivenBack
<1>4. DOMAIN new = DOMAIN st \ {h} /\ \A x \in DOMAIN new : new[x] = st[x]
  BY DEF Without
<1>5. new \in [DOMAIN new -> Store]
  BY <1>1 DEF Without
<1>6. k \in [Openers -> Nat \cup {NoJd}]
  BY <1>1
<1>7. /\ HoldersIn(k) = HoldersIn(j) \ {o}
      /\ \A p \in HoldersIn(k) : k[p] = j[p]
  BY <1>1 DEF HoldersIn
<1>8. HeldIn(k) = HeldIn(j) \ {h}
  BY <1>1, <1>7 DEF HeldIn, HoldersIn
<1>9. \A p, q \in HoldersIn(k) : k[p] = k[q] => p = q
  BY <1>1, <1>7
<1>10. /\ DOMAIN new \cup a.free = 0..(a.next - 1)
       /\ DOMAIN new \cap a.free = {}
       /\ DOMAIN new = HeldIn(k) \cup B
       /\ HeldIn(k) \cap B = {}
  <2>1. /\ DOMAIN st \cup i.free = 0..(i.next - 1) /\ DOMAIN st \cap i.free = {}
        /\ DOMAIN st = HeldIn(j) \cup B /\ HeldIn(j) \cap B = {}
        /\ h \in DOMAIN st /\ h \notin B
        /\ a.next = i.next /\ a.free = i.free \cup {h}
        /\ DOMAIN new = DOMAIN st \ {h} /\ HeldIn(k) = HeldIn(j) \ {h}
    BY <1>1, <1>2, <1>3, <1>4, <1>8
  <2> HIDE DEF a, k, new, h
  <2>2. DOMAIN new \cup a.free = DOMAIN st \cup i.free
    BY ONLY <2>1
  <2>3. DOMAIN new = HeldIn(k) \cup B
    BY ONLY <2>1
  <2>4. HeldIn(k) \cap B = {} /\ DOMAIN new \cap a.free = {}
    BY ONLY <2>1
  <2> QED
    BY <2>1, <2>2, <2>3, <2>4
<1>11. \A x \in B : new[x].file = NoFile
  BY <1>1, <1>4, <1>10
<1> HIDE DEF a, k, new
<1>12. Good(a, new, k, B)
  BY <1>1, <1>3, <1>5, <1>6, <1>9, <1>10, <1>11 DEF Good
<1> QED
  BY <1>12 DEF a, k, new, h

LEMMA RewriteOne ==
  ASSUME NEW i, NEW st, NEW j, NEW B, Good(i, st, j, B),
         NEW o \in Openers, j[o] # NoJd, NEW rows \in SUBSET Rows
  PROVE  Good(i, [st EXCEPT ![j[o]].ti = rows], j, B)
<1> DEFINE h   == j[o]
           new == [st EXCEPT ![h].ti = rows]
<1>1. /\ i \in [next : Nat, free : SUBSET Nat]
      /\ st \in [DOMAIN st -> Store]
      /\ j \in [Openers -> Nat \cup {NoJd}]
      /\ DOMAIN st \cup i.free = 0..(i.next - 1)
      /\ DOMAIN st \cap i.free = {}
      /\ DOMAIN st = HeldIn(j) \cup B
      /\ HeldIn(j) \cap B = {}
      /\ \A p, q \in HoldersIn(j) : j[p] = j[q] => p = q
      /\ i.next <= TableSize
      /\ \A x \in B : st[x].file = NoFile
  BY DEF Good
<1>2. h \in HeldIn(j) /\ h \in DOMAIN st
  BY <1>1 DEF HeldIn, HoldersIn
<1>3. /\ DOMAIN new = DOMAIN st
      /\ new[h] = [st[h] EXCEPT !.ti = rows]
      /\ \A x \in DOMAIN st : x # h => new[x] = st[x]
  BY <1>1, <1>2
<1>4. new[h] \in Store /\ new[h].file = st[h].file
  BY <1>1, <1>2, <1>3 DEF Store
<1>5. new \in [DOMAIN new -> Store]
  <2>1. \A x \in DOMAIN new : new[x] \in Store
    BY <1>1, <1>3, <1>4
  <2> QED
    BY <1>1, <2>1
<1>6. \A x \in DOMAIN st : new[x].file = st[x].file
  BY <1>3, <1>4
<1> HIDE DEF new
<1>7. Good(i, new, j, B)
  BY <1>1, <1>3, <1>5, <1>6 DEF Good
<1> QED
  BY <1>7 DEF new, h

LEMMA NothingOpen ==
  Good([next |-> 0, free |-> {}], [h \in {} |-> Loaded(NoFile)],
       [o \in Openers |-> NoJd], {})
<1> DEFINE j == [o \in Openers |-> NoJd]
           st == [h \in {} |-> Loaded(NoFile)]
<1>1. HoldersIn(j) = {} /\ HeldIn(j) = {}
  BY DEF HoldersIn, HeldIn
<1>2. TableSize \in Nat /\ 0..(0 - 1) = {}
  BY HandleAssumption
<1> QED
  BY <1>1, <1>2 DEF Good

-----------------------------------------------------------------------------
(* The invariant.                                                          *)

Accounted(B) == Good(idm, store, jd, B) /\ (~ burned => B = {})

HInv ==
  /\ \E b : \E B \in {{}, {b}} : Accounted(B)
  /\ burned \in BOOLEAN
  /\ burned => idm.next # 0
  /\ disk \in [Files -> SUBSET Rows]
  /\ axis \subseteq Holders

LEMMA HeldIs == Holders = HoldersIn(jd) /\ Held = HeldIn(jd)
BY DEF Holders, Held, HoldersIn, HeldIn

LEMMA LoadedIsTyped ==
  ASSUME disk \in [Files -> SUBSET Rows], NEW f \in Files \cup {NoFile}
  PROVE  Loaded(f) \in Store /\ Loaded(f).file = f
BY HandleAssumption DEF Loaded, Store

LEMMA JointInitKeeps ==
  ASSUME HInv, NEW o \in Openers, NEW f \in Files \cup {NoFile}, JointInit(o, f)
  PROVE  HInv'
<1>1. PICK b : \E B \in {{}, {b}} : Accounted(B)
  BY DEF HInv
<1>2. PICK B \in {{}, {b}} : Accounted(B)
  BY <1>1
<1>3. jd[o] = NoJd /\ disk \in [Files -> SUBSET Rows]
  BY DEF JointInit, HInv
<1>4. PICK h \in NewId(idm) : /\ idm' = Taken(idm, h)
                              /\ store' = With(store, h, Loaded(f))
                              /\ jd' = [jd EXCEPT ![o] = h]
  BY DEF JointInit
<1>5. UNCHANGED <<burned, disk, axis>>
  BY DEF JointInit
<1>6. Loaded(f) \in Store
  BY <1>3, LoadedIsTyped
<1>7. Good(idm, store, jd, B) /\ B \subseteq {b} /\ (~ burned => B = {})
  BY <1>2 DEF Accounted
<1>8. Good(idm', store', jd', B)
  BY <1>3, <1>4, <1>6, <1>7, OpenOne
<1>9. Accounted(B)'
  BY <1>5, <1>7, <1>8 DEF Accounted
<1>10. burned => idm'.next # 0
  <2>1. /\ idm \in [next : Nat, free : SUBSET Nat]
        /\ DOMAIN store \cup idm.free = 0..(idm.next - 1)
        /\ DOMAIN store \cap idm.free = {}
    BY <1>7 DEF Good
  <2>2. idm'.next = idm.next \/ idm'.next = idm.next + 1
    BY <1>4, <2>1, NewIdIsNew
  <2> QED
    BY <2>1, <2>2 DEF HInv
<1>11. Holders \subseteq Holders'
  <2>1. jd \in [Openers -> Nat \cup {NoJd}] /\ jd' \in [Openers -> Nat \cup {NoJd}]
    BY <1>7, <1>8 DEF Good
  <2> QED
    BY <1>3, <1>4, <2>1 DEF Holders
<1> QED
  BY <1>2, <1>5, <1>9, <1>10, <1>11 DEF HInv

\* What the first rec_axis_open does, as one burning and one opening.
LEMMA BurnIsGood ==
  ASSUME HInv, NEW o \in Openers, NEW f \in Files \cup {NoFile}, jd[o] = NoJd,
         ~ burned, NEW g \in NewId(idm), NEW h \in NewId(Taken(idm, g)), Burn(o, f, g, h)
  PROVE  /\ Good(idm', store', jd', {g})
         /\ g \notin DOMAIN store /\ h \notin DOMAIN store /\ g # h
         /\ h = 0 => 0 \in idm.free
         /\ idm'.next # 0
<1> DEFINE i  == Taken(idm, g)
           st == With(store, g, Loaded(NoFile))
<1>1. Good(idm, store, jd, {})
  BY DEF HInv, Accounted
<1>2. disk \in [Files -> SUBSET Rows]
  BY DEF HInv
<1>3. /\ Loaded(NoFile) \in Store /\ Loaded(NoFile).file = NoFile
      /\ Loaded(f) \in Store
  BY <1>2, LoadedIsTyped
<1>4. Good(i, st, jd, {g})
  BY <1>1, <1>3, BurnOne
<1>6. /\ idm' = Taken(i, h)
      /\ store' = With(st, h, Loaded(f))
      /\ jd' = [jd EXCEPT ![o] = h]
  BY DEF Burn
<1>7. Good(idm', store', jd', {g})
  <2> HIDE DEF i, st
  <2>1. h \in NewId(i)
    BY DEF i
  <2>2. {g} \subseteq {g}
    OBVIOUS
  <2> QED
    BY <1>3, <1>4, <1>6, <2>1, <2>2, OpenOne
<1>8. /\ g \in Nat /\ g \notin DOMAIN store
      /\ i.free = idm.free \ {g}
      /\ idm.next \in Nat
      /\ i.next \in Nat
      /\ g < i.next
  <2>1. /\ idm \in [next : Nat, free : SUBSET Nat]
        /\ DOMAIN store \cup idm.free = 0..(idm.next - 1)
        /\ DOMAIN store \cap idm.free = {}
    BY <1>1 DEF Good
  <2>2. /\ i \in [next : Nat, free : SUBSET Nat]
        /\ g \in Nat /\ g \notin DOMAIN store /\ i.free = idm.free \ {g}
        /\ (DOMAIN store \cup {g}) \cup i.free = 0..(i.next - 1)
    BY <2>1, NewIdIsNew
  <2>3. g \in 0..(i.next - 1)
    BY <2>2
  <2> QED
    BY <2>1, <2>2, <2>3
<1>9. /\ h \notin DOMAIN st
      /\ \/ i.free = {} /\ h = i.next /\ idm'.next = i.next + 1
         \/ h \in i.free /\ idm'.next = i.next
  <2>1. /\ i \in [next : Nat, free : SUBSET Nat]
        /\ DOMAIN st \cup i.free = 0..(i.next - 1)
        /\ DOMAIN st \cap i.free = {}
    BY <1>4 DEF Good
  <2> HIDE DEF i, st
  <2>2. h \in NewId(i)
    BY DEF i
  <2> QED
    BY <1>6, <2>1, <2>2, NewIdIsNew
<1>10. DOMAIN st = DOMAIN store \cup {g}
  BY DEF With
<1>11. g \notin DOMAIN store /\ h \notin DOMAIN store /\ g # h
  BY <1>8, <1>9, <1>10
<1>12. (h = 0 => 0 \in idm.free) /\ idm'.next # 0
  BY <1>8, <1>9
<1> QED
  BY <1>7, <1>11, <1>12

LEMMA RecAxisOpenKeeps ==
  ASSUME HInv, NEW o \in Openers, NEW f \in Files \cup {NoFile}, RecAxisOpen(o, f)
  PROVE  HInv' /\ (jd'[o] = 0 => 0 \in idm.free)
<1>1. burned' = TRUE /\ axis' = axis \cup {o} /\ disk' = disk /\ jd[o] = NoJd
  BY DEF RecAxisOpen
<1>2. jd[o] = NoJd /\ disk \in [Files -> SUBSET Rows]
  BY <1>1 DEF HInv
<1>3. jd \in [Openers -> Nat \cup {NoJd}]
  BY DEF HInv, Accounted, Good
<1>4. ASSUME NEW h \in Nat, jd' = [jd EXCEPT ![o] = h]
      PROVE  axis' \subseteq Holders'
  BY <1>1, <1>2, <1>3, <1>4 DEF HInv, Holders, NoJd
<1>5. CASE burned
  <2>1. PICK b : \E B \in {{}, {b}} : Accounted(B)
    BY DEF HInv
  <2>2. PICK B \in {{}, {b}} : Accounted(B)
    BY <2>1
  <2>3. Good(idm, store, jd, B) /\ B \subseteq {b}
    BY <2>2 DEF Accounted
  <2>4. PICK h \in NewId(idm) : /\ idm' = Taken(idm, h)
                                /\ store' = With(store, h, Loaded(f))
                                /\ jd' = [jd EXCEPT ![o] = h]
    BY <1>5 DEF RecAxisOpen
  <2>5. Loaded(f) \in Store
    BY <1>2, LoadedIsTyped
  <2>6. Good(idm', store', jd', B)
    BY <1>2, <2>3, <2>4, <2>5, OpenOne
  <2>7. idm.next # 0
    BY <1>5 DEF HInv
  <2>8. h \in Nat /\ idm'.next # 0 /\ (h = 0 => 0 \in idm.free)
    BY <2>3, <2>4, <2>7, NewIdIsNew DEF Good
  <2>9. Accounted(B)'
    BY <1>1, <2>6 DEF Accounted
  <2> QED
    BY <1>1, <1>2, <1>3, <1>4, <2>2, <2>4, <2>8, <2>9 DEF HInv
<1>6. CASE ~ burned
  <2>1. PICK g \in NewId(idm) : \E h \in NewId(Taken(idm, g)) : Burn(o, f, g, h)
    BY <1>6 DEF RecAxisOpen
  <2>2. PICK h \in NewId(Taken(idm, g)) : Burn(o, f, g, h)
    BY <2>1
  <2>3. Good(idm', store', jd', {g}) /\ (h = 0 => 0 \in idm.free) /\ idm'.next # 0
    BY <1>1, <1>6, <2>2, BurnIsGood
  <2>4. jd' = [jd EXCEPT ![o] = h]
    BY <2>2 DEF Burn
  <2>5. jd'[o] = h
    BY <1>3, <2>4
  <2>6. h \in Nat
    <3>1. h \in Taken(idm, g).free \/ h = Taken(idm, g).next
      BY DEF NewId
    <3>2. /\ idm \in [next : Nat, free : SUBSET Nat]
          /\ DOMAIN store \cup idm.free = 0..(idm.next - 1)
          /\ DOMAIN store \cap idm.free = {}
      BY DEF HInv, Accounted, Good
    <3>3. Taken(idm, g) \in [next : Nat, free : SUBSET Nat]
      BY <3>2, NewIdIsNew
    <3> QED
      BY <3>1, <3>3
  <2>7. Accounted({g})'
    BY <1>1, <2>3 DEF Accounted
  <2> QED
    BY <1>1, <1>2, <1>4, <2>3, <2>4, <2>5, <2>6, <2>7 DEF HInv
<1> QED
  BY <1>5, <1>6 DEF HInv

LEMMA FlushIsTyped ==
  ASSUME HInv, Flush PROVE disk' \in [Files -> SUBSET Rows]
<1>1. disk \in [Files -> SUBSET Rows] /\ store \in [DOMAIN store -> Store]
  BY DEF HInv, Accounted, Good
<1>2. \A f \in Files : \A h \in Backing(f) : store[h].ti \in SUBSET Rows
  BY <1>1 DEF Backing, Store
<1>3. \A f \in Files : Contents(f) \subseteq SUBSET Rows
  BY <1>1, <1>2 DEF Contents
<1>4. disk' \in [Files -> UNION {Contents(f) : f \in Files}]
      /\ \A f \in Files : disk'[f] \in Contents(f)
  BY DEF Flush
<1> QED
  BY <1>3, <1>4

LEMMA JointCloseKeeps ==
  ASSUME HInv, NEW o \in Openers, JointClose(o)
  PROVE  HInv'
<1>1. PICK b : \E B \in {{}, {b}} : Accounted(B)
  BY DEF HInv
<1>2. PICK B \in {{}, {b}} : Accounted(B)
  BY <1>1
<1>3. /\ jd[o] # NoJd /\ Flush /\ burned' = burned /\ axis' = axis \ {o}
      /\ store' = Without(store, jd[o])
      /\ idm' = GivenBack(idm, jd[o])
      /\ jd' = [jd EXCEPT ![o] = NoJd]
  BY DEF JointClose
<1>4. Good(idm, store, jd, B)
  BY <1>2 DEF Accounted
<1>5. Good(idm', store', jd', B)
  BY <1>3, <1>4, CloseOne
<1>6. Accounted(B)'
  BY <1>2, <1>3, <1>5 DEF Accounted
<1>7. idm'.next = idm.next
  BY <1>3, <1>4 DEF GivenBack, Good
<1>8. axis' \subseteq Holders'
  BY <1>3, <1>4 DEF HInv, Holders, Good
<1> QED
  BY <1>2, <1>3, <1>6, <1>7, <1>8, FlushIsTyped DEF HInv

LEMMA RewriteKeeps ==
  ASSUME HInv, NEW o \in Openers, NEW rows \in SUBSET Rows, Rewrite(o, rows)
  PROVE  HInv'
<1>1. PICK b : \E B \in {{}, {b}} : Accounted(B)
  BY DEF HInv
<1>2. PICK B \in {{}, {b}} : Accounted(B)
  BY <1>1
<1>3. /\ jd[o] # NoJd /\ UNCHANGED <<idm, burned, disk, jd, axis>>
      /\ store' = [store EXCEPT ![jd[o]].ti = rows]
  BY DEF Rewrite
<1>4. Good(idm, store, jd, B)
  BY <1>2 DEF Accounted
<1>5. Good(idm, store', jd, B)
  BY <1>3, <1>4, RewriteOne
<1>6. Accounted(B)'
  BY <1>2, <1>3, <1>5 DEF Accounted
<1> QED
  BY <1>2, <1>3, <1>6 DEF HInv, Holders

LEMMA ResetKeeps ==
  ASSUME Reset, disk' \in [Files -> SUBSET Rows] PROVE HInv'
<1>1. Good(idm', store', jd', {})
  BY NothingOpen DEF Reset
<1>2. Accounted({})'
  BY <1>1 DEF Accounted
<1> QED
  BY <1>2 DEF HInv, Reset

LEMMA HInvInit == HInit => HInv
<1> SUFFICES ASSUME HInit PROVE HInv
  OBVIOUS
<1>1. Good(idm, store, jd, {})
  BY NothingOpen DEF HInit
<1>2. Accounted({})
  BY <1>1 DEF Accounted
<1> QED
  BY <1>2 DEF HInv, HInit

LEMMA CallKeeps ==
  ASSUME HInv, NEW o \in Openers, Call(o) PROVE HInv'
BY JointInitKeeps, RecAxisOpenKeeps, RewriteKeeps, JointCloseKeeps DEF Call

LEMMA HInvStep == HInv /\ [HNext]_hvars => HInv'
<1> SUFFICES ASSUME HInv, [HNext]_hvars PROVE HInv'
  OBVIOUS
<1>1. CASE UNCHANGED hvars
  BY <1>1 DEF hvars, HInv, Accounted, Holders
<1>2. CASE Save
  BY <1>2, FlushIsTyped DEF Save, HInv, Accounted, Holders
<1>3. CASE Exit
  BY <1>3, FlushIsTyped, ResetKeeps DEF Exit
<1>4. CASE Crash
  BY <1>4, ResetKeeps DEF Crash, HInv
<1> QED
  BY <1>1, <1>2, <1>3, <1>4, CallKeeps DEF HNext, Call

LEMMA HInvariant == HSpec => []HInv
BY HInvInit, HInvStep, PTL DEF HSpec

-----------------------------------------------------------------------------
(* What follows from it.                                                   *)

LEMMA HInvTells == HInv => HTypeOK /\ NotShared /\ InTable
<1> SUFFICES ASSUME HInv PROVE HTypeOK /\ NotShared /\ InTable
  OBVIOUS
<1>1. PICK B : Good(idm, store, jd, B)
  BY DEF HInv, Accounted
<1>2. HTypeOK
  BY <1>1 DEF HTypeOK, HInv, Good
<1>3. NotShared
  BY <1>1, HeldIs DEF NotShared, Good
<1>4. InTable
  <2>1. idm.next \in Nat /\ idm.next <= TableSize /\ DOMAIN store \subseteq 0..(idm.next - 1)
    BY <1>1 DEF Good
  <2>2. 0..(idm.next - 1) \subseteq 0..(TableSize - 1)
    BY <2>1, HandleAssumption
  <2> QED
    BY <2>1, <2>2 DEF InTable
<1> QED
  BY <1>2, <1>3, <1>4

\* Type correctness of the allocator, the table, the disk and the openers' handles.
THEOREM HTypeCorrect == HSpec => []HTypeOK
BY HInvariant, HInvTells, PTL

\* However often stores are closed and opened, by joint_init or by rec_axis_open,
\* no two openers hold one handle and none is handed out while it is in use.
THEOREM HandlesAreNotShared == HSpec => []NotShared
BY HInvariant, HInvTells, PTL

\* joint_init never indexes ti_dbs past its end, for any number of openers below
\* TI_DBS_MAX, the burned entry included.
THEOREM TableIsLargeEnough == HSpec => []InTable
BY HInvariant, HInvTells, PTL

\* rec_axis_open returns 0 only after a joint_close gave 0 back.
THEOREM ZeroOnlyAfterClose == HSpec => ZeroWasClosed
<1>1. HInv /\ [HNext]_hvars => [\A o \in axis' \ axis : jd'[o] = 0 => 0 \in idm.free]_hvars
  <2> SUFFICES ASSUME HInv, HNext, NEW o \in axis' \ axis, jd'[o] = 0
               PROVE  0 \in idm.free
    OBVIOUS
  <2>1. ASSUME NEW p \in Openers, NEW f \in Files \cup {NoFile}, RecAxisOpen(p, f)
        PROVE  0 \in idm.free
    BY <2>1, RecAxisOpenKeeps DEF RecAxisOpen
  <2>2. ASSUME NEW p \in Openers, NEW f \in Files \cup {NoFile}, JointInit(p, f)
        PROVE  FALSE
    BY <2>2 DEF JointInit
  <2>3. ASSUME NEW p \in Openers, NEW rows \in SUBSET Rows, Rewrite(p, rows)
        PROVE  FALSE
    BY <2>3 DEF Rewrite
  <2>4. ASSUME NEW p \in Openers, JointClose(p)
        PROVE  FALSE
    BY <2>4 DEF JointClose
  <2>5. CASE Save \/ Exit \/ Crash
    BY <2>5 DEF Save, Exit, Crash, Reset
  <2> QED
    BY <2>1, <2>2, <2>3, <2>4, <2>5 DEF HNext
<1> QED
  BY <1>1, HInvariant, PTL DEF HSpec, ZeroWasClosed

-----------------------------------------------------------------------------
(* Handles implements Durable.                                             *)

\* A step after which every entry with a file is one that was there, or h behind
\* an f that had none.
LEMMA StillApart ==
  ASSUME FilesApart, NEW f \in Files \cup {NoFile}, Unopened(f), NEW h,
         \A x \in DOMAIN store' :
           \/ store'[x].file = NoFile
           \/ x = h /\ store'[x].file = f
           \/ x \in DOMAIN store /\ store'[x].file = store[x].file
  PROVE  FilesApart'
BY DEF FilesApart, Unopened, Backing

LEMMA FilesApartStep == HInv /\ FilesApart /\ [HNext]_hvars => FilesApart'
<1> SUFFICES ASSUME HInv, FilesApart, [HNext]_hvars PROVE FilesApart'
  OBVIOUS
<1>1. CASE UNCHANGED store
  BY <1>1 DEF FilesApart
<1>2. CASE Reset
  BY <1>2 DEF Reset, FilesApart
<1>3. ASSUME NEW o \in Openers, NEW f \in Files \cup {NoFile}, Unopened(f), JointInit(o, f)
      PROVE  FilesApart'
  <2>1. PICK h : store' = With(store, h, Loaded(f))
    BY <1>3 DEF JointInit
  <2> QED
    BY <1>3, <2>1, StillApart DEF With, Loaded
<1>4. ASSUME NEW o \in Openers, NEW f \in Files \cup {NoFile}, Unopened(f), RecAxisOpen(o, f)
      PROVE  FilesApart'
  <2>1. CASE \E h : store' = With(store, h, Loaded(f))
    BY <1>4, <2>1, StillApart DEF With, Loaded
  <2>2. CASE \E g, h : store' = With(With(store, g, Loaded(NoFile)), h, Loaded(f))
    <3>1. PICK g, h : store' = With(With(store, g, Loaded(NoFile)), h, Loaded(f))
      BY <2>2
    <3>2. \A x \in DOMAIN store' :
            \/ store'[x].file = NoFile
            \/ x = h /\ store'[x].file = f
            \/ x \in DOMAIN store /\ store'[x].file = store[x].file
      BY <3>1 DEF With, Loaded
    <3> QED
      BY <1>4, <3>2, StillApart
  <2> QED
    BY <1>4, <2>1, <2>2 DEF RecAxisOpen, Burn
<1>5. ASSUME NEW o \in Openers, NEW rows \in SUBSET Rows, Rewrite(o, rows)
      PROVE  FilesApart'
  <2>1. store' = [store EXCEPT ![jd[o]].ti = rows] /\ store \in [DOMAIN store -> Store]
    BY <1>5 DEF Rewrite, HInv, Accounted, Good
  <2>2. DOMAIN store' = DOMAIN store /\ \A x \in DOMAIN store : store'[x].file = store[x].file
    BY <2>1 DEF Store
  <2> QED
    BY <2>2 DEF FilesApart
<1>6. ASSUME NEW o \in Openers, JointClose(o)
      PROVE  FilesApart'
  BY <1>6 DEF JointClose, Without, FilesApart
<1> QED
  BY <1>1, <1>2, <1>3, <1>4, <1>5, <1>6 DEF HNext, hvars, Save, Exit, Crash

LEMMA FilesStayApart == HSpec => [](HInv /\ FilesApart)
<1>1. HInit => HInv /\ FilesApart
  BY HInvInit DEF HInit, FilesApart
<1> QED
  BY <1>1, HInvStep, FilesApartStep, PTL DEF HSpec

Facts ==
  /\ Holders \subseteq Openers
  /\ DOMAIN Opened = Holders
  /\ \A o \in Holders : /\ jd[o] \in DOMAIN store
                        /\ Opened[o].file = store[jd[o]].file
                        /\ Opened[o].rows = store[jd[o]].ti
                        /\ Opened[o] = [file |-> store[jd[o]].file, rows |-> store[jd[o]].ti]
  /\ \A o, p \in Holders : jd[o] = jd[p] => o = p
  /\ \A h \in DOMAIN store : store[h].file # NoFile => \E o \in Holders : jd[o] = h
  /\ \A g, h \in DOMAIN store :
       store[g].file = store[h].file /\ store[g].file # NoFile => g = h
  /\ store \in [DOMAIN store -> Store]
  /\ disk \in [Files -> SUBSET Rows]

LEMMA FactsHold == HInv /\ FilesApart => Facts
<1> SUFFICES ASSUME HInv, FilesApart PROVE Facts
  OBVIOUS
<1>1. PICK B : Good(idm, store, jd, B)
  BY DEF HInv, Accounted
<1>2. /\ store \in [DOMAIN store -> Store]
      /\ DOMAIN store = Held \cup B
      /\ \A o, p \in Holders : jd[o] = jd[p] => o = p
      /\ \A h \in B : store[h].file = NoFile
  BY <1>1, HeldIs DEF Good
<1>3. DOMAIN Opened = Holders /\ Holders \subseteq Openers
  BY DEF Opened, Holders
<1>4. \A h \in DOMAIN store : store[h].file # NoFile => \E o \in Holders : jd[o] = h
  BY <1>2 DEF Held
<1>5. \A o \in Holders : jd[o] \in DOMAIN store
  BY <1>2 DEF Held
<1>6. \A o \in Holders :
        Opened[o] = [file |-> store[jd[o]].file, rows |-> store[jd[o]].ti]
  BY DEF Opened
<1> QED
  BY <1>2, <1>3, <1>4, <1>5, <1>6 DEF Facts, HInv, FilesApart

\* A file is in use by Durable's openers if and only if an entry is behind it.
LEMMA InUseIs ==
  ASSUME Facts, NEW f \in Files
  PROVE  f \in D!InUse <=> Backing(f) # {}
<1>1. f # NoFile
  BY HandleAssumption
<1> QED
  BY <1>1 DEF Facts, D!InUse, Backing

LEMMA FlushIsKept ==
  ASSUME HInv, FilesApart, Flush
  PROVE  D!Kept(D!InUse \cap Files)
<1>1. Facts
  BY FactsHold
<1>2. disk' \in [Files -> SUBSET Rows] /\ \A f \in Files : disk'[f] \in Contents(f)
  BY FlushIsTyped DEF Flush
<1>3. ASSUME NEW f \in Files \ (D!InUse \cap Files)
      PROVE  disk'[f] = disk[f]
  BY <1>1, <1>2, <1>3, InUseIs DEF Contents
<1>4. ASSUME NEW o \in DOMAIN Opened, Opened[o].file \in D!InUse \cap Files
      PROVE  disk'[Opened[o].file] = Opened[o].rows
  <2> DEFINE f == Opened[o].file
             h == jd[o]
  <2>1. f \in Files /\ f # NoFile
    BY <1>4, HandleAssumption
  <2>2. /\ h \in DOMAIN store /\ store[h].file = f /\ Opened[o].rows = store[h].ti
        /\ \A g \in DOMAIN store : store[g].file = f => g = h
    BY <1>1, <1>4, <2>1 DEF Facts
  <2>3. Backing(f) = {h}
    BY <2>2 DEF Backing
  <2>4. Contents(f) = {store[h].ti}
    BY <2>3 DEF Contents
  <2> QED
    BY <1>2, <2>1, <2>2, <2>4
<1> QED
  BY <1>2, <1>3, <1>4 DEF D!Kept

\* A step that opens a store for o at a handle not in use, and leaves the other
\* entries of the table alone, is Durable's Open.
LEMMA OpenPromise ==
  ASSUME HInv, FilesApart, NEW o \in Openers, jd[o] = NoJd,
         NEW f \in Files \cup {NoFile}, Unopened(f),
         NEW h \in Nat, h \notin DOMAIN store,
         jd' = [jd EXCEPT ![o] = h],
         store'[h] = Loaded(f),
         \A g \in DOMAIN store : store'[g] = store[g],
         disk' = disk
  PROVE  D!Open(o, f)
<1>1. Facts
  BY FactsHold
<1>2. jd[o] = NoJd /\ (f = NoFile \/ Backing(f) = {})
  BY DEF Unopened
<1>3. jd \in [Openers -> Nat \cup {NoJd}]
  BY DEF HInv, Accounted, Good
<1>4. Holders' = Holders \cup {o} /\ o \notin Holders
  BY <1>2, <1>3 DEF Holders, NoJd
<1>5. \A p \in Holders : jd'[p] = jd[p] /\ store'[jd[p]] = store[jd[p]]
  <2>1. \A p \in Holders : p # o /\ p \in Openers /\ jd[p] \in DOMAIN store
    BY <1>1, <1>4 DEF Facts
  <2> QED
    BY <1>3, <2>1
<1> DEFINE fresh == [file |-> f, rows |-> IF f = NoFile THEN {} ELSE disk[f]]
<1>6. [file |-> store'[jd'[o]].file, rows |-> store'[jd'[o]].ti] = fresh
  <2>1. jd'[o] = h
    BY <1>3
  <2> QED
    BY <2>1 DEF Loaded
<1>7. Opened' = [p \in DOMAIN Opened \cup {o} |-> IF p = o THEN fresh ELSE Opened[p]]
  <2>1. DOMAIN Opened = Holders
    BY DEF Opened
  <2>2. \A p \in Holders : Opened[p] = [file |-> store[jd[p]].file, rows |-> store[jd[p]].ti]
    BY DEF Opened
  <2>3. Opened' = [p \in Holders' |-> [file |-> store'[jd'[p]].file, rows |-> store'[jd'[p]].ti]]
    BY DEF Opened
  <2> HIDE DEF fresh
  <2>4. \A p \in Holders \cup {o} :
          [file |-> store'[jd'[p]].file, rows |-> store'[jd'[p]].ti] =
            IF p = o THEN fresh ELSE Opened[p]
    BY <1>4, <1>5, <1>6, <2>2
  <2> QED
    BY <1>4, <2>1, <2>3, <2>4
<1>8. o \notin DOMAIN Opened
  BY <1>4 DEF Opened
<1>9. f = NoFile \/ f \notin D!InUse
  BY <1>1, <1>2, InUseIs
<1> QED
  BY <1>7, <1>8, <1>9 DEF D!Open

LEMMA JointInitPromise ==
  ASSUME HInv, FilesApart, NEW o \in Openers, NEW f \in Files \cup {NoFile},
         Unopened(f), JointInit(o, f)
  PROVE  D!Open(o, f)
<1>1. PICK h \in NewId(idm) : /\ idm' = Taken(idm, h)
                              /\ store' = With(store, h, Loaded(f))
                              /\ jd' = [jd EXCEPT ![o] = h]
  BY DEF JointInit
<1>2. h \in Nat /\ h \notin DOMAIN store
  BY <1>1, NewIdIsNew DEF HInv, Accounted, Good
<1>3. store'[h] = Loaded(f) /\ \A g \in DOMAIN store : store'[g] = store[g]
  BY <1>1, <1>2 DEF With
<1>4. jd[o] = NoJd /\ disk' = disk
  BY DEF JointInit
<1> QED
  BY <1>1, <1>2, <1>3, <1>4, OpenPromise

LEMMA RecAxisOpenPromise ==
  ASSUME HInv, FilesApart, NEW o \in Openers, NEW f \in Files \cup {NoFile},
         Unopened(f), RecAxisOpen(o, f)
  PROVE  D!Open(o, f)
<1>1. jd[o] = NoJd /\ disk' = disk
  BY DEF RecAxisOpen
<1>2. CASE burned
  <2>1. PICK h \in NewId(idm) : /\ idm' = Taken(idm, h)
                                /\ store' = With(store, h, Loaded(f))
                                /\ jd' = [jd EXCEPT ![o] = h]
    BY <1>2 DEF RecAxisOpen
  <2>2. h \in Nat /\ h \notin DOMAIN store
    BY <2>1, NewIdIsNew DEF HInv, Accounted, Good
  <2>3. store'[h] = Loaded(f) /\ \A g \in DOMAIN store : store'[g] = store[g]
    BY <2>1, <2>2 DEF With
  <2> QED
    BY <1>1, <2>1, <2>2, <2>3, OpenPromise
<1>3. CASE ~ burned
  <2>1. PICK g \in NewId(idm) : \E h \in NewId(Taken(idm, g)) : Burn(o, f, g, h)
    BY <1>3 DEF RecAxisOpen
  <2>2. PICK h \in NewId(Taken(idm, g)) : Burn(o, f, g, h)
    BY <2>1
  <2>3. g \notin DOMAIN store /\ h \notin DOMAIN store /\ g # h /\ Good(idm', store', jd', {g})
    BY <1>1, <1>3, <2>2, BurnIsGood
  <2>4. /\ store' = With(With(store, g, Loaded(NoFile)), h, Loaded(f))
        /\ jd' = [jd EXCEPT ![o] = h]
    BY <2>2 DEF Burn
  <2>5. store'[h] = Loaded(f) /\ \A x \in DOMAIN store : store'[x] = store[x]
    BY <2>3, <2>4 DEF With
  <2>6. h \in Nat
    <3>1. h \in DOMAIN store'
      BY <2>4 DEF With
    <3>2. DOMAIN store' \subseteq 0..(idm'.next - 1)
      BY <2>3 DEF Good
    <3> QED
      BY <3>1, <3>2
  <2> QED
    BY <1>1, <2>3, <2>4, <2>5, <2>6, OpenPromise
<1> QED
  BY <1>2, <1>3 DEF HInv

LEMMA RewritePromise ==
  ASSUME HInv, FilesApart, NEW o \in Openers, NEW rows \in SUBSET Rows, Rewrite(o, rows)
  PROVE  D!Write(o, rows)
<1>1. Facts
  BY FactsHold
<1>2. /\ jd[o] # NoJd /\ jd' = jd /\ disk' = disk
      /\ store' = [store EXCEPT ![jd[o]].ti = rows]
  BY DEF Rewrite
<1>3. o \in Holders /\ Holders' = Holders
  BY <1>2 DEF Holders
<1>4. /\ DOMAIN Opened = Holders /\ jd[o] \in DOMAIN store
      /\ Opened[o].file = store[jd[o]].file
  BY <1>1, <1>3 DEF Facts
<1>5. \A p \in Holders : p # o => store'[jd[p]] = store[jd[p]]
  BY <1>1, <1>2, <1>3 DEF Facts
<1>6. store'[jd[o]] = [store[jd[o]] EXCEPT !.ti = rows]
  BY <1>2, <1>4
<1>7. [file |-> store'[jd[o]].file, rows |-> store'[jd[o]].ti] =
        [file |-> Opened[o].file, rows |-> rows]
  BY <1>1, <1>4, <1>6 DEF Facts, Store
<1>8. Opened' = [Opened EXCEPT ![o] = [file |-> Opened[o].file, rows |-> rows]]
  <2>1. Opened' = [p \in Holders |-> [file |-> store'[jd[p]].file, rows |-> store'[jd[p]].ti]]
    BY <1>2, <1>3 DEF Opened
  <2>2. \A p \in Holders : Opened[p] = [file |-> store[jd[p]].file, rows |-> store[jd[p]].ti]
    BY DEF Opened
  <2> DEFINE w == [file |-> Opened[o].file, rows |-> rows]
  <2>3. [Opened EXCEPT ![o] = w] = [p \in Holders |-> IF p = o THEN w ELSE Opened[p]]
    BY <1>3, <1>4
  <2>4. \A p \in Holders :
          [file |-> store'[jd[p]].file, rows |-> store'[jd[p]].ti] =
            IF p = o THEN w ELSE Opened[p]
    BY <1>5, <1>7, <2>2
  <2> QED
    BY <2>1, <2>3, <2>4
<1> QED
  BY <1>2, <1>3, <1>4, <1>8 DEF D!Write

LEMMA ClosePromise ==
  ASSUME HInv, FilesApart, NEW o \in Openers, JointClose(o)
  PROVE  D!Close(o)
<1>1. Facts
  BY FactsHold
<1>2. /\ jd[o] # NoJd /\ Flush
      /\ store' = Without(store, jd[o])
      /\ jd' = [jd EXCEPT ![o] = NoJd]
  BY DEF JointClose
<1>3. jd \in [Openers -> Nat \cup {NoJd}]
  BY DEF HInv, Accounted, Good
<1>4. Holders' = Holders \ {o} /\ o \in Holders
  BY <1>2, <1>3 DEF Holders
<1>5. \A p \in Holders \ {o} : jd'[p] = jd[p] /\ store'[jd[p]] = store[jd[p]]
  <2>1. \A p \in Holders \ {o} : p \in Openers /\ jd[p] # jd[o] /\ jd[p] \in DOMAIN store
    BY <1>1, <1>4 DEF Facts
  <2> QED
    BY <1>2, <1>3, <2>1 DEF Without
<1>6. Opened' = [p \in DOMAIN Opened \ {o} |-> Opened[p]]
  BY <1>4, <1>5 DEF Opened
<1>7. D!Kept(D!InUse \cap Files)
  BY <1>2, FlushIsKept
<1>8. o \in DOMAIN Opened /\ Opened[o].file \in (D!InUse \cap Files) \cup {NoFile}
  <2>1. o \in DOMAIN Opened /\ Opened[o].file \in Files \cup {NoFile}
    BY <1>1, <1>4 DEF Facts, Store
  <2> QED
    BY <2>1 DEF D!InUse
<1>9. \E F \in SUBSET (D!InUse \cap Files) : Opened[o].file \in F \cup {NoFile} /\ D!Kept(F)
  BY <1>7, <1>8
<1> QED
  BY <1>6, <1>8, <1>9 DEF D!Close

LEMMA ResetPromise ==
  ASSUME Reset PROVE Opened' = D!NoneOpen
<1>1. Holders' = {}
  BY DEF Reset, Holders
<1> QED
  BY <1>1 DEF Opened, D!NoneOpen

LEMMA DurableStep == HInv /\ FilesApart /\ [HNext]_hvars => [D!Next]_<<Opened, disk>>
<1> SUFFICES ASSUME HInv, FilesApart, [HNext]_hvars PROVE [D!Next]_<<Opened, disk>>
  OBVIOUS
<1>1. CASE UNCHANGED hvars
  BY <1>1 DEF hvars, Opened, Holders
<1>2. CASE Save
  <2>1. Opened' = Opened
    BY <1>2 DEF Save, Opened, Holders
  <2> QED
    BY <1>2, <2>1, FlushIsKept DEF Save, D!Save, D!Next
<1>3. CASE Exit
  BY <1>3, FlushIsKept, ResetPromise DEF Exit, D!Exit, D!Next
<1>4. CASE Crash
  BY <1>4, ResetPromise DEF Crash, D!Crash, D!Next
<1>5. ASSUME NEW o \in Openers, NEW f \in Files \cup {NoFile}, Unopened(f),
             JointInit(o, f) \/ RecAxisOpen(o, f)
      PROVE  D!Next
  BY <1>5, JointInitPromise, RecAxisOpenPromise DEF D!Next
<1>6. ASSUME NEW o \in Openers, NEW rows \in SUBSET Rows, Rewrite(o, rows)
      PROVE  D!Next
  BY <1>6, RewritePromise DEF D!Next
<1>7. ASSUME NEW o \in Openers, JointClose(o)
      PROVE  D!Next
  BY <1>7, ClosePromise DEF D!Next
<1> QED
  BY <1>1, <1>2, <1>3, <1>4, <1>5, <1>6, <1>7 DEF HNext

\* What the openers' queries read, and what is on disk, is as Durable promises:
\* no opener's calls change another's store, a closed store is on disk, an exit
\* loses nothing, and a crash no more than what came after the last save.
THEOREM HandlesImplementDurable == HSpec => DurableSpec
<1>1. HInit => D!Init
  BY DEF HInit, D!Init, D!NoneOpen, Opened, Holders
<1>2. QED
  BY <1>1, DurableStep, FilesStayApart, PTL DEF HSpec, DurableSpec, D!Spec, D!dvars
=============================================================================
