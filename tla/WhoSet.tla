------------------------------- MODULE WhoSet -------------------------------
(***************************************************************************)
(* struct who_set of src/libjoint.c: an open-addressing hash table with    *)
(* tombstones that holds the entities present during one sweep.  A probe   *)
(* walks from the hash slot to the next empty one, around the end of the   *)
(* table; a deletion leaves a tombstone, so that probes go on past it; and *)
(* the table doubles, dropping its tombstones, when a put finds it half    *)
(* used.  It implements IdSet.                                             *)
(*                                                                         *)
(* The rehash of who_set_grow is told slot by slot.  Allocation does not   *)
(* fail here: the code aborts the process when it does.                    *)
(***************************************************************************)
EXTENDS Integers, FiniteSets

CONSTANTS
  Ids,         \* the entity ids
  Free,        \* an empty slot's key (0 in the code, where keys are id + 1)
  HashOf,      \* HashOf[id]: the 32-bit product, before it is masked
  FirstCap     \* the capacity the first put allocates, 64

ASSUME TableAssumption ==
  /\ Free \notin Ids
  /\ HashOf \in [Ids -> Nat]
  /\ FirstCap \in Nat /\ FirstCap >= 2

VARIABLES
  key, del,    \* the slots: an id or Free, and whether it is a tombstone
  cap,         \* how many slots there are; 0 before the first put
  n, used,     \* the counters of the code
  putting,     \* the id whose put made the table grow, or Free
  nkey,        \* the table who_set_grow is filling
  moved,       \* how many slots of the old table it has passed
  last,        \* history: the last call that returned
  dead         \* the process followed the NULL key array

table == <<key, del, cap, n, used>>
growth == <<putting, nkey, moved>>
wvars == <<key, del, cap, n, used, putting, nkey, moved, last, dead>>

Slots(c) == 0..(c - 1)

NewCap == IF cap = 0 THEN FirstCap ELSE 2 * cap

-----------------------------------------------------------------------------
(* Probing.                                                                *)

\* who_set_slot.  Capacities are powers of two: the mask is a remainder.
SlotOf(id, c) == HashOf[id] % c

\* How many steps around a table of c slots lead from i to j.
Steps(i, j, c) == IF i <= j THEN j - i ELSE j - i + c

\* Of the slots S, the one a probe for id meets first.
Met(id, S, c) ==
  {j \in S : \A k \in S : Steps(SlotOf(id, c), j, c) <= Steps(SlotOf(id, c), k, c)}

Before(id, j, S, c) ==
  {k \in S : Steps(SlotOf(id, c), k, c) < Steps(SlotOf(id, c), j, c)}

Empties(k, c) == {j \in Slots(c) : k[j] = Free}

\* The slots a probe does not stop at, tombstones included.
Taken(k, c) == {j \in Slots(c) : k[j] # Free}

LiveIn(k, d, c) == {j \in Slots(c) : k[j] # Free /\ ~ d[j]}

\* Mutant: forgets that the id may be in already.
HaltingEmpty(id, k, d, c) == Empties(k, c)

\* Where the probes of who_set_put and who_set_del end.
Halting(id, k, d, c) == Empties(k, c) \cup {j \in LiveIn(k, d, c) : k[j] = id}

-----------------------------------------------------------------------------

Init ==
  /\ key = [j \in {} |-> Free] /\ del = [j \in {} |-> FALSE]
  /\ cap = 0 /\ n = 0 /\ used = 0
  /\ putting = Free /\ nkey = [j \in {} |-> Free] /\ moved = 0
  /\ last = <<>>
  /\ dead = FALSE

\* The second half of who_set_put, on the table (k, d) of c slots.  An id that
\* is not in takes the first tombstone the probe passed, or where it ended.
PutIn(id, k, d, c, live, use) ==
  \E end \in Met(id, Halting(id, k, d, c), c) :
    /\ cap' = c
    /\ \/ /\ k[end] = id
          /\ key' = k /\ del' = d
          /\ n' = live /\ used' = use
       \/ /\ k[end] = Free
          /\ LET holes == Before(id, end, {j \in Slots(c) : k[j] # Free /\ d[j]}, c)
             IN \E j \in IF holes = {} THEN {end} ELSE Met(id, holes, c) :
                  /\ key' = [k EXCEPT ![j] = id]
                  /\ del' = [d EXCEPT ![j] = FALSE]
          /\ n' = live + 1 /\ used' = use + 1

Idle == putting = Free /\ ~ dead

\* Mutant: the table may fill up.
FullAtCap == used >= cap

Full == used >= cap \div 2

\* who_set_put when there is room.
Put(id) ==
  /\ Idle
  /\ ~ Full
  /\ PutIn(id, key, del, cap, n, used)
  /\ last' = <<"put", id>>
  /\ UNCHANGED <<growth, dead>>

\* who_set_put calls who_set_grow, which allocates the new arrays ...
Grow(id) ==
  /\ Idle
  /\ Full
  /\ putting' = id
  /\ nkey' = [j \in Slots(NewCap) |-> Free]
  /\ moved' = 0
  /\ UNCHANGED <<table, last, dead>>

\* Mutant: tombstones are moved too.
CarriedDead(j) == key[j] # Free

Carried(j) == key[j] # Free /\ ~ del[j]

\* ... moves the old slots one after the other ...
Move ==
  /\ putting # Free
  /\ moved < cap
  /\ moved' = moved + 1
  /\ IF Carried(moved)
       THEN \E j \in Met(key[moved], Empties(nkey, NewCap), NewCap) :
              nkey' = [nkey EXCEPT ![j] = key[moved]]
       ELSE nkey' = nkey
  /\ UNCHANGED <<table, putting, last, dead>>

\* ... and swaps the tables, with which the put goes on.
Grown ==
  /\ putting # Free
  /\ moved = cap
  /\ PutIn(putting, nkey, [j \in Slots(NewCap) |-> FALSE], NewCap, n, n)
  /\ putting' = Free
  /\ nkey' = [j \in {} |-> Free]
  /\ moved' = 0
  /\ last' = <<"put", putting>>
  /\ dead' = dead

\* Mutant: the slot is emptied.
BuryEmpty(j) ==
  key' = [key EXCEPT ![j] = Free] /\ del' = del /\ used' = used

\* Mutant: the tombstone is not counted any more.
BuryUncounted(j) ==
  key' = key /\ del' = [del EXCEPT ![j] = TRUE] /\ used' = used - 1

Bury(j) == key' = key /\ del' = [del EXCEPT ![j] = TRUE] /\ used' = used

\* who_set_del: nothing changes when the id is not in.
Del(id) ==
  /\ Idle
  /\ cap # 0
  /\ \E end \in Met(id, Halting(id, key, del, cap), cap) :
       \/ /\ key[end] = Free
          /\ UNCHANGED <<key, del, n, used>>
       \/ /\ key[end] = id
          /\ Bury(end)
          /\ n' = n - 1
  /\ last' = <<"del", id>>
  /\ UNCHANGED <<cap, growth, dead>>

\* who_set_del before any put: s->key is NULL and the index is the unmasked hash.
NullDel(id) ==
  /\ Idle
  /\ cap = 0
  /\ dead' = TRUE
  /\ last' = <<"del", id>>
  /\ UNCHANGED <<table, growth>>

Next ==
  \/ \E id \in Ids : Put(id) \/ Grow(id) \/ Del(id) \/ NullDel(id)
  \/ Move
  \/ Grown

Spec == Init /\ [][Next]_wvars

-----------------------------------------------------------------------------

Live == LiveIn(key, del, cap)

\* Type correctness: the slots hold ids, and the counters stay below half the
\* capacity.
TypeOK ==
  /\ cap \in Nat /\ n \in Nat /\ used \in Nat
  /\ n <= used /\ used <= cap \div 2
  /\ key \in [Slots(cap) -> Ids \cup {Free}]
  /\ del \in [Slots(cap) -> BOOLEAN]
  /\ putting \in Ids \cup {Free}
  /\ putting # Free => nkey \in [Slots(NewCap) -> Ids \cup {Free}]
  /\ moved \in 0..cap
  /\ dead \in BOOLEAN

\* An id is in at most one live slot, however puts, tombstones, reused
\* tombstones and rehashes follow each other.  split_create would otherwise
\* name an entity twice, and one deletion would not take it out.
LiveOnce == \A i, j \in Live : key[i] = key[j] => i = j

\* n counts the live slots.  split_create reserves room for n ids and then
\* writes one for each live slot, and n is the count joint_next reports.
CountIsLive == n = Cardinality(Live)

\* The counter by which the code decides to grow never falls short of the slots
\* that stop no probe, tombstones and reused tombstones included, in the table
\* and in the one a rehash fills (whose `used` will be n).  It may exceed them:
\* a put that reuses a tombstone counts the slot again, against the comment
\* "live + tombstone" on it.
TakenIsCounted ==
  /\ Cardinality(Taken(key, cap)) <= used
  /\ putting # Free => Cardinality(Taken(nkey, NewCap)) <= n

\* Every probe ends: a table that exists has an empty slot, and so does the one
\* a rehash is filling.  `while (s->key[j])` has no other way out for an id
\* that is not in.
ProbesEnd ==
  /\ cap # 0 => Empties(key, cap) # {}
  /\ putting # Free => Empties(nkey, NewCap) # {}

\* The hash table is the set of ids the sweep takes it for: puts and deletions
\* find what was put before, past tombstones, around the end of the table and
\* across rehashes.
AsSet == INSTANCE IdSet WITH
           whos <- {key[j] : j \in Live},
           allocated <- (cap # 0)

IdSetSpec == AsSet!SetSpec
=============================================================================
