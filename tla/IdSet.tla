-------------------------------- MODULE IdSet --------------------------------
(***************************************************************************)
(* What the sweep of splits_create asks of its who_set: a set of entity    *)
(* ids.  Deleting is safe only once something was put, because the key     *)
(* array is allocated by the first put; module WhoSet has the hash table   *)
(* that implements this.                                                   *)
(***************************************************************************)
CONSTANT Ids

VARIABLES
  whos,        \* the ids in the set
  allocated,   \* the key array exists
  last,        \* history: the last call, <<"put" or "del", id>>
  dead         \* the process followed a NULL key array

idset == <<whos, allocated, last, dead>>

Empty ==
  /\ whos = {}
  /\ allocated = FALSE
  /\ last = <<>>
  /\ dead = FALSE

PutId(id) ==
  /\ ~ dead
  /\ whos' = whos \cup {id}
  /\ allocated' = TRUE
  /\ last' = <<"put", id>>
  /\ dead' = dead

\* Mutant: deletes nothing.
DelNothing(id) == ~ dead /\ allocated /\ last' = <<"del", id>> /\ UNCHANGED <<whos, allocated, dead>>

DelId(id) ==
  /\ ~ dead
  /\ allocated
  /\ whos' = whos \ {id}
  /\ last' = <<"del", id>>
  /\ UNCHANGED <<allocated, dead>>

Fault(id) ==
  /\ ~ dead
  /\ ~ allocated
  /\ dead' = TRUE
  /\ last' = <<"del", id>>
  /\ UNCHANGED <<whos, allocated>>

SetNext == \E id \in Ids : PutId(id) \/ DelId(id) \/ Fault(id)

SetSpec == Empty /\ [][SetNext]_idset
=============================================================================
