------------------------------ MODULE Presence ------------------------------
(***************************************************************************)
(* What the interval store promises a caller who keeps time: for every     *)
(* entity, the set of instants at which it is there.  A start at ts makes  *)
(* the entity there from ts on; a stop at ts makes it gone from ts on if   *)
(* it is there at ts, and otherwise there at every instant before ts (the  *)
(* backfill of joint_stop); an erase forgets it.  Module Sessions is shown *)
(* to implement this specification.                                        *)
(***************************************************************************)
EXTENDS Integers

CONSTANTS
  Ids,         \* the entities
  Instants,    \* the instants presence is asked about
  Moments      \* the instants starts and stops may name

VARIABLE here  \* here[id]: the instants at which id is there

Before(ts) == {t \in Instants : t < ts}
From(ts)   == {t \in Instants : ts <= t}

Init == here = [id \in Ids |-> {}]

Arrive(ts, id) ==
  /\ ts \notin here[id]
  /\ here' = [here EXCEPT ![id] = @ \cup From(ts)]

Leave(ts, id) ==
  /\ ts \in here[id]
  /\ here' = [here EXCEPT ![id] = @ \ From(ts)]

Backfill(ts, id) ==
  /\ ts \notin here[id]
  /\ here' = [here EXCEPT ![id] = @ \cup Before(ts)]

Forget(id) == here' = [here EXCEPT ![id] = {}]

Next ==
  \E id \in Ids :
    \/ \E ts \in Moments : Arrive(ts, id) \/ Leave(ts, id) \/ Backfill(ts, id)
    \/ Forget(id)

Spec == Init /\ [][Next]_here
=============================================================================
