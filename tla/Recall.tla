------------------------------- MODULE Recall -------------------------------
(***************************************************************************)
(* The recall kernel's view of one process: it opens stores with           *)
(* rec_axis_open, passes options to rec_axis_config_arg and asks queries,  *)
(* which joint_decode and joint_fill answer from the store behind the      *)
(* handle.  Handles and options are statics of the process and end with    *)
(* it; a query that makes the sweep touch its unallocated set ends the     *)
(* process, and what no store had saved is lost.                           *)
(***************************************************************************)
EXTENDS Handles, Decode, Intervals, Splits

CONSTANTS
  TimeOptions,   \* the texts given to --since and --until
  QueryOptions,  \* the texts given to --query
  Leaves         \* the leaves of the queries asked

ASSUME RowAssumption == Rows \subseteq Interval

ASSUME LeafAssumption ==
  /\ QueryOptions \subseteq QueryText
  /\ \A leaf \in Leaves :
       /\ DOMAIN leaf = 1..Len(leaf) /\ Len(leaf) \in Nat
       /\ \A k \in DOMAIN leaf : leaf[k].key = "query" => leaf[k].val \in QueryText

rvars == <<idm, store, burned, disk, jd, axis, since, until, query>>

RInit == HInit /\ DInit

\* The openers go about their business, and keep the header's rules.
Manage ==
  /\ \/ \E o \in Openers :
          \/ \E f \in Files \cup {NoFile} :
               Unopened(f) /\ (JointInit(o, f) \/ RecAxisOpen(o, f))
          \/ \E rows \in SUBSET Rows : Rewrite(o, rows)
          \/ JointClose(o)
     \/ Save
  /\ UNCHANGED options

Restart == Reset /\ since' = Unset /\ until' = Unset /\ query' = Unset

Leave == Exit /\ Restart

Perish == Crash /\ Restart

Option ==
  /\ \/ \E x \in TimeOptions : ConfigSince(x) \/ ConfigUntil(x)
     \/ \E q \in QueryOptions : ConfigQuery(q)
  /\ UNCHANGED hvars

-----------------------------------------------------------------------------
(* Queries.  The kernel takes the handle 0 for no store.                   *)

Bound(o) == o \in axis /\ jd[o] # 0

Faults(o, leaf) ==
  LET w == Resolve(leaf)
  IN w # Null /\ QueryFaults(store[jd[o]].ti, w.a, w.b)

\* The entities joint_fill puts out.
Found(o, leaf) ==
  LET w == Resolve(leaf)
  IN UNION {s.ids : s \in ToSet(Query(store[jd[o]].ti, w.a, w.b))}

\* joint_decode gives NULL or joint_fill answers: nothing of the process changes.
\* Or the sweep faults.
Ask(o, leaf) ==
  /\ Bound(o)
  /\ \/ ~ Faults(o, leaf) /\ UNCHANGED <<hvars, options>>
     \/ Faults(o, leaf) /\ Crash /\ Restart

RNext ==
  \/ Manage
  \/ Leave
  \/ Perish
  \/ Option
  \/ \E o \in Openers, leaf \in Leaves : Ask(o, leaf)

RSpec == RInit /\ [][RNext]_rvars

-----------------------------------------------------------------------------

OnlyPairs(leaf) == \A k \in DOMAIN leaf : leaf[k].key = "query"

\* A query asked by --query or query= alone never kills the process: pairs are
\* refused when reversed, a point ends with its day.  Once an end is given by
\* itself, by a, b, --since or --until, the window may come out reversed and
\* the sweep fault, and every store of the process is what was last saved.  So
\* may it over an inverted interval, whatever the window (Ordered).
PairsAreSafe ==
  \A o \in Openers, leaf \in Leaves :
    /\ Bound(o)
    /\ OnlyPairs(leaf)
    /\ \/ since = Unset /\ until = Unset
       \/ \E k \in DOMAIN leaf : Accepts(leaf[k].val)
    /\ Ordered(store[jd[o]].ti)
    => ~ Faults(o, leaf)

\* A point query finds everyone who is there at the point, whatever options
\* were given before and however often the store was closed and reopened: in a
\* store without inverted intervals (Ordered) and without two of one entity that
\* overlap or touch (Apart), over which the sweep would fault or count it out.
PointFindsWhoIsThere ==
  \A o \in Openers, leaf \in Leaves :
    /\ Bound(o)
    /\ Len(leaf) = 1 /\ OnlyPairs(leaf)
    /\ leaf[1].val.to = Point /\ Accepts(leaf[1].val)
    /\ Ordered(store[jd[o]].ti) /\ Apart(store[jd[o]].ti)
    => {id \in Ids : Present(store[jd[o]].ti, leaf[1].val.from, id)}
         \subseteq Found(o, leaf)
=============================================================================
