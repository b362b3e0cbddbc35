------------------------------- MODULE Calls -------------------------------
(***************************************************************************)
(* What joint_start and joint_stop of src/libjoint.c are made of: the test *)
(* of their arguments, and the two ways a set of intervals changes.        *)
(***************************************************************************)
EXTENDS Intervals

CONSTANTS
  NoId,        \* UINT32_MAX, the reserved id: Ids may hold it, no store does
  TsLo, TsHi   \* the accepted range, TS_MIN / 2 and TS_MAX / 2

ASSUME RangeAssumption ==
  /\ TsLo \in Int /\ TsHi \in Int
  /\ MInf < TsLo /\ TsLo <= TsHi /\ TsHi < Inf

\* Mutant: forgets TS_MAX / 2.
AcceptedNoUpper(ts, id) == TsLo <= ts /\ id # NoId

Accepted(ts, id) == TsLo <= ts /\ ts <= TsHi /\ id # NoId

Insert(S, id, start, end) == S \cup {[min |-> start, max |-> end, who |-> id]}

\* Mutant: deletes the open interval and puts nothing back.
FinishLastDrops(S, id, end) ==
  IF OpenOf(S, id) = {} THEN {S} ELSE {S \ {o} : o \in OpenOf(S, id)}

\* Mutant: puts the closed interval and forgets the delete.
FinishLastKeeps(S, id, end) ==
  IF OpenOf(S, id) = {} THEN {S} ELSE {S \cup {Close(o, end)} : o \in OpenOf(S, id)}

\* The open interval the id chain yields first is closed.  The chain's order
\* belongs to the map library, so any of them may be the one.  With no open
\* interval nothing changes.
FinishLast(S, id, end) ==
  IF OpenOf(S, id) = {}
    THEN {S}
    ELSE {(S \ {o}) \cup {Close(o, end)} : o \in OpenOf(S, id)}
=============================================================================
