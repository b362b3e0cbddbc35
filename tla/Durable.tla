------------------------------ MODULE Durable ------------------------------
(***************************************************************************)
(* What joint_init, joint_close and a process that ends promise of the     *)
(* stores: each opener has one of its own, which nobody else's calls       *)
(* change; a closed store is on disk; a process that exits loses nothing;  *)
(* one that crashes loses no more than what came after the last save.      *)
(* Module Handles is shown to implement this specification.                *)
(***************************************************************************)
CONSTANTS
  Openers,     \* who opens stores
  Files, NoFile,
  Rows         \* what a store may hold

VARIABLES
  open,        \* open[o], for who has a store: its file and what it holds
  disk         \* disk[f]: what the file holds

dvars == <<open, disk>>

InUse == {open[o].file : o \in DOMAIN open}

\* The stores behind the files F, and no others, are written to disk.
Kept(F) ==
  /\ disk' \in [Files -> SUBSET Rows]
  /\ \A f \in Files \ F : disk'[f] = disk[f]
  /\ \A o \in DOMAIN open :
       open[o].file \in F => disk'[open[o].file] = open[o].rows

NoneOpen == [o \in {} |-> [file |-> NoFile, rows |-> {}]]

Init ==
  /\ open = NoneOpen
  /\ disk = [f \in Files |-> {}]

Open(o, f) ==
  /\ o \notin DOMAIN open
  /\ f = NoFile \/ f \notin InUse
  /\ LET fresh == [file |-> f, rows |-> IF f = NoFile THEN {} ELSE disk[f]]
     IN open' = [p \in DOMAIN open \cup {o} |-> IF p = o THEN fresh ELSE open[p]]
  /\ disk' = disk

Write(o, rows) ==
  /\ o \in DOMAIN open
  /\ open' = [open EXCEPT ![o] = [file |-> open[o].file, rows |-> rows]]
  /\ disk' = disk

\* A close may save the stores of others, too.
Close(o) ==
  /\ o \in DOMAIN open
  /\ open' = [p \in DOMAIN open \ {o} |-> open[p]]
  /\ \E F \in SUBSET (InUse \cap Files) : open[o].file \in F \cup {NoFile} /\ Kept(F)

Save ==
  /\ open' = open
  /\ Kept(InUse \cap Files)

Exit ==
  /\ open' = NoneOpen
  /\ Kept(InUse \cap Files)

Crash ==
  /\ open' = NoneOpen
  /\ disk' = disk

Next ==
  \/ \E o \in Openers :
       \/ \E f \in Files \cup {NoFile} : Open(o, f)
       \/ \E rows \in SUBSET Rows : Write(o, rows)
       \/ Close(o)
  \/ Save
  \/ Exit
  \/ Crash

Spec == Init /\ [][Next]_dvars
=============================================================================
