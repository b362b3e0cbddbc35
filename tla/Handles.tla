------------------------------ MODULE Handles ------------------------------
(***************************************************************************)
(* The handles of src/libjoint.c: joint_init, joint_close, rec_axis_open   *)
(* and what is left of the stores when the process ends.                   *)
(*                                                                         *)
(* A handle is an id from idm and indexes ti_dbs, a table of TableSize     *)
(* entries.  Of an entry's three maps only the primary one is here, which  *)
(* alone is file-backed (the indexes are the business of module Indexes).  *)
(* idm and the maps are libraries: idm hands out an id that was given back *)
(* if there is one and else the least it never handed out; corm_save       *)
(* writes every file-backed map; corm saves by itself when the process     *)
(* exits.                                                                  *)
(*                                                                         *)
(* joint.h:102-108 sets two rules to the openers.  That a handle is not    *)
(* used after its close is kept throughout.  That a file is closed before  *)
(* it is opened again is a condition of HNext and of no action: the code   *)
(* does not look, and module Npm has openers who do not keep it.           *)
(***************************************************************************)
EXTENDS Integers, FiniteSets

CONSTANTS
  Openers,       \* the parts of the program that open stores
  Files, NoFile, \* NoFile is the file name NULL: an in-memory store
  Rows,          \* what the primary map may hold
  TableSize      \* TI_DBS_MAX

ASSUME HandleAssumption ==
  /\ NoFile \notin Files
  /\ TableSize \in Nat
  /\ IsFiniteSet(Openers)
  /\ Cardinality(Openers) < TableSize

NoJd == -1       \* an opener that holds no handle

VARIABLES
  idm,           \* next: the least id never handed out; free: those given back
  store,         \* ti_dbs, the open entries only: the file and what ti holds
  burned,        \* the static of rec_axis_open
  disk,          \* disk[f]: what is in the file
  jd,            \* jd[o]: the handle o holds
  axis           \* the openers whose handle rec_axis_open returned

hvars == <<idm, store, burned, disk, jd, axis>>

-----------------------------------------------------------------------------
(* idm, the table and the maps.                                            *)

\* Mutant: hands out what is in use.
NewIdInUse(i) == {i.next} \cup (0..(i.next - 1))

NewId(i) == IF i.free # {} THEN i.free ELSE {i.next}

\* Mutant: forgets to move on.
TakenAgain(i, h) == [i EXCEPT !.free = @ \ {h}]

Taken(i, h) ==
  [next |-> IF h = i.next THEN h + 1 ELSE i.next, free |-> i.free \ {h}]

\* Mutant: forgets idm_del.
KeptBack(i, h) == i

GivenBack(i, h) == [i EXCEPT !.free = @ \cup {h}]

\* tidbs_init: the primary map is read from its file.
Loaded(f) == [file |-> f, ti |-> IF f = NoFile THEN {} ELSE disk[f]]

With(st, h, entry) == [g \in DOMAIN st \cup {h} |-> IF g = h THEN entry ELSE st[g]]

Without(st, h) == [g \in DOMAIN st \ {h} |-> st[g]]

Backing(f) == {h \in DOMAIN store : store[h].file = f}

\* What a save may leave in f.  A file that two entries are behind, against the
\* header's rule, is written by both: which of them remains is corm's affair.
Contents(f) ==
  IF Backing(f) = {} THEN {disk[f]} ELSE {store[h].ti : h \in Backing(f)}

\* corm_save
Flush ==
  disk' \in {d \in [Files -> UNION {Contents(f) : f \in Files}] :
               \A f \in Files : d[f] \in Contents(f)}

-----------------------------------------------------------------------------

HInit ==
  /\ idm = [next |-> 0, free |-> {}]
  /\ store = [h \in {} |-> Loaded(NoFile)]
  /\ burned = FALSE
  /\ disk = [f \in Files |-> {}]
  /\ jd = [o \in Openers |-> NoJd]
  /\ axis = {}

JointInit(o, f) ==
  /\ jd[o] = NoJd
  /\ \E h \in NewId(idm) :
       /\ idm' = Taken(idm, h)
       /\ store' = With(store, h, Loaded(f))
       /\ jd' = [jd EXCEPT ![o] = h]
  /\ UNCHANGED <<burned, disk, axis>>

\* Mutant: opens first and burns after.
BurnLate(o, f, g, h) ==
  /\ idm' = Taken(Taken(idm, g), h)
  /\ store' = With(With(store, g, Loaded(f)), h, Loaded(NoFile))
  /\ jd' = [jd EXCEPT ![o] = g]

\* The first rec_axis_open of a process opens g in memory and forgets it.
Burn(o, f, g, h) ==
  /\ idm' = Taken(Taken(idm, g), h)
  /\ store' = With(With(store, g, Loaded(NoFile)), h, Loaded(f))
  /\ jd' = [jd EXCEPT ![o] = h]

RecAxisOpen(o, f) ==
  /\ jd[o] = NoJd
  /\ \/ /\ burned
        /\ \E h \in NewId(idm) :
             /\ idm' = Taken(idm, h)
             /\ store' = With(store, h, Loaded(f))
             /\ jd' = [jd EXCEPT ![o] = h]
     \/ /\ ~ burned
        /\ \E g \in NewId(idm) : \E h \in NewId(Taken(idm, g)) : Burn(o, f, g, h)
  /\ burned' = TRUE
  /\ axis' = axis \cup {o}
  /\ disk' = disk

\* A call on o's store, after which it holds `rows`: what rows each call makes
\* of those before is the business of module Timeline.
Rewrite(o, rows) ==
  /\ jd[o] # NoJd
  /\ store' = [store EXCEPT ![jd[o]].ti = rows]
  /\ UNCHANGED <<idm, burned, disk, jd, axis>>

\* Mutant: closes the maps before it saves.
CloseUnsaved(o) ==
  /\ jd[o] # NoJd
  /\ disk' = [f \in Files |-> IF f = store[jd[o]].file THEN disk[f]
                               ELSE CHOOSE rows \in Contents(f) : TRUE]
  /\ store' = Without(store, jd[o])
  /\ idm' = GivenBack(idm, jd[o])
  /\ jd' = [jd EXCEPT ![o] = NoJd]
  /\ axis' = axis \ {o}
  /\ burned' = burned

JointClose(o) ==
  /\ jd[o] # NoJd
  /\ Flush
  /\ store' = Without(store, jd[o])
  /\ idm' = GivenBack(idm, jd[o])
  /\ jd' = [jd EXCEPT ![o] = NoJd]
  /\ axis' = axis \ {o}
  /\ burned' = burned

\* The program calls corm_save, as joint_axis_roundtrip_test.c:76 does.
Save == Flush /\ UNCHANGED <<idm, store, burned, jd, axis>>

\* A new process begins.
Reset ==
  /\ idm' = [next |-> 0, free |-> {}]
  /\ store' = [h \in {} |-> Loaded(NoFile)]
  /\ burned' = FALSE
  /\ jd' = [o \in Openers |-> NoJd]
  /\ axis' = {}

Exit  == Flush /\ Reset
Crash == disk' = disk /\ Reset

\* The rule the header sets to whoever opens f.
Unopened(f) == f = NoFile \/ Backing(f) = {}

HNext ==
  \/ \E o \in Openers :
       \/ \E f \in Files \cup {NoFile} :
            Unopened(f) /\ (JointInit(o, f) \/ RecAxisOpen(o, f))
       \/ \E rows \in SUBSET Rows : Rewrite(o, rows)
       \/ JointClose(o)
  \/ Save
  \/ Exit
  \/ Crash

HSpec == HInit /\ [][HNext]_hvars

-----------------------------------------------------------------------------

Holders == {o \in Openers : jd[o] # NoJd}

Held == {jd[o] : o \in Holders}

Store == [file : Files \cup {NoFile}, ti : SUBSET Rows]

HTypeOK ==
  /\ idm \in [next : Nat, free : SUBSET Nat]
  /\ DOMAIN store \cup idm.free \subseteq 0..(idm.next - 1)
  /\ store \in [DOMAIN store -> Store]
  /\ burned \in BOOLEAN
  /\ disk \in [Files -> SUBSET Rows]
  /\ jd \in [Openers -> Nat \cup {NoJd}]
  /\ axis \subseteq Holders

\* However handles are given back and handed out again, no two openers hold
\* the same one, what is held is open, and what may be handed out next is not.
NotShared ==
  /\ \A o, p \in Holders : jd[o] = jd[p] => o = p
  /\ Held \subseteq DOMAIN store
  /\ DOMAIN store \cap idm.free = {}

\* The table, which joint_init indexes without a check, is large enough for as
\* many openers as it has entries but one, the burned one, however often they
\* open and close.
InTable == DOMAIN store \subseteq 0..(TableSize - 1)

\* rec_axis_open hands out 0, which its caller takes for no store, only after a
\* joint_close gave 0 back: as long as nobody closes handle 0 the burn is enough.
ZeroWasClosed ==
  [][\A o \in axis' \ axis : jd'[o] = 0 => 0 \in idm.free]_hvars

\* What each opener's store holds, and what is on disk, is as Durable promises.
Opened == [o \in Holders |->
            [file |-> store[jd[o]].file, rows |-> store[jd[o]].ti]]

D == INSTANCE Durable WITH open <- Opened

DurableSpec == D!Spec
=============================================================================
