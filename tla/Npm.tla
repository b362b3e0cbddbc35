--------------------------------- MODULE Npm ---------------------------------
(***************************************************************************)
(* The npm binding: JointTimeline of npm/dist/index.js over the native     *)
(* addon npm/native/joint_napi.c, or over the WebAssembly fallback         *)
(* npm/wasm/joint_wasm.c where the addon was not loaded.                   *)
(*                                                                         *)
(* A native timeline holds a wrapper with a handle and a flag; the garbage *)
(* collector finalizes it some time after the timeline is gone.  The       *)
(* fallback is one flat array, which every timeline without a wrapper      *)
(* shares, a native one after its close() included.                        *)
(*                                                                         *)
(* Nothing stops a program from giving one path to two timelines, and the  *)
(* finalizer's delay alone can make one of two: either has maps of its own *)
(* then, loaded from what is on disk.                                      *)
(***************************************************************************)
EXTENDS Handles, Calls, Splits

CONSTANTS
  Records,        \* the arguments [ref, start, end] given to recordInterval
  Cap, MaxOut     \* MAX_WASM_INTERVALS, and the 1024 hits a query has room for

ASSUME RecordAssumption ==
  /\ Rows = Interval
  /\ Records \subseteq [ref : Ids, start : MInf..(Inf - 1), end : MInf..Inf]
  /\ Cap \in Nat /\ MaxOut \in Nat

VARIABLES
  native,   \* the addon was loaded
  obj,      \* obj[o]: "none", "native", "shared" (no wrapper), or "lost" to
            \* the collector with its handle still open
  wrap,     \* wrap[o]: the last JointWrapper of o; it outlives the close
  flat,     \* g_intervals, up to g_count
  by        \* whose call was the last one

\* What a timeline was told, which the properties compare its answers with.
VARIABLES
  said,     \* said[o]: what an open native timeline held at first and was told since
  cleared,  \* cleared[o]: how much of said[o] came before its last clear()
  put       \* the records for the array, since its last clear

history == <<said, cleared, put>>

nvars == <<idm, store, burned, disk, jd, axis, native, obj, wrap, flat, by, said,
           cleared, put>>

NInit ==
  /\ HInit
  /\ native \in BOOLEAN
  /\ obj = [o \in Openers |-> "none"]
  /\ wrap = [o \in Openers |-> [jd |-> NoJd, is_open |-> FALSE]]
  /\ flat = <<>>
  /\ by \in Openers
  /\ said = [o \in Openers |-> <<>>]
  /\ cleared = [o \in Openers |-> 0]
  /\ put = <<>>

-----------------------------------------------------------------------------

\* constructor, and the addon's JointInit
New(o, f) ==
  /\ obj[o] = "none"
  /\ \/ /\ native
        /\ JointInit(o, f)
        /\ obj' = [obj EXCEPT ![o] = "native"]
        /\ wrap' = [wrap EXCEPT ![o] = [jd |-> jd'[o], is_open |-> TRUE]]
        /\ said' = [said EXCEPT ![o] = SetToSeq(Loaded(f).ti)]
     \/ /\ ~ native
        /\ obj' = [obj EXCEPT ![o] = "shared"]
        /\ UNCHANGED <<hvars, wrap, said>>
  /\ UNCHANGED <<native, flat, cleared, put>>

AfterStart(S, ts, id) ==
  IF Accepted(ts, id) /\ ~ Present(S, ts, id) THEN Insert(S, id, ts, Inf) ELSE S

AfterStop(S, ts, id) ==
  CASE ~ Accepted(ts, id) -> {S}
    [] Accepted(ts, id) /\ Present(S, ts, id) -> FinishLast(S, id, ts)
    [] OTHER -> {Insert(S, id, MInf, ts)}

\* An empty or reversed record is made one instant long.
Recorded(r) ==
  [min |-> r.start, max |-> IF r.end <= r.start THEN r.start + 1 ELSE r.end,
   who |-> r.ref]

\* The addon's JointRecord: a start and a stop, whose replies are ignored.
RecordNative(o, t) ==
  /\ \E rows \in AfterStop(AfterStart(store[jd[o]].ti, t.min, t.who), t.max, t.who) :
       Rewrite(o, rows)
  /\ said' = [said EXCEPT ![o] = Append(@, t)]
  /\ UNCHANGED <<flat, put>>

\* joint_wasm_record, whose -1 nobody looks at.
RecordFlat(r) ==
  /\ flat' = IF Len(flat) < Cap THEN Append(flat, r) ELSE flat
  /\ put' = Append(put, r)
  /\ UNCHANGED <<hvars, said>>

RecordInterval(o, r) ==
  /\ \/ obj[o] = "native" /\ RecordNative(o, Recorded(r))
     \/ obj[o] = "shared" /\ RecordFlat(r)
  /\ UNCHANGED <<native, obj, wrap, cleared>>

\* The addon has no clear, so that clear() does nothing to a native timeline.
Clear(o) ==
  /\ \/ /\ obj[o] = "native"
        /\ cleared' = [cleared EXCEPT ![o] = Len(said[o])]
        /\ UNCHANGED <<flat, put>>
     \/ /\ obj[o] = "shared"
        /\ flat' = <<>> /\ put' = <<>>
        /\ cleared' = cleared
  /\ UNCHANGED <<hvars, native, obj, wrap, said>>

CloseTimeline(o) ==
  /\ obj[o] = "native"
  /\ JointClose(o)
  /\ obj' = [obj EXCEPT ![o] = "shared"]
  /\ wrap' = [wrap EXCEPT ![o].is_open = FALSE]
  /\ said' = [said EXCEPT ![o] = <<>>]
  /\ cleared' = [cleared EXCEPT ![o] = 0]
  /\ UNCHANGED <<native, flat, put>>

\* Mutant: does not look at is_open.
FinalizeAgain(o) ==
  LET p == {q \in Openers : jd[q] = wrap[o].jd}
  IN IF wrap[o].jd \notin {0, NoJd} /\ p # {}
       THEN \E q \in p : JointClose(q)
       ELSE UNCHANGED hvars

\* Mutant: leaves the closing to the program.
FinalizeNothing(o) == wrap[o].jd = wrap[o].jd /\ UNCHANGED hvars

\* JointFinalizer: closes what is open, unless it is handle 0.
Finalize(o) ==
  IF wrap[o].is_open /\ wrap[o].jd # 0 THEN JointClose(o) ELSE UNCHANGED hvars

\* The timeline is garbage.
Collect(o) ==
  /\ obj[o] \in {"native", "shared"}
  /\ Finalize(o)
  /\ obj' = [obj EXCEPT ![o] = IF jd'[o] = NoJd THEN "none" ELSE "lost"]
  /\ wrap' = [wrap EXCEPT ![o] = [jd |-> NoJd, is_open |-> FALSE]]
  /\ said' = [said EXCEPT ![o] = <<>>]
  /\ cleared' = [cleared EXCEPT ![o] = 0]
  /\ UNCHANGED <<native, flat, put>>

NNext ==
  \E o \in Openers :
    /\ by' = o
    /\ \/ \E f \in Files \cup {NoFile} : New(o, f)
       \/ \E r \in Records : RecordInterval(o, r)
       \/ Clear(o)
       \/ CloseTimeline(o)
       \/ Collect(o)

NSpec == NInit /\ [][NNext]_nvars

-----------------------------------------------------------------------------
(* queryOverlaps.                                                          *)

\* JointIntersect: one hit per entity and split.
NativeHits(o, a, b) == UNION {s.ids : s \in ToSet(Query(store[jd[o]].ti, a, b))}

\* Mutant: counts the end in.
OverlapsEnd(r, a, b) == a <= r.end /\ b > r.start

Overlaps(r, a, b) == a < r.end /\ b > r.start

\* joint_wasm_intersect: one hit per record, as many as there is room for.
FlatHits(a, b) ==
  LET hits == {k \in DOMAIN flat : Overlaps(flat[k], a, b)}
  IN {flat[k].ref : k \in {h \in hits : Cardinality({i \in hits : i <= h}) <= MaxOut}}

-----------------------------------------------------------------------------

IsLive(o) == obj[o] = "native" /\ wrap[o].is_open

\* Records the binding can be expected to keep: in range, of one entity with a
\* gap between any two, and none repeated (a repeated one is a start that does
\* nothing and a stop that backfills).
Sound(told) ==
  /\ IsInjective(told)
  /\ Apart(ToSet(told)) /\ NonEmpty(ToSet(told))
  /\ \A t \in ToSet(told) : Accepted(t.min, t.who) /\ Accepted(t.max, t.who)

Overlapping(S, a, b) == {t.who : t \in {u \in S : \E x \in a..(b - 1) : Covers(u, x)}}

Put == {[min |-> r.start, max |-> r.end, who |-> r.ref] : r \in ToSet(put)}

Windows == {w \in (TsLo..TsHi) \X (TsLo..TsHi) : w[1] < w[2]}

Since(o) == {said[o][k] : k \in {j \in DOMAIN said[o] : j > cleared[o]}}

\* A query of a timeline finds the entities recorded to be there within its
\* window and nobody else, and does not kill the process: in a native timeline
\* that was told sound records, in whatever order, through every other timeline's
\* calls and collections.  (Whether it finds what was recorded before a clear(),
\* the property leaves open.)  In the fallback it finds nobody else as long as no
\* record is empty, and everybody as long as the array had room for the records
\* since it was cleared and the answer has room for the hits.
HitsAreExact ==
  \A o \in Openers : \A w \in Windows :
    LET a == w[1]
        b == w[2]
    IN /\ IsLive(o) /\ Sound(said[o]) =>
            /\ ~ QueryFaults(store[jd[o]].ti, a, b)
            /\ NativeHits(o, a, b) \subseteq Overlapping(ToSet(said[o]), a, b)
            /\ Overlapping(Since(o), a, b) \subseteq NativeHits(o, a, b)
       /\ obj[o] = "shared" /\ NonEmpty(Put) =>
            /\ FlatHits(a, b) \subseteq Overlapping(Put, a, b)
            /\ /\ Len(put) <= Cap
               /\ Cardinality({k \in DOMAIN put : Overlaps(put[k], a, b)}) <= MaxOut
               => FlatHits(a, b) = Overlapping(Put, a, b)

\* No call of another timeline, nor its late finalizer, changes or closes what
\* an open native timeline holds, although handles are handed out again.
Isolated ==
  [][\A o \in Openers \ {by'} : IsLive(o) =>
       /\ jd'[o] = wrap[o].jd
       /\ wrap[o].jd \in DOMAIN store'
       /\ store'[wrap[o].jd] = store[wrap[o].jd]]_nvars

\* A store that is open has a timeline that can close it, but for one at handle
\* 0, which the finalizer takes for none: collected, it stays open for good.
OnlyZeroLeaks ==
  \A h \in DOMAIN store : h = 0 \/ \E o \in Openers : IsLive(o) /\ wrap[o].jd = h
=============================================================================
