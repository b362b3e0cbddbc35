# Verification of libjoint

libjoint records when entities are present. A caller tells it `joint_start(ts, id)` and
`joint_stop(ts, id)`; it keeps half-open intervals `[min, max)` per entity, and `joint_iter` /
`joint_next` answer who was there in a window of time, cut into splits within which nobody comes or
goes. On top of that sits an adapter that lets the recall kernel store values such as
`2024-01-01,2024-02-01` and query by window. All of it is one C file, `src/src/libjoint.c`; the
public contract is `src/include/ttypt/joint.h`. An npm package, `src/npm`, wraps it for JavaScript
with a native addon, or a small WebAssembly array where the addon is missing.

This directory holds TLA+ modules that model the library, TLC configurations that check them on
small instances, and proofs that TLAPS checks for every instance. `PROJECT.json` lists the runs, the
mutants that show each property can fail, the source lines of each definition, the hazards and the
theorems.

## 1. Inventory

| Component | State | Operations | Model |
|---|---|---|---|
| Interval store | primary map `ti` of `struct ti {min, max, who}`, indexes `max` and `id` kept by `corm_assoc` | `joint_start`, `joint_stop`, `joint_erase` | `Timeline`, `Indexes`, `Sessions`, `Presence` |
| Query engine | nothing between calls; matches, endpoints (`isplit`), splits within one | `ti_intersect`, `matches_fix`, `isplits_create`, `splits_create`, `splits_get`, `splits_fill` | `Splits`, `EndpointSweep` |
| Iterator | the splits left and a position (`joint_internal`) | `joint_iter`, `joint_next`, `rec_axis_fill_interval` | `Cursor` |
| Id hash set | `struct who_set`: slots, tombstones, `n`, `used`, `cap` | `who_set_put`, `who_set_grow`, `who_set_del` | `WhoSet`, `IdSet` |
| Store adapter | none of its own | `rec_axis_store`, `_typed`, `_unstore`, `_readback` | `Axis` |
| Handles, persistence | `ti_dbs[512]`, the id allocator `idm`, the file behind `ti`, the `burned` flag | `joint_init`, `joint_close`, `rec_axis_open`, save, exit, crash | `Handles`, `Durable` |
| Query parameters | `--since`, `--until`, `--query` statics | `rec_axis_config_arg`, `joint_decode`, `joint_fill` | `Decode`, `Recall` |
| Dates | none | `sscantime`, `printtime`, `joint_parse_time`, `joint_date_parse` | only as texts in `Axis` and `Decode` |
| npm binding | per timeline a wrapper with a native handle; one flat array of 4096 in WebAssembly | constructor, `recordInterval`, `queryOverlaps`, `clear`, `close`, the finalizer | `Npm` |
| npm axis and controller | a map from ref to resource; the last answer and its listeners | `registerInterval`, `fill`, `checkRange`, `clearRange` | left out, section 5 |
| Arenas | memory blocks | `match_arena_*`, `split_arena_*` | left out: no answer depends on them |
| corm, idm, qmap | maps, id allocation | external | from how `libjoint.c` uses them: the primary map as a set, the indexes in `Indexes` |

**How they interact.** Everything is a direct call in one thread. `joint_start` and `joint_stop` ask
`ti_present` and then insert, or close through `ti_finish_last`. `joint_iter` runs the query engine
to the end and keeps its splits; `joint_next` only hands them out, so the store may change between
two of its calls. The query engine keeps the set of present ids in a `who_set` while it sweeps. The
adapter turns a value into one or two native calls. The recall kernel opens a store with
`rec_axis_open`, leaves options in statics, and asks for windows that are resolved from both. The
npm binding calls `joint_start`, `joint_stop` and the iterator; its finalizer is called back by the
garbage collector at any later time.

**What is hard here.** No threads and no network, but orders: calls out of time order, equal
timestamps, a stop that is repeated, intervals of one entity that touch or overlap, equal endpoints
in a sort that does not promise their order, calls that take several steps on three maps of which
two keep duplicates, a query that is drained while the store changes, a hash table that must not
lose an id across tombstones and rehashes, a value grammar in which one character decides between
two meanings, handles that are handed out again, processes that end before they saved, options that
stay behind, and finalizers that come late. `PROJECT.json` "hazards" names each at its line.

**What makes each component correct.**

- *Interval store*: a call changes only the entity it names; recorded history is never lost;
  presence changes on one side of the timestamp only; the primary map and both indexes tell the same
  intervals, whatever duplicates the indexes keep; for callers who keep time the intervals of an
  entity stay apart and presence is what was said.
- *Query engine*: it never deletes from the unallocated set; nobody is reported who was not there,
  and, for intervals that lie apart, nobody is missed; splits are non-empty and chain.
- *Iterator*: rows are those of the store that `joint_iter` saw, exact, in time order, counted
  right, and the loop ends.
- *Hash set*: an id is in once, the count is right, no slot is taken uncounted, each probe ends, and
  it is a set.
- *Adapter*: what is stored is there; storing again what was printed changes nothing; unstoring and
  storing it again restores it; the two calls of `A,B` leave no gap.
- *Handles*: nobody shares a handle; the table is large enough; a closed store is on disk, an exit
  loses nothing, and a crash no more than what came after the last save.
- *Query parameters*: a point finds who is there; a pair never makes the reversed window that kills
  the process, one that was given to an option and refused included.
- *npm binding*: a timeline finds what was recorded; no other timeline and no finalizer reaches into
  it; what is left open is what nothing could close.

## 2. Modules and how they correspond to the code

`Calls` extends `Intervals`; `Timeline` and `Indexes` extend `Calls`; `Sessions` and `Axis` extend
`Timeline`; `EndpointSweep` extends `Intervals` and `Splits`; `Cursor` extends `Timeline` and
`Splits`; `Recall` extends `Handles`, `Decode`, `Intervals` and `Splits`; `Npm` extends `Handles`,
`Calls` and `Splits`. `Recall` and `Npm` are the compositions: handles, stores and queries of one
process. Four refinements are both checked and proved: `Indexes` implements `Timeline`, `Sessions`
implements `Presence`, `WhoSet` implements `IdSet`, and `Handles` implements `Durable`. Each module
`M` with a run has an `MCM` that gives its constants values. Theorems are in a module `MProofs` per
component; those about the three callers of `Timeline` (`Sessions`, `Cursor` and `Axis`) are
together in `CallersProofs`, those about the two users of `Handles` (`Recall` and `Npm`) in
`ClientsProofs`, and the lemmas about the query's operators, on which these two and
`EndpointSweepProofs` rest, in `SplitsProofs`.

**Intervals.** An interval is a record `[min, max, who]`; `Covers` is the comparison in
`ti_present`, `OpenOf` the scan of `ti_finish_last`. `MInf` and `Inf` are the sentinels `mtinf` and
`tinf`. `Apart`, `Ordered` and `NonEmpty` are the shapes of stores that properties condition on.

**Calls** is what `joint_start` and `joint_stop` are made of: the test of their arguments
(`Accepted`), the put (`Insert`) and the close of an open interval (`FinishLast`).

**Timeline.** `ti` is the set of intervals, because the primary map is keyed by the whole `struct
ti`: putting an interval twice is putting it once. `Start`, `Stop` and `Erase` are the three
handlers with every early return (`-1` for a timestamp beyond `TS_MIN/2..TS_MAX/2` or the reserved
id, `1` for a start of someone present and for a backfill). Which open interval `ti_finish_last`
closes when there are several depends on the order of duplicates in the map library; `FinishLast`
allows each. `call` records the last call with its reply and is what the action properties speak of.
Any call may come at any time, in any order.

**Indexes** is what is behind one handle: the primary map `prim`, and the indexes `byMax`, which
`joint_iter` reads, and `byId`, which the calls read. An index is not a set: the comments at
`libjoint.c:909`, `:942` and `:958-961` say that a repeated backfill leaves duplicates of its
interval, of which some are stubs without a value. How many there are is the library's affair, so
that an index gives each interval a number of entries with a value and a number of stubs, and
`Indexed` and `Dropped` allow whatever is compatible with a multi-map: a put leaves one entry with
the value at least, a del leaves none with it and takes one entry at least. The calls are taken
apart into the steps the code makes: `FinishDel` and `FinishPut` are the delete and the put of
`ti_finish_last`; `EraseCollect`, `EraseDel` for each interval collected, as often as it was, and
`EraseMop` are `joint_erase`. `Reopen` fills the indexes anew. `done` is what the primary map held
when the last call returned, and it is what `ImplementsTimeline` maps `ti` to.

**Sessions** adds a caller who keeps time: timestamps of one entity strictly increase, and an entity
that has left is not stopped again. (The documents' examples keep to it; the
tests do not always, `start_stop_same_time` in `src/test.c` for one.) `clock` and `phase` are what the
caller knows. **Presence** is the abstract specification: per entity, the set of instants it is
there, with `Arrive`, `Leave`, `Backfill` and `Forget`. `Sessions!PresenceSpec` says that Sessions
implements it with `here` mapped to the instants its intervals cover.

**Splits** has the query as operators on a set: `Matching` (`ti_intersect`), `Clip` (`matches_fix`),
the sweep boundary by boundary, `SplitsGet`, and `SplitsFill`, which replaces the splits that nobody
is in by what a second query of the gap gives. Who is in a split is told in closed form: whoever was
put at or before its beginning and not deleted from then on (`CountedIn`). **EndpointSweep** is the
loop of `splits_create` itself, one step per endpoint, in every order `qsort` may leave equal
endpoints in; `LoopIsSplitsGet` says that the two agree, which is what lets the other modules use
the operators. **IdSet** is what the sweep asks of its set, including the fact that the key array
does not exist before the first put: a deletion then follows a NULL pointer (`Fault`, `Crash`).

**Cursor** is one query over a store that goes on changing: `Iter` takes the whole answer, `Deliver`
and `Exhaust` are `joint_next` returning 1 and 0, `Mutate` is any native call between them. Ids
within a split come in hash order, so any may be next.

**WhoSet** is the hash table with its arrays, slot by slot: `Put`, `Del`, and the rehash as `Grow`,
one `Move` per old slot, and `Grown`. A put that reuses a tombstone increments `used` again, as the
code does. `AsSet` maps it to `IdSet`.

**Axis** is the adapter over `Timeline`. A value is a record of its left text, whether a colon
follows it, and its right text; a text is an instant and a style (`date`, `stamp` with a time of
day, `epoch` number), which is all the grammar looks at. `Store` is `joint_store_impl` with its
guard against restating; the atomic form is a `Start` and then `FinishBoth`. `Readback` prints the
intervals of an entity in any order; a consumer may then store the entries again (`StoreBack`), with
or without an `Unstore` before.

**Handles** has the allocator `idm` (an id given back is preferred to a fresh one), the open entries
of `ti_dbs` with their file and the primary map, which alone is written to it, the files on disk,
and who holds which handle. `JointInit` loads the primary map from the file, without asking whether
another entry has it open; `JointClose` saves every file-backed map, as `corm_save` does, closes one
entry and gives its handle back; of two entries on one file either may be what remains in it
(`Contents`). `Save` is a call of `corm_save` by the program. `RecAxisOpen` opens and forgets one
in-memory store the first time (`Burn`); `Exit` saves and `Crash` does not, and both begin a new
process. That a file is closed before it is opened again is a rule of the header (`joint.h:108`,
`Unopened`) and a condition of `HNext`, not of the actions. `Rewrite` is any change of a store's
rows: what a call makes of them is the business of the modules above. **Durable** is the abstract
specification: openers with a store of their own each, and a disk that is written at closes, saves
and exits.

**Decode** is which window a query asks about. A text is the instant it names or `Unreadable`;
`DayEnd` is what `joint_day_end` makes of a point, which may fail. `ConfigSince`, `ConfigUntil` and
`ConfigQuery` are `rec_axis_config_arg`; `Resolve` is `joint_decode`, end by end: the leaf's own
(`LeafEnd`: what the last of its keys that names the end says), then the option's, then the pair's,
then 0. **Recall** is a process of the recall kernel over `Handles` and `Decode` whose openers keep
the header's rules: `Ask` answers a query with the operators of `Splits`, or ends the process when
the sweep follows the array that does not exist.

**Npm** is any number of JavaScript timelines. `obj` says what a timeline is (native, or on the
shared array, or collected), `wrap` is the `JointWrapper` the addon keeps for its finalizer, `flat`
is the WebAssembly array. `RecordNative` is a start and a stop whose replies nobody looks at;
`Collect` is the garbage collector with `Finalize`, which takes handle 0 for none. After `close()`
the calls of a native timeline go to the shared array, because `this.handle` is null: it becomes
`shared`. Nothing keeps a program from giving one path to two timelines, and a collected timeline
whose finalizer is late, or that had handle 0, has its file open still: either has maps of its own,
loaded from what was on disk when it was opened. `said`, `cleared` and `put` are history variables:
what an open timeline held at first and was told since, how much of it came before its last
`clear()`, and the records given to the array since it was cleared. They are bounded by
`MaxRecords`.

## 3. Runs

| Run | Instance | What it shows |
|---|---|---|
| `cursor` | 2 ids and the reserved one, times 0..4 of which 0 and 4 are refused, up to 3 intervals, calls in any order, one of them while a query is open, every window over 0..4 | of the calls: `TypeOK`, `NeighboursKept`, `HistoryKept`, `TimeLocal`; of the query: `RowsAreTrue`, `AnswerIsExact`, `CountIsHonest`, `DiesOnlyDisordered`, `InTimeOrder`, `Drains` |
| `indexes` | 2 ids and the reserved one, times 0..3 of which 1 and 2 are accepted, calls made while the indexes have up to 4 entries together | `ReadersAgree`, `ImplementsTimeline` |
| `sessions` | 2 ids and the reserved one, times 1..6, 4 of them accepted, no bound on intervals | `STypeOK`, `WellFormed`, `PhaseAgrees`, and `PresenceSpec` |
| `sweep` | every store of up to 2 intervals of one entity and 1 of another, inverted and empty ones included; every window over 0..4 | `NeverFaults`, `SplitsAreTrue`, `SplitsAreExact`, `SplitsChain`, `LoopIsSplitsGet` |
| `whoset` | 4 ids, first capacity 2, tables up to 16 | `TypeOK`, `LiveOnce`, `CountIsLive`, `TakenIsCounted`, `ProbesEnd`, `IdSetSpec` |
| `axis` | 1 entity and the reserved id, times 1..5 (5 refused, 2 midnights), up to 3 intervals | `StoredIsThere`, `ReindexIsNoop`, `RestoreIsExact`, `AtomicCovers` |
| `recall` | 2 openers, 1 file, a table of 3 entries, 2 intervals a store may hold, instants 0..4 in days of two with the last one inexpressible, 3 options, 8 leaves | `HTypeOK`, `InTable`, `PairsAreSafe`, `PointFindsWhoIsThere`, `DurableSpec`, `ZeroWasClosed` |
| `npm` | 2 timelines, in memory or on 1 file, native or not, 4 records (apart, empty, overlapping, out of range), an array of 2, room for 1 hit | `HitsAreExact`, `OnlyZeroLeaks`, `Isolated` |
| `one_open`, `stop_again` | `Timeline` alone, times 1..5 of which 1 and 5 are refused, up to 3 intervals | disagreements, section 6 |
| `fill_touching`, `axis_roundtrip` | as `cursor` and `axis` | disagreements, section 6 |

**Bounds and why they are enough.**

- *Times.* The code only compares timestamps. Two intervals of one entity have at most four ends,
  and a query two more; a scale on which they can all be distinct, or equal in each way, shows all
  orders of two. `cursor` passes the sentinels themselves, which are refused; `sessions` has refused
  values between them and the accepted ones.
- *Entries of the indexes.* `MaxEntries` is 4 and is met between calls only: a call begun in such a
  state is followed to its end. It is enough for an interval with a duplicate and a stub beside
  another interval of its entity, or of the other one. Two accepted instants make a closed interval,
  an open one and two backfills.
- *Ids.* The code treats entities alike and one at a time; two make interference visible, and ids
  are symmetric (`SYMMETRY` in `indexes` and `sessions`, whose properties do not tell them apart).
- *Intervals.* `MaxIntervals` stops expansion beyond three intervals: enough for two open intervals
  of one entity beside a closed one, which is where the closing order matters.
- *Changes under a cursor.* `MaxChurn` is 1. The rows are a copy, so a second change can do nothing
  the first cannot; `MaxChurn` 0 would make the snapshot properties empty.
- *Hash table.* `HashOf` sends all but one id to the last slot of a small table and apart in one of
  eight; probes wrap around, tombstones pile up in front of live ids, and the table rehashes three
  times. The first capacity is 2 in place of 64, so that rehashes happen at all.
- *Openers and files.* Two openers are enough to give a handle back and hand it to the other one,
  and a third handle is the burned one. The table has exactly the three entries the theorem
  `TableIsLargeEnough` asks for, so that `InTable` is tight. One file makes the two openers compete
  for it; that other files are left alone is proved for all (`HandlesImplementDurable`).
- *Timelines.* Two and one file: one may be collected, or closed with its finalizer to come, and the
  other open on the handle it gave back, or both open on the file at once, in which case each close
  writes over what the other wrote. `MaxRecords` is 2: a record beside one of its own entity, or of
  another, in either order.
- *The array and the hits.* `Cap` 2 and `MaxOut` 1 in place of 4096 and 1024, so that both limits
  are met.
- *Texts.* One midnight and one other instant would do for the grammar; two of each let closed
  intervals of both kinds stand side by side.

**Fairness.** Only `Drains` needs any: weak fairness of `Deliver \/ Exhaust`. It says that a caller
goes on calling `joint_next`, which `rec_axis_fill_interval` (line 1043) and every test do in a
loop. Nothing is assumed of the calls that change the store.

**Deadlock** is checked where a caller can always call (`indexes`, `sessions`, `axis`, `recall`,
`npm`). `sweep` and `cursor` end, and `whoset` ends when the NULL array is followed, so they say
`CHECK_DEADLOCK FALSE`.

**Mutants.** Every property of a passing run has a mutant: an operator next to the definition it
replaces, marked `Mutant:` with the bug it stands for, that makes the property fail under the same
configuration.

## 4. What is proved

The theorems hold for every set of ids, every time scale, every sentinel, every hash function and
every capacity the assumptions admit: `SentinelAssumption` (`MInf < Inf`), `RangeAssumption` (the
accepted range lies strictly between the sentinels), `TimeAssumption` (times lie between them),
`QueryAssumption` and `WindowAssumption` (queries are about sets of intervals and have integer
ends), `TableAssumption` (the first capacity is at least 2 and hashes are naturals),
`HandleAssumption` (fewer openers than table entries), `RowAssumption` and `RecordAssumption` (rows
are intervals; in `Npm`, any interval), `TextAssumption` (what a text names is a time callers pass),
`InstantAssumption` (instants are integers, and an end not given is none), `LeafAssumption` (a leaf
is a list, and its `query` keys have query texts), `DayAssumption` (a day ends after each of its
instants, or has no end). TLC evaluates each of them in its runs.

None of the theorems bounds a query, a store or a sequence of calls. They condition on the shape of
the store where the code does: an inverted interval makes the sweep fault, and intervals of one
entity that touch or overlap are miscounted (section 6), so `Ordered` and `Apart` cannot be dropped.

**TimelineProofs.** `TypeCorrect` is inductive as it stands. `NeighboursAreKept`, `HistoryIsKept`
and `TimeIsLocal` follow step by step from it. `TimeIsLocal` is the delicate one: `ti_finish_last`
may close an open interval that starts after the stop, or that does not cover it, and still no
instant before the stop changes.

**IndexesProofs.** None of the properties is inductive, because the middle of a call breaks what
holds between calls: after the delete of `ti_finish_last` the open interval is nowhere, and an erase
has intervals collected that are deleted already. `JInv` says that each index follows the primary
map (an interval is in the map exactly if the index has an entry of it with a value: `Follows`), and
what a call has still to do: nothing (`Between`), to put the closed copy of an interval it took from
what the last call left (`Stopping`), or to delete the rest of its entity's intervals, all of which
it collected (`Erasing`). `IndexesImplementTimeline` maps the last step of each call to Timeline's
step and the others to stutters. What is assumed of the map library is in `Indexed` and `Dropped`,
and each of its choices is quantified over.

**CallersProofs, Sessions.** `WellFormed` is not inductive: that a start inserts an interval apart
from the others needs to know that all of them lie behind the entity's clock. The invariant is
`STypeOK /\ WellFormed /\ PhaseAgrees`; from it `StoreIsWellFormed`, `CallersAreRight`, and
`SessionsImplementPresence` (each step of Sessions maps to a step of Presence or to a stutter).

**SplitsProofs** has no specification of its own: its lemmas are about the operators of `Splits`,
for every finite or infinite set of intervals and every window. Boundaries are strictly increasing
and all of the matches' end points (`Sorts`, `BoundariesSort`, by counting how many lie below each);
what the window leaves of an interval lies in the interval and in the window (`SaneMatchFacts`,
`MatchCovers`), and what lies apart stays apart (`MatchesApart`). Two predicates carry the rest.
`Truthful`: an answer is a list of pieces, in time order, within the window, that name only those
who were there during the whole of the piece. `Telling`: it names everyone who was there at any
instant. `QueryIsTruthful` and `QueryTells` say that the answer of `Query` is both, for a store
without inverted intervals and, the second, with intervals that lie apart; `SaneQueryRuns` and
`ReversedQuery` say when the query faults. `splits_fill` is the hard part: each refilled gap is an
answer for its own window, answers of adjoining windows concatenate (`ConcatIsTruthful`), and the
walk over all splits is an induction over how many were passed (`RefilledIsTruthful`). The library's
induction theorems take an operator as a parameter, which no installed prover can instantiate;
`AllNaturals` states induction about a set instead, and follows from the well-foundedness of `<`.

**EndpointSweepProofs.** The invariant `IInv` adds to the properties: the endpoints not yet swept
are not earlier than those swept (`InOrder`); before the first put no begin was swept
(`FirstIsPut`); an id in the set has an interval begun and not ended (`InByRight`); when intervals
lie apart an id with such an interval is in the set (`NobodyMissed`); and the next split begins
where the last one ended (`Linked`). It gives `SweepNeverFaults`, `SweepIsTrue`, `SweepIsExact` and
`SweepChains`, whatever the order of equal endpoints. Three more parts relate the loop to the
operators, for reversed windows and inverted intervals too: the set is what replaying the endpoints
swept would leave (`SetIsReplay`), the splits emitted are those of the boundaries passed
(`HalfWay`), and a fault is one `SweepFaults` foresees (`DiesRightly`). They give
`SweepIsSplitsGet`.

**CallersProofs, Cursor.** The invariant `CInv` says that the rows returned and those left are
together the rows of the whole answer for the store `joint_iter` saw, and that what is left does not
come before what was returned (`Reads`); `DeliverKeeps` moves one row over, and `AnswerFacts` takes
from `SplitsProofs` what the answer is worth. `CursorRowsAreTrue`, `CursorIsExact`,
`CursorCountsRight`, `CursorKeepsTimeOrder` and `CursorDiesOnlyDisordered` follow for any number of
changes of the store between two calls of `joint_next`.

**WhoSetProofs.** The invariant says of the table, and of the one a rehash is filling, that no id is
live twice (`Once`) and that between an id's hash slot and the slot it is in there is no empty one
(`Reach`); that the counters bound the slots taken (`Counted`, of which `TakenSlotsAreCounted` is
the consequence that leaves every probe an empty slot); and that the new table holds exactly what
was live in the old slots passed (`Growing`). `Reach` is what makes a probe that ends at an empty
slot a proof of absence (lemma `NotHeld`), so that a put may reuse a tombstone. It gives `EachOnce`,
`CountIsRight`, `EveryProbeEnds` and `HashTableIsASet`, the refinement of `IdSet` that
`EndpointSweep` builds on.

**CallersProofs, Axis.** `Told` says that between two calls what was stored is there, and that in
the middle of an atomic store the interval it opened is still in the store (the stop may close
another open one, lemma `StopTells`, but never takes presence before its timestamp away).
`Restating` and `Restoring` follow a consumer entry by entry: restated entries are found, or misread
as open ones that find their entity present; restored entries are added one by one (`AddBackfill`,
`AddOpen`, `AddClosed` and `AddStop`), where `Apart` is what keeps a start from being absorbed and a
stop from closing another interval, and `OpenLast` what makes the interval just opened the only open
one. With `AdapterCallsTheStore` (Axis implements `Timeline!Spec`) the theorems of `TimelineProofs`
hold under the adapter.

**HandlesProofs.** None of the properties is inductive alone. The invariant `HInv` says that the
entries of the table are exactly the handles held and the burned one, that together with those given
back they are exactly `0..next-1` (`Good`, `Accounted`). The table bound then comes from counting:
`idm` takes a fresh id only when nothing was given back, so that `next` entries are in use by as
many openers and the burned one (`NextIsFew`). None of this needs the header's rule about files:
`HInv` holds under every call of an opener (`Call`). `HandlesImplementDurable` does need it, because
two entries on one file are two stores of which Durable has one on disk: `FilesApart` says that each
file is behind one entry at most, and `FilesStayApart` that openers who keep the rule keep it so.

**ClientsProofs.** The recall kernel's process keeps the rules of `Handles` and is `Durable`
(`RecallIsDurable`). The binding's timelines do not keep them, and inherit `HInv` only.

For *Recall*, `PairsNeverFault` needs an invariant about the statics, `PairKept`: the pair of
`--query` is in order. A leaf of pairs then gives either both ends, from the last pair it accepts
(`PairsGive`), or none, when the pair of `--query` gives both (`PairsAreOrdered`), and
`SaneQueryRuns` does the rest. `PointQueryFinds` follows from `DayAssumption` (the point lies within
its window) and `QueryTells`.

For *Npm*, `NInv` ties a timeline's object, wrapper and handle together (`Wrapped`); with it
`OnlyHandleZeroLeaks` and `TimelinesAreIsolated` follow. `NpmHitsAreExact` needs to know that a
store holds exactly what it held at first and its timeline was told since, as long as that is sound,
whoever else has the file open. `XInv` says so for all timelines at once (`TellsTrue`), with the
finiteness of stores and files (`Finite`), without which what a file holds could not be listed.
Soundness before a record follows from soundness after it (`SoundBefore`); a sound record finds its
entity away, opens an interval, finds the entity there and closes just that one (`RecordAdds`); the
other timelines are left alone (`OthersKeep`). The hits are then exact by `QueryIsTruthful` and
`QueryTells`. Those of the flat array are by `SharedInstant` hits of records that were put
(`FlatIsTrue`), and all of them while the array and the answer had room (`FlatIsExact`), because the
array is then what was put (`FlatInv`). This part cites `RecordAssumption`, by which `Rows` is all
of `Interval`; the part about Recall does not.

**Only model-checked**: `Drains`, which is liveness under fairness, and the disagreements of section
6. Every safety property of the passing runs is a theorem. `NotShared` and `ITypeOK` are theorems
without a run: sharing a handle would show in `DurableSpec`, and the latter is type correctness.

## 5. What is not modelled

- The memory of arenas and cursors, and allocation failure, which aborts the process.
- The order of the map library's duplicates and of hash slots: both are left open, so the properties
  hold for each order.
- The calendar: instants that a local time names twice (the end of daylight saving) or that
  `localtime` cannot express. `Axis` supposes that a printed instant parses to itself.
- The token container of `rec_axis_store_typed` beyond the instant it yields.
- A handle used after its close, against `joint.h:104`. A file opened twice at once, against
  `joint.h:108`, is in `Npm` but not in `HNext` and `Recall`.
- The inside of the map library: what `Indexes` assumes of its multi-maps is in `Indexed` and
  `Dropped`, and that each `corm_open` gives a map of its own, two of one file included, is assumed
  in `Handles`.
- What comes of an entity whose open interval is stored back before its closed ones
  (`RestoreIsExact` is for the open one last), and of windows of which one end was given by itself,
  beyond what `DiesOnlyDisordered` says of any window.
- `count`, `rawPointer` and `withOverlaps`, which are `queryOverlaps` again, except that the native
  `count` counts an entity once per split; the addon's "closed" errors, which `JointTimeline` never
  reaches because it drops its handle; the addon's path buffer of 256 bytes.
- `JointTemporalAxis` and `createTimelineController`: a map with one assignment and one comparison,
  and a copy of the last answer with its listeners, both called straight through. (An axis remembers
  the last resource of each ref only; listed under hazards.)
- A record that is empty or reversed, and a window that is empty, in the two engines at once: the
  addon makes the record one instant long and the array never finds it, and they answer an empty
  window differently. `HitsAreExact` compares each engine with what it was told, not with the other.

## 6. Disagreements between the code and what is said of it

Shown by runs:

- `one_open`: a start earlier than an open interval's makes a second open interval, where
  `joint.h:136` says a duplicate is not created.
- `fill_touching`: where an interval of an entity ends and another of it begins or goes on, the
  sweep counts the entity out; a query from there on misses it, against `joint.h:272`. A stop
  followed by a start at the same timestamp is enough.
- `axis_roundtrip`: an entry `2024-01-01T10:00:00,2024-01-02` that readback prints has its first
  colon before the comma and is stored as an open interval, against the comment at
  `libjoint.c:1560`.
- `stop_again`: an interval is half open, so that the entity is absent where it stopped, and a
  second stop, at the same timestamp or later, backfills it to minus infinity.
  `QUICK_REFERENCE.md:287-288` says that the first is idempotent and the second updates the stop
  time. `HistoryKept` is what does hold: the closed interval stays as it is. `Presence` has the
  backfill as it is.

Read off the modules, without a run of their own:

- With two open intervals, as in `one_open`, a stop closes one and answers 0, and the entity is
  still there; `README.md:65` says its presence ends.
- `rec_axis_open` burns a handle once; when a caller of `joint_init` holds 0 and closes it, the next
  `rec_axis_open` returns 0, against `joint.h:339`. `ZeroWasClosed` is what does hold.
- `A,B` is a start and then a stop, where `joint.h:316` calls the form atomic. When B is out of
  range the reply is -1 and the open interval from A stays. If the entity is there at A, the start
  does nothing and the stop closes or backfills what it meets: `[A, B)` may stay uncovered although
  the reply is 0. `AtomicCovers` is what does hold.
- A `,B` that closed an interval is not found by the guard, which looks for a backfill, when it is
  stored again, and backfills; `joint.h:318` says that restated values are no-ops. `ReindexIsNoop`
  is what does hold: what `readback` printed can be stored again.
- The binding's `clear()` does nothing in a native timeline, where `npm/README.md:76` says it clears
  all registered intervals. `HitsAreExact` leaves open whether what was recorded before is found.
- A record of the binding told twice is a stop repeated, and puts its entity before the beginning of
  both, where `npm/README.md:74` says that `[start, end)` is recorded; one whose end is out of range
  leaves the entity there for good. `Sound` leaves them out.
- The comment above `joint_cli_query_parse` (`libjoint.c:1110`) gives -1 to reversed pairs only; a
  point whose day has no end gets it as well.
- The comment "live + tombstone" on `used` (`libjoint.c:175`): a reused tombstone is counted again,
  and the table doubles earlier than it needs to. `TakenIsCounted` says that it errs on the safe
  side.

## 7. What the plan has left

Every part of `libjoint.c` that keeps state, and the binding's timelines, are modelled and checked,
and every safety property is proved. What would come next:

1. The calendar behind `DayEnd` and `Show`, with days of 23 and 25 hours and instants a local time
   names twice.
2. A theorem about the composition of `EndpointSweep` with `WhoSet` in place of `IdSet`. It follows
   from `HashTableIsASet` by substitution and has no module of its own.
