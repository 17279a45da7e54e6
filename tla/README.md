# firepanda in TLA+

firepanda is a dataframe engine written in Mojo, with a SQL front end and a
pandas-like Python facade.  This directory models the parts of it whose
correctness depends on an order of steps or on a case that is hard to build in
a test: what several threads do to shared state, what an operator line answers
when its input is cut into chunks and worked on out of order, what a SQL session
remembers from one statement to the next, what a call leaves behind for the next
one or in a file, and the algorithms of the facade that answer one question
along several paths: dates and frequencies, row labels, joins and merges.  TLC
checks the models on small instances; TLAPS proves, for instances of any size,
all the safety properties of the parallel runtime, of buffers and their pool and
of the SQL session with its catalog and plan caches, that a limit stops the source
of a pipeline, and of the facade what `to_sql` leaves in a database, that contexts
put options back, that reindexing reads the nearest row and that the two tables of
a split frame stay in step.

Paths below are relative to `src/firepanda/` (Mojo) or, for `*.py`, to
`src/python/firepanda/`, unless they say otherwise.

    tlc -workers 2 -config MCPipeline.cfg MCPipeline.tla      one run
    tlapm ForksProofs.tla                                     the proofs, and so
                          for the other *Proofs modules

`PROJECT.json` lists the components, the runs, for each property mutations of
the model that break it, the source lines every definition stands for, the
findings and the hazards.

Contents: 1 the system, 2 modules and code, 3 runs and bounds, 4 fairness and
deadlock, 5 proofs, 6 findings, 7 what the models leave out, 8 plan.


## 1. The system

### Components that are modelled

**Parallel runtime** (`exec/parallel.mojo`, `exec/morsel.mojo`).
`parallel_for(count, body)` starts one task per index and joins them;
`parallel_morsels(total, rows, body)` starts at most `worker_count()` tasks that
draw spans of rows from one atomic counter (`MorselQueue`).
State, for the length of one call: the cursor, a slot per task for the text of
its error, and references to the caller's frame that the tasks hold.
Hard: any interleaving of takes; a body that raises while others run; the
counter running past the end once per worker; a morsel size of zero or less.
Correct when: no row is run twice, every row is run unless a body raised, a
failure stops one worker and not the rest, the call leaves only after the last
task, and the text raised does not depend on timing.

**Pipeline driver** (`exec/pipeline.mojo`) and **operator nodes**
(`exec/node.mojo`).  A `Pipeline` is a source of chunks and a line of nodes;
every node has `process` (one chunk in, at most one out) and `finish` (what it
still holds).  `run` picks a route.  The serial route pushes one chunk at a time
and stops reading once a node says it is finished.  The batched route takes
batches of chunks, runs the head of the line (the longest prefix of nodes that
keep nothing between chunks) on the workers, and puts the results through the
rest in the order of the input.
State: what each node keeps (rows, counts, keys seen, build rows hit), the
current batch and the sink.  Correct when: the answer is that of the line over
the rows as one sequence, a limit stops the source, and a failure is reported
only if a row that reaches an expression makes it raise.

**Buffer** (`buffer/buffer.mojo`).  A pointer, a size, a capacity and an `Arc`
to the allocation.  Copies and windows share the allocation; a write first
un-shares: looks at the refcount, copies, assigns.  `make_private` does this
ahead of a parallel region in which workers write disjoint bytes of one buffer.
Hard: the look, the copy and the assignment are separate steps, and other
threads copy, drop and un-share the buffers on the same allocation in between.
Correct when: every buffer behaves as a value of its own, no pointer outlives
its allocation, and the bytes from the size to the capacity are zero, which
the vector loops rely on.

**BufferPool** (`buffer/pool.mojo`).  Free lists of buffers by size class;
`take` recycles or allocates, `give` files or drops.  Correct when: what is
taken is zero, private and large enough, and an earlier tenant that is still
about keeps its bytes.

**SQL catalog** (`sql/catalog.mojo`).  Names to frames, views and key lists, kept
as parallel lists with packed slots, and a generation number that moves with
every change.  `save` and `restore` serve transactions.  Correct when: the
lists stay in step and the whole behaves as a map from names.

**SQL session** (`sql/ddl.mojo`, `sql/run.mojo`, `sql/settings.mojo`,
`py/session.mojo`).  Statements against a catalog, settings, prepared
statements and at most one transaction (saved catalog, aborted, read only).
Hard: which errors abort a transaction is decided from what the error says and
by planning the statement again; a statement may fail half way; the program can
register frames between statements.  Correct when: keys hold, a rollback
restores everything, and an aborted or read-only transaction changes nothing.

**Plan caches** (`sql/cache.mojo`, `py/frame.mojo`).  A session keeps plans by
the query text and the catalog's generation; `firepanda.sql` keeps them by the
text and the catalog's shape (names, kinds, columns).  Correct when: a plan that
is run is the plan that would be made now.

**Dates and frequencies** (`offsets.py`, `_calendar_steps.py`, `_date_range.py`,
`_frequency.py`, `_held_freq.py`, `_datetime.py`, `_resample.py`, `_period.py`,
`_period_resample.py`).  An offset moves a moment to a landing date.  A range is
made from a frequency in text, along calendar arithmetic, or from an offset
object, along its landing dates; a frequency can be read off the labels again.
An index of instants carries its frequency as a claim that every operation
keeps, scales or drops.  Resampling cuts time into bins, numbers the rows and
names the bins; periods are numbered spans converted into one another.
State: the labels and the frequency of an index; the marks and codes of a
resampler.  Hard: off-by-one at month ends, midnights, closing times and the ends
of a chain; two algorithms for one question.  Correct when: a claimed frequency
is true, both algorithms agree, each row is in the bin whose label it is shown
under, and periods nest.

**Row labels, joins and merges** (`_range_index.py`, `_index_join.py` and, in
`_pandas.py`, `IndexMixin`, `reindex`, `merge`, `merge_asof`, `merge_ordered`).
An index of evenly stepped numbers is kept as three numbers as long as answers
allow.  `Index.join` has a path for sorted indexes, one for indexes with repeats
and one that looks labels up.  `merge` pairs rows in the core, which never pairs
a missing key, and so puts a stand-in for it.  State: none but the indexes.
Hard: repeats, gaps, falling order, shortcuts that are right only sometimes.
Correct when: the answer has the rows its definition names, each once, in the
order promised, and a range is still the labels it stands for.

**HDF store** (`_hdf.py`).  An `HDFStore` is a tree of groups in one file; a key
is a path, and there may be keys below a key.  A frame is kept as plain arrays or
as a table that can be appended to, cut and read in chunks; a table keeps the
codes of a categorical and, under a key of their own, its categories.  State: the
file, the mode, iterators under way.  Hard: a call that is refused after it has
removed or made something; rows found by a clause and read or removed later; one
frame split over two tables.  Correct when: a key reads as the rows given to it,
chunks are the selection, a copy reads as the file, and the tables of one frame
stay in step.

**What calls leave behind** (`_sql.py`, `_config.py`, `_online.py`).  `to_sql`
writes a frame over a sqlite3 connection that the caller goes on using, in
statements any of which may fail.  Options are module-wide values, and contexts
set them for a while.  An online mean carries weights and its last row from call
to call.  Correct when: another connection sees all the rows of a call or none,
a call that raises leaves the table, a context puts back what it found, and the
mean is that of all rows fed.

### How they interact

- the batched route of the pipeline, the kernels, the hash tables and the CSV
  reader are callers of `parallel_for` and `parallel_morsels`; they hand in a
  body that captures their own stack frame, which is why a straggler would be
  memory corruption;
- every column is made of `Buffer`s, so a chunk that goes to two operators, a
  slice and a frame registered in a catalog all share allocations;
- a session plans a statement against its catalog, lowers the plan to a
  `Pipeline` and runs it; the plan may come from the cache;
- `transaction` in the session saves and restores the catalog as a whole, and
  the generation decides which cached plans are still looked at;
- the facade calls the core for joins, slices and set operations and puts its own
  rules round them (`Merges` and `Lookups` have both sides of the call);
- `date_range` and `infer_freq` are what `_held_freq.py`, `_resample.py` and
  `_datetime.py` step along, and reindexing is what upsampling fills with:
  `HeldFreq`, `Ranges` and `Resample` use `DateRange` and `Reindexing` as the code
  does.

### Components that are not, or only partly, modelled

| component | state and operations | what would make it correct | here |
|---|---|---|---|
| chunks and selections (`exec/chunk.mojo`) | columns and a list of kept rows; gather is delayed | a selection answers as its gather does | a chunk is the sequence of its rows in `Rows` |
| SQL tokens, grammar, tree (`sql/token.mojo`, `matcher.mojo`, `transform.mojo`) | none across queries | agrees with the reference parser | not modelled: sequential and covered by a corpus |
| planner and binder (`sql/plan.mojo`, `sql/bind.mojo`) | none across queries | names resolve to the right columns | `SqlPlans` keeps whether a query plans, binds and runs, and what its plan depends on |
| plan passes (`plan/`) | none | a rewritten plan answers the same | not modelled; plan, section 8 |
| lowering (`plan/lower.mojo`) | none | the line answers as its plan | only that a bound stands on a sort right below its limit |
| hash tables, factorize, grouping, partition (`hash/`) | open addressing with growth, key dictionaries, packed multi-column keys | equal keys and only they get one ordinal | not modelled; plan |
| joins (`join/`) | build side, rows hit | pairs in probe order, each unmatched build row once | the pairs and the finish in `Nodes`, and in `Merges`; packing and hashing not |
| kernels (`kernel/`) | none | column arithmetic | what sort, top n, filter and distinct answer, in `Rows`; arithmetic is left to the differential tests |
| CSV and NDJSON readers (`io/split.mojo`, `scan.mojo`, `read.mojo`) | blocks cut by quote parity, a serial fallback | the parallel read is the serial read | not modelled; plan |
| Arrow C interface, IPC, Parquet | exported structures, each released once | no leak, no double release | not modelled; the release protocol is in the plan |
| arrays, bitmaps, types | views over buffers | that of `Buffer` | not modelled on their own |
| frames and series of the core | eager methods | that of pandas | the index set operations, `get_slice_bound` and `join_on`, as the facade uses them |
| frames, series, group by, strings and types of the facade (`_pandas.py`, `_frame.py`, `_scalars.py` and others) | argument conversion, stateless functions | the answer of pandas | left to the differential tests, but for what is listed above |
| HDF store | as above | as above | frames of one level of labels; not series, several levels, `where` expressions |
| other file formats of the facade (`_excel.py`, `_textread.py`, `_sas.py`, `_stata.py` and others) | bytes in, bytes out | the bytes of the format | not modelled: sequential parsing |
| plots, styles, printing (`_mpl.py`, `_style.py`, `_html.py` and others) | layout | the text of pandas | not modelled |
| generator of the binding (`src/tools/bindings.py`) | none | the source it writes | not modelled |


## 2. Modules and code

Three layers recur: an abstract specification of what a component promises, a
detailed one of what the code does, and an MC module with the instance TLC
checks.  Operators marked `Slip:` in a comment are not part of the model: each is
a plausible mistake in the definition that follows it, and is there to show that
a property would notice it.

    ForkJoin      <--implements--  ParallelMorsels, ParallelFor
    RowQuery      <--implements--  Pipeline  (over Nodes, over Rows)
    ValueBuffers  <--implements--  SharedBuffer
                                   BufferPool
    NameMap       <--implements--  CatalogLists  (over Catalog)
                                   SqlSession  (over SqlPlans, over Catalog)
                                   SharedPlans (over SqlPlans)

    Calendar <- Offsets <- DateRange <- HeldFreq, Ranges
                           DateRange, Reindexing  <- Resample
    Calendar <- Periods
    Reindexing <- IndexJoin <- Merges, Lookups
    RangeIndex, SqlTables, Options, OnlineMean, HdfStore

An arrow on the lower lines reads "is used by".  `MCForks`, `MCMemory`,
`MCSqlSession`, `MCTime` and `MCFacade` put components that have
nothing to do with each other into one run: a behaviour is of one of them, which
a variable fixed at the start names, and the others rest.  A run's states are
the sum of its parts.

**ForkJoin.**  A call is handed units of work.  Each is run at most once; the
call returns only if nothing broke and everything ran, raises only if something
broke, and nothing runs once it has left.

**ParallelMorsels** (`morsel.mojo`).  `CallEmpty`, `CallInline`, `CallFork` are
the three ways in; `CreateTask` starts one worker, so that workers run while
later ones are still to be created; `TakeMorsel` / `TakeNothing` are
`MorselQueue.take`, whose fetch-add is one step; `RunRow`, `BodyReturns`,
`BodyRaises` are a body at work, row by row, so that a raise can come after any
part of a morsel; `Return` and `Raise` follow the join and the scan of the
failure slots.  The cursor is an Int64 that wraps at `MaxInt`.  `ForkJoin`'s
units are the rows.

**ParallelFor** (`parallel.mojo`).  The same for one task per index.

**ForksProofs, PipelineProofs, SharedBufferProofs, BufferPoolProofs,
SqlSessionProofs, TimeProofs, FacadeProofs, JoinProofs.**  Section 5.

**Rows, Nodes, Pipeline, RowQuery.**  A row is a key and an identity, so that
ties of a sort, the first of equal keys and the order of join pairs can be told
apart.  `Rows` has what the kernels answer over sequences of rows; `Nodes` has
`Process`, `Finish`, `Finished` and the parallel-safety of each node, from the
methods of `node.mojo` of the same names; `Pipeline` has `run`: `Start` chooses
the route, `SerialStep` / `SerialStop` are the serial loop, `ReadBatch`,
`RunHead`, `HeadReturns` / `HeadRaises` and `Drain` the batched one, `PushNode`
and `PushSink` carry a chunk down the line one node at a time, `FinishNode` and
`Return` the finishing loop.  `RunHead(c)` is one chunk through the head on some
worker, in any order; a chunk whose body raises takes its worker out, and what is
left of the batch is given up only when every worker is out, as in
`parallel_morsels`.  `RowQuery` is the
answer of the whole line over the whole input, in one step, or a failure on rows
that are enough for the answer.  That a sort is given a bound only under the limit
that cuts what it hands back is `SortsAreCut`, an assumption on the lines: the limits
pass puts the bound on a sort that stands right under a limit
(`plan/limits.mojo:139`), and lowering has no more than a projection for the two
(`plan/lower.mojo:2647`).  `Compute` stands for every row-local node whose expression
can raise.

**ValueBuffers, SharedBuffer.**  In `ValueBuffers` a buffer is a function from
positions to bytes and no two have anything to do with each other.  In
`SharedBuffer` a buffer is an allocation, an offset, a size and a capacity;
`CopyOut`, `ReleaseOld`, `StoreNew` are the three steps of `_unshare` by one
thread, with every other thread's steps in between; `StartRegion` / `EndRegion`
stand for a `parallel_for` whose tasks write into one buffer.  One rule comes
from Mojo and not from this repository: two threads do not use the same
`Buffer` variable at once, except in such a region.

**BufferPool.**  `TakeRecycled`, `TakeNew`, `Give`, `Clear` and what owners do
in between (`Copy`, `Window`, `Write`, `Drop`).  A buffer's bytes are one value,
zero or not.

**Catalog, CatalogLists, NameMap.**  `Catalog` has the operations of
`catalog.mojo` as operators on a record of the code's lists, with the same slot
moves.  `CatalogLists` drives them in any order; `NameMap` is a map.

**SqlPlans, SqlSession.**  `SqlSession` has an action per statement of
`ddl.mojo` and wraps them in `Execute`, which is the session's handling of
aborted and read-only transactions, of errors that abort, and of `EXECUTE` of a
prepared statement.  `QueryHit` / `QueryMiss` go through the plan cache,
`QueryInTransaction` round it; `Register` is a frame handed in by the program.
Errors are classed by what the session does with them: `Before` a statement
touched anything, `Unbound` for a name that does not bind, `Running` for one met
while running.  Tables have one column.

**SharedPlans.**  `firepanda.sql(query, **frames)`: a catalog is made from the
frames of the call and the plan is looked up by its shape.

**Calendar, Offsets.**  `Calendar` is the proleptic calendar as ordinals of
days; a moment is a day and a tick of it, `Day` ticks a day (hours).  `Offsets`
has a record per class of `offsets.py`, `Dates` for its landing dates in a year
(the code's `_dates`), `After` / `Before` / `Landed` over the years, and `Move`,
`Apply`, `RollForward`, `RollBack` with the same split by class as the code:
ticks add, days step, landing offsets roll and then walk, Easter walks years,
business hours go through a line of worked time (`Position`, `Wall`).

**DateRange, Ranges.**  `TextRange` is `date_range` with a frequency
in text (`CalendarStep`: `OnStep`, `Roll`, `StepBy`, `StepPoints`),
`OffsetRange` the walk along an offset's landings.  `Inferred` is `infer_freq`.
`Ranges` has one call at a time: `Call` makes both ranges, `Infer` reads the
frequency off what was made, `Count` and `RollHours` use business hours.

**HeldFreq.**  One action for each method of `_held_freq.py` and for shift,
normalize and freq of `DatetimeIndex`, in chains.  The state is the labels and
the frequency the index claims.

**Resample, Periods.**  `Resampled` builds the bins (`CalendarEdges` and the
fixed grids), `Reduce`, `Upsample` and `Transform` are what is asked of them.
`Periods` has `Ordinal` and `Bounds`, `Convert` (asfreq), `Gather` and `Spread`
(downsampling and upsampling by periods) and `StepPeriod`.

**Reindexing, IndexJoin, Lookups.**  `Positions` is `_reindex_positions`: exact,
pad, backfill and nearest with limit and tolerance.  `Joined` chooses between
`JoinedEmpty`, `JoinedSorted`, `JoinedMerge` and `JoinedLookedUp` as
`IndexMixin._joined` does.  `Lookups` has one question of an index at a time:
`Sliced`, `GetIndexerNonUnique`, `Asof`, `AsofMasked`, `Reindexed`.

**Merges.**  `MergedRows` fills a missing key with `StandIn`, has the core pair
(`JoinOn`) and empties it again; `Merge`, `MergeAnti`, `MergeCross`,
`MergeAsof` and `MergeOrdered` are the calls.

**RangeIndex.**  Two answers side by side through a chain of operations: the
index as the code keeps it (three numbers, or plain labels) and the labels an
index that writes them all out would have.

**SqlTables.**  `disk` is what another connection reads, `mine` what this one
does, `open` whether a transaction is.  A call of `to_sql` is a program counter:
`has_table`, `DropTable` or `DeleteRows`, `CreateTable`, `CreateIndex`,
`CommitTable`, `Check`, `InsertBatch` until there are no more, `CommitRows`;
`Fails` may replace any statement and rolls back.  `OwnInsert`, `OwnCommit` and
`OwnRollback` are the caller's, between calls, and `Crash` is the end of the
program at any point.  A definition stands at once and a change opens a
transaction, which is how sqlite3 comes by default.

**Options.**  A pattern is the set of options it is found in.  `Enter` takes down
what to undo before it sets; `EnterFails` is an entry that raises half way.

**HdfStore.**  `file` maps the paths of the groups to their type and what they
hold; `put`, `append` and `append_to_multiple` go through `write_to_group` as in
`_write_to_group`, with what it has done so far left in the file when it raises:
`WriteFixed` and `WriteTable` refuse at the place where the code does.  A table's
rows are `Encoded` by the categories of the frame that brings them and `Decoded`
by those under `MetadataPath`, which `validate_metadata` compares.  `remove` takes
a key with all below it, or rows by a clause (`delete`, in runs) or by a range.
`select_in_chunks`, `next_chunk` and `drop_chunks` are a `TableIterator`, with any
other call between two chunks.  `copy` is the file that `HDFStore.copy` makes.
What `where` may pick is a set of rows; the labels of a row are the call that
brought it and its place there.  PyTables is modelled by what the code asks of
it: a tree, and tables that lose a range of rows.

**OnlineMean.**  The state between calls is the weight and the last row shown; a
number is a fraction, so that what is compared is exact.


## 3. Runs and bounds

"Violation" runs check one property that a comment in the repository states and
the code does not keep (section 6).

| run | states | question and answer |
|---|---|---|
| `forks` | 150,864 | does every interleaving of workers over the queue run rows at most once, drain round a failure, keep the cursor from wrapping, report the lowest worker's error and touch nothing after leaving; does `parallel_for` run every index; do both leave in the end and implement `ForkJoin`?  Yes. |
| `pipeline` | 226,454 | does every route over every cut of the input answer what the line answers over the rows as one sequence, does a finished line stop the source, and does a bounded sort hold no more than its bound allows?  Yes. |
| `memory` | 364,311 | is sharing invisible to the owners, with un-sharing interleaved step by step; is what the pool hands out zero and private, and do earlier tenants keep their bytes?  Yes, if callers give only buffers of a class capacity. |
| `session` | 673,737 | do keys hold, rollbacks restore, refused statements change nothing; does every change move the generation so that no kept plan is out of date; do the catalog's lists behave as a map; is a plan found under a shape the one the call would make, for queries without a `PIVOT` that reads rows?  Yes. |
| `time` | 78,317 | after any two operations, is the frequency an index holds true of its labels; do ranges from text and from offsets agree, and does `infer_freq` find the way back; are business hours counted as worked; is every row resampled into the bin it is shown under; do periods nest?  Yes, within the askings of the run. |
| `facade` | 759,746 | do rows of `to_sql` land whole, and tables end as asked, through failures and crashes; do contexts put options back; does an online mean carry on; does a store read as it was told, whole, in chunks and as a copy?  Do joins, merges and as-of merges pair the rows their definitions name, each once and in order; do slices and reindexing read what they say; is a range still its labels?  Yes. |
| `pool_odd_capacity` | | and if a buffer of another capacity is given?  No: violation. |
| `shared_pivot` | | and with a `PIVOT` that reads rows?  No: violation. |
| `session_empty_key` | | do keys hold when a key may be the empty text?  No: violation. |
| `held_shift` | | does `shift` move an index by the frequency it holds?  No: violation. |
| `hdf_dropna` | | does appending with `dropna` to a store leave out only the rows that are all missing?  No: violation. |
| `resample_right` | | are rows shown under their bin when bins are closed on the right under month starts or business days?  No: violation. |

Bounds, and why they are enough for the case at issue to occur:

- **forks.**  `Level` 3 workers, totals in {-1, 0, 1, 3, 5}, rows in
  {-1, 0, 1, 2}: totals that are not multiples of the morsel, fewer morsels than
  workers and more, the inline and the empty call, the arguments that are
  clamped.  Two texts tell whose error is raised.  `MaxInt` 16 is the smallest
  that lets every job satisfy `JobsFit` with a little room, so the cursor comes
  near it.  Counts of `parallel_for` in {-1, 0, 1, 2, 4}; its tasks share
  nothing, so more of them bring nothing new.
- **pipeline.**  `WorkerCount` 2, one chunk per worker in a batch, so three
  chunks make two batches; `MORSEL_ROWS` 2, so a chunk of three rows is cut;
  `TOPN_FLOOR` 2 stands for the code's floor, so a bounded sort compacts.  Lines:
  all of at most two of twelve operators, and the longer ones in which a middle
  operator matters to both sides.  Frames: heights up to `<<1, 1, 1>>` and
  `<<2, 2>>`, an empty chunk and no chunk among them, with every assignment of
  two or three keys where the order of keys matters.
- **memory.**  Two buffers on three allocations, so that both can be un-sharing at
  once; two threads; blocks of 2 bytes and sizes 1 and 3, so that there is
  padding, a window at an offset and a size over one block.  The pool has three
  classes, lists of at most two and three allocations, so that a list can be full
  and another buffer given.
- **session.**  Two names, one value besides the missing one, at most `MaxRows` 2
  rows in a table, one prepared name.  The statements are listed in
  `MCSqlSession`: the writes, transactions and prepared writes that keys depend
  on, and the changes to what plans are made from.  `MaxGeneration` 4 bounds the
  number of changes; the properties relate at most two changes and a
  transaction's ends, which fit in it.  `Capacity` 2 (3 for shared plans) stands
  for 512 plans, so that the cache is emptied.  The catalog's lists have three
  names, because dropping the first shifts a slot of its own kind and must leave
  one of the other kind, and five changes.
- **time.**  The years 2015 to 2033, around a leap February, 24 ticks a day.
  Chains of two operations on indexes of up to four labels: a wrong claim made by
  one operation is believed by the next, and with three labels a run has an inner
  gap.  Ranges begin at midnight, in the morning and in the evening of days that
  are and are not landing days, and run both ways.  Rules include every anchor.
  Resampled series have rows at both ends of a month and of a day.
- **facade**, row labels.  Indexes of up to three labels with repeats and gaps in any order,
  so that each of the three join paths and its fall-backs is taken; frames of up
  to two rows with two key columns, and up to three in order for the as-of merge;
  ranges that rise, fall, touch, are empty and do not meet, in chains of two
  operations.
- **facade**, state between calls.  Two tables, frames of 0, 1 and 3 rows, chunk sizes none, -1, 0 and
  2, so that a call makes one batch, several or none; two calls, the second over
  what the first left.  Two options, patterns that match one, both or none,
  contexts three deep.  Means of up to four rows of two values and gaps, in every
  cut, where none, one or two rows are enough to be shown.  A store of two keys, one below the other, and two calls that write or
  remove, the second over what the first left, whole, refused or half done; frames
  of up to three rows, so that a clause can pick two runs and a chunk can be
  short; categories in two orders, text of two widths, a row that is all missing,
  no rows, and what is no frame.  An iterator may be at any place when the second
  call comes.


## 4. Fairness and deadlock

Liveness is claimed for calls that end: a morsel call and a `parallel_for` call
leave (`CallsLeave`), a pipeline ends (`EventuallyEnds`).

- `ForksFairness` is weak fairness of the caller's steps and of the tasks' steps
  (each worker's of a morsel call, some task's of `parallel_for`).  The runtime
  runs every task it was given on some thread, and a body returns or raises:
  bodies are loops over a span.  Nothing is assumed of the order between workers,
  or of which bodies raise.
- `Pipeline` assumes weak fairness of `Next`: its caller's thread goes on, and
  while it is in the head of a batch some worker does, which is what the two
  modules above show.

The other modules have no fairness: what a caller does next is up to it, and
sequential calls have no step that could be left out.

Every run has `CHECK_DEADLOCK FALSE` because the system may rightly stop: a call
has left, a question is answered, a caller does nothing more, or the bound on
calls, changes or generations has been reached.


## 5. Proofs

The theorems hold for every value of the constants that satisfies the named
assumptions of the modules; what a theorem assumes besides is in its statement.
Eight modules have proofs, by the instance of the run they are about.

`ForksProofs` proves, for any sets `Totals` and `RowSizes`, any number of workers
and any texts, the safety of `ParallelMorsels`:

| theorem | says |
|---|---|
| `TypeCorrect` | the variables keep their shapes |
| `AtMostOnce` | no row is given to two bodies (`RowsRunOnce`) |
| `DrainedAround` | a failing worker strands the rest of its own morsel and nothing else (`OthersDrain`) |
| `NeverWraps` | the cursor stays in Int64 (`CursorNeverWraps`) |
| `NoStragglers` | nothing runs once the call has left (`NothingRunsAfterLeaving`) |
| `FirstByWorker` | the text raised is the lowest worker's (`RaisesFirstByWorker`) |
| `ImplementsPromise` | if no error text is empty, the call refines `ForkJoin` |

**Assumptions.**  `JobsFit` in `ParallelMorsels`: the arguments are integers, and
`total + (workers + 1) * rows` fits an Int64.  The code does not check it: a job
of rows that fit in memory satisfies it by many orders of magnitude.
`ImplementsPromise` also assumes that the empty text is not among `Messages`;
section 6 says why.

**The argument.**  None of the properties is inductive: that no row is run twice
depends on who holds what.  The invariant `IInv` has five parts.

- `TypeOK`.
- `Phases` ties what processes can be doing to where the caller is: before the
  fork nobody has anything; an inline call has no workers; a call that has left
  has only workers that are drained or failed.  It is what makes the steps of a
  straggler impossible.
- `Spans`: the span each live process still has to run lies below the cursor,
  no row in it has been run, spans are disjoint, and rows at or beyond the
  cursor have not been run.  A take hands out rows beyond the cursor, hence
  disjoint from every span; a row run leaves its span.
- `Covered`: a row below the cursor has been run or is in the span of its taker.
  At the join no span is left but those of failed workers: this gives
  `OthersDrain`, and with `Slots` the refinement's `Return`.
- `CursorRoom`: the cursor is less than `total` plus one step for each drained
  worker and one more.  A drained worker takes no more, and a finite set of
  workers has a cardinality: this gives the bound on the cursor, and with
  `JobsFit` that the addition did not wrap, which every other part needs.

`Slots` (only failed workers have a text) and `Heard` (every failed worker has
one) complete it for the error that is raised and for the refinement, whose
`broke` is "some process has failed".

It also proves `ForAlwaysKeepsItsPromise`: for any integer counts and if no
error text is empty, `parallel_for` refines `ForkJoin`, its variables keep their
shapes, every index has been run or raised when the call leaves, and the error is
the text of the lowest index that left one.  The invariant is that of the morsels
without spans: `Phases` says that the tasks created are those below a counter and
that none is absent once the caller waits; `Counted`, that an index has been run
once if its body is done and not at all before; `Slots` and `Heard` tie the texts
to the bodies that failed.

`SharedBufferProofs` proves four theorems about buffers on several threads, for
any finite sets of threads and of variables that hold buffers, any allocations,
any `Sizes \subseteq Nat` and any block size above zero:

| theorem | says |
|---|---|
| `BuffersKeepTypes` | types are kept |
| `CountsAreTrue` | a count is the number of holders, in the middle of a swap too (`CountIsHolders`) |
| `PointersStayValid` | a buffer's allocation is live and holds its capacity (`PointersAreValid`) |
| `PadsStayZero` | the bytes past the size are zero (`PadIsZero`) |

With `PoolIsWellFormed` below they are the parts of `BytesAreHeld`, which the run
`memory` checks and `BytesStayHeld` states of a behaviour of that run; with the two
theorems of the pool, `PoolStaysApart` does the same of `PoolKeepsApart`.  None of
them is inductive: between the steps of one `_unshare`
other threads copy, cut, drop and unshare buffers of the same allocation.  `Uses`
says what a thread may rely on meanwhile.  Who is part way through an unshare is
the only one to use that buffer, and the allocation it has made is its own, with
the size and the pad the buffer is going to need (`Room`, `Pads`).  Who may write
has looked at the count once, when it asked, and writes later: that the buffer is
still `Alone` then holds because a count of one cannot rise without somebody
copying or cutting that very buffer, which nobody may while it is used
(`UsesStand`), and because counting one finds no other holder (`OneIsAlone`).  In
a kernel the same rests on `make_private`: a region's buffer is alone, so no
worker of it ever takes the copying branch.  The windows' pads come down to
`RoundsUp` and to the two promises of the caller, blocks or up to the end.

The same module proves from there that `SharedBuffer` implements
`ValueBuffers` (`BuffersAreValues`, the property `SharingIsInvisible` of
`memory`), when there is a largest size (`SizesAreBounded`; the longest value of
`ValueBuffers` is computed from it).  The mapping reads a buffer through its own
allocation or, between the release and the store of an unshare, through the one
that the unshare has made (`View`).  To the invariant it adds what that needs:
while an old allocation has not been let go of, the copy agrees with it
(`Copied`), although other threads write between the two steps; a write only goes
to an allocation with one holder, and the unsharing buffer is a second one.  Each
action then leaves all buffers but one as they were (`Calm`, `CalmReadsTheSame`):
constructors, drops and `set_size` are steps of the abstract specification, and
so are the first and the last step of a mutable use; `CopyOut`, `ReleaseOld`,
`StoreNew` and `EndRegion` are stutters.

`BufferPoolProofs` proves three theorems about the pool and its callers, for any
finite set of handles, any allocations and any sizes asked for, made and cut:

| theorem | says |
|---|---|
| `PoolIsWellFormed` | types are kept, and no list outgrows `limit_per_class` |
| `TakenBuffersArePrivate` | what `take` hands out is zero and nobody else is on its allocation (`TakenIsZeroAndPrivate`) |
| `TenantsAreUndisturbed` | no operation changes what another buffer reads (`TenantsKeepTheirBytes`) |

The last two are the two halves of `PoolKeepsApart`.  Neither forbids an allocation
to have several holders, in a caller's
hand and in a list at once: both rest on what the count says when it is read.  At
zero no buffer is on the allocation (`FreshIsNobodys`); at one, with a buffer
known to be on it, there is no other (`PrivateToHandle`, `PrivateToTaker`), since
every place of a list no longer than `limit_per_class` is counted
(`ListsAreCounted`).  The invariant `IInv` therefore has to say little more than
the types.  `PoolAssumption` assumes of the size classes only that their
capacities are numbers and that a size is given a class or none; that
`size_class` finds the first class that fits would be an induction, and
`SizeWithinCapacity`, which depends on it, stays with TLC (and fails: section 6).

`PipelineProofs` proves, for any operator lines, frames, workers and batches:

`NodesAreInBounds`: a limit never passes or drops more than it was asked to, and a
sort with a bound never holds more than twice the bound, or the floor, between two
chunks (`NodesStayInBounds`).  The bounds themselves are short; what they need is the
type of everything the driver hands from one operator to the next (`PInv`): what a
node can be for its operator (`Fits`), what a slot of the batch can be (`Slots`, a
tally where the reduce folds the batch), and what `at` counts in each phase
(`PlacesAre`).  A call of any operator leaves a node that fits it
(`ProcessLeaves`, `FinishLeaves`), the leading operators are run through the same
lemma (`PrefixIs`), and both rest on what the operators on rows return: these are
recursive functions over sequences, which are first shown to exist (`FlattenGoes`,
`AtGoes`, `CutAtGoes`) and then followed by induction over a length.

`SourceIsStopped`: once a limit with no breaker before it has what it needs, no more is
read from the source (`LimitStopsTheSource`).  The serial route asks before each
chunk.  The batched one never asks, and the invariant `RInv` says why it need not:
it is taken only for lines that nothing can stop, and no step changes that
(`RouteHasNoLimit`).

`PipelineImplementsRowQuery`: every step of the driver is a step of `RowQuery` or
changes nothing of it (`ImplementsRowQuery`).  `Gives` defines, for any operator and any
node of its, which rows the node has still to give if certain rows come and no more;
`Does` is the same of a node that has taken nothing.  A node that takes a chunk gives
at once what it has then no longer to give (`ProcessFlows`), and one that is asked to
finish likewise (`FinishFlows`).  That is where the operators differ: a limit counts
across chunks (`LimitFlows`); a sort with a bound may drop rows in between because of
the first n of rows in order only the first n of each part count (`CompactingIsSafe`,
`SortFlows`), and hands back its rows cut at the sizes they came in
(`CutAtFlattens`); tallies merge from the left (`AbsorbFlows`); a join keeps what it has
paired (`CatJoined`); the last is a positional join.  The invariant `FInv` then says
that there are rows each operator took (`Told`), such that what it handed on, together
with what it has still to give, is what it does to them: whatever comes while it is
open (`OpenTold`), and if nothing comes once it was asked to finish (`ClosedTold`).
What the first one took and what is still to be read are the frame (`SourceTold`).  A
slot of the batch is its chunk through the leading operators (`SlotTold`), which keep
nothing and so do the same to rows whether they come together or one chunk after the
other (`FlowSplits`): draining a slot is those operators taking the chunk
(`DrainTells`), whatever the order in which the workers filled the slots.  Two things
hold only at the end of the line.  Where a sort has a bound its rows are fewer than
`RowQuery` says until the limit above (`Pending`, `FlowAfter`); this is what
`SortsAreCut` is needed for.  And when a limit stopped the source, only a front of the
frame was read; it is enough for the answer, because the limit gives nothing more
whatever comes (`FrontWhenDone`).  A raise is an expression meeting a row of its
operator's input over such a front (`TaintedFails`, `LostFails`).

`SqlSessionProofs` proves what `session` checks, for any statements, queries, tables
and views, any text of prepared statements and caches of any capacity:

| theorem | says |
|---|---|
| `PlansFollow` | no change leaves a plan behind that is run later (`PlansFollowChanges`) |
| `KeysAlwaysHold` | no two rows of a table agree on its key, if the empty text is no value (`KeysHold`) |
| `RollbackAlwaysRestores` | a rollback gives the catalog of `BEGIN` (`RollbackRestores`) |
| `RefusedAlwaysChangesNothing` | an aborted or read-only transaction changes nothing (`RefusedChangesNothing`) |
| `SharedPlansAreTheirOwn` | a plan found under a shape is the one the call would make, if no query has a `PIVOT` that reads rows (`RunsItsOwnPlan`) |
| `FieldsKeepTypes` | the fields of a catalog keep their types (`Lists!TypeOK`) |
| `SlotsAlwaysPacked` | entries and payloads of a kind stay in one-to-one correspondence (`Lists!SlotsStayPacked`) |
| `ListsAreAMap` | the catalog's lists refine `NameMap`, and both of these (`ImplementsNameMap`) |

The two conditions are those the runs `session_empty_key` and `shared_pivot` show
to be needed.  `SInv` says that the catalog is one its lists can be, that what was
saved is what was held at `BEGIN`, and that a plan kept under a generation the
catalog has not passed is the plan of that catalog.  For the last, `Grows`: no step
changes what planning reads without moving the generation past every key in the
cache, a `ROLLBACK` included.  `KInv` adds that the rows fit the keys in the catalog
and in what a rollback would bring back.  The lemmas go statement by statement
(each `Lands`), over one that fails half way through a list of names (`DROP`), which
is an induction over the length of the list.  `SharedHolds` says of a plan kept by
shape that it is the plan of every catalog of that shape: what a plan reads of a
catalog is names, kinds and columns (`ShapePlans`).

The last three are about a catalog and the calls it takes (`CatalogLists`), for any
names, frames, views and keys and any number of changes.  What a single operation
does is said once, on the operators of `Catalog`, and the session's proofs use it as
well.  The invariant is `WellPacked`, said entry by entry
(`Packed`, `PackedIsWellPacked`).  The argument is in `drop`: an entry past the
one that goes moves down by one (`Old`, `New`), a payload past its payload does,
and a slot moves exactly when its payload did (`Moved`), so that what an entry
finds through its slot is what it found before (`DropKeepsEntries`), and no two
slots meet (`MovedApart`).  `register` and `define` either replace a payload where
it is (`FrameInPlace`, `ViewInPlace`) or add one at the end of a catalog that
`drop` has cleared of the name (`EnterFrame`, `EnterView`); `AgreesButFor` turns
agreement entry by entry into equality of maps but for one name.

`TimeProofs` proves `PeriodsAlwaysNest`: for any frequencies, any number of ticks in
a day and any moments that leave a year before them and `n` years after them in the
years of the calendar, both ends of a period read back as its ordinal and the moments just
outside as its neighbours', a quarter names its period again, a row gathered into a
longer period lies in its bin, one spread over shorter ones is spread inside itself,
and the next period starts where one stops (`PeriodsNest`).  It begins with the
calendar: `YearOf` and `MonthOf` are choices, and are shown to find the one year and
month a date is in, from `NewYear` rising by the length of a year over every
century (`YearIs`, `MonthIs`).  A year, a quarter and a month then count months from
one they start with (`MonthUnits`), a week days, and business days weeks of five
(`WorkedDays`); so the spans of any frequency follow one another
(`SpansFollow`), and the ordinal of a moment is that of the one span it is in
(`SpanHolds`, `SpanIsOne`).  What `_sub` and `_super` allow is just what makes two
frequencies fit: no span of the finer one lies across where a span of the coarser
starts or stops (`NamesDivide`, `DividesFits`).  That a quarter and a year conform
when their months agree modulo three is what this takes.  The invariant only remembers
that a period was built from a moment (`IsPeriod`).

`FacadeProofs` proves seven theorems about the facade.  Two are about `to_sql`, for
any tables, numbers of
calls, lengths of frames (`Lengths \subseteq Nat`) and chunk sizes (none, or any
integer), with any statement failing, a crash at any point, and the caller
writing, committing and rolling back between the calls:

| theorem | says |
|---|---|
| `LandsWhole` | what another connection reads of a call is all of it or nothing (`CallsLandWhole`) |
| `EndsAsAsked` | a call that returned has put its rows on disk with what its mode keeps; one that raised left a table it does not replace as it stood (`CallsEndAsAsked`) |

`CallsLandWhole` speaks of the file, and what gets into it by a commit is what
this connection reads.  The invariant therefore says the same of `mine`, but for
the rows of the call under way (`MineWhole`), and that these are the first
`call.next` of them (`Come`): when the batches are through, the call is whole, and
only then is there a commit.  A failure in between puts `mine` back to `disk`.
For `CallsEndAsAsked` the invariant follows the table through the call: what
`mine` holds at each statement, in terms of `call.before` (`Made`), and that
`disk` is still as it stood unless the table is being replaced (`Untouched`).

`OptionsArePutBack`: for any options, checks and pairs, contexts nested to any depth
put back what they found, and one that fails half way in changes nothing
(`ContextsPutBack`).  The invariant ties the stack of what is to be undone to a ghost
stack of what was held on entry (`OptionsInv`).  The fact under it is about pairs
that name an option twice: taken down before anything is set, and put back in
reverse, the first of them counts and is the value found.

`ReindexesReadTheNearest`: for any index that rises or falls, any labels asked for,
any limit and tolerance, a reindex reads a label from its own row and another from
the nearest row its method has, within the tolerance, and no row is read more often
than the limit (`ReindexReadsTheNearest`).  A call is one step, so that the
invariant only remembers what was asked (`ReindexInv`); the proof is about the
operators: where a label falls among labels in order (`Side`), what the two sides
are nearest to, and that a run of labels filled from one row is cut at the limit.

`LabelsAlwaysReadTheirRows`: for any index in order, rising or falling, a slice from
one label to another, walked forward or backward with a stride of one or two, reads
the rows between them; and for any label asked for, `asof` is the row padding reads and
`asof_locs` the last row of the mask at the label or before it (`LabelsReadTheirRows`).
The argument counts.  The rows ahead of a label come first (`AheadComesFirst`), so
their number is where a bound falls (`BetweenIs`); the k-th row of a set is the one
that k - 1 are ahead of (`RankIs`); and Python's rule for the three numbers of a slice
is worked out for bounds within the index, the one that wraps round among them
(`SliceRowsForward`, `SliceRowsBackward`).

`MeansCarryOn`: for any numbers and gaps fed to an online mean, any number of rows
and any cuts of them, what a call shows is what one run over all rows fed would show
there (`CutsAgree`, the first half of `CarriesOn`), so long as a row is enough to be
shown and `mean()` is not asked twice.  The invariant keeps what the next call starts
from: the last row shown and the weight are the average and the weight such a run
would end on (`MeanInv`).  A run that starts from them has seen fewer rows, and
otherwise goes through states that are alike (`RunCarriesOn`); that there is a run at
all, for the recursive function that `Run` is, is shown first (`RunGoes`).

`HalvesAlwaysMatch`: for any keys, frames and clauses and any number of calls, two
tables that only whole calls of `append_to_multiple` wrote hold the same rows
(`HalvesMatch`).  Two things have to be shown.  One is that a call lands in both or
in neither, or raises, after which nothing is promised: rows are left out of both
together (`PartsHaveTheSameLabels`), so neither part is empty alone, and a table that
can be read keeps being so, because the codes that come in are below the number of
categories and `validate_metadata` has compared those (`WritesHalf`).  The other is
that no other call reaches them: a write makes groups above its key and puts
categories under it, a put and a removal take what is below, and none of these paths
meets another key's or its metadata's (`KeysApart`, `WritesElsewhere`,
`RemovedIsSame`).  `HalvesInv` is the two together.  It rests on `StoreAssumption` in
`MCFacade`: no part of a key is called `meta`, and a categorical has its values
among its categories.

`JoinProofs` proves two theorems.  `JoinsAlwaysLineUp`: for any labels in any order, with repeats and
gaps, and for the five ways to join, the rows of an `Index.join` are the pairs of
places with equal labels and the lonely places of the sides it keeps, each once, with
their label, in the order promised; and every position `get_indexer_non_unique` finds
is the other side of a left join (`JoinsLineUp`).  A join is one step, so that the
invariants only remember what was asked (`JoinInv`, `HitsInv`); the proof is about
the operators.  What they answer is a sequence, and what is promised is which pairs
are in it and in which order.  A finite set has one sequence in a strict order
(`ClimbingIsByOrder`), the one `Sorted` makes (`SortedPlaces`), and so for each path
it is enough to say which set its answer lists and that it climbs.  A sequence put
together piece by piece does both if its pieces do and each ends before the next
begins (`StacksList`, `StacksClimb`): by this the merge lists, group by group, the pairs of
each label (`PairsByGroupAre`, `MergedLinesUp`), and is put back in the order of the
left rows without losing one (`RevertedIs`).  Where labels do not repeat, looking each
up finds the one partner there is (`FoundLineUp`, `LookedUpIs`); a right join is a left
one with its sides exchanged (`MirroredIs`); and a side without rows leaves
everything lonely (`EmptyIs`).

It also proves `RangesAreTheirLabels`: for ranges of any length and any whole step
other than zero, through any chain of operations, the three numbers of a range index
stand for the labels an index with all of them written out would have, in their order
(`RangeIsItsLabels`).  The invariant is that the index stands for its labels
(`Stands`: a plain index has them, and a range is a triple whose points they are),
and each operation keeps it.  A range is told by how far it goes: it goes on while it
is short of its stop, and the division rounded up in `Size` counts just that
(`SizeIs`), so that labels that start and step alike and stop at the same place are
its points (`AreItsPoints`).  From this follow the way back from labels to a range
(`ReadBack`), a slice (`SliceIsARange`, once no place it runs through is outside,
`PlacesAreWithin`) and a range walked backwards (`BackwardsIs`).  Two ranges meet by
Euclid's algorithm.  Its recursive function exists (`PassesGo`); each pass keeps two
numbers that are combinations of the steps and of which the steps are combinations,
and the second gets smaller until nothing is left of it (`PassKeeps`), so that the
first divides both steps (`EuclidDivides`). Then a number is whole steps from both
starts exactly when it is a whole number of the least common steps from the solution
(`MeetingSteps`), and rounding up finds the first of these that neither range has
still ahead of it (`FirstSharedIs`).  The answer and the sorted intersection of the
two lists of labels rise through the same set (`MeetingIs`, `SharedLabels`), and a
set has one such list.

**Assumptions on the constants**, in the modules that declare them: `JobsFit` in
`ParallelMorsels`; `Sizes`, `Inputs` and `SortsAreCut` in `Pipeline`; `ByteHasZero` and `SizesAreNat` in
`SharedBuffer`; `CapacityAssumption` and `TextsAssumption` in `SqlSession`,
`SharedAssumption` in `MCSqlSession`; `CalendarAssumption` in `Calendar`,
`FrequenciesAssumption` and `MomentsAssumption` in `Periods`; `RangesAssumption` in `RangeIndex`,
`SidesAssumption` in `IndexJoin`, `LabelsAssumption` in `Lookups`;
`MeanAssumption`, `OptionsAssumption` and `StoreAssumption` in `MCFacade`.  They say what shape the
constants have, and TLC evaluates them in the runs.

**Induction** over numbers is done with sets (`NatSets`, `AllNaturals`): a set that
has zero and, with a number, the next has them all, by the order of the naturals being
well founded.  It serves statements over lists of names, the pairs of a context, limits
of a fill and the choice of the n-th place (`NthIsIn`).

**Only model-checked.**  Liveness: `CallsLeave` and `EventuallyEnds`.  Of `time`
everything but `PeriodsNest`; of `facade`
`StoreReadsAsTold`, `ChunksAreTheSelection`, `CopiesReadTheSame`
and `MergesReadTheirRows`, and of `CarriesOn` that an adjusted mean is
the weighted mean by its definition.  Their definitions are sorts, folds and filters
of sequences (`SortSeq`, `SelectSeq`, `FlattenSeq` and `FoldLeft`, about which the
provers have no facts), chains of recursive functions over the calendar, or sums of
fractions in lowest terms; a proof would be an induction over data for each of them.


## 6. Findings

**The pool files a buffer above its capacity** (`pool_odd_capacity`).
`BufferPool.give` files a buffer under `size_class(capacity())`
(`buffer/pool.mojo:136`), and `size_class` rounds up.  A buffer that was not made
by the pool can have a capacity between two classes: `Buffer(150)` has 192 bytes,
is filed with the 256 byte buffers, and `take(200)` then calls `set_size(200)` on
it.  `buffer/buffer.mojo:318` says the size "Must not exceed `capacity()`".  The
model has class capacities 1, 2 and 4 and a buffer of 3.  Rounding down in `give`
would do; `memory` shows the rest of the pool is right.

**A plan kept by shape can hold another frame's rows** (`shared_pivot`).
A `PIVOT` with no `IN` list reads the distinct values of its source while it is
planned (`sql/plan.mojo:5832`).  `firepanda.sql` keeps the plan under the text and
the catalog's shape, which has no rows, so a second call with a frame of the same
columns and other values runs with the first one's columns.  `sql/cache.mojo:4`
says of a plan that "none of it depends on the rows".  The session's cache is
keyed by generation and is not affected (`session` has such a query).

**A key of empty text is not compared** (`session_empty_key`).  `_key_text`
writes a missing key as the empty text and `_check_keys` skips those, so rows
whose key is `''` are let in any number of times, `PRIMARY KEY` or not
(`sql/ddl.mojo:786`); `sql/ddl.mojo:22` says an insert that leaves two rows
agreeing on a key is refused.

**A shift forgets the multiple of its frequency** (`held_shift`).
`DatetimeIndex.shift()` takes the frequency the index holds, and `_stepped`
(`_datetime.py:651`) moves each label by the rule of it, without its count: an
index of every second business day moves by one business day and still says it
holds `2B`.  `_datetime.py:678` says "Every label moved `periods` steps of
`freq`."

**Bins closed on the right may carry the label before theirs**
(`resample_right`).  `_stamps` names a bin `marks[code - first]`, counting from
the bin of the first row (`_resample.py:560`), while the marks count from the
first mark.  With `closed="right"` and a rule that does not end a period (`MS`,
`B`) there is a mark before the day of the first row, so a first row after
midnight of a landing day has code 1 and every label is one bin early.
`_resample.py:149` says of the labels "each bin lying between two of them".  The
askings of `time` are those where the two counts agree.

**Rows that are not all missing are left out of a store** (`hdf_dropna`).
`write_data` makes the mask of the rows to leave out from the columns whose
values are an array of two dimensions (`_hdf.py:3872`).  Text and categorical
columns have one and are not looked at: a row whose text is there and whose
floats are missing is not written, and a frame of text alone keeps the rows that
are all missing.  `_config.py:276` says of the option "Leave out rows that are all
missing when writing HDF5."  In `facade` only frames of floats are appended so.

Met on the way, and not a run of its own.  In the core:

- An error whose text is empty is forgotten: both `parallel_morsels`
  (`exec/morsel.mojo:250`) and `parallel_for` know a failure by its text being
  non-empty, and would return as if nothing had happened.  Nothing in the
  repository raises one, so `Messages` has none.
- A query that does not bind leaves its transaction going when given directly and
  aborts it when given through `EXECUTE` (`sql/ddl.mojo:166`).  The model has both.
- `DROP TABLE t, u` with no `u` drops `t` and then raises (`sql/ddl.mojo:1013`).
  The model does the same, name by name.
- A frame registered by the program goes into the catalog whatever the
  transaction (`py/session.mojo:131`): an aborted or read-only transaction does
  not refuse it.  `RefusedChangesNothing` is about statements; a rollback takes
  the registration away with the rest.
- `restore` moves the generation on.  Nothing is cached inside a transaction, so
  the kept plans would stay right without it; that the generation sees every
  change (a part of `PlansFollowChanges`) is what needs it.
- `constrain` does not move the generation (`sql/catalog.mojo:603`).  No plan
  depends on keys, and the kept plans stay current.
- `_no_cycle` counts every name a view's text mentions (`sql/plan.mojo:5500`), so
  a view with a common table expression of its own name is refused.
- `LIMIT 0` above a breaker is finished from the start, so the comment at
  `exec/pipeline.mojo:716` that the answer "would be False every time" is wrong
  for it; not asking costs time and no correctness.  `pipeline` has such a line.
- A limit that stops the source does not stop the rows the operators below it give
  at the end.  Under `RIGHT JOIN`, an expression and `LIMIT`, the join finishes with
  the right rows that the rows read have not paired, though later ones would have,
  and the expression is computed on them (`exec/pipeline.mojo:625`).  The limit drops
  them, so the answer is right, but the expression can raise on rows the query does
  not have.  `RowQuery` allows a failure on any front of the rows that is enough for the
  answer; one that allowed it on all the rows only would not be implemented.
  `pipeline` has such a line (`<<rightJoin, failNulls, firstTwo>>`).
- A chunk of no rows that reaches the sink starts the collection and adds no
  piece (`exec/pipeline.mojo:291`).
- `pick` overwrites a buffer and then lowers its size (`kernel/pick.mojo:556`);
  the bytes above the new size are not cleared.  That the padding is zero (a part
  of `BytesAreHeld`) is said of buffers whose size has not been lowered over
  written bytes.
- The CSV header is taken from block zero even if blank lines leave that block
  without rows (`io/read.mojo:534`).

In the facade:

- A `delete_rows` call of `to_sql` that is refused for a repeated name has already
  deleted (`_sql.py:311`), and no rollback follows: the `DELETE` is pending on the
  caller's connection, whose next commit makes it last.  A frame of no rows
  returns from the same place without a commit.
- A replaced table is dropped, and its successor made, before the new rows are
  checked; a failure then leaves an empty table.  The rollback of a statement that
  failed takes what the caller had pending with it.  A negative `chunksize`
  writes no row and returns.
- `put` to a key of a store removes the keys below it (`_hdf.py:1842`), and
  `remove` with an empty list for a clause, or with a range on a group that holds
  nothing itself, removes the whole key.  A put that is refused has already
  removed the old frame; one that is refused for an index over a column that is
  no data column has written the new one.  The model does the same.
- An iterator over a store that has a clause and a range takes the range of the
  rows the clause found (`_hdf.py:1923`), where the same selection in one piece
  takes the rows of the range that the clause picks.  `ChunksAreTheSelection` is
  about iterators with one or the other.
- A copy of a store leaves tables without rows behind, and into a file that has the
  key, without `overwrite`, it appends.
- An online mean with `min_periods` of two or more carries the row it showed, a
  gap, and not the mean it had; `mean()` a second time without `reset` keeps the
  old weights.  pandas does both; `CarriesOn` leaves them out.
- An insert at an end of an index keeps the frequency if one step from the new
  label leads to its neighbour, which for a label that is not on the offset may
  hold without the reverse; `time` inserts labels that are on it.
- A forward fill by `reindex` of an index that falls reads the neighbour of the
  larger label.  `ReindexReadsTheNearest` is said of distances.
- For a negative count and a start that is not on the offset, the range from text
  and the one from an offset begin at different ends of the first step, as in
  pandas: `RangesAgree` leaves them out.
- `infer_freq` leaves fifth weeks out when it looks for a week of the month.  One
  Easter back from ten o'clock on Easter Sunday is that very moment.
- Options are a module-wide value: contexts of two threads that overlap put back
  what the other one set (`_config.py:542`).  `Options` is about one thread.


## 7. What the models leave out

- **Columns.**  A row is a key and an identity.  Types, nulls as a third truth
  value, and arithmetic are not in `Rows`.
- **Nodes.**  `Filter`, `Project`, `Limit`, `Sort` (bounded or not), `Reduce`,
  `Unique`, `Join` and `Positional` are modelled; `Compute` stands for the other
  row-local nodes.  Group, window, as-of, pivot and set operations are not.
- **Chunk selections and coded columns**, which delay a gather and change no row.
- **Statistics**: hit and miss counters, the pool's totals, timings.
- **Statements** with arguments to `EXECUTE`, a prepared `EXECUTE`, keys of several
  columns (whose texts the code joins with a separator byte, `sql/ddl.mojo:777`),
  and everything the session hands on to the query path or refuses.  A view is a
  query of one column over one name.
- **Error texts.**  The session tells errors apart by their words; the model has
  the three classes that results in, decided by the same planning.
- **Memory order.**  Steps are sequentially consistent.  The code's shared words
  are the cursor and the refcounts, both atomic, and slots that are read after a
  join.
- **Allocation failure**, and crashes outside `to_sql`: a store writes its file in
  PyTables' own time, and the rest is not persisted.
- **Time zones, units and parsing.**  A moment is a number of ticks of one clock;
  what a string or a zone makes of it is decided before the modelled code.
- **Merges over several levels of an index, suffixes and dtypes**, which decide
  columns and not rows.  Labels are numbers with a missing one.
- **HDF.**  Series, several levels of labels, tables not written by pandas, the
  parsing of a clause, index names, frequencies and time zones, widths asked for
  in advance, compression and encodings.
- **Rounding.**  `OnlineMean` counts in fractions.
- **Reading SQL**, which changes nothing but for the rollback of a failing query.
- **The rest of the facade.**  Most of `_pandas.py` and of its neighbours takes
  arguments apart, hands a stateless call to the core and dresses the answer; the
  other file formats, plots and styles turn values into bytes.  No order of steps and
  no state between calls is involved, and the repository compares them with
  pandas case by case.  They are the larger part of the lines, and are listed in
  section 1.


## 8. Plan

In this order; each brings its own properties and mutations.

1. `CsvBlocks`: `io/split.mojo`, `scan.mojo`, `read.mojo`.  A file of a few bytes
   (quote, feed, return, comma, letter) cut into two or three blocks by quote
   parity.  If the split is accepted, the rows of the blocks in order are those of
   one pass; if not, the fallback is taken; the header and the row numbers of
   each block line up.
2. `GroupNode`: the three routes of the group-by node and the fall-backs between
   them (`exec/node.mojo:7517`), into `Nodes`.  `RowQuery` gets a group-by.
3. `HashTable`: open addressing with growth in the middle of a build
   (`hash/table.mojo:333`), against a map.  `KeyPacking`: mixed radix digits in an
   Int64 (`hash/grouping.mojo:1091`), injective or refused.  `Partition`: the
   counting sort of rows by partition, with its parallel scatter.
4. `SlicePass`, `EmptyPass`: rewrites of `plan/limits.mojo` and `plan/empty.mojo`
   over `Rows`.
5. `ArrowRelease`: exported structures released once each, children before or
   after parents, and on a partial failure (`io/arrow_export.mojo:972`).

Proofs: the deletion of rows by runs in `HdfStore`.  All liveness stays with TLC.
